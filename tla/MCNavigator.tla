------------------------------ MODULE MCNavigator ------------------------------
EXTENDS Navigator

\* The first job may be retried once, the second is not supervised.
Attempts == [j \in Jobs |-> IF j = 1 THEN 2 ELSE 1]
=============================================================================
