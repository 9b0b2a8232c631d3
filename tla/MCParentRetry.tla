----------------------------- MODULE MCParentRetry -----------------------------
\* The constants are numbers and Booleans; the configurations give them.
EXTENDS ParentRetry, TLC
=============================================================================
