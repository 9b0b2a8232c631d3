----------------------------- MODULE MCUsageFlush -----------------------------
\* The jobs and the bounds are numbers; the configurations give them.
EXTENDS UsageFlush, TLC
=============================================================================
