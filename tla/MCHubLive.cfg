\* One job and the default budget of three attempts, with fairness.
CONSTANTS
    Jobs = {1}
    Supervised = {1}
    MaxAttempts = 3
SPECIFICATION LiveSpec
INVARIANTS Provenance
PROPERTIES NoLimbo SilentJobEnds
CHECK_DEADLOCK FALSE
