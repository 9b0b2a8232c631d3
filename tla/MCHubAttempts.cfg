CONSTANTS
    Jobs = {1}
    Supervised = {1}
    MaxAttempts = 2
SPECIFICATION Spec
INVARIANTS SettledAttemptsComplete
CHECK_DEADLOCK FALSE
