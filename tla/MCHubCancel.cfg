CONSTANTS
    Jobs = {1}
    Supervised = {1}
    MaxAttempts = 2
SPECIFICATION Spec
PROPERTIES CancelIsFinal
CHECK_DEADLOCK FALSE
