CONSTANTS
    Jobs = {1, 2}
    Last = 1
SPECIFICATION Spec
INVARIANTS RecordOfCompleted
CHECK_DEADLOCK FALSE
