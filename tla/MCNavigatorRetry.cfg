CONSTANTS
    Jobs = {1}
    MaxAttempts <- Attempts
    TermRows = 24
SPECIFICATION Spec
INVARIANTS RetryEditorLive
CHECK_DEADLOCK FALSE
