CONSTANTS
    Jobs = {1, 2}
    MaxAttempts <- Attempts
    TermRows = 24
SPECIFICATION LiveSpec
INVARIANTS
    TreeEditorLive
PROPERTIES
    ReadingKept
    RowsCatchUp
CHECK_DEADLOCK FALSE
