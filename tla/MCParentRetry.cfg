\* A terminal session or print mode; a budget of three attempts, four things
\* the user does, two settle handlers at once.
CONSTANTS
    MaxAttempts = 3
    Enabled = TRUE
    MaxActs = 4
    MaxSettling = 2
SPECIFICATION LiveSpec
INVARIANTS RetryBudget CountdownIsLive EnterHasPrompt
PROPERTIES ContinuedOrNamed
CHECK_DEADLOCK FALSE
