\* Ends in a counterexample.
CONSTANTS
    MaxAttempts = 3
    Enabled = TRUE
    MaxActs = 2
    MaxSettling = 1
SPECIFICATION Spec
PROPERTIES UserRunIsFresh
CHECK_DEADLOCK FALSE
