CONSTANTS
    Calls = {1}
    MaxLines = 4
    Wide = {2}
    Viewport = 2
    BodyLines = 2
SPECIFICATION ViewSpec
INVARIANTS FocusOnScreen
CHECK_DEADLOCK FALSE
