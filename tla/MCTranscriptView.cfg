CONSTANTS
    Calls = {1}
    MaxLines = 4
    Wide = {2}
    Viewport = 3
    BodyLines = 2
SPECIFICATION ViewLiveSpec
INVARIANTS
    BlocksAreTheFile
    FocusOnScreen
PROPERTIES
    ToggleIsMarked
    LinesShown
CHECK_DEADLOCK FALSE
