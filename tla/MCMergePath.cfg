\* Two cards, four dispatches of the session and of runners, in any order, and
\* one runner that is tried a second time.
CONSTANTS
    Cards = {c1, c2}
    Stray = stray
    Generators = {"principal"}
    OtherSeats = {"owner"}
    Runner = "council-runner"
    None = none
    MaxDispatches = 4
    MaxRetries = 1
SPECIFICATION Spec
SYMMETRY Sym
INVARIANTS MergedOnEvidence ForestsApart
PROPERTY ModeOnlyStrengthens
CHECK_DEADLOCK FALSE
