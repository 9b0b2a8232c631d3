\* One runner dispatches a generator, is tried again and dispatches another seat.
CONSTANTS
    Cards = {c1, c2}
    Stray = stray
    Generators = {"principal"}
    OtherSeats = {"owner"}
    Runner = "council-runner"
    None = none
    MaxDispatches = 4
    MaxRetries = 1
SPECIFICATION Spec
SYMMETRY Sym
INVARIANT GeneratorIsSeen
CHECK_DEADLOCK FALSE
