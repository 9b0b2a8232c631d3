\* Two tooling files and a data file, two versions and an edit of each; one
\* new package, two changes of the consumer and one crash or failed write.
CONSTANTS
    Tooling = {"validate", "template"}
    Data = {"board"}
    Versions = {"v1", "v2"}
    Packages <- MCPackages
    Edits = {"mine"}
    None = none
    MaxChanges = 2
    MaxUpgrades = 1
    MaxFaults = 1
SPECIFICATION Spec
INVARIANT UntouchedIsUpdatable
PROPERTIES EditsSurvive DeletedStaysDeleted DriftIsTold
CHECK_DEADLOCK FALSE
