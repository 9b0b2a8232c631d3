\* A supervised job and an unsupervised one, two attempts.
CONSTANTS
    Jobs = {1, 2}
    Supervised = {1}
    MaxAttempts = 2
SPECIFICATION Spec
INVARIANTS
    ChildrenAreKnown
    ManifestAgrees
PROPERTIES
    SettledForever
    ImplementsDispatch
CHECK_DEADLOCK FALSE
