SPECIFICATION Spec
CONSTANTS
    N = 2
    Parallelism = 2
    Requirement = 1
    Compare = FALSE
    MayGiveUp = FALSE
    MaxCrashes = 0
CHECK_DEADLOCK FALSE
INVARIANT
    CancelledForASufficientOne
