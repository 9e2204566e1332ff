SPECIFICATION Spec
CONSTANTS
    MaxAttempts = 2
    Required = 2
    RequiresChanges = TRUE
    AdaptiveStop = FALSE
    MaxCrashes = 0
CHECK_DEADLOCK FALSE
PROPERTIES
    ExhaustionIsNoFailure
