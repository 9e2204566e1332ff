SPECIFICATION Spec
CONSTANTS
    MaxAttempts = 2
    Required = 1
    RequiresChanges = TRUE
    AdaptiveStop = FALSE
    MaxCrashes = 1
CHECK_DEADLOCK FALSE
PROPERTIES
    InterruptedRunsResume
