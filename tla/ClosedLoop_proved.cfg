SPECIFICATION Spec
CONSTANTS
    MaxAttempts = 3
    Required = 2
    RequiresChanges = TRUE
    AdaptiveStop = TRUE
    MaxCrashes = 2
CHECK_DEADLOCK FALSE
INVARIANTS
    IInv
    StoppedMeansUntouched
    ExhaustedMeansNothingAccepted
    CompletedMeansApplied
