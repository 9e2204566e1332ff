SPECIFICATION FairSpec
CONSTANTS
    MaxAttempts = 3
    Required = 2
    RequiresChanges = TRUE
    AdaptiveStop = TRUE
    MaxCrashes = 2
CHECK_DEADLOCK FALSE
INVARIANTS
    TypeOK
    AppliedOnce
    EligibleIsDurable
PROPERTIES
    NeverRunTwice
    EvidenceIsFinal
    TerminalIsFinal
    RunEnds
    ImplementsLifecycle
