SPECIFICATION FairSpec
CONSTANTS
    N = 3
    Parallelism = 2
    Requirement = 2
    Compare = TRUE
    MayGiveUp = TRUE
    MaxCrashes = 2
CHECK_DEADLOCK FALSE
INVARIANTS
    NeverInvokedTwice
    OneVerdict
    QuotaIsKept
    CommittedIsJudged
PROPERTIES
    BatchEnds
