SPECIFICATION FairSpec
CHECK_DEADLOCK FALSE
CONSTANTS
    Tasks = {t1}
    Workers = {w1, w2}
    Nobody = Nobody
    MaxAttempts = 3
    Concurrency = 1
    Deadlined = {t1}
    Constrained = {}
    Able = {}
    RetryDelayed = TRUE
    MaxCrashes = 2
INVARIANTS
    OneOwner
    ResultIsReal
PROPERTIES
    EveryTaskEnds
    ImplementsRemoteTask
