SPECIFICATION Spec
CHECK_DEADLOCK FALSE
CONSTANTS
    Tasks = {t1}
    Workers = {w1, w2}
    Nobody = Nobody
    MaxAttempts = 2
    Concurrency = 1
    Deadlined = {}
    Constrained = {}
    Able = {}
    RetryDelayed = TRUE
    MaxCrashes = 0
INVARIANTS
    OneExecution
