SPECIFICATION FairSpec
CONSTANTS
    Runs = {1, 2}
    Length = 1
    Ending = {1, 2}
    Connected = {1}
    Differing = {}
    Refused = {}
    Syncers = {daemon}
    BatchSize = 2
    SpoolLimit = 1
    MaxFailures = 1
    MaxPolicies = 1
    MaxCrashes = 0
INVARIANT
    TypeOK
PROPERTIES
    SettledIsFinal
    EveryRunArrives
CHECK_DEADLOCK FALSE
