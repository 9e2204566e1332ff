SPECIFICATION FairSpec
CONSTANTS
    Runs = {1, 2}
    Length = 2
    Ending = {2}
    Connected = {}
    Differing = {}
    Refused = {}
    Syncers = {daemon}
    BatchSize = 2
    SpoolLimit = 4
    MaxFailures = 0
    MaxPolicies = 1
    MaxCrashes = 0
PROPERTY
    EveryEventArrives
CHECK_DEADLOCK FALSE
