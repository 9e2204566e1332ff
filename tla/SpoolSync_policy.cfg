SPECIFICATION Spec
CONSTANTS
    Runs = {1}
    Length = 1
    Ending = {1}
    Connected = {}
    Differing = {}
    Refused = {}
    Syncers = {daemon}
    BatchSize = 2
    SpoolLimit = 4
    MaxFailures = 1
    MaxPolicies = 2
    MaxCrashes = 0
INVARIANT
    StoredIsNotGivenUp
CHECK_DEADLOCK FALSE
