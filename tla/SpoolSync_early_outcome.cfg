SPECIFICATION Spec
CONSTANTS
    Runs = {1}
    Length = 2
    Ending = {1}
    Connected = {1}
    Differing = {}
    Refused = {}
    Syncers = {daemon}
    BatchSize = 2
    SpoolLimit = 4
    MaxFailures = 0
    MaxPolicies = 1
    MaxCrashes = 0
INVARIANT
    OutcomeAfterEvents
CHECK_DEADLOCK FALSE
