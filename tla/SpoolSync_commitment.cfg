SPECIFICATION Spec
CONSTANTS
    Runs = {1}
    Length = 2
    Ending = {1}
    Connected = {}
    Differing = {}
    Refused = {}
    Syncers = {daemon}
    BatchSize = 1
    SpoolLimit = 4
    MaxFailures = 1
    MaxPolicies = 1
    MaxCrashes = 0
INVARIANT
    CommitmentCoversRun
CHECK_DEADLOCK FALSE
