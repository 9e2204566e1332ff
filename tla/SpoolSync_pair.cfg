SPECIFICATION Spec
CONSTANTS
    Runs = {1}
    Length = 2
    Ending = {1}
    Connected = {}
    Differing = {}
    Refused = {}
    Syncers = {daemon, once}
    BatchSize = 2
    SpoolLimit = 4
    MaxFailures = 0
    MaxPolicies = 2
    MaxCrashes = 1
INVARIANTS
    OutcomeAfterEvents
    SynchronizedIsStored
PROPERTIES
    NothingLost
    GivenUpForACause
