SPECIFICATION Spec
CONSTANTS
    Candidates = {c1, c2}
    Patched = {c1, c2}
    Nobody = Nobody
    Modes = {"approve"}
    TimeoutPolicies = {"suggest"}
    AllowChange = FALSE
    AuthenticationRequired = FALSE
    Guarded = FALSE
    MaxCrashes = 1
CHECK_DEADLOCK FALSE
INVARIANT
    DeclinedLeavesTargetAlone
