SPECIFICATION Spec
CONSTANTS
    Candidates = {c1, c2}
    Patched = {c1, c2}
    Nobody = Nobody
    Modes = {"approve"}
    TimeoutPolicies = {"reject"}
    AllowChange = TRUE
    AuthenticationRequired = FALSE
    Guarded = FALSE
    MaxCrashes = 2
CHECK_DEADLOCK FALSE
INVARIANT
    AppliedIsApproved
