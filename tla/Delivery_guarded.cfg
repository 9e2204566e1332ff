SPECIFICATION Spec
CONSTANTS
    Candidates = {c1, c2, c3}
    Patched = {c1, c2}
    Nobody = Nobody
    Modes = {"approve"}
    TimeoutPolicies = {"suggest"}
    AllowChange = TRUE
    AuthenticationRequired = FALSE
    Guarded = TRUE
    MaxCrashes = 2
CHECK_DEADLOCK FALSE
INVARIANTS
    AppliedIsApproved
    DeclinedLeavesTargetAlone
