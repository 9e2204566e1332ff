SPECIFICATION FairSpec
CONSTANTS
    Candidates = {c1, c2}
    Patched = {c1}
    Nobody = Nobody
    Modes = {"suggest", "approve", "apply"}
    TimeoutPolicies = {"reject", "fail"}
    AllowChange = FALSE
    AuthenticationRequired = TRUE
    Guarded = FALSE
    MaxCrashes = 2
CHECK_DEADLOCK FALSE
INVARIANTS
    TypeOK
    AppliedOnce
    ReportMatchesTarget
PROPERTY
    DeliveryEnds
