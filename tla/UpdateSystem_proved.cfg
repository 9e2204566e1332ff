SPECIFICATION Spec
CONSTANTS
    Processes = {p1, p2}
    Mortal = {p1}
    Operators = {p1}
    Interruptible = {"lock", "sign", "inspect", "unlink", "recover", "stage", "prepare", "save", "saved", "activate", "activated", "announce", "verifying", "verify", "reject", "revert", "verified", "complete", "note", "release"}
    HasInstallation = TRUE
    ActivationFails = FALSE
    MaxTransactions = 3
    None = None
    p1 = p1
    p2 = p2
CHECK_DEADLOCK FALSE
INVARIANTS
    SafeInv
    TrustInv
    ActiveIsVerified
