SPECIFICATION Spec
CONSTANTS
    Processes = {p1, p2}
    Mortal = {p1}
    Operators = {p1}
    Interruptible = {"failed", "rolled_back"}
    HasInstallation = TRUE
    ActivationFails = FALSE
    MaxTransactions = 2
    None = None
    p1 = p1
    p2 = p2
CHECK_DEADLOCK FALSE
INVARIANTS
    InstallationSurvives
