SPECIFICATION Spec
CONSTANTS
    Processes = {p1}
    Mortal = {}
    Operators = {p1}
    Interruptible = {}
    HasInstallation = TRUE
    ActivationFails = TRUE
    MaxTransactions = 2
    None = None
    p1 = p1
CHECK_DEADLOCK FALSE
INVARIANTS
    InstallationSurvives
