SPECIFICATION Spec
CONSTANTS
    Recoverers = {r1}
    Operations = {"cancel"}
    Leftovers = {"fragment"}
    Overlap = FALSE
    MaxSteps = 4
    MaxCrashes = 1
    r1 = r1
CHECK_DEADLOCK FALSE
INVARIANTS
    Readable
