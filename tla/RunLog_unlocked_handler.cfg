SPECIFICATION Spec
CONSTANTS
    Recoverers = {r1, r2}
    Operations = {"resume"}
    Leftovers = {"fragment"}
    Overlap = FALSE
    MaxSteps = 4
    MaxCrashes = 1
    r1 = r1
    r2 = r2
CHECK_DEADLOCK FALSE
INVARIANTS
    SequencesIncrease
