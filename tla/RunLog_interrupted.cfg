SPECIFICATION Spec
CONSTANTS
    Recoverers = {r1}
    Operations = {"resume", "cancel"}
    Leftovers = {"fragment", "object"}
    Overlap = FALSE
    MaxSteps = 5
    MaxCrashes = 3
    r1 = r1
CHECK_DEADLOCK FALSE
INVARIANTS
    SequencesIncrease
