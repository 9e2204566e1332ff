SPECIFICATION Spec
CONSTANTS
    Recoverers = {r1}
    Operations = {"resume"}
    Leftovers = {"fragment"}
    Overlap = FALSE
    MaxSteps = 5
    MaxCrashes = 1
    r1 = r1
CHECK_DEADLOCK FALSE
INVARIANTS
    TypeOK
    Readable
    SnapshotCommitted
    EndIsFinal
