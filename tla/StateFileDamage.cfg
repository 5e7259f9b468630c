SPECIFICATION Spec
CONSTANTS
    MaxGen = 3
    Faults = {"kill", "power", "early", "late", "damage"}
INVARIANTS
    TypeOK
    AlwaysLoadable
    LosesAtMostOne
CHECK_DEADLOCK TRUE
