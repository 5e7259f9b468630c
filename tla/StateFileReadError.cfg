SPECIFICATION Spec
CONSTANTS
    MaxGen = 3
    Faults = {"kill", "readError"}
INVARIANTS
    LoadsConfirmed
CHECK_DEADLOCK TRUE
