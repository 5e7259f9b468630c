SPECIFICATION Spec
CONSTANTS
    MaxGen = 3
    Faults = {"kill", "power", "early", "late"}
INVARIANTS
    LoadsConfirmed
PROPERTIES
    ImplementsStore
CHECK_DEADLOCK TRUE
