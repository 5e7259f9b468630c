SPECIFICATION Spec
CONSTANTS
    NoValue = NoValue
    Acc32Max = 3
    Float32Max = 16777215
    FloatSteps = {1}
    FallbackVoltage = 23000
    GridFrequency = 50000
    Slots <- MCSlots
    Names <- MCNames
    BadPhase = BadPhase
    Environments <- MCEnvironments
    Levels <- MCLevels
    InitDocument <- MCOldDocument
    FaultSets <- MCFaultSets
CONSTRAINT MCOneUnsynced
INVARIANTS
    ShownIsEverything
    ServedIsSaved
    SameConfigStarts
PROPERTIES
    DisabledKeepsPhase
    TotalNeverFalls
CHECK_DEADLOCK TRUE
