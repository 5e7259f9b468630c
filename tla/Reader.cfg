SPECIFICATION Spec
CONSTANTS
    NoValue = NoValue
    Garbled = Garbled
    Acc32Max = 67108863
    Float32Max = 134217720
    FloatSteps <- MCFloatSteps
    FallbackVoltage = 23000
    GridFrequency = 50000
    SourcePhase <- MCPhases
    Samples <- MCSamples
    Levels <- MCLevels
    UnitId = 2
    ProbeUnits <- MCUnits
CONSTRAINT MCProbesOfFew
INVARIANTS
    TypeOK
    ChainIsWalkable
    MeterReadsBack
    ProbeIsCoherent
    ClientsSucceed
PROPERTIES
    EnergySeenNeverFalls
CHECK_DEADLOCK TRUE
