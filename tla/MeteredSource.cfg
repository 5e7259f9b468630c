SPECIFICATION Spec
CONSTANTS
    Fields = {"aenergy", "ret_aenergy"}
    WattHour = 1
    Tolerance = 1000
    FloatMax = 4
    NoCounter = NoCounter
    MinPower = 2
    Missing = Missing
    Undetermined = Undetermined
    Jitter = 1
    MaxCount = 5
    Powers <- MCPowers
    Configured <- MCConfigured
INVARIANTS
    NoOverCount
    NothingLost
    PowerMatchesEnergy
PROPERTIES
    FieldIsPinned
CHECK_DEADLOCK TRUE
