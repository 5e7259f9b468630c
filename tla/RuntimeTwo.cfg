SPECIFICATION Spec
CONSTANTS
    s1 = s1
    s2 = s2
    Sources = {s1, s2}
    Flusher = Flusher
    NoTask = NoTask
    NoReading = NoReading
    NoCounter = NoCounter
    Samples <- PairSamples
    Phase <- SamePhase
    Phases = {"L1", "L2", "L3"}
    Fallback = 2
    Stale = 1
    Never <- MCNever
    Fields = {"aenergy", "ret_aenergy"}
    WattHour = 1
    Tolerance = 4
    FloatMax = 1
    EnergyMax = 2
    FlowMax <- MCFlowMax
    VoltMax = 4
    FrequencyMax = 2
    GridFrequency = 1
    Faults = {"kill", "early"}
INVARIANTS
    AlwaysPublishable
PROPERTIES
    StoredNeverFalls
SYMMETRY SourceSymmetry
CHECK_DEADLOCK TRUE
