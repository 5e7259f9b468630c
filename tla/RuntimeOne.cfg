SPECIFICATION Spec
CONSTANTS
    s1 = s1
    s2 = s2
    Sources = {s1}
    Flusher = Flusher
    NoTask = NoTask
    NoReading = NoReading
    NoCounter = NoCounter
    Samples <- RichSamples
    Phase <- SamePhase
    Phases = {"L1", "L2", "L3"}
    Fallback = 2
    Stale = 1
    Never <- MCNever
    Fields = {"aenergy", "ret_aenergy"}
    WattHour = 1
    Tolerance = 4
    FloatMax = 4
    EnergyMax = 4
    FlowMax <- MCFlowMax
    VoltMax = 4
    FrequencyMax = 2
    GridFrequency = 1
    Faults = {"power", "early"}
INVARIANTS
    TypeOK
    PublishedIsDurable
    WriterHasOwner
    MemoryIsStored
    CleanExitKeepsAll
    BankIsCurrent
PROPERTIES
    PublishedNeverFalls
CHECK_DEADLOCK TRUE
