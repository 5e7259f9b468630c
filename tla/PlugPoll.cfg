SPECIFICATION Spec
CONSTANTS
    Plugs = {p1, p2}
    Connect = 1
    Read = 1
    Total = 3
    Unset = Unset
    Interval = 1
    Stale = 3
    Rounds = 1
    Quick = 1
    NoReading = NoReading
INVARIANTS
    ShownIsRecent
PROPERTIES
    SteadyIsShown
    PollsGoOn
CHECK_DEADLOCK TRUE
