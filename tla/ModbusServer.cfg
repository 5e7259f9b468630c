SPECIFICATION FairSpec
CONSTANTS
    Conns = {c1, c2}
    Keys = {k1, k2, k3}
    NoKey = NoKey
    Limit = 2
INVARIANTS
    TypeOK
    NoneForgotten
    RecentIsLatest
PROPERTIES
    ServiceEnds
CHECK_DEADLOCK FALSE
