SPECIFICATION FairSpec
CONSTANTS
    a = a
    b = b
    d = d
    k1 = k1
    k2 = k2
    Rank <- MCRank
    Self = a
    NoHost = NoHost
    ErrNoHosts = ErrNoHosts
    Spin = Spin
    Host = {a, b}
    Key = {k2}
    CapacityLoad = TRUE
    Caller = {c1}
    MaxDup = 1
    MaxStarts = 2
    MaxStops = 2
    MaxChanges = 2
    MaxErrors = 1
    MaxClaims = 1
INVARIANTS
    TypeOK
    LookupTerminates
PROPERTIES
    StableViewSpec
    ViewConverges
    StartReturns
    StopEndsLoops
CHECK_DEADLOCK FALSE
