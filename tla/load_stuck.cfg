SPECIFICATION Spec
CONSTANTS
    a = a
    b = b
    d = d
    k1 = k1
    k2 = k2
    Rank <- MCRank
    Self = a
    NoHost = NoHost
    ErrNoHosts = ErrNoHosts
    Spin = Spin
    Host = {a, b}
    Key = {k1, k2}
    CapacityLoad = TRUE
    Caller = {c1}
    MaxDup = 1
    MaxStarts = 1
    MaxStops = 0
    MaxChanges = 1
    MaxErrors = 0
    MaxClaims = 2
INVARIANT
    NeverStuck
CHECK_DEADLOCK FALSE
