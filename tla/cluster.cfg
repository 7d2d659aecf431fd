SPECIFICATION FairSpec
CONSTANTS
    n1 = n1
    n2 = n2
    k1 = k1
    k2 = k2
    Node = {n1, n2}
    Key = {k1, k2}
    Rank <- MCRank
    DriverKind = {"redis", "zset"}
    D = 2
    MaxGen = 5
    MaxEvents = 4
    MaxCuts = 1
INVARIANTS
    TypeOK
    OneServerPerKey
PROPERTIES
    KeysServedUnderSameIds
