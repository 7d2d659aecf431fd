SPECIFICATION FairSpec
CONSTANTS
    n1 = n1
    n2 = n2
    k1 = k1
    k2 = k2
    Node = {n1, n2}
    Key = {k1, k2}
    Rank <- MCRank
    DriverKind = {"redis"}
    D = 2
    MaxGen = 4
    MaxEvents = 3
    MaxCuts = 1
PROPERTIES
    EveryKeyServed
