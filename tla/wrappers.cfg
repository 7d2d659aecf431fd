SPECIFICATION FairSpec
CONSTANTS
    g1 = g1
    g2 = g2
    g3 = g3
    none = none
    Chains <- MCChains
    Inv = {g1, g2, g3}
    None = none
CHECK_DEADLOCK FALSE
INVARIANTS
    TypeOK
    OneAtATime
    Released
    OrderDecides
PROPERTIES
    EveryInvocationEnds
