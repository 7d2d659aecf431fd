SPECIFICATION FairSpec
CONSTANTS
    c1 = c1
    c2 = c2
    c3 = c3
    none = none
    j1 = j1
    Caller = {c1, c2, c3}
    Controller = {c1, c3}
    Name = {j1}
    None = none
    Window = 0
    MaxTime = 1
    MaxCalls = 5
    MaxActs = 3
    MaxUpgrades = 2
    MaxEvents = 5
CHECK_DEADLOCK FALSE
INVARIANTS
    TypeOK
    JobsMatchEntries
    StoppedIsQuiet
    AtMostOnce
PROPERTIES
    MissedUnlessOverwritten
    StopReturns
    PoppedIsRun
