SPECIFICATION Spec
CONSTANTS
    c1 = c1
    c2 = c2
    c3 = c3
    none = none
    j1 = j1
    Caller = {c1, c2, c3}
    Controller = {c1, c3}
    Name = {j1}
    None = none
    Window = 0
    MaxTime = 0
    MaxCalls = 3
    MaxActs = 0
    MaxUpgrades = 1
    MaxEvents = 5
CHECK_DEADLOCK FALSE
INVARIANTS
    NoStrayScheduler
