SPECIFICATION FairSpec
CONSTANTS
    c1 = c1
    c2 = c2
    none = none
    each = each
    once = once
    Caller = {c1, c2}
    NoCaller = none
    Op = {"Schedule", "Remove", "ResetEntries", "Entries", "Start", "Run", "Stop"}
    Sched = {each, once}
    NextOf <- MCNextOf
    MaxTime = 4
    MaxLate = 1
    MaxCalls = 4
CHECK_DEADLOCK FALSE
INVARIANTS
    TypeOK
    EntriesAccounted
    NeverOversleeps
PROPERTIES
    RunsOncePerActivation
    NoJobWhenStopped
    ActivationsCome
    CallsReturnUnlessReset
