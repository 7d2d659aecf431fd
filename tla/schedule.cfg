SPECIFICATION FairSpec
CONSTANTS
    SecondsPerMinute = 2
    MinutesPerHour = 2
    HoursPerDay = 4
    DaysPerWeek = 3
    MonthsPerYear = 3
    MonthDays <- MCMonthDays
    Zone = {"utc", "dst"}
    Rules <- MCRules
    Text <- MCText
    Start <- MCStart
    YearSpan = 1
INVARIANTS
    FoundIsActive
    NoneSkipped
    DelayOnSecond
    AcceptsFormat
PROPERTIES
    SearchEnds
CHECK_DEADLOCK FALSE
