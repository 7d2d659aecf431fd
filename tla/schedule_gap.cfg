SPECIFICATION Spec
CONSTANTS
    SecondsPerMinute = 2
    MinutesPerHour = 2
    HoursPerDay = 4
    DaysPerWeek = 3
    MonthsPerYear = 3
    MonthDays <- MCMonthDays
    Zone = {"utc", "gap"}
    Rules <- MCRules
    Text <- GapText
    Start <- MCStart
    YearSpan = 1
INVARIANTS
    FoundIsActive
CHECK_DEADLOCK FALSE
