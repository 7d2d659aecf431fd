------------------------------- MODULE Calendar -------------------------------
(***************************************************************************)
(* The part of package time that the schedules of package cron use, on a   *)
(* calendar of any size. An instant is a number of half seconds; a         *)
(* location is an offset from it that is one hour more during daylight     *)
(* saving time, and its wall clock is read as year, month, day and so on.  *)
(***************************************************************************)
EXTENDS Integers, Sequences, FiniteSets

CONSTANTS
    SecondsPerMinute, MinutesPerHour, HoursPerDay, DaysPerWeek, MonthsPerYear,
    MonthDays,      \* MonthDays[i]: the length of the i-th month of the calendar
    Zone,           \* names of locations
    Rules           \* Rules[z]: [base, from, to], daylight saving in from..to-1

SecondLen == 2
MinuteLen == SecondLen * SecondsPerMinute
HourLen == MinuteLen * MinutesPerHour
DayLen == HourLen * HoursPerDay

ASSUME CalendarAssumption ==
    /\ {SecondsPerMinute, MinutesPerHour, DaysPerWeek} \subseteq Nat \ {0}
    /\ {HoursPerDay, MonthsPerYear} \subseteq Nat \ {0, 1}
    /\ MonthDays \in Seq(Nat \ {0}) /\ MonthDays # <<>>
    /\ Rules \in [Zone -> [base : Nat, from : Nat, to : Nat]]

-------------------------------------------------------------------------------
FirstDay[i \in 1 .. Len(MonthDays) + 1] ==
    IF i = 1 THEN 0 ELSE FirstDay[i - 1] + MonthDays[i - 1]

(* The date of each day of the calendar; index is that of its month. *)
DateOf ==
    [d \in 0 .. FirstDay[Len(MonthDays) + 1] - 1 |->
       LET i == CHOOSE i \in 1 .. Len(MonthDays) :
                  FirstDay[i] <= d /\ d < FirstDay[i + 1]
       IN [index |-> i, year |-> (i - 1) \div MonthsPerYear,
           month |-> ((i - 1) % MonthsPerYear) + 1, day |-> d - FirstDay[i] + 1]]

(* What a clock in location z shows at instant t, as one number. *)
Wall(z, t) ==
    t + Rules[z].base
      + (IF Rules[z].from <= t /\ t < Rules[z].to THEN HourLen ELSE 0)

Date(z, t) == DateOf[Wall(z, t) \div DayLen]
Weekday(z, t) == (Wall(z, t) \div DayLen) % DaysPerWeek
Hour(z, t) == (Wall(z, t) % DayLen) \div HourLen
Minute(z, t) == (Wall(z, t) % HourLen) \div MinuteLen
Second(z, t) == (Wall(z, t) % MinuteLen) \div SecondLen

(***************************************************************************)
(* time.Date: the instant at which the clock shows w. When it shows w      *)
(* twice the result may be either instant; when it never does, the result  *)
(* is what w would be in one of the two offsets involved.                  *)
(***************************************************************************)
Instants(z, w) ==
    LET either == {w - Rules[z].base, w - Rules[z].base - HourLen}
        exact == {t \in either : Wall(z, t) = w}
    IN IF exact = {} THEN either ELSE exact

(* The wall clock at the start of the day or of the month of w. *)
StartOfDay(w) == w - (w % DayLen)
StartOfMonth(w) == FirstDay[DateOf[w \div DayLen].index] * DayLen

(* AddDate: the same time of day, and for months the same day, later on. *)
AddDay(w) == w + DayLen
AddMonth(w) == w + MonthDays[DateOf[w \div DayLen].index] * DayLen
===============================================================================
