------------------------------ MODULE Schedules -------------------------------
(***************************************************************************)
(* One spec: its text is parsed, and the schedule is asked for the next    *)
(* activation after a given instant (cron/spec.go, cron/constantdelay.go). *)
(* SpecSchedule.Next is a search; its loops over month, day, hour, minute  *)
(* and second are states here, and each turn of a loop is a step.          *)
(***************************************************************************)
EXTENDS SpecParser

CONSTANTS
    Text,           \* the specs, with the parser's options: [text, options]
    Start,          \* instants given to Next
    YearSpan        \* how many years Next looks ahead, 5 in the code

ASSUME SchedulesAssumption == YearSpan \in Nat /\ Start \subseteq Nat

VARIABLES
    input,      \* the spec and the options
    sched,      \* what Parse returned
    start,      \* the instant given to Next, in location orig
    orig,
    pc,         \* "parse", "wrap", a field of the search, "found" or "none"
    t,          \* the candidate
    added,      \* has a field been incremented?
    yearLimit

vars == <<input, sched, start, orig, pc, t, added, yearLimit>>

Fields == {"month", "day", "hour", "minute", "second"}

Init ==
    /\ input \in Text
    /\ orig \in Zone
    /\ sched = Failed("unparsed")
    /\ pc = "parse" /\ start = 0 /\ t = 0 /\ added = FALSE /\ yearLimit = 0

-------------------------------------------------------------------------------
(* The location Next works in: that of the given time unless overridden. *)
loc == IF sched.loc = Local THEN orig ELSE sched.loc

In(i, v) == v \in sched.field[i].bits

dayMatches(u) ==
    LET domMatch == In(4, Date(loc, u).day)
        dowMatch == In(6, Weekday(loc, u))
    IN IF sched.field[4].star \/ sched.field[6].star
       THEN domMatch /\ dowMatch ELSE domMatch \/ dowMatch

Matches(field, u) ==
    CASE field = "month" -> In(5, Date(loc, u).month)
      [] field = "day" -> dayMatches(u)
      [] field = "hour" -> In(3, Hour(loc, u))
      [] field = "minute" -> In(2, Minute(loc, u))
      [] field = "second" -> In(1, Second(loc, u))

(***************************************************************************)
(* AddFunc parses the text; Next starts at the upcoming second. A constant *)
(* delay is added to the second the given time is in.                      *)
(***************************************************************************)
ParseText ==
    /\ pc = "parse"
    /\ sched' = Parse(input.text, input.options)
    /\ pc' = IF sched'.kind \in {"spec", "every"} THEN "next" ELSE sched'.kind
    /\ UNCHANGED <<input, start, orig, t, added, yearLimit>>

NextDelay ==
    /\ pc = "next" /\ sched.kind = "every"
    /\ start' \in Start
    /\ t' = start' + sched.delay - (start' % SecondLen)
    /\ pc' = "found"
    /\ UNCHANGED <<input, sched, orig, added, yearLimit>>

NextSpec ==
    /\ pc = "next" /\ sched.kind = "spec"
    /\ start' \in Start
    /\ t' = start' + SecondLen - (start' % SecondLen)
    /\ yearLimit' = Date(loc, t').year + YearSpan
    /\ pc' = "wrap"
    /\ UNCHANGED <<input, sched, orig, added>>

Wrap ==
    /\ pc = "wrap"
    /\ pc' = IF Date(loc, t).year > yearLimit THEN "none" ELSE "month"
    /\ UNCHANGED <<input, sched, start, orig, t, added, yearLimit>>

(* A field that matches: on to the next one, or return. *)
Accept ==
    /\ pc \in Fields /\ Matches(pc, t)
    /\ pc' = CASE pc = "month" -> "day" [] pc = "day" -> "hour"
               [] pc = "hour" -> "minute" [] pc = "minute" -> "second"
               [] pc = "second" -> "found"
    /\ UNCHANGED <<input, sched, start, orig, t, added, yearLimit>>

-------------------------------------------------------------------------------
(* The loops: increment a field that does not match *)

(* The first increment of the search drops what is below the field. *)
Reset(wall) == IF added THEN {t} ELSE Instants(loc, wall)

(* The new candidate, and whether the field has wrapped around. *)
Goto(u, wrapped) ==
    /\ t' = u
    /\ added' = TRUE
    /\ pc' = IF wrapped THEN "wrap" ELSE pc
    /\ UNCHANGED <<input, sched, start, orig, yearLimit>>

IncMonth ==
    /\ pc = "month" /\ ~Matches(pc, t)
    /\ \E r \in Reset(StartOfMonth(Wall(loc, t))) :
          \E u \in Instants(loc, AddMonth(Wall(loc, r))) :
             Goto(u, Date(loc, u).month = 1)

(***************************************************************************)
(* Where the day has no midnight the hour ends up before or after it, and  *)
(* is set to the next or the last midnight of a day that has one.          *)
(***************************************************************************)
ToMidnight(u) ==
    LET h == Hour(loc, u)
    IN IF h > HoursPerDay \div 2 THEN u + (HoursPerDay - h) * HourLen
                                 ELSE u - h * HourLen

IncDay ==
    /\ pc = "day" /\ ~Matches(pc, t)
    /\ \E r \in Reset(StartOfDay(Wall(loc, t))) :
          \E a \in Instants(loc, AddDay(Wall(loc, r))) :
             LET u == ToMidnight(a) IN Goto(u, Date(loc, u).day = 1)

(* Mutant: the minutes and seconds are kept when the hour is incremented. *)
IncHourKeepsMinutes ==
    /\ pc = "hour" /\ ~Matches(pc, t)
    /\ Goto(t + HourLen, Hour(loc, t + HourLen) = 0)

(* Mutant: the hour is added to the wall clock and not to the instant. *)
IncHourOnWall ==
    /\ pc = "hour" /\ ~Matches(pc, t)
    /\ \E r \in Reset(Wall(loc, t) - (Wall(loc, t) % HourLen)) :
          \E u \in Instants(loc, Wall(loc, r) + HourLen) :
             Goto(u, Hour(loc, u) = 0)

IncHour ==
    /\ pc = "hour" /\ ~Matches(pc, t)
    /\ \E r \in Reset(Wall(loc, t) - (Wall(loc, t) % HourLen)) :
          Goto(r + HourLen, Hour(loc, r + HourLen) = 0)

(* Mutant: a wrapped minute does not go back to the hour and the day. *)
IncMinuteNoWrap ==
    /\ pc = "minute" /\ ~Matches(pc, t)
    /\ Goto((IF added THEN t ELSE t - (t % MinuteLen)) + MinuteLen, FALSE)

IncMinute ==
    /\ pc = "minute" /\ ~Matches(pc, t)
    /\ LET u == (IF added THEN t ELSE t - (t % MinuteLen)) + MinuteLen
       IN Goto(u, Minute(loc, u) = 0)

(* Truncate(time.Second) changes nothing: the candidate is a whole second. *)
IncSecond ==
    /\ pc = "second" /\ ~Matches(pc, t)
    /\ Goto(t + SecondLen, Second(loc, t + SecondLen) = 0)

Next == \/ ParseText \/ NextDelay \/ NextSpec \/ Wrap \/ Accept
        \/ IncMonth \/ IncDay \/ IncHour \/ IncMinute \/ IncSecond

Spec == Init /\ [][Next]_vars

(* A call of Next is sequential code: it goes on until it returns. *)
FairSpec == Spec /\ WF_vars(Next)

-------------------------------------------------------------------------------
(* What a text means, read off the text alone (cron/doc.go) *)

(* Field i of the spec x: x.given[i], or the default of a field left out. *)
MeaningOf(x, i) == IF i \in DOMAIN x.given THEN x.given[i] ELSE defaults[i]

Meaning(i) == MeaningOf(input, i)

Lowest(x, r) == IF x.atoms[1] = Star THEN r.min ELSE x.atoms[1][2]
Highest(x, r) ==
    IF x.atoms[1] = Star \/ (Len(x.atoms) = 1 /\ x.steps # <<>>) THEN r.max
    ELSE x.atoms[Len(x.atoms)][2]
StepOf(x) == IF x.steps = <<>> THEN 1 ELSE x.steps[1][2]

(* Value v is named by field i. *)
Names(i, v) ==
    \E j \in DOMAIN Meaning(i) :
       LET x == Meaning(i)[j]
           f == Lowest(x, bounds[i])
       IN f <= v /\ v <= Highest(x, bounds[i]) /\ (v - f) % StepOf(x) = 0

(* Field i leaves the value open: a star in it without a step. *)
Open(i) == \E j \in DOMAIN Meaning(i) :
              LET x == Meaning(i)[j] IN x.atoms[1] = Star /\ StepOf(x) = 1

(* The spec's own time zone, or that of the given time. *)
Place == IF input.text.tz = NoTZ THEN orig ELSE input.text.tz

(* The spec is active at instant u: what the documentation promises. *)
Active(u) ==
    LET dom == Names(4, Date(Place, u).day)
        dow == Names(6, Weekday(Place, u))
    IN /\ u % SecondLen = 0
       /\ Names(1, Second(Place, u)) /\ Names(2, Minute(Place, u))
       /\ Names(3, Hour(Place, u)) /\ Names(5, Date(Place, u).month)
       /\ IF Open(4) \/ Open(6) THEN dom /\ dow ELSE dom \/ dow

-------------------------------------------------------------------------------
(* Texts and calendars that the program can be given *)

Atom == {Star, Junk} \cup ({"num", "name"} \X Nat)
Field == Seq([atoms : Seq(Atom) \ {<<>>}, steps : Seq(Atom)])

(* The fields that a parser with options o reads; those that may be missing. *)
MayOmit(o) == (IF "SecondOptional" \in o THEN {1} ELSE {})
              \cup (IF "DowOptional" \in o THEN {6} ELSE {})
Reads(o) == {i \in 1 .. 6 : places[i] \in o} \cup MayOmit(o)

(***************************************************************************)
(* The fields of the text are those of x.given, in order, and x.complete   *)
(* tells whether they are as many as the parser reads, all of them or all  *)
(* but the optional one.                                                   *)
(***************************************************************************)
InOrder(x) ==
    LET D == DOMAIN x.given
        O == x.options
    IN /\ D \subseteq 1 .. 6
       /\ x.text.fields \in Seq(Field) /\ Len(x.text.fields) = Cardinality(D)
       /\ \A i \in D : x.given[i] = x.text.fields[Cardinality(D \cap 1 .. i)]
       /\ x.complete \in BOOLEAN
       /\ IF x.complete THEN D \in {Reads(O), Reads(O) \ MayOmit(O)}
          ELSE \/ Optional \subseteq O
               \/ Cardinality(D) \notin {Cardinality(Reads(O)),
                                       Cardinality(Reads(O) \ MayOmit(O))}

(* What the documentation calls the equivalent of a descriptor. *)
Equivalent(name) ==
    LET least(S) == [k \in S |-> <<Span(<<Num(bounds[k].min)>>, <<>>)>>]
    IN CASE name = "@yearly" -> least({2, 3, 4, 5})
         [] name = "@monthly" -> least({2, 3, 4})
         [] name = "@weekly" -> least({2, 3, 6})
         [] name = "@daily" -> least({2, 3})
         [] name = "@hourly" -> [least({2, 3}) EXCEPT ![3] = StarField]
         [] OTHER -> <<>>

ASSUME TextAssumption ==
    /\ Local \notin Zone
    /\ \A x \in Text :
          /\ x.text.tz \in Zone \cup {NoTZ, BadTZ}
          /\ x.text.duration \in {Junk} \cup ({"num"} \X Int)
          /\ x.text.kind \in {"fields", "descriptor", "empty"}
          /\ \A i \in DOMAIN x.given : x.given[i] \in Field
          /\ x.text.kind = "fields" => InOrder(x)
          /\ x.text.kind = "descriptor" => x.given = Equivalent(x.text.name)

(* The calendar goes on as long as Next looks at it. *)
ASSUME HorizonAssumption ==
    \A z \in Zone, u \in Start :
       LET d == (Wall(z, u) + SecondLen) \div DayLen
       IN /\ d < FirstDay[Len(MonthDays) + 1]
          /\ (DateOf[d].year + YearSpan + 1) * MonthsPerYear < Len(MonthDays)

-------------------------------------------------------------------------------
(***************************************************************************)
(* The instant Next returns is later than the one it was given, and the    *)
(* spec is active then: fields accepted early in the search still match    *)
(* after the later ones were incremented.                                  *)
(***************************************************************************)
FoundIsActive == pc = "found" /\ sched.kind = "spec" => t > start /\ Active(t)

(***************************************************************************)
(* Next skips no activation: there is none between the given instant and   *)
(* the one returned, and none in the years it looks at when it gives up.   *)
(***************************************************************************)
NoneSkipped ==
    pc \in {"found", "none"} /\ sched.kind = "spec" =>
       /\ \A u \in start + 1 .. t - 1 : ~Active(u)
       /\ pc = "none" => Date(Place, t).year > Date(Place, start).year + YearSpan

(***************************************************************************)
(* A constant delay comes of a duration that parses, and is active on      *)
(* whole seconds, later than the given instant, and not more than its      *)
(* duration later.                                                         *)
(***************************************************************************)
DelayOnSecond ==
    pc = "found" /\ sched.kind = "every" =>
       /\ input.text.duration # Junk
       /\ t > start /\ t % SecondLen = 0
       /\ t - start <= Max({input.text.duration[2], SecondLen})

(***************************************************************************)
(* A spec that keeps to the documented format parses, and every other one  *)
(* is refused, but for those that Lenient describes.                       *)
(***************************************************************************)
Number(atom, i) == /\ atom[1] \in (IF bounds[i].names THEN {"num", "name"} ELSE {"num"})
                   /\ atom[2] \in bounds[i].min .. bounds[i].max
ValidRange(x, i) ==
    /\ \/ x.atoms = <<Star>>
       \/ /\ Len(x.atoms) \in {1, 2} /\ \A k \in DOMAIN x.atoms : Number(x.atoms[k], i)
          /\ Lowest(x, bounds[i]) <= Highest(x, bounds[i])
    /\ x.steps # <<>> => /\ Len(x.steps) = 1 /\ x.steps[1][1] = "num"
                         /\ x.steps[1][2] > 0
LenientRange(x) == x.atoms[1] = Star /\ Len(x.atoms) > 1
ValidField(f, i) == f # <<>> /\ \A j \in DOMAIN f : ValidRange(f[j], i)
Lenient(f) == f = <<>> \/ \E j \in DOMAIN f : LenientRange(f[j])
AcceptsFormat ==
    input.text.kind = "fields" /\ pc \notin {"parse", "panic"} =>
       LET good(i) == ValidField(Meaning(i), i)
           whole == input.complete /\ input.text.tz # BadTZ
       IN /\ whole /\ (\A i \in 1 .. 6 : good(i)) => pc # "error"
          /\ pc # "error" => /\ whole
                             /\ \A i \in 1 .. 6 : good(i) \/ Lenient(Meaning(i))

(* Next returns, also when the spec is never active. *)
SearchEnds == <>(pc \in {"found", "none", "error", "panic"})
===============================================================================
