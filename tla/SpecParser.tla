------------------------------ MODULE SpecParser ------------------------------
(***************************************************************************)
(* The parser of crontab specs (cron/parser.go). A text is taken apart     *)
(* already: its time zone prefix, then a descriptor or the sequence of its *)
(* fields; a field is the sequence of its comma-separated ranges, a range  *)
(* what stands between its hyphens and what follows its slashes. An atom   *)
(* is a star (or question mark), a number, a name, or anything else. A bit *)
(* set is the set of its bits, with the star bit apart.                    *)
(***************************************************************************)
EXTENDS Calendar, FiniteSetsExt

Num(n) == <<"num", n>>
Name(n) == <<"name", n>>        \* the name of month or weekday n, in any case
Star == <<"star">>
Junk == <<"junk">>              \* no number, or a negative one

Span(atoms, steps) == [atoms |-> atoms, steps |-> steps]
StarField == <<Span(<<Star>>, <<>>)>>
ZeroField == <<Span(<<Num(0)>>, <<>>)>>

Local == "Local"                \* time.Local
NoTZ == "none"
BadTZ == "bad"                  \* a location that LoadLocation does not find

places == <<"Second", "Minute", "Hour", "Dom", "Month", "Dow">>
defaults == <<ZeroField, ZeroField, ZeroField, StarField, StarField, StarField>>

bounds ==
    <<[min |-> 0, max |-> SecondsPerMinute - 1, names |-> FALSE],
      [min |-> 0, max |-> MinutesPerHour - 1, names |-> FALSE],
      [min |-> 0, max |-> HoursPerDay - 1, names |-> FALSE],
      [min |-> 1, max |-> Max({MonthDays[i] : i \in DOMAIN MonthDays}),
       names |-> FALSE],
      [min |-> 1, max |-> MonthsPerYear, names |-> TRUE],
      [min |-> 0, max |-> DaysPerWeek - 1, names |-> TRUE]>>

-------------------------------------------------------------------------------
(* Fields *)

(* mustParseInt, and parseIntOrName in a field with names: is it a number? *)
IsInt(atom, names) == atom[1] = "num" \/ (names /\ atom[1] = "name")

getBits(min, max, step) ==
    LET loop[i \in Nat] == IF i > max THEN {} ELSE {i} \cup loop[i + step]
    IN IF step = 1 THEN {b \in 0 .. max : b >= min} ELSE loop[min]

all(r) == [ok |-> TRUE, bits |-> getBits(r.min, r.max, 1), star |-> TRUE]
one(r) == [ok |-> TRUE, bits |-> {r.min}, star |-> FALSE]
error == [ok |-> FALSE, bits |-> {}, star |-> FALSE]

(* Mutant: the end of the range is not compared with the maximum. *)
InBoundsNoMax(start, end, step, r) == r.min <= start /\ start <= end /\ step > 0

InBounds(start, end, step, r) ==
    r.min <= start /\ end <= r.max /\ start <= end /\ step > 0

(***************************************************************************)
(* getRange: a star stands for the whole range whatever follows a hyphen   *)
(* in it, and a single number with a step for the range up to the maximum. *)
(* A step above 1 takes the star bit away.                                 *)
(***************************************************************************)
getRange(x, r) ==
    LET star == x.atoms[1] = Star
        rangeOK == star \/ /\ Len(x.atoms) <= 2
                           /\ \A i \in DOMAIN x.atoms : IsInt(x.atoms[i], r.names)
        stepOK == \/ x.steps = <<>>
                  \/ Len(x.steps) = 1 /\ IsInt(x.steps[1], FALSE)
        start == IF star THEN r.min ELSE x.atoms[1][2]
        step == IF x.steps = <<>> THEN 1 ELSE x.steps[1][2]
        end == IF star \/ (Len(x.atoms) = 1 /\ x.steps # <<>>) THEN r.max
               ELSE x.atoms[Len(x.atoms)][2]
    IN IF rangeOK /\ stepOK /\ InBounds(start, end, step, r)
       THEN [ok |-> TRUE, bits |-> getBits(start, end, step),
             star |-> star /\ step = 1]
       ELSE error

(* getField: the union of the ranges, or the error of one of them. *)
getField(field, r) ==
    LET parts == {getRange(field[i], r) : i \in DOMAIN field}
    IN [ok   |-> \A p \in parts : p.ok,
        bits |-> UNION {p.bits : p \in parts},
        star |-> \E p \in parts : p.star]

-------------------------------------------------------------------------------
(* Specs *)

(* A spec after parsing: a crontab schedule, a constant delay, or none. *)
Failed(how) == [kind |-> how]
SpecSchedule(f, loc) == [kind |-> "spec", field |-> f, loc |-> loc]
ConstantDelay(d) == [kind |-> "every", delay |-> d]

Optional == {"SecondOptional", "DowOptional"}

FillOptional(fields, min, max, options) ==
    IF Len(fields) # min \/ min = max THEN fields
    ELSE IF "DowOptional" \in options THEN Append(fields, defaults[6])
                                      ELSE <<defaults[1]>> \o fields

(***************************************************************************)
(* normalizeFields: an optional field that is missing, and every field     *)
(* that is not configured, take their defaults; <<>> is an error.          *)
(***************************************************************************)
normalizeFields(fields, options) ==
    LET present == {i \in 1 .. 6 : \/ places[i] \in options
                                   \/ i = 1 /\ "SecondOptional" \in options
                                   \/ i = 6 /\ "DowOptional" \in options}
        max == Cardinality(present)
        min == max - Cardinality(Optional \cap options)
        filled == FillOptional(fields, min, max, options)
    IN IF Optional \subseteq options \/ Len(fields) \notin min .. max THEN <<>>
       ELSE [i \in 1 .. 6 |->
               IF i \in present THEN filled[Cardinality(present \cap 1 .. i)]
                                ELSE defaults[i]]

(* Mutant: a duration of less than a second is no delay at all. *)
EveryNoMinimum(duration) == ConstantDelay(duration - (duration % SecondLen))

(* Every: whole seconds, one at least. *)
Every(duration) ==
    LET d == Max({duration, SecondLen}) IN ConstantDelay(d - (d % SecondLen))

(* parseDescriptor; the field from which on every value matches. Junk is a *)
(* duration that time.ParseDuration refuses.                               *)
parseDescriptor(text, loc) ==
    LET from(n) == [i \in 1 .. 6 |-> IF i < n THEN one(bounds[i]) ELSE all(bounds[i])]
    IN CASE text.name = "@yearly" -> SpecSchedule(from(6), loc)
         [] text.name = "@monthly" -> SpecSchedule(from(5), loc)
         [] text.name = "@weekly" ->
              SpecSchedule([from(4) EXCEPT ![6] = one(bounds[6])], loc)
         [] text.name = "@daily" -> SpecSchedule(from(4), loc)
         [] text.name = "@hourly" -> SpecSchedule(from(3), loc)
         [] text.name = "@every" ->
              IF text.duration = Junk THEN Failed("error") ELSE Every(text.duration[2])
         [] OTHER -> Failed("error")

(***************************************************************************)
(* NewParser and Parse. NewParser panics when two optional fields are      *)
(* configured, Parse when nothing follows a time zone.                     *)
(***************************************************************************)
Parse(text, options) ==
    LET loc == IF text.tz = NoTZ THEN Local ELSE text.tz
        fields == normalizeFields(text.fields, options)
        field == [i \in 1 .. 6 |-> getField(fields[i], bounds[i])]
    IN IF Optional \subseteq options THEN Failed("panic")
       ELSE IF text.kind = "empty"
       THEN Failed(IF text.tz = NoTZ THEN "error" ELSE "panic")
       ELSE IF text.tz = BadTZ THEN Failed("error")
       ELSE IF text.kind = "descriptor"
       THEN IF "Descriptor" \in options THEN parseDescriptor(text, loc)
                                        ELSE Failed("error")
       ELSE IF fields # <<>>
       THEN IF \A i \in 1 .. 6 : field[i].ok THEN SpecSchedule(field, loc)
                                             ELSE Failed("error")
       ELSE Failed("error")
===============================================================================
