----------------------------- MODULE MCSchedules ------------------------------
EXTENDS Schedules

(* Years of seven and six days: the second month is a day longer in the first. *)
MCMonthDays == <<2, 2, 3,  2, 1, 3,  2, 2, 3,  2, 1, 3,  2, 2, 3>>

(***************************************************************************)
(* utc has no daylight saving time. In dst the clock goes from the end of  *)
(* hour 0 to hour 2 on the second day, and back over hour 2 on the fifth.  *)
(* In gap midnight is skipped on the fourth day.                           *)
(***************************************************************************)
MCRules == [z \in Zone |->
    CASE z = "utc" -> [base |-> 0, from |-> 0, to |-> 0]
      [] z = "dst" -> [base |-> HourLen, from |-> DayLen,
                       to |-> 4 * DayLen + HourLen]
      [] z = "gap" -> [base |-> 0, from |-> 3 * DayLen, to |-> 6 * DayLen]]

MCStart == {u \in 0 .. 13 * DayLen : u % 7 = 0}

N(n) == <<Span(<<Num(n)>>, <<>>)>>
Rest == {"Minute", "Hour", "Dom", "Month"}
Six == Rest \cup {"Second", "Dow", "Descriptor"}

(* The fields of f from the first to the last given, as the input of a run. *)
Slice(f, first, last, tz, options, complete) ==
    [text |-> [kind |-> "fields", tz |-> tz, name |-> "", duration |-> Junk,
               fields |-> SubSeq(f, first, last)],
     options |-> options, given |-> [i \in first .. last |-> f[i]],
     complete |-> complete]
Given(f, tz) == Slice(f, 1, 6, tz, Six, TRUE)

(* The forms of a range in field i, then forms that are refused. *)
Forms(i) ==
    LET lo == bounds[i].min   hi == bounds[i].max
        s(atoms, steps) == Span(atoms, steps)
    IN {s(<<Star>>, <<>>), s(<<Star>>, <<Num(2)>>), s(<<Star>>, <<Num(1)>>),
        s(<<Num(lo)>>, <<Num(2)>>), s(<<Num(hi)>>, <<>>), s(<<Name(hi)>>, <<>>),
        s(<<Num(lo), Num(hi)>>, <<>>), s(<<Num(lo + 1), Num(hi)>>, <<Num(2)>>),
        s(<<Star, Num(lo)>>, <<>>)}
Refused(i) ==
    LET lo == bounds[i].min   hi == bounds[i].max
        s(atoms, steps) == Span(atoms, steps)
    IN {s(<<Num(hi + 1)>>, <<>>), s(<<Num(hi + 1)>>, <<Num(2)>>),
        s(<<Num(hi), Num(lo)>>, <<>>), s(<<Junk>>, <<>>), s(<<Star>>, <<Num(0)>>),
        s(<<Star>>, <<Junk>>), s(<<Star>>, <<Name(lo)>>),
        s(<<Num(lo), Num(lo), Num(hi)>>, <<>>), s(<<Star>>, <<Num(1), Num(1)>>)}

Midnight == [i \in 1 .. 6 |-> IF i <= 3 THEN N(0) ELSE StarField]
Base == {Midnight,
         <<N(1), StarField, N(3), StarField, N(2), StarField>>,
         <<StarField, N(1), N(2), N(2), StarField, N(1)>>}

OneField == UNION {{Given([b EXCEPT ![i] = <<x>>], NoTZ) :
                      b \in Base, x \in Forms(i)}
                   \cup {Given([Midnight EXCEPT ![i] = <<x>>], NoTZ) :
                           x \in Refused(i)} : i \in 1 .. 6}

Days == {StarField, N(1), N(2), <<Span(<<Star>>, <<Num(2)>>)>>,
         <<Span(<<Num(1)>>, <<>>), Span(<<Num(2)>>, <<>>)>>, <<>>}
TwoDays == {Given(<<N(1), N(0), N(h), d, m, w>>, tz) :
              h \in {1, 2}, d \in Days, m \in {StarField, N(2)}, w \in Days,
              tz \in {NoTZ, BadTZ}}

(* Fields left out, under every kind of options. *)
Layouts ==
    LET on(first, last, options, complete) ==
          Slice(<<N(1), N(1), N(2), N(2), StarField, N(1)>>, first, last, NoTZ,
                options, complete)
    IN {on(2, 6, Rest \cup {"Dow"}, TRUE),
        on(1, 6, Rest \cup {"Dow", "SecondOptional"}, TRUE),
        on(2, 6, Rest \cup {"Dow", "SecondOptional"}, TRUE),
        on(2, 6, Rest \cup {"DowOptional"}, TRUE),
        on(2, 5, Rest \cup {"DowOptional"}, TRUE),
        on(3, 4, {"Hour", "Dom"}, TRUE),
        on(2, 6, Six, FALSE), on(1, 6, Rest, FALSE),
        on(3, 5, Rest \cup {"DowOptional"}, FALSE),
        on(2, 5, Rest \cup Optional, FALSE)}

(* Descriptors, known and unknown. *)
Descriptor(name, duration, options, tz) ==
    [text |-> [kind |-> "descriptor", tz |-> tz, name |-> name,
               duration |-> duration, fields |-> <<>>],
     options |-> options, given |-> Equivalent(name), complete |-> TRUE]
Descriptors ==
    {Descriptor(n, Junk, o, tz) :
        n \in {"@yearly", "@monthly", "@weekly", "@daily", "@hourly", "@never"},
        o \in {Six, Rest}, tz \in {NoTZ, "dst"}}
    \cup {Descriptor("@every", d, Six, NoTZ) :
             d \in {Junk} \cup {Num(n) : n \in {-3, 0, 1, 2, 5, 40}}}
    \cup {[Slice(<<>>, 1, 0, tz, Six, FALSE) EXCEPT !.text.kind = "empty"] :
            tz \in {NoTZ, "dst"}}

MCText == OneField \cup TwoDays \cup Layouts \cup Descriptors

(* A day of the month in the location without a midnight. *)
GapText == {Given(<<N(0), N(0), N(h), d, StarField, StarField>>, "gap") :
              h \in {1, 2}, d \in {N(1), N(2)}}
===============================================================================
