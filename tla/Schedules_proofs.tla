--------------------------- MODULE Schedules_proofs ---------------------------
(***************************************************************************)
(* Proofs about Schedules, for any calendar and any texts: what the parser *)
(* accepts and which values it reads (AcceptsFormat), constant delays      *)
(* (DelayOnSecond), and the search of Next in locations without daylight   *)
(* saving time (FoundIsActive, NoneSkipped). The lemmas go from division   *)
(* and the calendar to the steps of the search, and from ranges and fields *)
(* to whole texts.                                                         *)
(***************************************************************************)
EXTENDS Schedules, Induction

-------------------------------------------------------------------------------
(* Division *)

(* Quotient and remainder. *)
LEMMA Euclid ==
    ASSUME NEW a \in Int, NEW n \in Nat \ {0}
    PROVE  /\ a \div n \in Int /\ a % n \in Int
           /\ a = n * (a \div n) + (a % n) /\ 0 <= a % n /\ a % n < n
  OBVIOUS

(* There is one quotient and one remainder. *)
LEMMA EuclidUnique ==
    ASSUME NEW a \in Int, NEW n \in Nat \ {0}, NEW q \in Int, NEW r \in Int,
           a = n * q + r, 0 <= r, r < n
    PROVE  a \div n = q /\ a % n = r
<1>. DEFINE p == a \div n
            s == a % n
<1>1. p \in Int /\ s \in Int /\ a = n * p + s /\ 0 <= s /\ s < n
  BY Euclid
<1>. HIDE DEF p, s
<1>2. \A x, y \in Int : x < y => n * y >= n * x + n
  <2>. SUFFICES ASSUME NEW x \in Int, NEW y \in Int, x < y PROVE n * y >= n * x + n
    OBVIOUS
  <2>1. y - x - 1 \in Nat /\ n * y = n * x + n + n * (y - x - 1)
    OBVIOUS
  <2>2. \A z \in Nat : n * z \in Nat
    OBVIOUS
  <2>3. n * (y - x - 1) \in Nat /\ n * x \in Int /\ n * y \in Int
    BY <2>1, <2>2
  <2>. QED BY <2>1, <2>3
<1>3. n * p \in Int /\ n * q \in Int
  BY <1>1
<1>4. p = q
  BY <1>1, <1>2, <1>3
<1>. QED BY <1>1, <1>4 DEF p, s

(* A multiple of n changes no remainder. *)
LEMMA SameRemainder ==
    ASSUME NEW a \in Int, NEW b \in Int, NEW n \in Nat \ {0}, b % n = 0
    PROVE  (a + b) % n = a % n
<1>. DEFINE q == a \div n
            p == b \div n
            r == a % n
<1>1. q \in Int /\ r \in Int /\ 0 <= r /\ r < n /\ a = n * q + r
  BY Euclid
<1>2. p \in Int /\ b = n * p + 0
  BY Euclid
<1>. HIDE DEF p, q, r
<1>3. n * (q + p) = n * q + n * p /\ n * q \in Int /\ n * p \in Int /\ q + p \in Int
  BY <1>1, <1>2
<1>4. a + b = n * (q + p) + r
  BY <1>1, <1>2, <1>3
<1>5. (a + b) % n = r
  BY <1>1, <1>3, <1>4, EuclidUnique
<1>. QED BY <1>5 DEF r

(* Numbers of one block of n have the same quotient; the next block. *)
Blocks(a, n) ==
    /\ \A b \in Int : a - (a % n) <= b /\ b < a - (a % n) + n => b \div n = a \div n
    /\ (a - (a % n)) % n = 0
    /\ (a - (a % n) + n) \div n = (a \div n) + 1
    /\ (a - (a % n) + n) % n = 0
    /\ a - (a % n) <= a /\ a < a - (a % n) + n

(* A block of n: the numbers with one quotient by n. *)
LEMMA Block ==
    ASSUME NEW a \in Int, NEW n \in Nat \ {0}
    PROVE  Blocks(a, n)
<1>. DEFINE q == a \div n
            c == n * q
<1>1. /\ q \in Int /\ c \in Int /\ a % n \in Int /\ a = c + (a % n)
      /\ 0 <= a % n /\ a % n < n
  BY Euclid
<1>2. a - (a % n) = c
  BY <1>1
<1>. HIDE DEF q
<1>3. ASSUME NEW b \in Int, c <= b, b < c + n PROVE b \div n = q
  <2>1. b = n * q + (b - c) /\ b - c \in Int /\ 0 <= b - c /\ b - c < n
    BY <1>1, <1>3
  <2>. HIDE DEF c
  <2>. QED BY <1>1, <2>1, EuclidUnique
<1>4. c % n = 0
  <2>1. c = n * q + 0
    BY <1>1
  <2>. HIDE DEF c
  <2>. QED BY <1>1, <2>1, EuclidUnique
<1>5. (c + n) \div n = q + 1 /\ (c + n) % n = 0
  <2>1. c + n = n * (q + 1) + 0 /\ q + 1 \in Int /\ c + n \in Int
    BY <1>1
  <2>. HIDE DEF c
  <2>. QED BY <1>1, <2>1, EuclidUnique
<1>. QED BY <1>1, <1>2, <1>3, <1>4, <1>5 DEF q, Blocks

(* Blocks of m blocks of n. *)
Times(k, n, m) == k = n * m
Nest(a, k, n, m) ==
    /\ a \div k = (a \div n) \div m
    /\ (a % k) \div n = (a \div n) % m
    /\ a % k = 0 <=> a % n = 0 /\ (a \div n) % m = 0

(* Blocks of n lie in blocks of m * n. *)
LEMMA Nested ==
    ASSUME NEW a \in Int, NEW n \in Nat \ {0}, NEW m \in Nat \ {0},
           NEW k \in Nat \ {0}, Times(k, n, m)
    PROVE  Nest(a, k, n, m)
<1>. DEFINE q == a \div n
            r == a % n
            p == q \div m
            s == q % m
<1>1. q \in Int /\ r \in Int /\ a = n * q + r /\ 0 <= r /\ r < n
  BY Euclid
<1>. HIDE DEF q, r
<1>2. p \in Int /\ s \in Int /\ q = m * p + s /\ 0 <= s /\ s < m
  BY <1>1, Euclid
<1>. HIDE DEF p, s
<1>3. n * q = k * p + n * s
  <2>1. \A x, y \in Int : n * (m * x + y) = (n * m) * x + n * y
    OBVIOUS
  <2>. QED BY <1>2, <2>1, Zenon DEF Times
<1>4. n * s \in Int /\ n * s >= 0 /\ n * s + n <= k /\ (n * s = 0 => s = 0)
  <2>1. \A x \in Nat : x < m => n * x \in Nat /\ n * x + n <= n * m /\ (n * x = 0 => x = 0)
    <3>. SUFFICES ASSUME NEW x \in Nat, x < m
                  PROVE  n * x \in Nat /\ n * x + n <= n * m /\ (n * x = 0 => x = 0)
      OBVIOUS
    <3>1. n * m = n * x + n + n * (m - x - 1) /\ m - x - 1 \in Nat
      OBVIOUS
    <3>2. \A z \in Nat : n * z \in Nat /\ (n * z = 0 => z = 0)
      OBVIOUS
    <3>3. n * (m - x - 1) \in Nat /\ n * x \in Nat /\ n * m \in Nat
      BY <3>1, <3>2
    <3>. QED BY <3>1, <3>2, <3>3
  <2>2. s \in Nat
    BY <1>2
  <2>. QED BY <1>2, <2>1, <2>2 DEF Times
<1>5. k * p \in Int
  BY <1>2
<1>6. a = k * p + (n * s + r) /\ n * s + r \in Int /\ 0 <= n * s + r /\ n * s + r < k
  BY <1>1, <1>3, <1>4, <1>5
<1>7. a \div k = p /\ a % k = n * s + r
  BY <1>2, <1>6, EuclidUnique
<1>8. (n * s + r) \div n = s
  BY <1>1, <1>2, <1>6, EuclidUnique
<1>9. n * s + r = 0 <=> r = 0 /\ s = 0
  BY <1>1, <1>4
<1>. QED BY <1>7, <1>8, <1>9 DEF p, s, q, r, Nest

(* Counting blocks: the next one is in the same block of m, or starts one. *)
LEMMA Carry ==
    ASSUME NEW q \in Int, NEW m \in Nat \ {0}
    PROVE  (q + 1) \div m = IF (q + 1) % m = 0 THEN (q \div m) + 1 ELSE q \div m
<1>. DEFINE p == q \div m
            s == q % m
<1>1. p \in Int /\ s \in Int /\ q = m * p + s /\ 0 <= s /\ s < m
  BY Euclid
<1>. HIDE DEF p, s
<1>2. CASE s + 1 < m
  <2>1. q + 1 = m * p + (s + 1) /\ m * p \in Int
    BY <1>1
  <2>2. (q + 1) \div m = p /\ (q + 1) % m = s + 1
    BY <1>1, <1>2, <2>1, EuclidUnique
  <2>. QED BY <1>1, <2>2 DEF p
<1>3. CASE s + 1 = m
  <2>1. q + 1 = m * (p + 1) + 0
    BY <1>1, <1>3
  <2>2. (q + 1) \div m = p + 1 /\ (q + 1) % m = 0
    BY <1>1, <2>1, EuclidUnique
  <2>. QED BY <2>2 DEF p
<1>. QED BY <1>1, <1>2, <1>3

-------------------------------------------------------------------------------
(* The calendar *)

Months == Len(MonthDays)
Total == FirstDay[Months + 1]

(* There is a month, and every month has a day. *)
LEMMA MonthsType == Months \in Nat \ {0} /\ \A i \in 1 .. Months : MonthDays[i] \in Nat \ {0}
  BY CalendarAssumption DEF Months

(* FirstDay adds up the months before. *)
FirstDayOf(f) ==
    f = [i \in 1 .. Len(MonthDays) + 1 |->
           IF i = 1 THEN 0 ELSE f[i - 1] + MonthDays[i - 1]]

(* The recursive definition of FirstDay has a solution. *)
LEMMA FirstDayExists == \E f : FirstDayOf(f)
<1>. DEFINE First(g, n) == \A i \in 1 .. n + 1 :
                 g[i] = IF i = 1 THEN 0 ELSE g[i - 1] + MonthDays[i - 1]
            T == {n \in Nat : \E g \in [1 .. n + 1 -> Nat] : First(g, n)}
<1>1. 0 \in T
  <2>1. [i \in 1 .. 1 |-> 0] \in [1 .. 0 + 1 -> Nat] /\ First([i \in 1 .. 1 |-> 0], 0)
    OBVIOUS
  <2>. QED BY <2>1
<1>2. ASSUME NEW n \in 0 .. Months - 1, n \in T PROVE n + 1 \in T
  <2>0. n \in Nat /\ MonthDays[n + 1] \in Nat
    BY MonthsType
  <2>1. PICK g \in [1 .. n + 1 -> Nat] : First(g, n)
    BY <1>2
  <2>. DEFINE h == [i \in 1 .. n + 2 |-> IF i = n + 2 THEN g[n + 1] + MonthDays[n + 1] ELSE g[i]]
  <2>2. h \in [1 .. (n + 1) + 1 -> Nat]
    BY <2>0
  <2>3. First(h, n + 1)
    <3>. SUFFICES ASSUME NEW i \in 1 .. (n + 1) + 1
                  PROVE  h[i] = IF i = 1 THEN 0 ELSE h[i - 1] + MonthDays[i - 1]
      OBVIOUS
    <3>1. CASE i = n + 2
      BY <2>0, <3>1
    <3>2. CASE i # n + 2
      BY <2>0, <2>1, <3>2
    <3>. QED BY <3>1, <3>2
  <2>. HIDE DEF h, First
  <2>. QED BY <2>0, <2>2, <2>3
<1>3. Months \in T
  <2>. HIDE DEF T
  <2>1. 0 .. Months \subseteq T
    BY <1>1, <1>2, MonthsType, UpTo
  <2>. QED BY <2>1, MonthsType
<1>4. PICK g \in [1 .. Months + 1 -> Nat] : First(g, Months)
  BY <1>3
<1>5. FirstDayOf(g)
  BY <1>4 DEF FirstDayOf, Months
<1>. QED BY <1>5

(* A month begins where the one before it ends. *)
LEMMA FirstDayIs ==
    /\ FirstDay[1] = 0
    /\ \A i \in 1 .. Months : FirstDay[i + 1] = FirstDay[i] + MonthDays[i]
<1>1. FirstDayOf(FirstDay)
  BY FirstDayExists DEF FirstDayOf, FirstDay
<1>2. \A i \in 1 .. Months + 1 :
         FirstDay[i] = IF i = 1 THEN 0 ELSE FirstDay[i - 1] + MonthDays[i - 1]
  BY <1>1 DEF FirstDayOf, Months
<1>3. ASSUME NEW i \in 1 .. Months PROVE FirstDay[i + 1] = FirstDay[i] + MonthDays[i]
  BY <1>2, MonthsType
<1>. QED BY <1>2, <1>3, MonthsType

(* First days are numbers. *)
LEMMA FirstDayType == \A i \in 1 .. Months + 1 : FirstDay[i] \in Nat
<1>. DEFINE T == {n \in Nat : FirstDay[n + 1] \in Nat}
<1>1. 0 \in T
  BY FirstDayIs
<1>2. ASSUME NEW n \in 0 .. Months - 1, n \in T PROVE n + 1 \in T
  <2>1. n + 1 \in 1 .. Months /\ FirstDay[n + 1] \in Nat
    BY <1>2, MonthsType
  <2>. QED BY <2>1, FirstDayIs, MonthsType
<1>3. 0 .. Months \subseteq T
  <2>. HIDE DEF T
  <2>. QED BY <1>1, <1>2, MonthsType, UpTo
<1>. SUFFICES ASSUME NEW i \in 1 .. Months + 1 PROVE FirstDay[i] \in Nat
  OBVIOUS
<1>4. i - 1 \in 0 .. Months
  BY MonthsType
<1>5. i - 1 \in T
  BY <1>3, <1>4
<1>. QED BY <1>5

(* Later months begin later. *)
LEMMA FirstDayMono ==
    ASSUME NEW i \in 1 .. Months + 1, NEW j \in 1 .. Months + 1, i < j
    PROVE  FirstDay[i] < FirstDay[j]
<1>. DEFINE T == {n \in Nat : i + 1 + n <= Months + 1 => FirstDay[i] < FirstDay[i + 1 + n]}
<1>0. /\ i \in Nat /\ i <= Months /\ Months \in Nat
      /\ \A k \in 1 .. Months : /\ FirstDay[k + 1] = FirstDay[k] + MonthDays[k]
                                /\ MonthDays[k] \in Nat \ {0} /\ FirstDay[k] \in Nat
  BY FirstDayIs, FirstDayType, MonthsType
<1>1. 0 \in T
  BY <1>0
<1>2. ASSUME NEW n \in 0 .. Months - 1, n \in T PROVE n + 1 \in T
  <2>. SUFFICES ASSUME i + 1 + (n + 1) <= Months + 1
                PROVE  FirstDay[i] < FirstDay[i + 1 + (n + 1)]
    OBVIOUS
  <2>1. i + 1 + n \in 1 .. Months /\ i \in 1 .. Months /\ (i + 1 + n) + 1 = i + 1 + (n + 1)
    BY <1>0
  <2>2. FirstDay[i] < FirstDay[i + 1 + n]
    BY <1>0, <1>2
  <2>. QED BY <1>0, <2>1, <2>2
<1>3. 0 .. Months \subseteq T
  <2>. HIDE DEF T
  <2>. QED BY <1>1, <1>2, MonthsType, UpTo
<1>4. j - i - 1 \in 0 .. Months /\ i + 1 + (j - i - 1) = j
  BY MonthsType
<1>. QED BY <1>3, <1>4

(* Every day of the calendar is in one month. *)
InMonth(d, i) == FirstDay[i] <= d /\ d < FirstDay[i + 1]

(* Every day of the calendar is in a month. *)
LEMMA MonthOfDay ==
    ASSUME NEW d \in 0 .. Total - 1
    PROVE  \E i \in 1 .. Months : InMonth(d, i)
<1>. DEFINE C == {i \in 1 .. Months : d < FirstDay[i + 1]}
<1>0. Total \in Nat /\ d \in Nat /\ d < Total /\ Months \in Nat \ {0}
  BY FirstDayType, MonthsType DEF Total
<1>1. C \in SUBSET Nat /\ Months \in C
  BY <1>0 DEF Total
<1>2. PICK i \in C : \A j \in C : i <= j
  <2>. HIDE DEF C
  <2>. QED BY <1>1, LeastNumber
<1>3. FirstDay[i] <= d
  <2>1. CASE i = 1
    BY <1>0, <2>1, FirstDayIs
  <2>2. CASE i # 1
    <3>1. i - 1 \in 1 .. Months /\ i - 1 \notin C /\ (i - 1) + 1 = i
      BY <1>0, <1>2, <2>2
    <3>2. ~(d < FirstDay[i]) /\ FirstDay[i] \in Nat
      BY <3>1, FirstDayType, MonthsType
    <3>. QED BY <1>0, <3>2
  <2>. QED BY <2>1, <2>2
<1>. QED BY <1>2, <1>3 DEF InMonth

(* A day is in one month only. *)
LEMMA OneMonth ==
    ASSUME NEW d \in Int, NEW i \in 1 .. Months, NEW j \in 1 .. Months,
           InMonth(d, i), InMonth(d, j)
    PROVE  i = j
<1>1. /\ FirstDay[i] \in Nat /\ FirstDay[j] \in Nat
      /\ FirstDay[i + 1] \in Nat /\ FirstDay[j + 1] \in Nat /\ Months \in Nat
  BY FirstDayType, MonthsType
<1>2. ASSUME NEW k \in 1 .. Months, NEW l \in 1 .. Months, k < l
      PROVE  FirstDay[k + 1] <= FirstDay[l]
  <2>1. CASE k + 1 = l
    BY <2>1, FirstDayType, <1>1
  <2>2. CASE k + 1 < l
    <3>1. k + 1 \in 1 .. Months + 1 /\ l \in 1 .. Months + 1
      BY <1>1
    <3>. QED BY <2>2, <3>1, FirstDayMono, FirstDayType
  <2>. QED BY <1>1, <1>2, <2>1, <2>2
<1>3. CASE i < j
  BY <1>1, <1>2, <1>3 DEF InMonth
<1>4. CASE j < i
  BY <1>1, <1>2, <1>4 DEF InMonth
<1>. QED BY <1>3, <1>4, <1>1

(* DateOf gives the month that a day is in, and the day of that month. *)
LEMMA DateIs ==
    ASSUME NEW d \in 0 .. Total - 1
    PROVE  LET x == DateOf[d] IN
           /\ x.index \in 1 .. Months /\ InMonth(d, x.index)
           /\ \A j \in 1 .. Months : InMonth(d, j) => j = x.index
           /\ x.year = (x.index - 1) \div MonthsPerYear
           /\ x.month = ((x.index - 1) % MonthsPerYear) + 1
           /\ x.day = d - FirstDay[x.index] + 1
<1>. DEFINE c == CHOOSE i \in 1 .. Months : InMonth(d, i)
<1>1. c \in 1 .. Months /\ InMonth(d, c)
  BY MonthOfDay
<1>2. DateOf[d] = [index |-> c, year |-> (c - 1) \div MonthsPerYear,
                   month |-> ((c - 1) % MonthsPerYear) + 1, day |-> d - FirstDay[c] + 1]
  BY DEF DateOf, Months, Total, InMonth
<1>. HIDE DEF c
<1>3. Total \in Nat
  BY FirstDayType, MonthsType DEF Total
<1>4. d \in Int
  BY <1>3
<1>5. \A j \in 1 .. Months : InMonth(d, j) => j = c
  BY <1>1, <1>4, OneMonth
<1>. QED BY <1>1, <1>2, <1>5

-------------------------------------------------------------------------------
(* Units of time on the wall clock w, and the start of the next one *)

Pos(f) == CASE f = "month" -> 1 [] f = "day" -> 2 [] f = "hour" -> 3
            [] f = "minute" -> 4 [] f = "second" -> 5

(* The number of the month, day, hour... that w is in; w is the start of it. *)
Unit(f, w) ==
    CASE f = "month" -> DateOf[w \div DayLen].index
      [] f = "day" -> w \div DayLen
      [] f = "hour" -> w \div HourLen
      [] f = "minute" -> w \div MinuteLen
      [] f = "second" -> w \div SecondLen

Starts(f, w) ==
    CASE f = "month" -> w % DayLen = 0 /\ DateOf[w \div DayLen].day = 1
      [] f = "day" -> w % DayLen = 0
      [] f = "hour" -> w % HourLen = 0
      [] f = "minute" -> w % MinuteLen = 0
      [] f = "second" -> w % SecondLen = 0

InCalendar(w) == w \in Nat /\ w \div DayLen \in 0 .. Total - 1

(***************************************************************************)
(* v is the start of the unit after that of w: what an increment of field  *)
(* f does. A unit above is the same or starts, and those below start.      *)
(***************************************************************************)
Steps(f, w, v) ==
    /\ InCalendar(v) /\ w < v
    /\ \A u \in w .. v - 1 : Unit(f, u) = Unit(f, w)
    /\ \A g \in Fields : Pos(g) < Pos(f) => Unit(g, v) = Unit(g, w) \/ Starts(g, v)
    /\ \A g \in Fields : Pos(f) <= Pos(g) => Starts(g, v)
    /\ Unit("month", v) \in {Unit("month", w), Unit("month", w) + 1}

(* The lengths of the units, each a multiple of the one below. *)
LEMMA Lengths ==
    /\ SecondLen \in Nat \ {0} /\ MinuteLen \in Nat \ {0}
    /\ HourLen \in Nat \ {0} /\ DayLen \in Nat \ {0}
    /\ MinuteLen = SecondLen * SecondsPerMinute /\ SecondsPerMinute \in Nat \ {0}
    /\ HourLen = MinuteLen * MinutesPerHour /\ MinutesPerHour \in Nat \ {0}
    /\ DayLen = HourLen * HoursPerDay /\ HoursPerDay \in Nat \ {0}
<1>1. /\ SecondsPerMinute \in Nat \ {0} /\ MinutesPerHour \in Nat \ {0}
      /\ HoursPerDay \in Nat \ {0}
  BY CalendarAssumption
<1>2. SecondLen \in Nat \ {0}
  BY DEF SecondLen
<1>3. MinuteLen \in Nat \ {0}
  BY <1>1, <1>2 DEF MinuteLen
<1>4. HourLen \in Nat \ {0}
  BY <1>1, <1>3 DEF HourLen
<1>5. DayLen \in Nat \ {0}
  BY <1>1, <1>4 DEF DayLen
<1>. QED BY <1>1, <1>2, <1>3, <1>4, <1>5 DEF MinuteLen, HourLen, DayLen

(* A unit lies in the one above, and the start of one is a start below. *)
LEMMA UnitsNest ==
    ASSUME NEW w \in Int
    PROVE  /\ Unit("minute", w) = Unit("second", w) \div SecondsPerMinute
           /\ Unit("hour", w) = Unit("minute", w) \div MinutesPerHour
           /\ Unit("day", w) = Unit("hour", w) \div HoursPerDay
           /\ Unit("month", w) = DateOf[Unit("day", w)].index
           /\ (w % MinuteLen) \div SecondLen = Unit("second", w) % SecondsPerMinute
           /\ (w % HourLen) \div MinuteLen = Unit("minute", w) % MinutesPerHour
           /\ (w % DayLen) \div HourLen = Unit("hour", w) % HoursPerDay
           /\ Starts("minute", w)
                <=> Starts("second", w) /\ Unit("second", w) % SecondsPerMinute = 0
           /\ Starts("hour", w)
                <=> Starts("minute", w) /\ Unit("minute", w) % MinutesPerHour = 0
           /\ Starts("day", w)
                <=> Starts("hour", w) /\ Unit("hour", w) % HoursPerDay = 0
           /\ Starts("month", w)
                <=> Starts("day", w) /\ DateOf[Unit("day", w)].day = 1
<1>1. /\ w \div MinuteLen = (w \div SecondLen) \div SecondsPerMinute
      /\ (w % MinuteLen) \div SecondLen = (w \div SecondLen) % SecondsPerMinute
      /\ w % MinuteLen = 0 <=> w % SecondLen = 0 /\ (w \div SecondLen) % SecondsPerMinute = 0
  <2>1. /\ SecondLen \in Nat \ {0} /\ SecondsPerMinute \in Nat \ {0} /\ MinuteLen \in Nat \ {0}
        /\ Times(MinuteLen, SecondLen, SecondsPerMinute)
    BY Lengths DEF Times
  <2>2. Nest(w, MinuteLen, SecondLen, SecondsPerMinute)
    BY <2>1, Nested
  <2>. QED BY <2>2 DEF Nest
<1>2. /\ w \div HourLen = (w \div MinuteLen) \div MinutesPerHour
      /\ (w % HourLen) \div MinuteLen = (w \div MinuteLen) % MinutesPerHour
      /\ w % HourLen = 0 <=> w % MinuteLen = 0 /\ (w \div MinuteLen) % MinutesPerHour = 0
  <2>1. /\ MinuteLen \in Nat \ {0} /\ MinutesPerHour \in Nat \ {0} /\ HourLen \in Nat \ {0}
        /\ Times(HourLen, MinuteLen, MinutesPerHour)
    BY Lengths DEF Times
  <2>2. Nest(w, HourLen, MinuteLen, MinutesPerHour)
    BY <2>1, Nested
  <2>. QED BY <2>2 DEF Nest
<1>3. /\ w \div DayLen = (w \div HourLen) \div HoursPerDay
      /\ (w % DayLen) \div HourLen = (w \div HourLen) % HoursPerDay
      /\ w % DayLen = 0 <=> w % HourLen = 0 /\ (w \div HourLen) % HoursPerDay = 0
  <2>1. /\ HourLen \in Nat \ {0} /\ HoursPerDay \in Nat \ {0} /\ DayLen \in Nat \ {0}
        /\ Times(DayLen, HourLen, HoursPerDay)
    BY Lengths DEF Times
  <2>2. Nest(w, DayLen, HourLen, HoursPerDay)
    BY <2>1, Nested
  <2>. QED BY <2>2 DEF Nest
<1>. QED BY <1>1, <1>2, <1>3 DEF Unit, Starts

(* The fields and their order. *)
LEMMA PosIs ==
    /\ Pos("month") = 1 /\ Pos("day") = 2 /\ Pos("hour") = 3
    /\ Pos("minute") = 4 /\ Pos("second") = 5
    /\ Fields = {"month", "day", "hour", "minute", "second"}
  BY DEF Pos, Fields

(* Where a unit is the same, those above it are. *)
LEMMA SameAbove ==
    ASSUME NEW w \in Int, NEW v \in Int, NEW f \in Fields, Unit(f, v) = Unit(f, w)
    PROVE  \A g \in Fields : Pos(g) <= Pos(f) => Unit(g, v) = Unit(g, w)
<1>1. f = "month" \/ f = "day" \/ f = "hour" \/ f = "minute" \/ f = "second"
  BY PosIs
<1>. QED BY <1>1, PosIs, UnitsNest

(* Where a unit starts, those below it do. *)
LEMMA StartsBelow ==
    ASSUME NEW v \in Int, NEW f \in Fields, Starts(f, v)
    PROVE  \A g \in Fields : Pos(f) <= Pos(g) => Starts(g, v)
<1>1. f = "month" \/ f = "day" \/ f = "hour" \/ f = "minute" \/ f = "second"
  BY PosIs
<1>. QED BY <1>1, PosIs, UnitsNest

(* The calendar from day d on. *)
LEMMA DayAfter ==
    ASSUME NEW d \in 0 .. Total - 1, DateOf[d].index < Months
    PROVE  /\ d + 1 \in 0 .. Total - 1
           /\ \/ DateOf[d + 1].index = DateOf[d].index /\ DateOf[d + 1].day # 1
              \/ /\ DateOf[d + 1].index = DateOf[d].index + 1 /\ DateOf[d + 1].day = 1
                 /\ d + 1 = FirstDay[DateOf[d].index + 1]
<1>. DEFINE i == DateOf[d].index
<1>0. /\ Total \in Nat /\ Months \in Nat /\ d \in Nat /\ i \in 1 .. Months
      /\ InMonth(d, i) /\ i + 1 \in 1 .. Months
  BY DateIs, FirstDayType, MonthsType DEF Total
<1>. HIDE DEF i
<1>1. /\ FirstDay[i] \in Nat /\ FirstDay[i + 1] \in Nat /\ FirstDay[i + 2] \in Nat
      /\ FirstDay[i + 1] < FirstDay[i + 2] /\ FirstDay[i + 1] < Total
  BY <1>0, FirstDayType, FirstDayMono DEF Total
<1>2. d + 1 \in 0 .. Total - 1
  BY <1>0, <1>1 DEF InMonth
<1>3. CASE d + 1 < FirstDay[i + 1]
  <2>1. InMonth(d + 1, i)
    BY <1>0, <1>1, <1>3 DEF InMonth
  <2>2. DateOf[d + 1].index = i /\ DateOf[d + 1].day = (d + 1) - FirstDay[i] + 1
    BY <1>0, <1>2, <2>1, DateIs
  <2>3. FirstDay[i] <= d
    BY <1>0 DEF InMonth
  <2>4. DateOf[d + 1].day # 1
    BY <1>0, <1>1, <2>2, <2>3
  <2>. QED BY <1>2, <2>2, <2>4 DEF i
<1>4. CASE d + 1 = FirstDay[i + 1]
  <2>1. InMonth(d + 1, i + 1)
    <3>1. (i + 1) + 1 = i + 2
      BY <1>0
    <3>. QED BY <1>0, <1>1, <1>4, <3>1 DEF InMonth
  <2>2. DateOf[d + 1].index = i + 1 /\ DateOf[d + 1].day = (d + 1) - FirstDay[i + 1] + 1
    BY <1>0, <1>2, <2>1, DateIs
  <2>. QED BY <1>0, <1>1, <1>2, <1>4, <2>2 DEF i
<1>. QED BY <1>0, <1>1, <1>3, <1>4 DEF InMonth

(* v is the start of the unit after that of w. *)
Advances(f, w, v) == Starts(f, v) /\ Unit(f, v) = Unit(f, w) + 1

(* When a unit advances, the one above it stays or advances too. *)
LEMMA AdvancesAbove ==
    ASSUME NEW w \in Int, NEW v \in Int, InCalendar(w), Unit("month", w) < Months
    PROVE  /\ Advances("second", w, v)
                => Unit("minute", v) = Unit("minute", w) \/ Advances("minute", w, v)
           /\ Advances("minute", w, v)
                => Unit("hour", v) = Unit("hour", w) \/ Advances("hour", w, v)
           /\ Advances("hour", w, v)
                => Unit("day", v) = Unit("day", w) \/ Advances("day", w, v)
           /\ Advances("day", w, v)
                => /\ Unit("month", v) = Unit("month", w) \/ Advances("month", w, v)
                   /\ Unit("day", v) \in 0 .. Total - 1
<1>0. /\ Unit("second", w) \in Int /\ Unit("minute", w) \in Int
      /\ Unit("hour", w) \in Int /\ Unit("day", w) \in Int
  BY Lengths, Euclid DEF Unit
<1>1. ASSUME Advances("second", w, v)
      PROVE  Unit("minute", v) = Unit("minute", w) \/ Advances("minute", w, v)
  <2>. DEFINE q == Unit("second", w)
              m == SecondsPerMinute
  <2>1. /\ Unit("minute", v) = (q + 1) \div m /\ Unit("minute", w) = q \div m
        /\ Starts("minute", v) <=> (q + 1) % m = 0
    BY <1>1, UnitsNest DEF Advances
  <2>2. (q + 1) \div m = IF (q + 1) % m = 0 THEN (q \div m) + 1 ELSE q \div m
    <3>. HIDE DEF q
    <3>. QED BY <1>0, Lengths, Carry DEF q
  <2>. HIDE DEF q
  <2>. QED BY <2>1, <2>2 DEF Advances
<1>2. ASSUME Advances("minute", w, v)
      PROVE  Unit("hour", v) = Unit("hour", w) \/ Advances("hour", w, v)
  <2>. DEFINE q == Unit("minute", w)
              m == MinutesPerHour
  <2>1. /\ Unit("hour", v) = (q + 1) \div m /\ Unit("hour", w) = q \div m
        /\ Starts("hour", v) <=> (q + 1) % m = 0
    BY <1>2, UnitsNest DEF Advances
  <2>2. (q + 1) \div m = IF (q + 1) % m = 0 THEN (q \div m) + 1 ELSE q \div m
    <3>. HIDE DEF q
    <3>. QED BY <1>0, Lengths, Carry DEF q
  <2>. HIDE DEF q
  <2>. QED BY <2>1, <2>2 DEF Advances
<1>3. ASSUME Advances("hour", w, v)
      PROVE  Unit("day", v) = Unit("day", w) \/ Advances("day", w, v)
  <2>. DEFINE q == Unit("hour", w)
              m == HoursPerDay
  <2>1. /\ Unit("day", v) = (q + 1) \div m /\ Unit("day", w) = q \div m
        /\ Starts("day", v) <=> (q + 1) % m = 0
    BY <1>3, UnitsNest DEF Advances
  <2>2. (q + 1) \div m = IF (q + 1) % m = 0 THEN (q \div m) + 1 ELSE q \div m
    <3>. HIDE DEF q
    <3>. QED BY <1>0, Lengths, Carry DEF q
  <2>. HIDE DEF q
  <2>. QED BY <2>1, <2>2 DEF Advances
<1>4. ASSUME Advances("day", w, v)
      PROVE  /\ Unit("month", v) = Unit("month", w) \/ Advances("month", w, v)
             /\ Unit("day", v) \in 0 .. Total - 1
  <2>. DEFINE d == Unit("day", w)
  <2>1. d \in 0 .. Total - 1 /\ DateOf[d].index < Months
    BY UnitsNest DEF InCalendar, Unit
  <2>2. Unit("month", w) = DateOf[d].index /\ Unit("month", v) = DateOf[d + 1].index
    BY <1>4, UnitsNest DEF Advances
  <2>3. DateOf[d + 1].day = 1 => Starts("month", v)
    BY <1>4, UnitsNest DEF Advances
  <2>4. Unit("day", v) = d + 1
    BY <1>4 DEF Advances
  <2>. HIDE DEF d
  <2>. QED BY <2>1, <2>2, <2>3, <2>4, DayAfter DEF Advances
<1>. QED BY <1>1, <1>2, <1>3, <1>4

(* An advance of a unit to its next start is a step of the search. *)
LEMMA AdvancesSteps ==
    ASSUME NEW f \in Fields, NEW w \in Nat, NEW v \in Nat, InCalendar(w), w < v,
           Unit("month", w) < Months, Advances(f, w, v),
           \A u \in w .. v - 1 : Unit(f, u) = Unit(f, w),
           Unit("day", v) \in 0 .. Total - 1 \/ f # "month"
    PROVE  Steps(f, w, v)
<1>. DEFINE Up(g) == Unit(g, v) = Unit(g, w) \/ Advances(g, w, v)
<1>0. f = "month" \/ f = "day" \/ f = "hour" \/ f = "minute" \/ f = "second"
  BY PosIs
<1>1. Unit("minute", v) = Unit("minute", w) => Unit("hour", v) = Unit("hour", w)
  BY UnitsNest
<1>2. Unit("hour", v) = Unit("hour", w) => Unit("day", v) = Unit("day", w)
  BY UnitsNest
<1>3. Unit("day", v) = Unit("day", w) => Unit("month", v) = Unit("month", w)
  BY UnitsNest
<1>4. /\ f = "second" => Up("minute")
      /\ Up("minute") => Up("hour")
      /\ Up("hour") => Up("day")
      /\ Up("day") => Up("month")
  BY <1>1, <1>2, <1>3, AdvancesAbove
<1>5. Up(f)
  OBVIOUS
<1>6. \A g \in Fields : Pos(g) < Pos(f) => Up(g)
  <2>. HIDE DEF Up
  <2>. QED BY <1>0, <1>4, <1>5, PosIs
<1>7. Unit("day", v) \in 0 .. Total - 1
  <2>1. CASE f = "month"
    BY <2>1
  <2>2. CASE f # "month"
    <3>1. Up("day")
      <4>. HIDE DEF Up
      <4>. QED BY <1>0, <1>4, <1>5, <2>2
    <3>2. Unit("day", w) \in 0 .. Total - 1
      BY UnitsNest DEF InCalendar, Unit
    <3>. QED BY <3>1, <3>2, AdvancesAbove
  <2>. QED BY <2>1, <2>2
<1>8. InCalendar(v)
  BY <1>7 DEF InCalendar, Unit
<1>9. Up("month")
  <2>. HIDE DEF Up
  <2>. QED BY <1>0, <1>4, <1>5
<1>10. \A g \in Fields : Pos(f) <= Pos(g) => Starts(g, v)
  BY StartsBelow DEF Advances
<1>11. \A g \in Fields : Pos(g) < Pos(f) => Unit(g, v) = Unit(g, w) \/ Starts(g, v)
  BY <1>6 DEF Advances
<1>12. Unit("month", v) \in {Unit("month", w), Unit("month", w) + 1}
  BY <1>9 DEF Advances
<1>. QED BY <1>8, <1>10, <1>11, <1>12 DEF Steps

(* The next day, hour, minute or second. *)
UnitLen(f) == CASE f = "day" -> DayLen [] f = "hour" -> HourLen
                [] f = "minute" -> MinuteLen [] f = "second" -> SecondLen

(* The next day, hour, minute or second. *)
LEMMA NextUnit ==
    ASSUME NEW f \in Fields \ {"month"}, NEW w \in Nat, InCalendar(w),
           Unit("month", w) < Months
    PROVE  Steps(f, w, w - (w % UnitLen(f)) + UnitLen(f))
<1>. DEFINE n == UnitLen(f)
            v == w - (w % n) + n
<1>0. f = "day" \/ f = "hour" \/ f = "minute" \/ f = "second"
  BY PosIs
<1>1. n \in Nat \ {0}
  BY <1>0, Lengths DEF UnitLen
<1>2. \A x : Unit(f, x) = x \div n /\ (Starts(f, x) <=> x % n = 0)
  BY <1>0 DEF UnitLen, Unit, Starts
<1>. HIDE DEF n
<1>3. Blocks(w, n)
  BY <1>1, Block
<1>4. w % n \in Int /\ v \in Int /\ w < v
  BY <1>1, <1>3, Euclid DEF Blocks
<1>5. Advances(f, w, v)
  <2>1. v \div n = (w \div n) + 1 /\ v % n = 0
    BY <1>3 DEF Blocks
  <2>. HIDE DEF v
  <2>. QED BY <1>2, <2>1 DEF Advances
<1>6. \A u \in w .. v - 1 : Unit(f, u) = Unit(f, w)
  <2>. SUFFICES ASSUME NEW u \in w .. v - 1 PROVE u \div n = w \div n
    BY <1>2
  <2>1. u \in Int /\ w - (w % n) <= u /\ u < v
    <3>1. w - (w % n) <= w
      BY <1>3 DEF Blocks
    <3>. HIDE DEF v
    <3>. QED BY <1>1, <1>4, <3>1
  <2>. QED BY <1>3, <2>1 DEF Blocks
<1>. HIDE DEF v
<1>7. v \in Nat
  BY <1>4
<1>8. Steps(f, w, v)
  BY <1>4, <1>5, <1>6, <1>7, AdvancesSteps
<1>. QED BY <1>8 DEF v, n

(* The next month. *)
LEMMA NextMonth ==
    ASSUME NEW w \in Nat, InCalendar(w), Unit("month", w) < Months
    PROVE  Steps("month", w, FirstDay[Unit("month", w) + 1] * DayLen)
<1>. DEFINE i == Unit("month", w)
            e == FirstDay[i + 1]
            v == e * DayLen
            d == w \div DayLen
<1>0. DayLen \in Nat \ {0} /\ d \in 0 .. Total - 1 /\ i = DateOf[d].index
  BY Lengths DEF InCalendar, Unit
<1>1. i \in 1 .. Months /\ InMonth(d, i) /\ i + 1 \in 1 .. Months /\ Months \in Nat /\ Total \in Nat
  BY <1>0, DateIs, MonthsType, FirstDayType DEF Total
<1>. HIDE DEF i
<1>2. /\ FirstDay[i] \in Nat /\ e \in Nat /\ e < Total /\ d < e /\ FirstDay[i] <= d
      /\ e < FirstDay[(i + 1) + 1] /\ FirstDay[(i + 1) + 1] \in Nat
  BY <1>1, FirstDayType, FirstDayMono DEF InMonth, Total
<1>. HIDE DEF e
<1>3. v \in Nat /\ v \div DayLen = e /\ v % DayLen = 0
  <2>1. v = DayLen * e + 0 /\ v \in Nat
    BY <1>0, <1>2
  <2>. QED BY <1>0, <1>2, <2>1, EuclidUnique
<1>4. DateOf[e].index = i + 1 /\ DateOf[e].day = 1
  <2>1. InMonth(e, i + 1) /\ e \in 0 .. Total - 1
    BY <1>1, <1>2 DEF InMonth, e
  <2>2. DateOf[e].index = i + 1
    BY <1>1, <2>1, DateIs
  <2>. QED BY <1>2, <2>1, <2>2, DateIs DEF e
<1>5. Advances("month", w, v)
  BY <1>3, <1>4 DEF Advances, Starts, Unit, i
<1>6. w < v
  <2>1. \A a, b \in Int : a < b => DayLen * a + DayLen <= DayLen * b
    <3>. SUFFICES ASSUME NEW a \in Int, NEW b \in Int, a < b
                  PROVE  DayLen * a + DayLen <= DayLen * b
      OBVIOUS
    <3>1. b - a - 1 \in Nat /\ DayLen * b = DayLen * a + DayLen + DayLen * (b - a - 1)
      BY <1>0
    <3>2. \A z \in Nat : DayLen * z \in Nat
      BY <1>0
    <3>3. DayLen * (b - a - 1) \in Nat /\ DayLen * a \in Int /\ DayLen * b \in Int
      BY <1>0, <3>1, <3>2
    <3>. QED BY <1>0, <3>1, <3>3
  <2>2. w = DayLen * d + (w % DayLen) /\ w % DayLen < DayLen /\ w % DayLen \in Int /\ d \in Int
    BY <1>0, Euclid
  <2>3. DayLen * d + DayLen <= DayLen * e /\ DayLen * e = v /\ DayLen * d \in Int
    BY <1>0, <1>2, <2>1, <2>2
  <2>. QED BY <1>0, <1>3, <2>2, <2>3
<1>7. ASSUME NEW u \in w .. v - 1 PROVE Unit("month", u) = Unit("month", w)
  <2>. DEFINE x == u \div DayLen
  <2>1. x \in Int /\ d <= x /\ x < e
    <3>1. \A a, b \in Int : a <= b => a \div DayLen <= b \div DayLen
      BY <1>0
    <3>. QED BY <1>0, <1>3, <3>1
  <2>. HIDE DEF x
  <2>2. InMonth(x, i) /\ x \in 0 .. Total - 1
    BY <1>0, <1>1, <1>2, <2>1 DEF InMonth, e
  <2>3. DateOf[x].index = i
    BY <1>1, <2>2, DateIs
  <2>. QED BY <2>3 DEF Unit, x, i
<1>8. Unit("day", v) \in 0 .. Total - 1
  BY <1>1, <1>2, <1>3 DEF Unit
<1>. HIDE DEF v, d
<1>9. "month" \in Fields
  BY PosIs
<1>10. Unit("month", w) < Months
  OBVIOUS
<1>11. Steps("month", w, v)
  BY <1>3, <1>5, <1>6, <1>7, <1>8, <1>9, <1>10, AdvancesSteps
<1>. QED BY <1>11 DEF v, e, i

-------------------------------------------------------------------------------
(* Years *)

(* Later days are in the same month or in later ones. *)
LEMMA IndexMono ==
    ASSUME NEW d \in 0 .. Total - 1, NEW e \in 0 .. Total - 1, d <= e
    PROVE  DateOf[d].index <= DateOf[e].index /\ DateOf[d].year <= DateOf[e].year
<1>. DEFINE i == DateOf[d].index
            j == DateOf[e].index
<1>1. /\ i \in 1 .. Months /\ j \in 1 .. Months /\ InMonth(d, i) /\ InMonth(e, j)
      /\ DateOf[d].year = (i - 1) \div MonthsPerYear
      /\ DateOf[e].year = (j - 1) \div MonthsPerYear
  BY DateIs
<1>. HIDE DEF i, j
<1>2. Total \in Nat /\ Months \in Nat /\ MonthsPerYear \in Nat \ {0}
  BY FirstDayType, MonthsType, CalendarAssumption DEF Total
<1>3. i <= j
  <2>. SUFFICES ASSUME j < i PROVE FALSE
    BY <1>1, <1>2
  <2>1. FirstDay[j + 1] <= FirstDay[i]
    <3>1. CASE j + 1 = i
      BY <1>1, <1>2, <3>1, FirstDayType
    <3>2. CASE j + 1 < i
      <4>1. j + 1 \in 1 .. Months + 1 /\ i \in 1 .. Months + 1
        BY <1>1, <1>2
      <4>. QED BY <3>2, <4>1, FirstDayMono, FirstDayType
    <3>. QED BY <1>1, <1>2, <3>1, <3>2
  <2>2. FirstDay[j + 1] \in Nat /\ FirstDay[i] \in Nat /\ FirstDay[i] <= d /\ e < FirstDay[j + 1]
    BY <1>1, <1>2, FirstDayType DEF InMonth
  <2>. QED BY <1>2, <2>1, <2>2
<1>4. \A a, b \in Int : a <= b => a \div MonthsPerYear <= b \div MonthsPerYear
  BY <1>2
<1>5. (i - 1) \div MonthsPerYear <= (j - 1) \div MonthsPerYear
  BY <1>1, <1>2, <1>3, <1>4
<1>. QED BY <1>1, <1>3, <1>5 DEF i, j

(* The year of a day of the calendar. *)
LEMMA YearType ==
    ASSUME NEW d \in 0 .. Total - 1
    PROVE  /\ DateOf[d].year \in Nat /\ DateOf[d].month \in Nat
           /\ \A y \in Nat : DateOf[d].year <= y
                               => DateOf[d].index <= (y + 1) * MonthsPerYear
<1>. DEFINE i == DateOf[d].index
            q == (i - 1) \div MonthsPerYear
            r == (i - 1) % MonthsPerYear
<1>1. /\ i \in 1 .. Months /\ DateOf[d].year = q /\ DateOf[d].month = r + 1
      /\ Months \in Nat /\ MonthsPerYear \in Nat \ {0}
  BY DateIs, MonthsType, CalendarAssumption
<1>. HIDE DEF i
<1>2. /\ q \in Int /\ r \in Int /\ i - 1 = MonthsPerYear * q + r /\ 0 <= r
      /\ r < MonthsPerYear /\ i - 1 \in Nat
  BY <1>1, Euclid
<1>3. q >= 0
  BY <1>1, <1>2
<1>. HIDE DEF q, r
<1>4. ASSUME NEW y \in Nat, q <= y PROVE i <= (y + 1) * MonthsPerYear
  <2>1. \A a, b, m \in Nat : a <= b => m * a + m <= (b + 1) * m
    OBVIOUS
  <2>2. MonthsPerYear * q + MonthsPerYear <= (y + 1) * MonthsPerYear
    BY <1>1, <1>2, <1>3, <1>4, <2>1
  <2>3. MonthsPerYear * q \in Int /\ (y + 1) * MonthsPerYear \in Int
    BY <1>1, <1>2
  <2>. QED BY <1>1, <1>2, <2>2, <2>3
<1>. QED BY <1>1, <1>2, <1>3, <1>4 DEF i

(* The year changes with the first month. *)
LEMMA SameYear ==
    ASSUME NEW d \in 0 .. Total - 1, NEW e \in 0 .. Total - 1,
           DateOf[e].index \in {DateOf[d].index, DateOf[d].index + 1},
           DateOf[e].month # 1
    PROVE  DateOf[e].year = DateOf[d].year
<1>. DEFINE q == DateOf[d].index - 1
            m == MonthsPerYear
<1>1. q \in Int /\ DateOf[d].year = q \div m /\ m \in Nat \ {0}
  BY DateIs, MonthsType, CalendarAssumption
<1>2. CASE DateOf[e].index = DateOf[d].index
  BY <1>2, DateIs
<1>3. CASE DateOf[e].index = DateOf[d].index + 1
  <2>1. DateOf[e].index - 1 = q + 1
    <3>1. DateOf[d].index \in Int
      BY DateIs, MonthsType
    <3>. QED BY <1>3, <3>1
  <2>2. DateOf[e].year = (q + 1) \div m /\ DateOf[e].month = ((q + 1) % m) + 1
    BY <2>1, DateIs
  <2>. HIDE DEF q, m
  <2>3. (q + 1) \div m = IF (q + 1) % m = 0 THEN (q \div m) + 1 ELSE q \div m
    BY <1>1, Carry
  <2>. QED BY <1>1, <2>2, <2>3
<1>. QED BY <1>2, <1>3

-------------------------------------------------------------------------------
(* Locations without daylight saving time *)

(* No daylight saving, and an offset of whole minutes. *)
Flat(z) == Rules[z].to <= Rules[z].from /\ Rules[z].base % MinuteLen = 0

(* Without daylight saving the clock runs at a fixed offset. *)
LEMMA FlatClock ==
    ASSUME NEW z \in Zone, Flat(z)
    PROVE  /\ Rules[z].base \in Nat
           /\ \A u \in Int : Wall(z, u) = u + Rules[z].base
           /\ \A w \in Int : Instants(z, w) = {w - Rules[z].base}
<1>1. Rules[z].base \in Nat /\ Rules[z].from \in Nat /\ Rules[z].to \in Nat
  BY CalendarAssumption
<1>2. ASSUME NEW u \in Int PROVE Wall(z, u) = u + Rules[z].base
  BY <1>1 DEF Wall, Flat
<1>3. ASSUME NEW w \in Int PROVE Instants(z, w) = {w - Rules[z].base}
  <2>. DEFINE a == w - Rules[z].base
              b == w - Rules[z].base - HourLen
  <2>1. a \in Int /\ b \in Int /\ Wall(z, a) = w /\ Wall(z, b) # w
    BY <1>1, <1>2, Lengths
  <2>2. {u \in {a, b} : Wall(z, u) = w} = {a}
    <3>. HIDE DEF a, b
    <3>. QED BY <2>1
  <2>. QED BY <2>2 DEF Instants
<1>. QED BY <1>1, <1>2, <1>3

-------------------------------------------------------------------------------
(* The search *)

(* What matches depends on the unit that the clock is in. *)
LEMMA MatchesUnit ==
    ASSUME NEW f \in Fields, NEW u \in Int, NEW v \in Int,
           InCalendar(Wall(loc, u)), InCalendar(Wall(loc, v)),
           Unit(f, Wall(loc, u)) = Unit(f, Wall(loc, v))
    PROVE  Matches(f, u) <=> Matches(f, v)
<1>. DEFINE w == Wall(loc, u)
            x == Wall(loc, v)
<1>0. w \in Int /\ x \in Int
  BY DEF InCalendar
<1>. HIDE DEF w, x
<1>1. CASE f = "month"
  <2>1. /\ DateOf[w \div DayLen].month = ((Unit("month", w) - 1) % MonthsPerYear) + 1
        /\ DateOf[x \div DayLen].month = ((Unit("month", x) - 1) % MonthsPerYear) + 1
    BY DateIs DEF InCalendar, Unit, w, x
  <2>2. Date(loc, u).month = Date(loc, v).month
    BY <1>1, <2>1 DEF Date, w, x
  <2>. QED BY <1>1, <2>2 DEF Matches, In
<1>2. CASE f = "day"
  <2>1. w \div DayLen = x \div DayLen
    BY <1>2 DEF Unit, w, x
  <2>2. Date(loc, u) = Date(loc, v) /\ Weekday(loc, u) = Weekday(loc, v)
    BY <2>1 DEF Date, Weekday, w, x
  <2>3. dayMatches(u) <=> dayMatches(v)
    BY <2>2 DEF dayMatches, In
  <2>. QED BY <1>2, <2>3 DEF Matches
<1>3. CASE f = "hour"
  <2>1. (w % DayLen) \div HourLen = (x % DayLen) \div HourLen
    BY <1>0, <1>3, UnitsNest DEF w, x
  <2>. QED BY <1>3, <2>1 DEF Matches, In, Hour, w, x
<1>4. CASE f = "minute"
  <2>1. (w % HourLen) \div MinuteLen = (x % HourLen) \div MinuteLen
    BY <1>0, <1>4, UnitsNest DEF w, x
  <2>. QED BY <1>4, <2>1 DEF Matches, In, Minute, w, x
<1>5. CASE f = "second"
  <2>1. (w % MinuteLen) \div SecondLen = (x % MinuteLen) \div SecondLen
    BY <1>0, <1>5, UnitsNest DEF w, x
  <2>. QED BY <1>5, <2>1 DEF Matches, In, Second, w, x
<1>. QED BY <1>1, <1>2, <1>3, <1>4, <1>5, PosIs

(* The fields before the one the search is at. *)
Passed(p) == CASE p \in {"wrap", "none"} -> 1 [] p = "found" -> 6
               [] OTHER -> Pos(p)

(* The schedule is active at instant u, by the bits it keeps. *)
Due(u) == u % SecondLen = 0 /\ \A f \in Fields : Matches(f, u)

Searching == pc \in Fields \cup {"wrap", "found", "none"} /\ sched.kind = "spec"

(* The candidate is later than the start, and within the years looked at. *)
InTime ==
    /\ start \in Start /\ t \in Nat /\ start < t /\ t % SecondLen = 0
    /\ InCalendar(Wall(loc, t))
    /\ yearLimit \in Nat /\ (yearLimit + 1) * MonthsPerYear < Months
    /\ Date(loc, start).year + YearSpan <= yearLimit
    /\ pc \in Fields => Date(loc, t).year <= yearLimit
    /\ pc = "none" => Date(loc, t).year > yearLimit

(* A field that was passed matches. *)
PassedMatch == \A f \in Fields : Pos(f) < Passed(pc) => Matches(f, t)

(* After the first increment every field matches or is at its start. *)
AtStart == added => \A f \in Fields : Matches(f, t) \/ Starts(f, Wall(loc, t))

NoneBefore == \A u \in start + 1 .. t - 1 : ~Due(u)

SearchInv == Searching => InTime /\ PassedMatch /\ AtStart /\ NoneBefore

(* The field has wrapped around at v. *)
Above(f) == CASE f = "day" -> "month" [] f = "hour" -> "day"
              [] f = "minute" -> "hour" [] f = "second" -> "minute"

WrappedAt(f, v) == IF f = "month" THEN DateOf[v \div DayLen].month = 1
                                  ELSE Starts(Above(f), v)

(***************************************************************************)
(* The search keeps its invariant when it goes from t to u, the start of   *)
(* the next unit of a field that does not match: no instant in between     *)
(* matches, and the fields passed still match unless one above wraps.      *)
(***************************************************************************)
LEMMA Incremented ==
    ASSUME InTime, PassedMatch, NoneBefore, loc \in Zone, Flat(loc),
           pc \in Fields, ~Matches(pc, t),
           NEW u \in Int, Steps(pc, Wall(loc, t), Wall(loc, u))
    PROVE  /\ u \in Nat /\ t < u /\ u % SecondLen = 0 /\ InCalendar(Wall(loc, u))
           /\ \A g \in Fields : Matches(g, u) \/ Starts(g, Wall(loc, u))
           /\ \A x \in start + 1 .. u - 1 : ~Due(x)
           /\ ~WrappedAt(pc, Wall(loc, u)) =>
                 /\ Date(loc, u).year = Date(loc, t).year
                 /\ \A g \in Fields : Pos(g) < Pos(pc) => Matches(g, u)
<1>. DEFINE base == Rules[loc].base
            w == Wall(loc, t)
            v == Wall(loc, u)
            f == pc
<1>0. /\ base \in Nat /\ w = t + base /\ v = u + base /\ t \in Nat /\ w \in Nat
      /\ \A x \in Int : Wall(loc, x) = x + base
  BY FlatClock DEF InTime
<1>1. /\ InCalendar(w) /\ InCalendar(v) /\ w < v
      /\ \A x \in w .. v - 1 : Unit(f, x) = Unit(f, w)
      /\ \A g \in Fields : Pos(g) < Pos(f) => Unit(g, v) = Unit(g, w) \/ Starts(g, v)
      /\ \A g \in Fields : Pos(f) <= Pos(g) => Starts(g, v)
      /\ Unit("month", v) \in {Unit("month", w), Unit("month", w) + 1}
  BY DEF InTime, Steps
<1>2. ASSUME NEW g \in Fields, Unit(g, v) = Unit(g, w) PROVE Matches(g, u) <=> Matches(g, t)
  BY <1>0, <1>1, <1>2, MatchesUnit
<1>. HIDE DEF base, w, v
<1>3. u \in Nat /\ t < u /\ v \in Nat
  BY <1>0, <1>1
<1>4. u % SecondLen = 0
  <2>1. Starts("second", v)
    BY <1>1, PosIs
  <2>2. Starts("minute", base)
    BY DEF Flat, Starts, base
  <2>3. Starts("second", base)
    BY <1>0, <2>2, UnitsNest
  <2>4. v % 2 = 0 /\ base % 2 = 0
    BY <2>1, <2>3 DEF Starts, SecondLen
  <2>. QED BY <1>0, <1>3, <2>4 DEF SecondLen
<1>5. ASSUME NEW g \in Fields PROVE Matches(g, u) \/ Starts(g, v)
  <2>1. CASE Pos(g) < Pos(f)
    <3>1. Matches(g, t)
      <4>1. Passed(f) = Pos(f)
        BY PosIs DEF Passed
      <4>. QED BY <2>1, <4>1 DEF PassedMatch
    <3>. QED BY <1>1, <1>2, <2>1, <3>1
  <2>2. CASE Pos(f) <= Pos(g)
    BY <1>1, <2>2
  <2>. QED BY <2>1, <2>2, PosIs
<1>6. ASSUME NEW x \in start + 1 .. u - 1 PROVE ~Due(x)
  <2>0. start \in Nat /\ x \in Nat
    BY SchedulesAssumption DEF InTime
  <2>1. CASE x < t
    BY <2>0, <2>1, <1>0 DEF NoneBefore
  <2>2. CASE t <= x
    <3>. DEFINE y == Wall(loc, x)
    <3>1. y \in w .. v - 1 /\ y \in Nat
      BY <1>0, <1>3, <2>0, <2>2
    <3>2. Unit(f, y) = Unit(f, w)
      BY <1>1, <3>1
    <3>3. InCalendar(y)
      <4>1. \A a, b \in Nat : a <= b => a \div DayLen <= b \div DayLen
        BY Lengths
      <4>2. w \div DayLen <= y \div DayLen /\ y \div DayLen <= v \div DayLen
        <5>. HIDE DEF y
        <5>. QED BY <1>0, <1>3, <3>1, <4>1
      <4>3. y \div DayLen \in Int
        BY <3>1, Lengths, Euclid
      <4>4. Total \in Nat
        BY FirstDayType, MonthsType DEF Total
      <4>. HIDE DEF y
      <4>. QED BY <1>1, <3>1, <4>2, <4>3, <4>4 DEF InCalendar
    <3>4. Matches(f, x) <=> Matches(f, t)
      BY <1>0, <1>1, <2>0, <3>2, <3>3, MatchesUnit DEF w
    <3>. QED BY <3>4 DEF Due
  <2>. QED BY <1>0, <2>0, <2>1, <2>2
<1>7. ASSUME ~WrappedAt(f, v)
      PROVE  /\ Date(loc, u).year = Date(loc, t).year
             /\ \A g \in Fields : Pos(g) < Pos(f) => Matches(g, u)
  <2>0. /\ v \div DayLen \in 0 .. Total - 1 /\ w \div DayLen \in 0 .. Total - 1
        /\ Date(loc, u) = DateOf[v \div DayLen] /\ Date(loc, t) = DateOf[w \div DayLen]
        /\ Unit("month", v) = DateOf[v \div DayLen].index
        /\ Unit("month", w) = DateOf[w \div DayLen].index
    BY <1>1 DEF InCalendar, Date, Unit, v, w
  <2>1. CASE f = "month"
    <3>1. DateOf[v \div DayLen].month # 1
      BY <1>7, <2>1 DEF WrappedAt
    <3>2. Date(loc, u).year = Date(loc, t).year
      BY <1>1, <2>0, <3>1, SameYear
    <3>. QED BY <2>1, <3>2, PosIs
  <2>2. CASE f # "month"
    <3>1. Above(f) \in Fields /\ Pos(Above(f)) = Pos(f) - 1 /\ ~Starts(Above(f), v)
      BY <1>7, <2>2, PosIs DEF WrappedAt, Above
    <3>2. Unit(Above(f), v) = Unit(Above(f), w)
      BY <1>1, <3>1, PosIs
    <3>3. \A g \in Fields : Pos(g) <= Pos(Above(f)) => Unit(g, v) = Unit(g, w)
      BY <1>0, <1>3, <3>1, <3>2, SameAbove
    <3>4. \A g \in Fields : Pos(g) < Pos(f) => Unit(g, v) = Unit(g, w)
      BY <3>1, <3>3, PosIs
    <3>5. Passed(f) = Pos(f)
      BY PosIs DEF Passed
    <3>6. \A g \in Fields : Pos(g) < Pos(f) => Matches(g, u)
      BY <1>2, <3>4, <3>5 DEF PassedMatch
    <3>7. Unit("month", v) = Unit("month", w)
      BY <2>2, <3>4, PosIs
    <3>8. Date(loc, u).year = Date(loc, t).year
      BY <2>0, <3>7, DateIs
    <3>. QED BY <3>6, <3>8
  <2>. QED BY <2>1, <2>2
<1>. QED BY <1>1, <1>3, <1>4, <1>5, <1>6, <1>7 DEF v

(* A step that keeps schedule and location keeps what matches. *)
LEMMA SameClock ==
    ASSUME UNCHANGED <<sched, orig>>
    PROVE  /\ loc' = loc
           /\ \A f \in Fields : \A u : Matches(f, u)' <=> Matches(f, u)
           /\ \A u : Due(u)' <=> Due(u)
<1>1. loc' = loc
  BY DEF loc
<1>2. \A i, x : In(i, x)' <=> In(i, x)
  BY DEF In
<1>3. \A u : dayMatches(u)' <=> dayMatches(u)
  BY <1>1, <1>2 DEF dayMatches
<1>4. ASSUME NEW f \in Fields, NEW u PROVE Matches(f, u)' <=> Matches(f, u)
  BY <1>1, <1>2, <1>3, PosIs DEF Matches
<1>5. ASSUME NEW u PROVE Due(u)' <=> Due(u)
  BY <1>4 DEF Due
<1>. QED BY <1>1, <1>4, <1>5

(* A step to the next unit keeps the invariant of the search. *)
LEMMA GotoKeeps ==
    ASSUME SearchInv, Searching, loc \in Zone, Flat(loc),
           pc \in Fields, ~Matches(pc, t), NEW u \in Int, NEW wrapped \in BOOLEAN,
           Goto(u, wrapped), Steps(pc, Wall(loc, t), Wall(loc, u)),
           wrapped <=> WrappedAt(pc, Wall(loc, u))
    PROVE  SearchInv'
<1>1. InTime /\ PassedMatch /\ NoneBefore
  BY DEF SearchInv
<1>2. /\ t' = u /\ added' = TRUE /\ pc' = (IF wrapped THEN "wrap" ELSE pc)
      /\ UNCHANGED <<sched, start, orig, yearLimit>>
  BY DEF Goto
<1>3. /\ u \in Nat /\ t < u /\ u % SecondLen = 0 /\ InCalendar(Wall(loc, u))
      /\ \A g \in Fields : Matches(g, u) \/ Starts(g, Wall(loc, u))
      /\ \A x \in start + 1 .. u - 1 : ~Due(x)
  BY <1>1, Incremented
<1>4. ~wrapped => /\ Date(loc, u).year = Date(loc, t).year
                  /\ \A g \in Fields : Pos(g) < Pos(pc) => Matches(g, u)
  BY <1>1, Incremented
<1>5. /\ loc' = loc /\ \A x : Due(x)' <=> Due(x)
      /\ \A g \in Fields : \A x : Matches(g, x)' <=> Matches(g, x)
  BY <1>2, SameClock
<1>6. InTime'
  <2>1. start \in Nat /\ t \in Nat /\ start < t
    BY <1>1, SchedulesAssumption DEF InTime
  <2>2. /\ start' \in Start /\ t' \in Nat /\ start' < t' /\ t' % SecondLen = 0
        /\ InCalendar(Wall(loc', t')) /\ yearLimit' \in Nat
        /\ (yearLimit' + 1) * MonthsPerYear < Months
        /\ Date(loc', start').year + YearSpan <= yearLimit'
    BY <1>1, <1>2, <1>3, <1>5, <2>1 DEF InTime
  <2>3. pc' \in Fields => Date(loc', t').year <= yearLimit'
    <3>1. "wrap" \notin Fields
      BY PosIs
    <3>. QED BY <1>1, <1>2, <1>4, <1>5, <3>1 DEF InTime
  <2>4. pc' # "none"
    BY <1>2, PosIs
  <2>. QED BY <2>2, <2>3, <2>4 DEF InTime
<1>7. PassedMatch'
  <2>. SUFFICES ASSUME NEW g \in Fields, Pos(g) < Passed(pc') PROVE Matches(g, t)'
    BY DEF PassedMatch
  <2>1. CASE wrapped
    BY <1>2, <2>1, PosIs DEF Passed
  <2>2. CASE ~wrapped
    <3>1. Passed(pc') = Pos(pc)
      BY <1>2, <2>2, PosIs DEF Passed
    <3>2. Matches(g, u)
      BY <1>4, <2>2, <3>1
    <3>3. Matches(g, u)'
      BY <1>5, <3>2
    <3>. QED BY <1>2, <3>3, <1>5, <3>2, PosIs DEF Matches
  <2>. QED BY <2>1, <2>2
<1>8. AtStart'
  BY <1>2, <1>3, <1>5 DEF AtStart
<1>9. NoneBefore'
  BY <1>2, <1>3, <1>5 DEF NoneBefore
<1>. QED BY <1>6, <1>7, <1>8, <1>9 DEF SearchInv

(* At a field that does not match; what it was reset to if need be. *)
At(f) == SearchInv /\ Searching /\ loc \in Zone /\ Flat(loc) /\ pc = f /\ ~Matches(f, t)

(* What is known when a field does not match. *)
LEMMA AtField ==
    ASSUME NEW f \in Fields, At(f)
    PROVE  /\ Rules[loc].base \in Nat /\ t \in Nat /\ t % SecondLen = 0
           /\ \A u \in Int : Wall(loc, u) = u + Rules[loc].base
           /\ \A x \in Int : Instants(loc, x) = {x - Rules[loc].base}
           /\ Wall(loc, t) \in Nat /\ InCalendar(Wall(loc, t))
           /\ Unit("month", Wall(loc, t)) < Months
           /\ added => Starts(f, Wall(loc, t))
<1>1. InTime /\ AtStart /\ pc = f
  BY DEF At, SearchInv
<1>2. /\ Rules[loc].base \in Nat /\ t \in Nat /\ t % SecondLen = 0
      /\ \A u \in Int : Wall(loc, u) = u + Rules[loc].base
      /\ \A x \in Int : Instants(loc, x) = {x - Rules[loc].base}
      /\ Wall(loc, t) \in Nat /\ InCalendar(Wall(loc, t))
  BY <1>1, FlatClock DEF At, InTime
<1>3. Unit("month", Wall(loc, t)) < Months
  <2>. DEFINE d == Wall(loc, t) \div DayLen
              y == yearLimit
  <2>1. d \in 0 .. Total - 1 /\ DateOf[d].year <= y /\ y \in Nat
        /\ (y + 1) * MonthsPerYear < Months
    BY <1>1, <1>2 DEF InTime, InCalendar, Date
  <2>. HIDE DEF d, y
  <2>2. DateOf[d].index <= (y + 1) * MonthsPerYear
    BY <2>1, YearType
  <2>3. DateOf[d].index \in Int /\ Months \in Int /\ (y + 1) * MonthsPerYear \in Int
    BY <2>1, DateIs, MonthsType, CalendarAssumption
  <2>. QED BY <2>1, <2>2, <2>3 DEF Unit, d
<1>4. added => Starts(f, Wall(loc, t))
  BY <1>1 DEF AtStart, At
<1>. QED BY <1>2, <1>3, <1>4

(* A reset is to the start of the unit, where the clock may be already. *)
LEMMA ResetTo ==
    ASSUME NEW f \in Fields, At(f), NEW x \in Int,
           Starts(f, Wall(loc, t)) => x = Wall(loc, t), NEW r \in Reset(x)
    PROVE  r \in Int /\ Wall(loc, r) = x
<1>1. CASE added
  BY <1>1, AtField DEF Reset
<1>2. CASE ~added
  BY <1>2, AtField DEF Reset
<1>. QED BY <1>1, <1>2

(* The month loop keeps the invariant. *)
LEMMA MonthStep ==
    ASSUME loc \in Zone, Flat(loc), SearchInv, Searching, IncMonth
    PROVE  SearchInv'
<1>. DEFINE w == Wall(loc, t)
            i == Unit("month", w)
            s == FirstDay[i] * DayLen
            base == Rules[loc].base
<1>1. "month" \in Fields /\ At("month")
  BY PosIs DEF At, IncMonth
<1>2. /\ base \in Nat /\ w \in Nat /\ InCalendar(w) /\ i < Months
      /\ \A u \in Int : Wall(loc, u) = u + base
      /\ \A x \in Int : Instants(loc, x) = {x - base}
  BY <1>1, AtField
<1>. HIDE DEF w, base
<1>3. i \in 1 .. Months /\ InMonth(w \div DayLen, i) /\ Months \in Nat /\ i = DateOf[w \div DayLen].index
      /\ DateOf[w \div DayLen].day = (w \div DayLen) - FirstDay[i] + 1
  BY <1>2, DateIs, MonthsType DEF InCalendar, Unit
<1>. HIDE DEF i
<1>4. /\ FirstDay[i] \in Nat /\ MonthDays[i] \in Nat /\ DayLen \in Nat \ {0}
      /\ FirstDay[i + 1] = FirstDay[i] + MonthDays[i] /\ FirstDay[i + 1] \in Nat
      /\ FirstDay[i] < FirstDay[i + 1]
      /\ FirstDay[i + 1] <= Total /\ Total \in Nat
  <2>1. FirstDay[i + 1] <= Total
    <3>1. i + 1 \in 1 .. Months + 1 /\ i + 1 < Months + 1 /\ Months + 1 \in 1 .. Months + 1
      BY <1>2, <1>3
    <3>. QED BY <3>1, FirstDayMono, FirstDayType DEF Total
  <2>. QED BY <1>3, <2>1, FirstDayIs, FirstDayType, FirstDayMono, MonthsType, Lengths DEF Total
<1>5. StartOfMonth(w) = s
  BY <1>3 DEF StartOfMonth
<1>6. s \in Nat /\ s \div DayLen = FirstDay[i] /\ DateOf[FirstDay[i]].index = i
  <2>1. s = DayLen * FirstDay[i] + 0 /\ s \in Nat
    BY <1>4
  <2>2. InMonth(FirstDay[i], i) /\ FirstDay[i] \in 0 .. Total - 1
    BY <1>4 DEF InMonth
  <2>3. DateOf[FirstDay[i]].index = i
    BY <1>3, <2>2, DateIs
  <2>. QED BY <1>4, <2>1, <2>3, EuclidUnique
<1>7. Starts("month", w) => s = w
  <2>. SUFFICES ASSUME w % DayLen = 0, DateOf[w \div DayLen].day = 1 PROVE s = w
    BY DEF Starts
  <2>1. w = DayLen * (w \div DayLen) + 0 /\ w \div DayLen \in Int
    BY <1>2, <1>4, Euclid
  <2>2. w \div DayLen = FirstDay[i]
    BY <1>3, <1>4, <2>1
  <2>. QED BY <1>4, <2>1, <2>2
<1>8. AddMonth(s) = FirstDay[i + 1] * DayLen
  <2>1. AddMonth(s) = s + MonthDays[i] * DayLen
    BY <1>6 DEF AddMonth
  <2>2. \A a, b, c \in Nat : a * c + b * c = (a + b) * c
    OBVIOUS
  <2>. QED BY <1>4, <2>1, <2>2
<1>9. PICK r \in Reset(s) : \E u \in Instants(loc, AddMonth(Wall(loc, r))) :
         Goto(u, Date(loc, u).month = 1)
  BY <1>5 DEF IncMonth, w
<1>. DEFINE v == FirstDay[i + 1] * DayLen
<1>10. Wall(loc, r) = s
  <2>. HIDE DEF s
  <2>. QED BY <1>1, <1>6, <1>7, <1>9, ResetTo DEF w
<1>11. v \in Int
  BY <1>4
<1>12. Steps("month", w, v)
  BY <1>2, NextMonth DEF i
<1>. DEFINE u == v - base
<1>13. Goto(u, Date(loc, u).month = 1) /\ u \in Int /\ Wall(loc, u) = v
  <2>. HIDE DEF v
  <2>. QED BY <1>2, <1>8, <1>9, <1>10, <1>11 DEF v
<1>14. (Date(loc, u).month = 1) <=> WrappedAt("month", v)
  BY <1>13 DEF WrappedAt, Date
<1>. HIDE DEF u, v
<1>. QED BY <1>1, <1>12, <1>13, <1>14, GotoKeeps DEF At, w

(* The start of the unit of w, and of the next one. *)
LEMMA UnitStart ==
    ASSUME NEW f \in Fields \ {"month"}, NEW w \in Nat
    PROVE  /\ w - (w % UnitLen(f)) \in Int /\ UnitLen(f) \in Nat \ {0}
           /\ Starts(f, w) => w - (w % UnitLen(f)) = w
<1>0. f = "day" \/ f = "hour" \/ f = "minute" \/ f = "second"
  BY PosIs
<1>1. UnitLen(f) \in Nat \ {0}
  BY <1>0, Lengths DEF UnitLen
<1>2. Starts(f, w) <=> w % UnitLen(f) = 0
  BY <1>0 DEF UnitLen, Starts
<1>3. w % UnitLen(f) \in Int
  BY <1>1, Euclid
<1>. QED BY <1>1, <1>2, <1>3

(* Where a unit starts, the one above does when its count is back at 0. *)
LEMMA WrapIs ==
    ASSUME NEW u \in Int, Wall(loc, u) \in Nat, InCalendar(Wall(loc, u))
    PROVE  /\ Starts("day", Wall(loc, u))
                => ((Date(loc, u).day = 1) <=> WrappedAt("day", Wall(loc, u)))
           /\ Starts("hour", Wall(loc, u))
                => ((Hour(loc, u) = 0) <=> WrappedAt("hour", Wall(loc, u)))
           /\ Starts("minute", Wall(loc, u))
                => ((Minute(loc, u) = 0) <=> WrappedAt("minute", Wall(loc, u)))
           /\ Starts("second", Wall(loc, u))
                => ((Second(loc, u) = 0) <=> WrappedAt("second", Wall(loc, u)))
<1>. DEFINE v == Wall(loc, u)
<1>1. /\ Date(loc, u) = DateOf[v \div DayLen] /\ Hour(loc, u) = (v % DayLen) \div HourLen
      /\ Minute(loc, u) = (v % HourLen) \div MinuteLen
      /\ Second(loc, u) = (v % MinuteLen) \div SecondLen
  BY DEF Date, Hour, Minute, Second
<1>2. v \in Int /\ v \in Nat
  OBVIOUS
<1>. HIDE DEF v
<1>3. /\ WrappedAt("day", v) = Starts("month", v) /\ WrappedAt("hour", v) = Starts("day", v)
      /\ WrappedAt("minute", v) = Starts("hour", v) /\ WrappedAt("second", v) = Starts("minute", v)
  BY DEF WrappedAt, Above
<1>4. Unit("day", v) = v \div DayLen
  BY DEF Unit
<1>5. /\ Starts("day", v) => ((Date(loc, u).day = 1) <=> WrappedAt("day", v))
      /\ Starts("hour", v) => ((Hour(loc, u) = 0) <=> WrappedAt("hour", v))
      /\ Starts("minute", v) => ((Minute(loc, u) = 0) <=> WrappedAt("minute", v))
      /\ Starts("second", v) => ((Second(loc, u) = 0) <=> WrappedAt("second", v))
  BY <1>1, <1>2, <1>3, <1>4, UnitsNest
<1>. QED BY <1>5 DEF v

(* The unit after that of the candidate, and the instant of its start. *)
LEMMA NextAt ==
    ASSUME NEW f \in Fields \ {"month"}, At(f), NEW s \in Int, NEW v \in Int,
           s = Wall(loc, t) - (Wall(loc, t) % UnitLen(f)), v = s + UnitLen(f)
    PROVE  /\ Steps(f, Wall(loc, t), v) /\ Starts(f, v) /\ InCalendar(v) /\ v \in Nat
           /\ v - Rules[loc].base \in Int /\ Wall(loc, v - Rules[loc].base) = v
<1>. DEFINE w == Wall(loc, t)
<1>1. /\ w \in Nat /\ InCalendar(w) /\ Unit("month", w) < Months /\ Rules[loc].base \in Nat
      /\ \A u \in Int : Wall(loc, u) = u + Rules[loc].base
  BY AtField
<1>2. Steps(f, w, v)
  <2>. HIDE DEF w
  <2>. QED BY <1>1, NextUnit DEF w
<1>3. Starts(f, v) /\ InCalendar(v)
  BY <1>2, PosIs DEF Steps
<1>. QED BY <1>1, <1>2, <1>3 DEF InCalendar

(* The day loop keeps the invariant. *)
LEMMA DayStep ==
    ASSUME loc \in Zone, Flat(loc), SearchInv, Searching, IncDay
    PROVE  SearchInv'
<1>. DEFINE w == Wall(loc, t)
            s == w - (w % DayLen)
            v == s + DayLen
            u == v - Rules[loc].base
<1>1. "day" \in Fields \ {"month"} /\ At("day") /\ UnitLen("day") = DayLen
  BY PosIs DEF At, IncDay, UnitLen
<1>2. /\ Rules[loc].base \in Nat /\ w \in Nat
      /\ \A x \in Int : Instants(loc, x) = {x - Rules[loc].base}
  BY <1>1, AtField
<1>3. s \in Int /\ v \in Int /\ (Starts("day", w) => s = w)
  <2>. HIDE DEF w
  <2>. QED BY <1>1, <1>2, UnitStart
<1>4. /\ Steps("day", w, v) /\ Starts("day", v) /\ InCalendar(v) /\ v \in Nat
      /\ u \in Int /\ Wall(loc, u) = v
  <2>. HIDE DEF v
  <2>. QED BY <1>1, <1>3, NextAt DEF v
<1>5. PICK r \in Reset(s) : \E a \in Instants(loc, AddDay(Wall(loc, r))) :
         LET x == ToMidnight(a) IN Goto(x, Date(loc, x).day = 1)
  BY DEF IncDay, StartOfDay
<1>6. Wall(loc, r) = s
  <2>. HIDE DEF s
  <2>. QED BY <1>1, <1>3, <1>5, ResetTo
<1>7. Goto(ToMidnight(u), Date(loc, ToMidnight(u)).day = 1)
  BY <1>2, <1>3, <1>5, <1>6 DEF AddDay
<1>8. ToMidnight(u) = u
  <2>1. v % DayLen = 0
    BY <1>4 DEF Starts
  <2>2. Hour(loc, u) = 0 \div HourLen
    BY <1>4, <2>1 DEF Hour
  <2>3. 0 \div HourLen = 0 /\ HoursPerDay \div 2 >= 0 /\ HoursPerDay \div 2 \in Int
    BY Lengths
  <2>4. ~(Hour(loc, u) > HoursPerDay \div 2) /\ Hour(loc, u) * HourLen = 0
    BY <2>2, <2>3, Lengths
  <2>. HIDE DEF u
  <2>. QED BY <1>4, <2>4 DEF ToMidnight
<1>9. Goto(u, Date(loc, u).day = 1)
  BY <1>7, <1>8
<1>. HIDE DEF u, v
<1>10. (Date(loc, u).day = 1) <=> WrappedAt("day", v)
  BY <1>4, WrapIs
<1>. QED BY <1>1, <1>4, <1>9, <1>10, GotoKeeps DEF At

(* The hour loop keeps the invariant. *)
LEMMA HourStep ==
    ASSUME loc \in Zone, Flat(loc), SearchInv, Searching, IncHour
    PROVE  SearchInv'
<1>. DEFINE w == Wall(loc, t)
            s == w - (w % HourLen)
            v == s + HourLen
            u == v - Rules[loc].base
<1>1. "hour" \in Fields \ {"month"} /\ At("hour") /\ UnitLen("hour") = HourLen
  BY PosIs DEF At, IncHour, UnitLen
<1>2. /\ Rules[loc].base \in Nat /\ w \in Nat
      /\ \A x \in Int : Wall(loc, x) = x + Rules[loc].base
  BY <1>1, AtField
<1>3. s \in Int /\ v \in Int /\ (Starts("hour", w) => s = w)
  <2>. HIDE DEF w
  <2>. QED BY <1>1, <1>2, UnitStart
<1>4. /\ Steps("hour", w, v) /\ Starts("hour", v) /\ InCalendar(v) /\ v \in Nat
      /\ u \in Int /\ Wall(loc, u) = v
  <2>. HIDE DEF v
  <2>. QED BY <1>1, <1>3, NextAt DEF v
<1>5. PICK r \in Reset(s) : Goto(r + HourLen, Hour(loc, r + HourLen) = 0)
  BY DEF IncHour
<1>6. r \in Int /\ Wall(loc, r) = s
  <2>. HIDE DEF s
  <2>. QED BY <1>1, <1>3, <1>5, ResetTo
<1>7. r + HourLen = u
  <2>1. r + Rules[loc].base = s
    BY <1>2, <1>6
  <2>. HIDE DEF s
  <2>. QED BY <1>2, <1>3, <1>6, <2>1, Lengths
<1>. HIDE DEF u, v
<1>8. (Hour(loc, u) = 0) <=> WrappedAt("hour", v)
  BY <1>4, WrapIs
<1>. QED BY <1>1, <1>4, <1>5, <1>7, <1>8, GotoKeeps DEF At

(* The minute loop keeps the invariant. *)
LEMMA MinuteStep ==
    ASSUME loc \in Zone, Flat(loc), SearchInv, Searching, IncMinute
    PROVE  SearchInv'
<1>. DEFINE w == Wall(loc, t)
            base == Rules[loc].base
            s == w - (w % MinuteLen)
            v == s + MinuteLen
            u == v - base
            r == IF added THEN t ELSE t - (t % MinuteLen)
<1>1. "minute" \in Fields \ {"month"} /\ At("minute") /\ UnitLen("minute") = MinuteLen
  BY PosIs DEF At, IncMinute, UnitLen
<1>2. /\ base \in Nat /\ w \in Nat /\ t \in Nat /\ MinuteLen \in Nat \ {0}
      /\ \A x \in Int : Wall(loc, x) = x + base
      /\ added => Starts("minute", w)
  BY <1>1, AtField, Lengths
<1>3. s \in Int /\ v \in Int /\ (Starts("minute", w) => s = w)
  <2>. HIDE DEF w
  <2>1. /\ w - (w % UnitLen("minute")) \in Int /\ UnitLen("minute") \in Nat
        /\ Starts("minute", w) => w - (w % UnitLen("minute")) = w
    BY <1>1, <1>2, UnitStart
  <2>2. s \in Int /\ MinuteLen \in Int /\ (Starts("minute", w) => s = w)
    BY <1>1, <2>1
  <2>. HIDE DEF s
  <2>. QED BY <2>2
<1>4. /\ Steps("minute", w, v) /\ Starts("minute", v) /\ InCalendar(v) /\ v \in Nat
      /\ u \in Int /\ Wall(loc, u) = v
  <2>. HIDE DEF v
  <2>. QED BY <1>1, <1>3, NextAt DEF v
<1>5. w % MinuteLen = t % MinuteLen
  <2>1. base % MinuteLen = 0 /\ w = t + base
    BY <1>2 DEF Flat
  <2>. HIDE DEF w, base
  <2>2. base \in Int /\ t \in Int
    BY <1>2
  <2>3. (t + base) % MinuteLen = t % MinuteLen
    BY <1>2, <2>1, <2>2, SameRemainder
  <2>. QED BY <2>1, <2>3
<1>6. r + MinuteLen = u
  <2>1. r + base = s
    <3>1. CASE added
      BY <1>2, <1>3, <3>1
    <3>2. CASE ~added
      <4>1. t % MinuteLen \in Int /\ w = t + base
        BY <1>2, Euclid
      <4>2. r = t - (t % MinuteLen) /\ s = w - (t % MinuteLen)
        BY <1>5, <3>2
      <4>. HIDE DEF r, s, w, base
      <4>. QED BY <1>2, <4>1, <4>2
    <3>. QED BY <3>1, <3>2
  <2>2. r \in Int /\ base \in Int /\ s \in Int /\ MinuteLen \in Int
    BY <1>2, <1>3, Euclid
  <2>3. \A i, j, k, m \in Int : i + j = k => i + m = (k + m) - j
    OBVIOUS
  <2>. HIDE DEF r, s, base
  <2>. QED BY <2>1, <2>2, <2>3
<1>7. Goto(u, Minute(loc, u) = 0)
  BY <1>6 DEF IncMinute
<1>. HIDE DEF u, v
<1>8. (Minute(loc, u) = 0) <=> WrappedAt("minute", v)
  BY <1>4, WrapIs
<1>. QED BY <1>1, <1>4, <1>7, <1>8, GotoKeeps DEF At

(* The second loop keeps the invariant. *)
LEMMA SecondStep ==
    ASSUME loc \in Zone, Flat(loc), SearchInv, Searching, IncSecond
    PROVE  SearchInv'
<1>. DEFINE w == Wall(loc, t)
            base == Rules[loc].base
            s == w - (w % SecondLen)
            v == s + SecondLen
            u == v - base
<1>1. "second" \in Fields \ {"month"} /\ At("second") /\ UnitLen("second") = SecondLen
  BY PosIs DEF At, IncSecond, UnitLen
<1>2. /\ base \in Nat /\ w \in Nat /\ t \in Nat /\ t % SecondLen = 0
      /\ \A x \in Int : Wall(loc, x) = x + base
  BY <1>1, AtField, Lengths
<1>3. s \in Int /\ v \in Int /\ (Starts("second", w) => s = w)
  <2>. HIDE DEF w
  <2>. QED BY <1>1, <1>2, UnitStart
<1>4. /\ Steps("second", w, v) /\ Starts("second", v) /\ InCalendar(v) /\ v \in Nat
      /\ u \in Int /\ Wall(loc, u) = v
  <2>. HIDE DEF v
  <2>. QED BY <1>1, <1>3, NextAt DEF v
<1>5. Starts("second", w)
  <2>1. Starts("minute", base)
    BY DEF Flat, Starts
  <2>2. Starts("second", base)
    BY <1>2, <2>1, UnitsNest
  <2>3. base % 2 = 0 /\ t % 2 = 0 /\ w = t + base
    BY <1>2, <2>2 DEF Starts, SecondLen
  <2>4. w % 2 = 0
    <3>. HIDE DEF base, w
    <3>. QED BY <1>2, <2>3
  <2>. QED BY <2>4 DEF Starts, SecondLen
<1>6. t + SecondLen = u
  <2>1. s = w /\ w = t + base /\ SecondLen \in Int
    BY <1>2, <1>3, <1>5, Lengths
  <2>. HIDE DEF s, w, base
  <2>. QED BY <1>2, <2>1
<1>7. Goto(u, Second(loc, u) = 0)
  BY <1>6 DEF IncSecond
<1>. HIDE DEF u, v
<1>8. (Second(loc, u) = 0) <=> WrappedAt("second", v)
  BY <1>4, WrapIs
<1>. QED BY <1>1, <1>4, <1>7, <1>8, GotoKeeps DEF At

-------------------------------------------------------------------------------
(* The bits of a range *)

(* The equation of the loop of getBits, and its solution. *)
Loops(g, max, step) ==
    g = [i \in Nat |-> IF i > max THEN {} ELSE {i} \cup g[i + step]]

Multiples(i, max, step) == {v \in Nat : i <= v /\ v <= max /\ (v - i) % step = 0}

(* The multiples from i on are i and those from i + step on. *)
LEMMA MultiplesStep ==
    ASSUME NEW i \in Nat, NEW max \in Nat, NEW step \in Nat \ {0}
    PROVE  Multiples(i, max, step) = IF i > max THEN {} ELSE {i} \cup Multiples(i + step, max, step)
<1>1. CASE i > max
  BY <1>1 DEF Multiples
<1>2. CASE i <= max
  <2>1. (0 - step) % step = 0 /\ 0 % step = 0
    <3>1. 0 - step = step * (0 - 1) + 0 /\ 0 = step * 0 + 0
      OBVIOUS
    <3>. QED BY <3>1, EuclidUnique
  <2>2. ASSUME NEW v \in Nat PROVE (v - (i + step)) % step = (v - i) % step
    <3>. DEFINE a == v - i
                b == 0 - step
    <3>1. a \in Int /\ b \in Int /\ b % step = 0 /\ v - (i + step) = a + b
      BY <2>1
    <3>. HIDE DEF a, b
    <3>2. (a + b) % step = a % step
      BY <3>1, SameRemainder
    <3>. QED BY <3>1, <3>2 DEF a
  <2>3. ASSUME NEW v \in Nat, i < v, (v - i) % step = 0 PROVE i + step <= v
    <3>. SUFFICES ASSUME v - i < step PROVE FALSE
      BY <2>3
    <3>1. v - i = step * 0 + (v - i)
      OBVIOUS
    <3>2. (v - i) % step = v - i
      BY <2>3, <3>1, EuclidUnique
    <3>. QED BY <2>3, <3>2
  <2>4. (i - i) % step = 0
    BY <2>1
  <2>5. ASSUME NEW v \in Nat
        PROVE  v \in Multiples(i, max, step) <=> v = i \/ v \in Multiples(i + step, max, step)
    <3>1. CASE v = i
      BY <1>2, <2>4, <3>1 DEF Multiples
    <3>2. CASE v < i
      BY <3>2 DEF Multiples
    <3>3. CASE i < v
      BY <2>2, <2>3, <3>3 DEF Multiples
    <3>. QED BY <3>1, <3>2, <3>3
  <2>6. Multiples(i, max, step) \subseteq Nat /\ Multiples(i + step, max, step) \subseteq Nat
    BY DEF Multiples
  <2>. QED BY <1>2, <2>5, <2>6
<1>. QED BY <1>1, <1>2

(* The recursive definition of the loop of getBits has a solution. *)
LEMMA LoopExists ==
    ASSUME NEW max \in Nat, NEW step \in Nat \ {0}
    PROVE  \E g : Loops(g, max, step)
<1>. DEFINE g == [i \in Nat |-> Multiples(i, max, step)]
<1>1. \A i \in Nat : g[i] = Multiples(i, max, step)
  OBVIOUS
<1>2. \A i \in Nat : g[i] = IF i > max THEN {} ELSE {i} \cup g[i + step]
  BY <1>1, MultiplesStep
<1>3. g = [i \in Nat |-> g[i]]
  OBVIOUS
<1>. HIDE DEF g
<1>4. Loops(g, max, step)
  BY <1>2, <1>3, Zenon DEF Loops
<1>. QED BY <1>4

(* The loop of getBits from i on gives the multiples from i on. *)
LEMMA LoopIs ==
    ASSUME NEW max \in Nat, NEW step \in Nat \ {0}, NEW g, Loops(g, max, step)
    PROVE  \A i \in Nat : g[i] = Multiples(i, max, step)
<1>1. \A i \in Nat : g[i] = IF i > max THEN {} ELSE {i} \cup g[i + step]
  BY DEF Loops
<1>2. \A i \in Nat : i > max => g[i] = Multiples(i, max, step)
  BY <1>1, MultiplesStep
<1>. DEFINE Bad == {i \in 0 .. max : g[i] # Multiples(i, max, step)}
            Left == {max - i : i \in Bad}
<1>. SUFFICES ASSUME Bad # {} PROVE FALSE
  BY <1>2
<1>3. PICK m \in Left : \A n \in Left : m <= n
  <2>1. Left \in SUBSET Nat /\ Left # {}
    OBVIOUS
  <2>. HIDE DEF Left
  <2>. QED BY <2>1, LeastNumber
<1>4. PICK i \in Bad : m = max - i
  BY <1>3
<1>5. g[i + step] = Multiples(i + step, max, step)
  <2>1. CASE i + step > max
    BY <1>2, <2>1
  <2>2. CASE i + step <= max
    <3>1. i + step \in 0 .. max /\ max - (i + step) < m
      BY <1>4, <2>2
    <3>2. i + step \notin Bad
      <4>. SUFFICES ASSUME i + step \in Bad PROVE FALSE
        OBVIOUS
      <4>1. max - (i + step) \in Left
        OBVIOUS
      <4>2. m <= max - (i + step)
        <5>. HIDE DEF Left
        <5>. QED BY <1>3, <4>1
      <4>. QED BY <1>4, <3>1, <4>2
    <3>. QED BY <3>1, <3>2
  <2>. QED BY <2>1, <2>2
<1>6. i \in Nat /\ i + step \in Nat
  OBVIOUS
<1>7. g[i] = Multiples(i, max, step)
  <2>1. ~(i > max)
    OBVIOUS
  <2>2. Multiples(i, max, step) = {i} \cup Multiples(i + step, max, step)
    BY <1>6, <2>1, MultiplesStep
  <2>3. g[i] = {i} \cup g[i + step]
    BY <1>1, <1>6, <2>1
  <2>. QED BY <1>5, <2>2, <2>3
<1>. QED BY <1>7

(* getBits: every step-th number from min up to max. *)
LEMMA BitsAre ==
    ASSUME NEW min \in Nat, NEW max \in Nat, NEW step \in Nat \ {0}, NEW v \in Int
    PROVE  v \in getBits(min, max, step)
             <=> min <= v /\ v <= max /\ (v - min) % step = 0
<1>1. CASE step = 1
  <2>1. getBits(min, max, step) = {b \in 0 .. max : b >= min}
    BY <1>1 DEF getBits
  <2>2. (v - min) % 1 = 0
    OBVIOUS
  <2>. QED BY <1>1, <2>1, <2>2
<1>2. CASE step # 1
  <2>. DEFINE g == CHOOSE f : Loops(f, max, step)
  <2>1. getBits(min, max, step) = g[min]
    BY <1>2 DEF getBits, Loops
  <2>2. Loops(g, max, step)
    BY LoopExists
  <2>. HIDE DEF g
  <2>3. g[min] = Multiples(min, max, step)
    BY <2>2, LoopIs
  <2>. QED BY <2>1, <2>3 DEF Multiples
<1>. QED BY <1>1, <1>2

(* The bounds of the fields. *)
LEMMA LongestMonth == Max({MonthDays[i] : i \in DOMAIN MonthDays}) \in Nat \ {0}
<1>. DEFINE D == {MonthDays[i] : i \in DOMAIN MonthDays}
            U == {n \in Nat : \A d \in D : d <= n}
<1>0. DOMAIN MonthDays = 1 .. Months /\ Months \in Nat \ {0}
      /\ \A i \in 1 .. Months : MonthDays[i] \in Nat \ {0}
  BY MonthsType, CalendarAssumption DEF Months
<1>1. D \subseteq Nat \ {0} /\ MonthDays[1] \in D
  BY <1>0
<1>2. Total \in U
  <2>1. Total \in Nat
    BY FirstDayType, MonthsType DEF Total
  <2>2. ASSUME NEW i \in 1 .. Months PROVE MonthDays[i] <= Total
    <3>1. FirstDay[i + 1] = FirstDay[i] + MonthDays[i] /\ FirstDay[i] \in Nat
          /\ FirstDay[i + 1] \in Nat
      BY <1>0, FirstDayIs, FirstDayType
    <3>2. FirstDay[i + 1] <= Total
      <4>1. CASE i = Months
        BY <2>1, <4>1 DEF Total
      <4>2. CASE i # Months
        <5>1. i + 1 \in 1 .. Months + 1 /\ Months + 1 \in 1 .. Months + 1 /\ i + 1 < Months + 1
          BY <1>0, <4>2
        <5>. QED BY <2>1, <3>1, <5>1, FirstDayMono DEF Total
      <4>. QED BY <4>1, <4>2
    <3>. QED BY <1>0, <2>1, <3>1, <3>2
  <2>. QED BY <1>0, <2>1, <2>2
<1>. HIDE DEF D
<1>3. PICK m \in U : \A n \in U : m <= n
  <2>1. U \in SUBSET Nat
    OBVIOUS
  <2>. HIDE DEF U
  <2>. QED BY <1>2, <2>1, LeastNumber
<1>4. m \in D
  <2>. SUFFICES ASSUME m \notin D PROVE FALSE
    OBVIOUS
  <2>1. \A d \in D : d \in Nat /\ d <= m - 1
    BY <1>1, <1>3
  <2>2. m - 1 \in Nat
    <3>1. MonthDays[1] \in D /\ MonthDays[1] \in Nat \ {0} /\ m \in Nat
      BY <1>1, <1>3
    <3>2. MonthDays[1] <= m - 1
      BY <2>1, <3>1
    <3>. QED BY <3>1, <3>2
  <2>3. m - 1 \in U
    BY <2>1, <2>2
  <2>. QED BY <1>3, <2>3
<1>5. m \in D /\ \A d \in D : m >= d
  BY <1>1, <1>3, <1>4
<1>6. Max(D) \in D
  BY <1>5 DEF Max
<1>. QED BY <1>1, <1>6 DEF D

(* The bounds of the fields are numbers in order. *)
LEMMA BoundsType ==
    ASSUME NEW i \in 1 .. 6
    PROVE  /\ bounds[i].min \in Nat /\ bounds[i].max \in Nat
           /\ bounds[i].min <= bounds[i].max
<1>1. /\ SecondsPerMinute \in Nat \ {0} /\ MinutesPerHour \in Nat \ {0}
      /\ HoursPerDay \in Nat \ {0} /\ MonthsPerYear \in Nat \ {0} /\ DaysPerWeek \in Nat \ {0}
  BY CalendarAssumption
<1>. DEFINE m == Max({MonthDays[k] : k \in DOMAIN MonthDays})
<1>2. m \in Nat \ {0}
  BY LongestMonth
<1>3. bounds = <<[min |-> 0, max |-> SecondsPerMinute - 1, names |-> FALSE],
                 [min |-> 0, max |-> MinutesPerHour - 1, names |-> FALSE],
                 [min |-> 0, max |-> HoursPerDay - 1, names |-> FALSE],
                 [min |-> 1, max |-> m, names |-> FALSE],
                 [min |-> 1, max |-> MonthsPerYear, names |-> TRUE],
                 [min |-> 0, max |-> DaysPerWeek - 1, names |-> TRUE]>>
  BY DEF bounds
<1>. HIDE DEF m
<1>4. /\ bounds[1] = [min |-> 0, max |-> SecondsPerMinute - 1, names |-> FALSE]
      /\ bounds[2] = [min |-> 0, max |-> MinutesPerHour - 1, names |-> FALSE]
      /\ bounds[3] = [min |-> 0, max |-> HoursPerDay - 1, names |-> FALSE]
      /\ bounds[4] = [min |-> 1, max |-> m, names |-> FALSE]
      /\ bounds[5] = [min |-> 1, max |-> MonthsPerYear, names |-> TRUE]
      /\ bounds[6] = [min |-> 0, max |-> DaysPerWeek - 1, names |-> TRUE]
  BY <1>3
<1>. HIDE <1>3
<1>5. i = 1 \/ i = 2 \/ i = 3 \/ i = 4 \/ i = 5 \/ i = 6
  OBVIOUS
<1>. QED BY <1>1, <1>2, <1>4, <1>5

-------------------------------------------------------------------------------
(* Ranges *)

RangeText == [atoms : Seq(Atom) \ {<<>>}, steps : Seq(Atom)]

NamedBy(x, r, v) ==
    Lowest(x, r) <= v /\ v <= Highest(x, r) /\ (v - Lowest(x, r)) % StepOf(x) = 0

OpenRange(x) == x.atoms[1] = Star /\ StepOf(x) = 1

(* The form that getRange asks for, apart from the bounds. *)
RangeForm(x, names) ==
    /\ \/ x.atoms[1] = Star
       \/ Len(x.atoms) <= 2 /\ \A k \in DOMAIN x.atoms : IsInt(x.atoms[k], names)
    /\ \/ x.steps = <<>>
       \/ Len(x.steps) = 1 /\ IsInt(x.steps[1], FALSE)

Accepted(x, r) ==
    RangeForm(x, r.names) /\ InBounds(Lowest(x, r), Highest(x, r), StepOf(x), r)

(* getRange, its refusals and its result. *)
LEMMA RangeIs ==
    ASSUME NEW x, NEW r
    PROVE  getRange(x, r) =
             IF Accepted(x, r)
             THEN [ok |-> TRUE, bits |-> getBits(Lowest(x, r), Highest(x, r), StepOf(x)),
                   star |-> OpenRange(x)]
             ELSE error
  BY Zenon DEF getRange, Accepted, RangeForm, Lowest, Highest, StepOf, OpenRange

(* The number of an atom that is one. *)
LEMMA AtomNumber ==
    ASSUME NEW a \in Atom, a[1] = "num" \/ a[1] = "name"
    PROVE  a[2] \in Nat /\ a # Star
  BY DEF Atom, Star, Junk

(* The parts of a range of a text. *)
LEMMA RangeType ==
    ASSUME NEW x \in RangeText
    PROVE  /\ Len(x.atoms) \in Nat \ {0} /\ DOMAIN x.atoms = 1 .. Len(x.atoms)
           /\ \A k \in 1 .. Len(x.atoms) : x.atoms[k] \in Atom
           /\ Len(x.steps) \in Nat /\ (x.steps # <<>> => Len(x.steps) > 0)
           /\ \A k \in 1 .. Len(x.steps) : x.steps[k] \in Atom
<1>1. x.atoms \in Seq(Atom) /\ x.atoms # <<>> /\ x.steps \in Seq(Atom)
  BY DEF RangeText
<1>. QED BY <1>1

(* The ends and the step of a range that getRange accepts are numbers. *)
LEMMA AcceptedType ==
    ASSUME NEW x \in RangeText, NEW i \in 1 .. 6, Accepted(x, bounds[i])
    PROVE  /\ Lowest(x, bounds[i]) \in Nat /\ Highest(x, bounds[i]) \in Nat
           /\ StepOf(x) \in Nat \ {0}
<1>. DEFINE r == bounds[i]
<1>0. r.min \in Nat /\ r.max \in Nat
  BY BoundsType
<1>. HIDE DEF r
<1>1. \/ x.atoms[1] = Star
      \/ /\ x.atoms[1][2] \in Nat /\ x.atoms[Len(x.atoms)][2] \in Nat
         /\ x.atoms[1] # Star
  <2>. SUFFICES ASSUME x.atoms[1] # Star
       PROVE  x.atoms[1][2] \in Nat /\ x.atoms[Len(x.atoms)][2] \in Nat
    OBVIOUS
  <2>1. \A k \in 1 .. Len(x.atoms) : x.atoms[k] \in Atom /\ IsInt(x.atoms[k], r.names)
    BY RangeType DEF Accepted, RangeForm, r
  <2>2. 1 \in 1 .. Len(x.atoms) /\ Len(x.atoms) \in 1 .. Len(x.atoms)
    BY RangeType
  <2>3. \A k \in 1 .. Len(x.atoms) : x.atoms[k][2] \in Nat
    BY <2>1, AtomNumber DEF IsInt
  <2>. QED BY <2>2, <2>3
<1>2. Lowest(x, r) \in Nat /\ Highest(x, r) \in Nat
  BY <1>0, <1>1 DEF Lowest, Highest
<1>3. StepOf(x) \in Nat \ {0}
  <2>1. x.steps # <<>> => x.steps[1][2] \in Nat
    <3>. SUFFICES ASSUME x.steps # <<>> PROVE x.steps[1][2] \in Nat
      OBVIOUS
    <3>1. IsInt(x.steps[1], FALSE) /\ Len(x.steps) = 1
      BY DEF Accepted, RangeForm
    <3>2. x.steps[1] \in Atom
      BY <3>1, RangeType
    <3>. QED BY <3>1, <3>2, AtomNumber DEF IsInt
  <2>2. StepOf(x) > 0
    BY DEF Accepted, InBounds
  <2>. QED BY <2>1, <2>2 DEF StepOf
<1>. QED BY <1>2, <1>3 DEF r

(* The bits and the star of an accepted range are what its text says. *)
LEMMA RangeMeans ==
    ASSUME NEW x \in RangeText, NEW i \in 1 .. 6, getRange(x, bounds[i]).ok
    PROVE  /\ \A v \in Int : v \in getRange(x, bounds[i]).bits <=> NamedBy(x, bounds[i], v)
           /\ getRange(x, bounds[i]).star <=> OpenRange(x)
<1>1. Accepted(x, bounds[i])
  BY RangeIs DEF error
<1>2. /\ getRange(x, bounds[i]).bits
           = getBits(Lowest(x, bounds[i]), Highest(x, bounds[i]), StepOf(x))
      /\ getRange(x, bounds[i]).star = OpenRange(x)
  BY <1>1, RangeIs
<1>3. \A v \in Int : v \in getBits(Lowest(x, bounds[i]), Highest(x, bounds[i]), StepOf(x))
                       <=> NamedBy(x, bounds[i], v)
  BY <1>1, AcceptedType, BitsAre DEF NamedBy
<1>. QED BY <1>2, <1>3

(* getRange accepts the ranges of the documented form, and lenient ones. *)
LEMMA RangeAccepts ==
    ASSUME NEW x \in RangeText, NEW i \in 1 .. 6
    PROVE  /\ ValidRange(x, i) => getRange(x, bounds[i]).ok
           /\ getRange(x, bounds[i]).ok => ValidRange(x, i) \/ LenientRange(x)
<1>. DEFINE r == bounds[i]
            lo == Lowest(x, r)
            hi == Highest(x, r)
            n == Len(x.atoms)
<1>0. getRange(x, r).ok <=> Accepted(x, r)
  BY RangeIs DEF error
<1>1. /\ r.min \in Nat /\ r.max \in Nat /\ r.min <= r.max
      /\ n \in Nat \ {0} /\ DOMAIN x.atoms = 1 .. n /\ \A k \in 1 .. n : x.atoms[k] \in Atom
      /\ x.steps # <<>> => Len(x.steps) > 0
  BY BoundsType, RangeType
<1>. HIDE DEF r
<1>2. ASSUME ValidRange(x, i) PROVE Accepted(x, r)
  <2>1. /\ \/ x.steps = <<>>
           \/ Len(x.steps) = 1 /\ IsInt(x.steps[1], FALSE)
        /\ StepOf(x) > 0
    BY <1>2 DEF ValidRange, IsInt, StepOf
  <2>2. CASE x.atoms = <<Star>>
    <3>1. x.atoms[1] = Star /\ lo = r.min /\ hi = r.max
      BY <2>2 DEF Lowest, Highest
    <3>2. RangeForm(x, r.names)
      BY <2>1, <3>1 DEF RangeForm
    <3>. HIDE DEF lo, hi
    <3>3. InBounds(lo, hi, StepOf(x), r)
      BY <1>1, <2>1, <3>1 DEF InBounds
    <3>. QED BY <3>2, <3>3 DEF Accepted, lo, hi
  <2>3. CASE /\ n \in {1, 2} /\ \A k \in DOMAIN x.atoms : Number(x.atoms[k], i)
             /\ lo <= hi
    <3>1. ASSUME NEW k \in 1 .. n
          PROVE  /\ IsInt(x.atoms[k], r.names) /\ x.atoms[k] # Star
                 /\ r.min <= x.atoms[k][2] /\ x.atoms[k][2] <= r.max
      <4>1. Number(x.atoms[k], i) /\ x.atoms[k] \in Atom
        BY <1>1, <2>3
      <4>2. IsInt(x.atoms[k], r.names)
        BY <4>1 DEF Number, IsInt, r
      <4>3. x.atoms[k] # Star
        BY <4>1, <4>2, AtomNumber DEF IsInt
      <4>. QED BY <1>1, <4>1, <4>2, <4>3 DEF Number, r
    <3>2. 1 \in 1 .. n /\ n \in 1 .. n /\ n <= 2
      BY <1>1, <2>3
    <3>3. lo = x.atoms[1][2] /\ hi \in {r.max, x.atoms[n][2]}
      BY <3>1, <3>2 DEF Lowest, Highest
    <3>4. r.min <= lo /\ hi <= r.max
      BY <1>1, <3>1, <3>2, <3>3
    <3>5. RangeForm(x, r.names)
      BY <1>1, <2>1, <3>1, <3>2 DEF RangeForm
    <3>. QED BY <2>1, <2>3, <3>4, <3>5 DEF Accepted, InBounds
  <2>. QED BY <1>2, <2>2, <2>3 DEF ValidRange, r
<1>3. ASSUME Accepted(x, r), ~LenientRange(x) PROVE ValidRange(x, i)
  <2>0. /\ lo \in Nat /\ hi \in Nat /\ StepOf(x) \in Nat \ {0}
        /\ r.min <= lo /\ lo <= hi /\ hi <= r.max
    BY <1>3, AcceptedType DEF Accepted, InBounds, r
  <2>1. x.steps # <<>> => /\ Len(x.steps) = 1 /\ x.steps[1][1] = "num"
                          /\ x.steps[1][2] > 0
    BY <1>3, <2>0 DEF Accepted, RangeForm, IsInt, StepOf
  <2>2. CASE x.atoms[1] = Star
    <3>1. n = 1
      <4>1. ~(n > 1)
        BY <1>3, <2>2 DEF LenientRange
      <4>. HIDE DEF n
      <4>. QED BY <1>1, <4>1
    <3>2. x.atoms = <<Star>>
      <4>1. x.atoms \in Seq(Atom)
        BY DEF RangeText
      <4>. QED BY <2>2, <3>1, <4>1
    <3>. QED BY <2>1, <3>2 DEF ValidRange
  <2>3. CASE x.atoms[1] # Star
    <3>1. n \in {1, 2} /\ \A k \in 1 .. n : IsInt(x.atoms[k], r.names)
      <4>1. n <= 2 /\ \A k \in DOMAIN x.atoms : IsInt(x.atoms[k], r.names)
        BY <1>3, <2>3 DEF Accepted, RangeForm
      <4>. HIDE DEF n
      <4>. QED BY <1>1, <4>1
    <3>2. lo = x.atoms[1][2]
      BY <2>3 DEF Lowest
    <3>3. n = 2 => hi = x.atoms[2][2]
      BY <2>3 DEF Highest
    <3>4. \A k \in 1 .. n : x.atoms[k][2] \in r.min .. r.max
      BY <1>1, <2>0, <3>1, <3>2, <3>3
    <3>5. \A k \in DOMAIN x.atoms : Number(x.atoms[k], i)
      BY <1>1, <3>1, <3>4 DEF Number, IsInt, r
    <3>. QED BY <2>0, <2>1, <3>1, <3>5 DEF ValidRange, r
  <2>. QED BY <2>2, <2>3
<1>. QED BY <1>0, <1>2, <1>3 DEF r

-------------------------------------------------------------------------------
(* Fields *)

(* What a parsed field keeps is what the text F of field i says. *)
Means(field, F, i) ==
    /\ \A v \in Int : v \in field.bits <=> \E j \in DOMAIN F : NamedBy(F[j], bounds[i], v)
    /\ field.star <=> \E j \in DOMAIN F : OpenRange(F[j])

(* getField reads what its ranges say. *)
LEMMA FieldMeans ==
    ASSUME NEW F \in Field, NEW i \in 1 .. 6
    PROVE  /\ getField(F, bounds[i]).ok <=> \A j \in DOMAIN F : getRange(F[j], bounds[i]).ok
           /\ getField(F, bounds[i]).ok => Means(getField(F, bounds[i]), F, i)
<1>. DEFINE p(j) == getRange(F[j], bounds[i])
            g == getField(F, bounds[i])
<1>0. \A j \in DOMAIN F : F[j] \in RangeText
  <2>1. F \in Seq(RangeText)
    BY DEF Field, RangeText
  <2>. QED BY <2>1
<1>1. /\ g.ok <=> \A j \in DOMAIN F : p(j).ok
      /\ g.bits = UNION {p(j).bits : j \in DOMAIN F}
      /\ g.star <=> \E j \in DOMAIN F : p(j).star
  <2>1. g = [ok   |-> \A q \in {p(j) : j \in DOMAIN F} : q.ok,
             bits |-> UNION {q.bits : q \in {p(j) : j \in DOMAIN F}},
             star |-> \E q \in {p(j) : j \in DOMAIN F} : q.star]
    BY DEF getField
  <2>. HIDE DEF p, g
  <2>2. g.ok <=> \A j \in DOMAIN F : p(j).ok
    BY <2>1
  <2>3. g.star <=> \E j \in DOMAIN F : p(j).star
    BY <2>1
  <2>4. g.bits = UNION {p(j).bits : j \in DOMAIN F}
    BY <2>1
  <2>. QED BY <2>2, <2>3, <2>4
<1>2. ASSUME g.ok PROVE Means(g, F, i)
  <2>1. ASSUME NEW j \in DOMAIN F
        PROVE  /\ \A v \in Int : v \in p(j).bits <=> NamedBy(F[j], bounds[i], v)
               /\ p(j).star <=> OpenRange(F[j])
    BY <1>0, <1>1, <1>2, RangeMeans
  <2>. HIDE DEF p, g
  <2>. QED BY <1>1, <2>1 DEF Means
<1>. QED BY <1>1, <1>2

(* An omitted field that is filled with a star. *)
LEMMA StarMeans == ASSUME NEW i \in 1 .. 6 PROVE Means(all(bounds[i]), StarField, i)
<1>. DEFINE x == Span(<<Star>>, <<>>)
            r == bounds[i]
<1>1. /\ DOMAIN StarField = {1} /\ StarField[1] = x
      /\ x.atoms[1] = Star /\ x.steps = <<>>
  BY DEF StarField, Span
<1>2. Lowest(x, r) = r.min /\ Highest(x, r) = r.max /\ StepOf(x) = 1
  BY <1>1 DEF Lowest, Highest, StepOf
<1>3. OpenRange(x)
  BY <1>1, <1>2 DEF OpenRange
<1>4. r.min \in Nat /\ r.max \in Nat
  BY BoundsType
<1>. HIDE DEF x, r
<1>5. \A v \in Int : v \in getBits(r.min, r.max, 1) <=> NamedBy(x, r, v)
  BY <1>2, <1>4, BitsAre DEF NamedBy
<1>. QED BY <1>1, <1>3, <1>5 DEF Means, all, r

(* The field that names the least value only. *)
LeastField(i) == <<Span(<<Num(bounds[i].min)>>, <<>>)>>

(* A descriptor that sets a field to its least value. *)
LEMMA LeastMeans == ASSUME NEW i \in 1 .. 6 PROVE Means(one(bounds[i]), LeastField(i), i)
<1>. DEFINE r == bounds[i]
            x == Span(<<Num(r.min)>>, <<>>)
<1>1. /\ DOMAIN LeastField(i) = {1} /\ LeastField(i)[1] = x
      /\ x.atoms = <<Num(r.min)>> /\ x.steps = <<>>
  BY DEF LeastField, Span
<1>2. Num(r.min) # Star /\ Num(r.min)[2] = r.min
  BY DEF Num, Star
<1>3. Lowest(x, r) = r.min /\ Highest(x, r) = r.min /\ StepOf(x) = 1 /\ ~OpenRange(x)
  BY <1>1, <1>2 DEF Lowest, Highest, StepOf, OpenRange
<1>4. r.min \in Nat
  BY BoundsType
<1>. HIDE DEF x, r
<1>5. \A v \in Int : v \in {r.min} <=> NamedBy(x, r, v)
  BY <1>3, <1>4 DEF NamedBy
<1>. QED BY <1>1, <1>3, <1>5 DEF Means, one, r

-------------------------------------------------------------------------------
(* Specs *)

(* How many fields there are, and how many precede. *)
LEMMA FewFields ==
    ASSUME NEW D, D \subseteq 1 .. 6
    PROVE  IsFiniteSet(D) /\ Cardinality(D) \in Nat
<1>1. IsFiniteSet(1 .. 6)
  <2>1. 1 \in Int /\ 6 \in Int
    OBVIOUS
  <2>. QED BY <2>1, FS_Interval
<1>. QED BY <1>1, FS_Subset, FS_CardinalityType

(* The place among the fields of D of one of them. *)
LEMMA CountUpTo ==
    ASSUME NEW D, D \subseteq 1 .. 6, NEW i \in D
    PROVE  Cardinality(D \cap 1 .. i) \in 1 .. Cardinality(D)
<1>1. /\ IsFiniteSet(D) /\ IsFiniteSet(D \cap 1 .. i)
      /\ Cardinality(D) \in Nat /\ Cardinality(D \cap 1 .. i) \in Nat
  <2>1. D \cap 1 .. i \subseteq 1 .. 6
    OBVIOUS
  <2>. QED BY <2>1, FewFields
<1>2. Cardinality(D \cap 1 .. i) <= Cardinality(D)
  BY <1>1, FS_Subset
<1>3. Cardinality(D \cap 1 .. i) # 0
  <2>1. i \in D \cap 1 .. i
    OBVIOUS
  <2>. QED BY <1>1, <2>1, FS_EmptySet
<1>. QED BY <1>1, <1>2, <1>3

(* The fields that a set of options reads. *)
LEMMA ReadsIs ==
    ASSUME NEW o
    PROVE  Reads(o) = {i \in 1 .. 6 : \/ places[i] \in o
                                      \/ i = 1 /\ "SecondOptional" \in o
                                      \/ i = 6 /\ "DowOptional" \in o}
  BY DEF Reads, MayOmit

(* At most one of the fields may be left out. *)
LEMMA OmitIs ==
    ASSUME NEW o, ~(Optional \subseteq o)
    PROVE  /\ Reads(o) \subseteq 1 .. 6 /\ MayOmit(o) \subseteq Reads(o)
           /\ Cardinality(Reads(o) \ MayOmit(o))
                = Cardinality(Reads(o)) - Cardinality(Optional \cap o)
           /\ \/ MayOmit(o) = {} /\ Cardinality(Optional \cap o) = 0
              \/ /\ MayOmit(o) = {1} /\ "DowOptional" \notin o
                 /\ Cardinality(Optional \cap o) = 1
              \/ /\ MayOmit(o) = {6} /\ "DowOptional" \in o
                 /\ Cardinality(Optional \cap o) = 1
<1>. DEFINE R == Reads(o)
            M == MayOmit(o)
            C == Optional \cap o
<1>1. M \subseteq R /\ R \subseteq 1 .. 6
  BY DEF Reads, MayOmit
<1>2. \/ M = {1} /\ "DowOptional" \notin o /\ C = {"SecondOptional"}
      \/ M = {6} /\ "DowOptional" \in o /\ C = {"DowOptional"}
      \/ M = {} /\ C = {}
  BY DEF MayOmit, Optional
<1>. HIDE DEF R, M, C
<1>3. IsFiniteSet(R) /\ Cardinality(R) \in Nat
  BY <1>1, FewFields
<1>4. CASE M = {1} /\ "DowOptional" \notin o /\ C = {"SecondOptional"}
  <2>1. Cardinality(C) = 1
    BY <1>4, FS_Singleton
  <2>2. Cardinality(R \ {1}) = Cardinality(R) - 1
    BY <1>1, <1>3, <1>4, FS_RemoveElement
  <2>. QED BY <1>1, <1>4, <2>1, <2>2 DEF R, M, C
<1>5. CASE M = {6} /\ "DowOptional" \in o /\ C = {"DowOptional"}
  <2>1. Cardinality(C) = 1
    BY <1>5, FS_Singleton
  <2>2. Cardinality(R \ {6}) = Cardinality(R) - 1
    BY <1>1, <1>3, <1>5, FS_RemoveElement
  <2>. QED BY <1>1, <1>5, <2>1, <2>2 DEF R, M, C
<1>6. CASE M = {} /\ C = {}
  <2>1. Cardinality(C) = 0 /\ R \ M = R
    BY <1>6, FS_EmptySet
  <2>2. Cardinality(R \ M) = Cardinality(R)
    BY <2>1, Zenon
  <2>3. Cardinality(R \ M) = Cardinality(R) - Cardinality(C)
    BY <1>3, <2>1, <2>2
  <2>. QED BY <1>1, <1>6, <2>1, <2>3 DEF R, M, C
<1>. QED BY <1>2, <1>4, <1>5, <1>6

(***************************************************************************)
(* normalizeFields gives each field what was given for it, or its default, *)
(* and refuses a text that has too few or too many.                        *)
(***************************************************************************)
LEMMA NormalizeIs ==
    ASSUME NEW x \in Text, x.text.kind = "fields", ~(Optional \subseteq x.options)
    PROVE  LET nf == normalizeFields(x.text.fields, x.options)
           IN IF x.complete THEN nf = [i \in 1 .. 6 |-> MeaningOf(x, i)] ELSE nf = <<>>
<1>. DEFINE o == x.options
            fs == x.text.fields
            D == DOMAIN x.given
            R == Reads(o)
            M == MayOmit(o)
            max == Cardinality(R)
            min == max - Cardinality(Optional \cap o)
            filled == FillOptional(fs, min, max, o)
            nf == normalizeFields(fs, o)
<1>1. InOrder(x)
  BY TextAssumption
<1>2. /\ R \subseteq 1 .. 6 /\ M \subseteq R /\ max \in Nat
      /\ Cardinality(R \ M) = min
      /\ \/ M = {} /\ min = max
         \/ M = {1} /\ "DowOptional" \notin o /\ min = max - 1
         \/ M = {6} /\ "DowOptional" \in o /\ min = max - 1
  <2>1. R \subseteq 1 .. 6 /\ M \subseteq R /\ Cardinality(R \ M) = min
    BY OmitIs
  <2>2. max \in Nat
    <3>. HIDE DEF R
    <3>. QED BY <2>1, FewFields
  <2>3. \/ M = {} /\ Cardinality(Optional \cap o) = 0
        \/ M = {1} /\ "DowOptional" \notin o /\ Cardinality(Optional \cap o) = 1
        \/ M = {6} /\ "DowOptional" \in o /\ Cardinality(Optional \cap o) = 1
    BY OmitIs
  <2>. HIDE DEF R, M, max
  <2>. QED BY <2>1, <2>2, <2>3 DEF max
<1>3. nf = IF Len(fs) \notin min .. max THEN <<>>
           ELSE [i \in 1 .. 6 |-> IF i \in R THEN filled[Cardinality(R \cap 1 .. i)]
                                             ELSE defaults[i]]
  <2>1. R = {i \in 1 .. 6 : \/ places[i] \in o
                            \/ i = 1 /\ "SecondOptional" \in o
                            \/ i = 6 /\ "DowOptional" \in o}
    BY ReadsIs
  <2>. QED BY <2>1 DEF normalizeFields
<1>4. /\ D \subseteq 1 .. 6 /\ fs \in Seq(Field) /\ Len(fs) = Cardinality(D)
      /\ \A i \in D : x.given[i] = fs[Cardinality(D \cap 1 .. i)]
      /\ x.complete \in BOOLEAN
      /\ x.complete => D = R \/ D = R \ M
      /\ ~x.complete => Cardinality(D) # max /\ Cardinality(D) # min
  BY <1>1, <1>2 DEF InOrder
<1>. HIDE DEF nf, R, M, D, fs, max, min
<1>5. ASSUME ~x.complete PROVE nf = <<>>
  BY <1>2, <1>3, <1>4, <1>5
<1>6. ASSUME x.complete PROVE nf = [i \in 1 .. 6 |-> MeaningOf(x, i)]
  <2>1. Len(fs) \in min .. max
    <3>1. Cardinality(D) = max \/ Cardinality(D) = min
      BY <1>2, <1>4, <1>6 DEF max
    <3>2. min \in Int /\ min <= max
      BY <1>2
    <3>. QED BY <1>2, <1>4, <3>1, <3>2
  <2>. SUFFICES ASSUME NEW i \in 1 .. 6
       PROVE  (IF i \in R THEN filled[Cardinality(R \cap 1 .. i)] ELSE defaults[i])
                = IF i \in D THEN x.given[i] ELSE defaults[i]
    <3>1. nf = [i \in 1 .. 6 |-> IF i \in R THEN filled[Cardinality(R \cap 1 .. i)]
                                            ELSE defaults[i]]
      BY <1>3, <2>1
    <3>. QED BY <3>1 DEF MeaningOf, D
  <2>2. CASE D = R
    <3>1. filled = fs
      BY <1>2, <1>4, <2>2 DEF FillOptional, max
    <3>. QED BY <1>4, <2>2, <3>1
  <2>3. CASE D = R \ M /\ D # R
    <3>0. M # {} /\ Len(fs) = min /\ min # max /\ min \in Nat /\ max = min + 1
      <4>1. Cardinality(D) \in Nat
        BY <1>4, FewFields
      <4>2. Cardinality(D) = min
        BY <1>2, <2>3
      <4>3. M # {}
        BY <2>3
      <4>4. min = max - 1
        BY <1>2, <4>3
      <4>5. Len(fs) = min /\ min \in Nat
        BY <1>4, <4>1, <4>2
      <4>. QED BY <1>2, <4>3, <4>4, <4>5
    <3>1. CASE i \notin R
      BY <2>3, <3>1
    <3>. DEFINE c == Cardinality(D \cap 1 .. i)
    <3>2. CASE i \in D
      <4>1. c \in 1 .. Len(fs) /\ x.given[i] = fs[c] /\ i \in R
        BY <1>4, <2>3, <3>2, CountUpTo
      <4>2. CASE M = {6} /\ "DowOptional" \in o
        <5>1. R \cap 1 .. i = D \cap 1 .. i
          BY <1>2, <2>3, <3>2, <4>2
        <5>2. filled = Append(fs, defaults[6])
          BY <3>0, <4>2 DEF FillOptional
        <5>3. filled[c] = fs[c]
          <6>. HIDE DEF c
          <6>. QED BY <1>4, <4>1, <5>2
        <5>. QED BY <3>2, <4>1, <5>1, <5>3
      <4>3. CASE M = {1} /\ "DowOptional" \notin o
        <5>1. R \cap 1 .. i = (D \cap 1 .. i) \cup {1} /\ 1 \notin D \cap 1 .. i
          BY <1>2, <2>3, <3>2, <4>3
        <5>2. IsFiniteSet(D \cap 1 .. i)
          <6>1. D \cap 1 .. i \subseteq 1 .. 6
            BY <1>4
          <6>. QED BY <6>1, FewFields
        <5>3. Cardinality(R \cap 1 .. i) = c + 1
          BY <5>1, <5>2, FS_AddElement
        <5>4. filled = <<defaults[1]>> \o fs
          BY <3>0, <4>3 DEF FillOptional
        <5>5. filled[c + 1] = fs[c]
          <6>. HIDE DEF c
          <6>. QED BY <1>4, <4>1, <5>4
        <5>. QED BY <3>2, <4>1, <5>3, <5>5
      <4>. QED BY <1>2, <3>0, <4>2, <4>3
    <3>3. CASE i \in M
      <4>1. CASE M = {6} /\ "DowOptional" \in o
        <5>1. i = 6 /\ R \cap 1 .. 6 = R
          BY <1>2, <3>3, <4>1
        <5>2. filled = Append(fs, defaults[6])
          BY <3>0, <4>1 DEF FillOptional
        <5>3. filled[max] = defaults[6]
          BY <1>4, <3>0, <5>2
        <5>. QED BY <1>2, <2>3, <3>3, <5>1, <5>3 DEF max
      <4>2. CASE M = {1} /\ "DowOptional" \notin o
        <5>1. i = 1 /\ R \cap 1 .. 1 = {1}
          BY <1>2, <3>3, <4>2
        <5>2. filled = <<defaults[1]>> \o fs
          BY <3>0, <4>2 DEF FillOptional
        <5>3. Cardinality(R \cap 1 .. 1) = 1
          BY <5>1, FS_Singleton
        <5>4. filled[1] = defaults[1]
          BY <1>4, <5>2
        <5>. QED BY <1>2, <2>3, <3>3, <5>1, <5>3, <5>4
      <4>. QED BY <1>2, <3>0, <4>1, <4>2
    <3>. QED BY <2>3, <3>1, <3>2, <3>3
  <2>. QED BY <1>4, <1>6, <2>2, <2>3
<1>. QED BY <1>5, <1>6 DEF nf, fs

(* The meaning of a field is a field of the grammar. *)
LEMMA MeaningType ==
    ASSUME NEW x \in Text, NEW i \in 1 .. 6
    PROVE  MeaningOf(x, i) \in Field
<1>1. Span(<<Star>>, <<>>) \in RangeText /\ Span(<<Num(0)>>, <<>>) \in RangeText
  <2>1. <<Star>> \in Seq(Atom) \ {<<>>} /\ <<Num(0)>> \in Seq(Atom) \ {<<>>}
    BY DEF Atom, Num
  <2>2. <<>> \in Seq(Atom)
    OBVIOUS
  <2>. QED BY <2>1, <2>2 DEF Span, RangeText
<1>2. StarField \in Seq(RangeText) /\ ZeroField \in Seq(RangeText)
  BY <1>1 DEF StarField, ZeroField
<1>3. defaults[i] \in {StarField, ZeroField}
  <2>1. i = 1 \/ i = 2 \/ i = 3 \/ i = 4 \/ i = 5 \/ i = 6
    OBVIOUS
  <2>. QED BY <2>1 DEF defaults
<1>4. defaults[i] \in Field
  BY <1>2, <1>3 DEF Field, RangeText
<1>. QED BY <1>4, TextAssumption DEF MeaningOf

(* The fields of the descriptors mean what their equivalents do. *)
Named == {"@yearly", "@monthly", "@weekly", "@daily", "@hourly"}

LeastOf(name) ==
    CASE name = "@yearly" -> {1, 2, 3, 4, 5} [] name = "@monthly" -> {1, 2, 3, 4}
      [] name = "@weekly" -> {1, 2, 3, 6} [] name = "@daily" -> {1, 2, 3}
      [] name = "@hourly" -> {1, 2}

(* The fields a descriptor stands for. *)
LEMMA EquivalentIs ==
    ASSUME NEW x \in Text, x.text.kind = "descriptor", x.text.name \in Named,
           NEW i \in 1 .. 6
    PROVE  MeaningOf(x, i) = IF i \in LeastOf(x.text.name) THEN LeastField(i) ELSE StarField
<1>0. x.given = Equivalent(x.text.name)
  BY TextAssumption
<1>1. i = 1 \/ i = 2 \/ i = 3 \/ i = 4 \/ i = 5 \/ i = 6
  OBVIOUS
<1>2. LeastField(1) = ZeroField
  BY DEF LeastField, ZeroField, bounds
<1>3. /\ defaults[1] = LeastField(1) /\ defaults[4] = StarField
      /\ defaults[5] = StarField /\ defaults[6] = StarField
  BY <1>2 DEF defaults
<1>. DEFINE least(S) == [k \in S |-> LeastField(k)]
            n == x.text.name
<1>4. /\ n = "@yearly" => x.given = least({2, 3, 4, 5})
      /\ n = "@monthly" => x.given = least({2, 3, 4})
      /\ n = "@weekly" => x.given = least({2, 3, 6})
      /\ n = "@daily" => x.given = least({2, 3})
      /\ n = "@hourly" => x.given = [least({2, 3}) EXCEPT ![3] = StarField]
  BY <1>0 DEF Equivalent, LeastField
<1>. HIDE DEF n
<1>5. CASE n = "@yearly"
  BY <1>1, <1>3, <1>4, <1>5 DEF LeastOf, MeaningOf, n
<1>6. CASE n = "@monthly"
  BY <1>1, <1>3, <1>4, <1>6 DEF LeastOf, MeaningOf, n
<1>7. CASE n = "@weekly"
  BY <1>1, <1>3, <1>4, <1>7 DEF LeastOf, MeaningOf, n
<1>8. CASE n = "@daily"
  BY <1>1, <1>3, <1>4, <1>8 DEF LeastOf, MeaningOf, n
<1>9. CASE n = "@hourly"
  <2>1. /\ DOMAIN x.given = {2, 3} /\ x.given[2] = LeastField(2)
        /\ x.given[3] = StarField
    <3>. DEFINE h == least({2, 3})
    <3>1. h = [k \in {2, 3} |-> h[k]] /\ h[2] = LeastField(2)
      OBVIOUS
    <3>2. x.given = [h EXCEPT ![3] = StarField]
      BY <1>4, <1>9
    <3>. HIDE DEF h
    <3>3. DOMAIN h = {2, 3}
      BY <3>1
    <3>. QED BY <3>1, <3>2, <3>3
  <2>. HIDE DEF least
  <2>2. LeastOf(n) = {1, 2}
    BY <1>9 DEF LeastOf
  <2>3. MeaningOf(x, i) = IF i \in {2, 3} THEN x.given[i] ELSE defaults[i]
    BY <2>1 DEF MeaningOf
  <2>. QED BY <1>1, <1>3, <2>1, <2>2, <2>3 DEF n
<1>. QED BY <1>5, <1>6, <1>7, <1>8, <1>9 DEF Named, n

(* parseDescriptor reads what the descriptor stands for. *)
LEMMA DescriptorIs ==
    ASSUME NEW text, NEW l
    PROVE  IF text.name \in Named
           THEN parseDescriptor(text, l) =
                  SpecSchedule([i \in 1 .. 6 |-> IF i \in LeastOf(text.name)
                                                 THEN one(bounds[i]) ELSE all(bounds[i])], l)
           ELSE parseDescriptor(text, l) = IF text.name = "@every" /\ text.duration # Junk
                                           THEN Every(text.duration[2])
                                           ELSE Failed("error")
<1>. DEFINE from(n) == [i \in 1 .. 6 |-> IF i < n THEN one(bounds[i]) ELSE all(bounds[i])]
            f == [i \in 1 .. 6 |-> IF i \in LeastOf(text.name)
                                   THEN one(bounds[i]) ELSE all(bounds[i])]
<1>1. CASE text.name = "@yearly"
  <2>1. from(6) = f
    BY <1>1 DEF LeastOf
  <2>. HIDE DEF f
  <2>. QED BY <1>1, <2>1 DEF parseDescriptor, Named, f
<1>2. CASE text.name = "@monthly"
  <2>1. from(5) = f
    BY <1>2 DEF LeastOf
  <2>. HIDE DEF f
  <2>. QED BY <1>2, <2>1 DEF parseDescriptor, Named, f
<1>3. CASE text.name = "@weekly"
  <2>1. [from(4) EXCEPT ![6] = one(bounds[6])] = f
    <3>1. [from(4) EXCEPT ![6] = one(bounds[6])]
            = [i \in 1 .. 6 |-> IF i = 6 THEN one(bounds[6]) ELSE from(4)[i]]
      OBVIOUS
    <3>2. \A i \in 1 .. 6 : i \in LeastOf(text.name) <=> i = 6 \/ i < 4
      BY <1>3 DEF LeastOf
    <3>3. \A i \in 1 .. 6 : f[i] = IF i = 6 THEN one(bounds[6]) ELSE from(4)[i]
      BY <3>2
    <3>. QED BY <3>1, <3>3
  <2>. HIDE DEF f
  <2>. QED BY <1>3, <2>1 DEF parseDescriptor, Named, f
<1>4. CASE text.name = "@daily"
  <2>1. from(4) = f
    BY <1>4 DEF LeastOf
  <2>. HIDE DEF f
  <2>. QED BY <1>4, <2>1 DEF parseDescriptor, Named, f
<1>5. CASE text.name = "@hourly"
  <2>1. from(3) = f
    BY <1>5 DEF LeastOf
  <2>. HIDE DEF f
  <2>. QED BY <1>5, <2>1 DEF parseDescriptor, Named, f
<1>6. CASE text.name \notin Named
  BY <1>6 DEF parseDescriptor, Named
<1>. QED BY <1>1, <1>2, <1>3, <1>4, <1>5, <1>6 DEF Named

(* A schedule keeps what the text says, and is refused as its fields are. *)
ParseOK(x, p) ==
    /\ p.kind \in {"spec", "every", "error", "panic"}
    /\ p.kind = "every" => x.text.duration # Junk /\ p = Every(x.text.duration[2])
    /\ p.kind = "spec" =>
          /\ x.text.tz # BadTZ /\ p.loc = (IF x.text.tz = NoTZ THEN Local ELSE x.text.tz)
          /\ \A i \in 1 .. 6 : Means(p.field[i], MeaningOf(x, i), i)
    /\ x.text.kind = "fields" /\ p.kind # "panic" =>
          (p.kind # "error" <=> /\ x.complete /\ x.text.tz # BadTZ
                                /\ \A i \in 1 .. 6 : getField(MeaningOf(x, i), bounds[i]).ok)

(* Parse reads what the text says, and refuses only what is not in the format. *)
LEMMA ParseIs ==
    ASSUME NEW x \in Text
    PROVE  ParseOK(x, Parse(x.text, x.options))
<1>. DEFINE p == Parse(x.text, x.options)
            l == IF x.text.tz = NoTZ THEN Local ELSE x.text.tz
            nf == normalizeFields(x.text.fields, x.options)
            field == [i \in 1 .. 6 |-> getField(nf[i], bounds[i])]
<1>0. p = IF Optional \subseteq x.options THEN Failed("panic")
          ELSE IF x.text.kind = "empty"
          THEN Failed(IF x.text.tz = NoTZ THEN "error" ELSE "panic")
          ELSE IF x.text.tz = BadTZ THEN Failed("error")
          ELSE IF x.text.kind = "descriptor"
          THEN IF "Descriptor" \in x.options THEN parseDescriptor(x.text, l)
                                             ELSE Failed("error")
          ELSE IF nf # <<>>
          THEN IF \A i \in 1 .. 6 : field[i].ok THEN SpecSchedule(field, l)
                                                ELSE Failed("error")
          ELSE Failed("error")
  BY DEF Parse
<1>. HIDE DEF p, l
<1>1. x.text.kind \in {"fields", "descriptor", "empty"}
  BY TextAssumption
<1>2. Failed("panic").kind = "panic" /\ Failed("error").kind = "error"
  BY DEF Failed
<1>3. CASE Optional \subseteq x.options \/ x.text.kind = "empty"
  <2>1. p = Failed("panic") \/ (p = Failed("error") /\ x.text.kind = "empty")
    <3>. HIDE DEF nf, field
    <3>. QED BY <1>0, <1>3
  <2>. QED BY <1>2, <2>1 DEF ParseOK, p
<1>4. CASE ~(Optional \subseteq x.options) /\ x.text.kind = "descriptor"
  <2>. HIDE DEF nf, field
  <2>1. CASE x.text.tz = BadTZ \/ "Descriptor" \notin x.options
    <3>1. p = Failed("error")
      BY <1>0, <1>4, <2>1
    <3>. QED BY <1>2, <1>4, <3>1 DEF ParseOK, p
  <2>2. CASE x.text.tz # BadTZ /\ "Descriptor" \in x.options
    <3>1. p = parseDescriptor(x.text, l)
      BY <1>0, <1>4, <2>2
    <3>2. CASE x.text.name \in Named
      <4>. DEFINE f == [i \in 1 .. 6 |-> IF i \in LeastOf(x.text.name)
                                         THEN one(bounds[i]) ELSE all(bounds[i])]
      <4>1. p = SpecSchedule(f, l)
        BY <3>1, <3>2, DescriptorIs
      <4>2. ASSUME NEW i \in 1 .. 6 PROVE Means(f[i], MeaningOf(x, i), i)
        BY <1>4, <3>2, EquivalentIs, LeastMeans, StarMeans
      <4>. HIDE DEF f
      <4>3. p.kind = "spec" /\ p.loc = l /\ p.field = f
        BY <4>1 DEF SpecSchedule
      <4>. QED BY <1>4, <2>2, <4>2, <4>3 DEF ParseOK, p, l
    <3>3. CASE x.text.name \notin Named
      <4>1. \/ x.text.duration # Junk /\ p = Every(x.text.duration[2])
            \/ p = Failed("error")
        BY <3>1, <3>3, DescriptorIs
      <4>2. Every(x.text.duration[2]).kind = "every"
        BY DEF Every, ConstantDelay
      <4>. QED BY <1>2, <1>4, <4>1, <4>2 DEF ParseOK, p
    <3>. QED BY <3>2, <3>3
  <2>. QED BY <2>1, <2>2
<1>5. CASE ~(Optional \subseteq x.options) /\ x.text.kind = "fields"
  <2>1. x.complete \in BOOLEAN
    BY <1>5, TextAssumption DEF InOrder
  <2>2. CASE ~x.complete \/ x.text.tz = BadTZ
    <3>1. ~x.complete => nf = <<>>
      BY <1>5, NormalizeIs
    <3>. HIDE DEF nf, field
    <3>2. p = Failed("error")
      BY <1>0, <1>5, <2>2, <3>1
    <3>. QED BY <1>2, <2>2, <3>2 DEF ParseOK, p
  <2>3. CASE x.complete /\ x.text.tz # BadTZ
    <3>1. nf = [i \in 1 .. 6 |-> MeaningOf(x, i)]
      BY <1>5, <2>3, NormalizeIs
    <3>2. nf # <<>>
      <4>1. 1 \in DOMAIN nf /\ ~(1 \in DOMAIN <<>>)
        BY <3>1
      <4>. QED BY <4>1
    <3>3. \A i \in 1 .. 6 : field[i] = getField(MeaningOf(x, i), bounds[i])
      BY <3>1
    <3>. HIDE DEF nf, field
    <3>4. CASE \A i \in 1 .. 6 : field[i].ok
      <4>1. p = SpecSchedule(field, l)
        BY <1>0, <1>5, <2>3, <3>2, <3>4
      <4>2. p.kind = "spec" /\ p.loc = l /\ p.field = field
        BY <4>1 DEF SpecSchedule
      <4>3. \A i \in 1 .. 6 : Means(field[i], MeaningOf(x, i), i)
        BY <3>3, <3>4, MeaningType, FieldMeans
      <4>. QED BY <2>3, <3>3, <3>4, <4>2, <4>3 DEF ParseOK, p, l
    <3>5. CASE ~(\A i \in 1 .. 6 : field[i].ok)
      <4>1. p = Failed("error")
        BY <1>0, <1>5, <2>3, <3>5
      <4>. QED BY <1>2, <3>3, <3>5, <4>1 DEF ParseOK, p
    <3>. QED BY <3>4, <3>5
  <2>. QED BY <2>1, <2>2, <2>3
<1>. QED BY <1>1, <1>3, <1>4, <1>5

-------------------------------------------------------------------------------
(* From the text to the activation *)

Control ==
    /\ input \in Text /\ orig \in Zone
    /\ pc \in {"parse", "next", "wrap", "found", "none", "error", "panic"} \cup Fields
    /\ pc # "parse" => sched = Parse(input.text, input.options)
    /\ pc \in {"next", "found"} => sched.kind \in {"spec", "every"}
    /\ pc \in {"wrap", "none"} \cup Fields => sched.kind = "spec"
    /\ pc \in {"error", "panic"} => sched.kind = pc
    /\ pc \in {"parse", "next"} => added = FALSE
    /\ pc = "found" /\ sched.kind = "every" =>
          start \in Start /\ t = start + sched.delay - (start % SecondLen)

(* Every action keeps Control. *)
LEMMA ControlStep == Control /\ [Next]_vars => Control'
<1>. SUFFICES ASSUME Control, [Next]_vars PROVE Control'
  OBVIOUS
<1>1. CASE ParseText
  <2>1. ParseOK(input, Parse(input.text, input.options))
    BY ParseIs DEF Control
  <2>2. sched'.kind \in {"spec", "every", "error", "panic"}
    BY <1>1, <2>1 DEF ParseText, ParseOK
  <2>. QED BY <1>1, <2>2, PosIs DEF ParseText, Control
<1>2. CASE NextDelay
  BY <1>2, PosIs DEF NextDelay, Control
<1>3. CASE NextSpec
  BY <1>3, PosIs DEF NextSpec, Control
<1>4. CASE Wrap
  BY <1>4, PosIs DEF Wrap, Control
<1>5. CASE Accept
  BY <1>5, PosIs DEF Accept, Control
<1>6. CASE IncMonth \/ IncDay \/ IncHour \/ IncMinute \/ IncSecond
  <2>1. pc \in Fields /\ \E u, wrapped : Goto(u, wrapped)
    BY <1>6, PosIs DEF IncMonth, IncDay, IncHour, IncMinute, IncSecond
  <2>2. /\ pc' = "wrap" \/ pc' = pc
        /\ UNCHANGED <<input, sched, orig>>
    BY <2>1 DEF Goto
  <2>. QED BY <2>1, <2>2, PosIs DEF Control
<1>7. CASE UNCHANGED vars
  BY <1>7 DEF vars, Control
<1>. QED BY <1>1, <1>2, <1>3, <1>4, <1>5, <1>6, <1>7 DEF Next

(***************************************************************************)
(* At every point of a search the schedule is what Parse made of the text, *)
(* a refused text never comes to a search, and only a spec is searched.    *)
(***************************************************************************)
THEOREM ControlHolds == Spec => []Control
<1>1. Init => Control
  BY PosIs DEF Init, Control
<1>. QED BY <1>1, ControlStep, PTL DEF Spec

(* After parsing the schedule is what the text says. *)
LEMMA Parsed ==
    ASSUME Control, pc # "parse" PROVE ParseOK(input, sched)
  BY ParseIs DEF Control

(***************************************************************************)
(* A constant delay: whole seconds, later than the given instant, and by   *)
(* no more than the duration.                                              *)
(***************************************************************************)
THEOREM DelaysOnSecond == Spec => []DelayOnSecond
<1>1. Control => DelayOnSecond
  <2>. SUFFICES ASSUME Control, pc = "found", sched.kind = "every"
       PROVE  /\ input.text.duration # Junk
              /\ t > start /\ t % SecondLen = 0
              /\ t - start <= Max({input.text.duration[2], SecondLen})
    BY DEF DelayOnSecond
  <2>. DEFINE D == {input.text.duration[2], SecondLen}
              d == Max(D)
              s == start
  <2>1. s \in Nat /\ t = s + sched.delay - (s % SecondLen)
    BY SchedulesAssumption DEF Control
  <2>0. input.text.duration # Junk /\ sched = Every(input.text.duration[2])
    BY Parsed DEF ParseOK
  <2>2. input.text.duration[2] \in Int
    BY <2>0, TextAssumption DEF Control
  <2>3. d \in Int /\ d >= SecondLen
    <3>1. \E m \in D : \A n \in D : m >= n
      BY <2>2 DEF SecondLen
    <3>2. d \in D /\ \A n \in D : d >= n
      <4>. HIDE DEF D
      <4>. QED BY <3>1 DEF Max
    <3>. HIDE DEF d
    <3>. QED BY <2>2, <3>2 DEF SecondLen
  <2>4. sched.delay = d - (d % SecondLen)
    BY <2>0 DEF Every, ConstantDelay
  <2>. HIDE DEF d, s
  <2>5. t > s /\ t % 2 = 0 /\ t - s <= d
    BY <2>1, <2>3, <2>4 DEF SecondLen
  <2>. QED BY <2>0, <2>5 DEF SecondLen, s, d
<1>. QED BY <1>1, ControlHolds, PTL

(***************************************************************************)
(* The parser accepts the specs of the documented format, however fields   *)
(* are left out, and of the others only the lenient ones.                  *)
(***************************************************************************)
THEOREM FormatAccepted == Spec => []AcceptsFormat
<1>1. Control => AcceptsFormat
  <2>. SUFFICES ASSUME Control, input.text.kind = "fields", pc \notin {"parse", "panic"}
       PROVE  LET good(i) == ValidField(Meaning(i), i)
                  whole == input.complete /\ input.text.tz # BadTZ
              IN /\ whole /\ (\A i \in 1 .. 6 : good(i)) => pc # "error"
                 /\ pc # "error" => /\ whole
                                    /\ \A i \in 1 .. 6 : good(i) \/ Lenient(Meaning(i))
    BY DEF AcceptsFormat
  <2>. DEFINE ok(i) == getField(Meaning(i), bounds[i]).ok
              whole == input.complete /\ input.text.tz # BadTZ
  <2>1. pc # "error" <=> whole /\ \A i \in 1 .. 6 : ok(i)
    <3>1. pc = "error" <=> sched.kind = "error"
      BY PosIs DEF Control
    <3>2. sched.kind # "panic"
      BY PosIs DEF Control
    <3>. QED BY <3>1, <3>2, Parsed DEF ParseOK, Meaning
  <2>2. ASSUME NEW i \in 1 .. 6
        PROVE  /\ ValidField(Meaning(i), i) => ok(i)
               /\ ok(i) => ValidField(Meaning(i), i) \/ Lenient(Meaning(i))
    <3>. DEFINE F == Meaning(i)
    <3>1. F \in Field
      BY MeaningType DEF Control, Meaning
    <3>2. \A j \in DOMAIN F : F[j] \in RangeText
      <4>1. F \in Seq(RangeText)
        BY <3>1 DEF Field, RangeText
      <4>. QED BY <4>1
    <3>3. ok(i) <=> \A j \in DOMAIN F : getRange(F[j], bounds[i]).ok
      BY <3>1, FieldMeans
    <3>. HIDE DEF ok, F
    <3>4. \A j \in DOMAIN F : /\ ValidRange(F[j], i) => getRange(F[j], bounds[i]).ok
                              /\ getRange(F[j], bounds[i]).ok
                                   => ValidRange(F[j], i) \/ LenientRange(F[j])
      BY <3>2, RangeAccepts
    <3>5. /\ ValidField(F, i) => ok(i)
          /\ ok(i) => ValidField(F, i) \/ Lenient(F)
      BY <3>3, <3>4 DEF ValidField, Lenient
    <3>. QED BY <3>5 DEF F
  <2>. HIDE DEF ok, whole
  <2>. QED BY <2>1, <2>2 DEF whole
<1>. QED BY <1>1, ControlHolds, PTL

(* The location of the search is the one the text asks for. *)
LEMMA LocIs ==
    ASSUME Control, pc # "parse", sched.kind = "spec"
    PROVE  loc = Place /\ loc \in Zone
<1>1. /\ input.text.tz # BadTZ
      /\ sched.loc = (IF input.text.tz = NoTZ THEN Local ELSE input.text.tz)
  BY Parsed DEF ParseOK
<1>2. input.text.tz \in Zone \cup {NoTZ, BadTZ} /\ Local \notin Zone /\ orig \in Zone
  BY TextAssumption DEF Control
<1>. QED BY <1>1, <1>2 DEF loc, Place

(* What the bits say and what the text says of an instant is the same. *)
LEMMA DueIsActive ==
    ASSUME Control, pc # "parse", sched.kind = "spec", NEW u \in Int,
           InCalendar(Wall(loc, u))
    PROVE  Due(u) <=> Active(u)
<1>. DEFINE w == Wall(loc, u)
            s == Second(loc, u)
            m == Minute(loc, u)
            h == Hour(loc, u)
            d == Date(loc, u).day
            k == Weekday(loc, u)
            o == Date(loc, u).month
<1>0. loc = Place
  BY LocIs
<1>1. ASSUME NEW i \in 1 .. 6
      PROVE  /\ \A v \in Int : In(i, v) <=> Names(i, v)
             /\ sched.field[i].star <=> Open(i)
  <2>1. Means(sched.field[i], Meaning(i), i)
    BY Parsed DEF ParseOK, Meaning
  <2>. QED BY <2>1 DEF Means, In, Names, Open, NamedBy, OpenRange
<1>2. w \in Int /\ w \div DayLen \in 0 .. Total - 1
  BY DEF InCalendar
<1>3. s \in Int /\ m \in Int /\ h \in Int
  <2>. HIDE DEF w
  <2>1. w % MinuteLen \in Int /\ w % HourLen \in Int /\ w % DayLen \in Int
    BY <1>2, Lengths, Euclid
  <2>2. /\ (w % MinuteLen) \div SecondLen \in Int /\ (w % HourLen) \div MinuteLen \in Int
        /\ (w % DayLen) \div HourLen \in Int
    BY <2>1, Lengths, Euclid
  <2>. QED BY <2>2 DEF w, Second, Minute, Hour
<1>4. d \in Int /\ o \in Int /\ k \in Int
  <2>. DEFINE e == w \div DayLen
  <2>1. e \in 0 .. Total - 1 /\ Total \in Nat
    BY <1>2, FirstDayType, MonthsType DEF Total
  <2>2. Date(loc, u) = DateOf[e] /\ k = e % DaysPerWeek
    BY DEF Date, Weekday
  <2>. HIDE DEF e, k
  <2>3. DateOf[e].index \in 1 .. Months /\ DateOf[e].day = e - FirstDay[DateOf[e].index] + 1
    BY <2>1, DateIs
  <2>4. FirstDay[DateOf[e].index] \in Nat
    BY <2>3, FirstDayType, MonthsType
  <2>5. DateOf[e].day \in Int /\ DateOf[e].month \in Int
    BY <2>1, <2>3, <2>4, YearType
  <2>6. e % DaysPerWeek \in Int
    BY <2>1, CalendarAssumption, Euclid
  <2>. QED BY <2>2, <2>5, <2>6
<1>. HIDE DEF s, m, h, d, k, o
<1>5. /\ In(1, s) <=> Names(1, s)
      /\ In(2, m) <=> Names(2, m)
      /\ In(3, h) <=> Names(3, h)
      /\ In(4, d) <=> Names(4, d)
      /\ In(5, o) <=> Names(5, o)
      /\ In(6, k) <=> Names(6, k)
      /\ sched.field[4].star <=> Open(4)
      /\ sched.field[6].star <=> Open(6)
  BY <1>1, <1>3, <1>4
<1>6. Due(u) <=> /\ u % SecondLen = 0
                 /\ In(1, s) /\ In(2, m) /\ In(3, h) /\ In(5, o) /\ dayMatches(u)
  <2>1. /\ Matches("month", u) = In(5, o) /\ Matches("day", u) = dayMatches(u)
        /\ Matches("hour", u) = In(3, h) /\ Matches("minute", u) = In(2, m)
        /\ Matches("second", u) = In(1, s)
    BY DEF Matches, s, m, h, o
  <2>. QED BY <2>1, PosIs DEF Due
<1>7. dayMatches(u) <=> IF Open(4) \/ Open(6) THEN Names(4, d) /\ Names(6, k)
                                              ELSE Names(4, d) \/ Names(6, k)
  BY <1>5 DEF dayMatches, d, k
<1>8. Active(u) <=> /\ u % SecondLen = 0
                    /\ Names(1, s) /\ Names(2, m) /\ Names(3, h) /\ Names(5, o)
                    /\ IF Open(4) \/ Open(6) THEN Names(4, d) /\ Names(6, k)
                                             ELSE Names(4, d) \/ Names(6, k)
  BY <1>0 DEF Active, s, m, h, d, k, o
<1>. QED BY <1>5, <1>6, <1>7, <1>8

(* Next begins the search at the upcoming second. *)
LEMMA SearchBegins ==
    ASSUME Control, NextSpec, Flat(Place)
    PROVE  SearchInv'
<1>. DEFINE b == Rules[loc].base
            s == start'
            u == t'
            e == (Wall(loc, s) + SecondLen) \div DayLen
            d == Wall(loc, u) \div DayLen
            c == Wall(loc, s) \div DayLen
<1>0. /\ loc \in Zone /\ Flat(loc) /\ pc = "next" /\ added = FALSE
      /\ s \in Start /\ s \in Nat /\ u = s + SecondLen - (s % SecondLen)
      /\ yearLimit' = Date(loc, u).year + YearSpan /\ pc' = "wrap"
      /\ UNCHANGED <<sched, orig, added>> /\ YearSpan \in Nat
  BY LocIs, SchedulesAssumption DEF NextSpec, Control
<1>1. /\ b \in Nat /\ Wall(loc, s) = s + b /\ Wall(loc, u) = u + b
      /\ u \in Nat /\ s < u /\ u <= s + SecondLen /\ u % SecondLen = 0
  <2>1. u \in Nat /\ s < u /\ u <= s + 2 /\ u % 2 = 0
    <3>. HIDE DEF s, u
    <3>. QED BY <1>0 DEF SecondLen
  <2>2. b \in Nat /\ \A x \in Int : Wall(loc, x) = x + b
    BY <1>0, FlatClock
  <2>. HIDE DEF s, u
  <2>. QED BY <1>0, <2>1, <2>2 DEF SecondLen
<1>. HIDE DEF b, s, u
<1>2. /\ c \in Int /\ d \in Int /\ e \in Int /\ 0 <= c /\ c <= d /\ d <= e
  <2>1. \A x, y \in Nat : x <= y => x \div DayLen <= y \div DayLen
    BY Lengths
  <2>2. \A x \in Nat : x \div DayLen \in Int /\ 0 <= x \div DayLen
    BY Lengths
  <2>3. /\ s + b \in Nat /\ u + b \in Nat /\ (s + b) + SecondLen \in Nat
        /\ s + b <= u + b /\ u + b <= (s + b) + SecondLen
    BY <1>0, <1>1 DEF SecondLen
  <2>. QED BY <1>1, <2>1, <2>2, <2>3
<1>3. e < Total /\ (DateOf[e].year + YearSpan + 1) * MonthsPerYear < Months
  <2>1. loc \in Zone /\ s \in Start
    BY <1>0
  <2>. HIDE DEF e
  <2>. QED BY <2>1, HorizonAssumption DEF Total, Months, e
<1>4. InCalendar(Wall(loc, u))
  <2>1. Total \in Nat
    BY FirstDayType, MonthsType DEF Total
  <2>. HIDE DEF e
  <2>. QED BY <1>0, <1>1, <1>2, <1>3, <2>1 DEF InCalendar
<1>. HIDE DEF c, d, e
<1>5. c \in 0 .. Total - 1 /\ d \in 0 .. Total - 1 /\ e \in 0 .. Total - 1
  <2>1. Total \in Nat
    BY FirstDayType, MonthsType DEF Total
  <2>. QED BY <1>2, <1>3, <2>1
<1>6. /\ DateOf[c].year \in Nat /\ DateOf[d].year \in Nat /\ DateOf[e].year \in Nat
      /\ DateOf[c].year <= DateOf[d].year /\ DateOf[d].year <= DateOf[e].year
  BY <1>2, <1>5, IndexMono, YearType
<1>7. /\ yearLimit' = DateOf[d].year + YearSpan /\ Date(loc, s) = DateOf[c]
  BY <1>0 DEF Date, c, d
<1>8. (yearLimit' + 1) * MonthsPerYear < Months
  <2>1. MonthsPerYear \in Nat /\ Months \in Nat
    BY CalendarAssumption, MonthsType
  <2>2. \A x, y, z \in Nat : x <= y => x * z <= y * z /\ x * z \in Nat /\ y * z \in Nat
    OBVIOUS
  <2>3. /\ yearLimit' + 1 \in Nat /\ DateOf[e].year + YearSpan + 1 \in Nat
        /\ yearLimit' + 1 <= DateOf[e].year + YearSpan + 1
    BY <1>0, <1>6, <1>7
  <2>4. /\ (yearLimit' + 1) * MonthsPerYear <= (DateOf[e].year + YearSpan + 1) * MonthsPerYear
        /\ (yearLimit' + 1) * MonthsPerYear \in Nat
        /\ (DateOf[e].year + YearSpan + 1) * MonthsPerYear \in Nat
    BY <2>1, <2>2, <2>3
  <2>. QED BY <1>3, <2>1, <2>4
<1>9. loc' = loc /\ \A x : Due(x)' <=> Due(x)
  BY <1>0, SameClock
<1>10. InTime'
  <2>1. yearLimit' \in Nat /\ Date(loc, s).year + YearSpan <= yearLimit'
    BY <1>0, <1>6, <1>7
  <2>. QED BY <1>0, <1>1, <1>4, <1>8, <1>9, <2>1, PosIs DEF InTime, s, u
<1>11. PassedMatch'
  BY <1>0, PosIs DEF PassedMatch, Passed
<1>12. AtStart'
  BY <1>0 DEF AtStart
<1>13. NoneBefore'
  <2>. SUFFICES ASSUME NEW x \in s + 1 .. u - 1 PROVE ~Due(x)
    BY <1>9 DEF NoneBefore, s, u
  <2>1. x % 2 # 0
    <3>1. s \in Nat /\ u = s + 2 - (s % 2) /\ x \in Nat /\ s < x /\ x < u
      BY <1>0, <1>1 DEF SecondLen
    <3>. QED BY <3>1
  <2>. QED BY <2>1 DEF Due, SecondLen
<1>. QED BY <1>10, <1>11, <1>12, <1>13 DEF SearchInv

(* Every action keeps the invariant of the search. *)
LEMMA SearchStep ==
    ASSUME Control, SearchInv, [Next]_vars, Flat(Place)
    PROVE  SearchInv'
<1>0. Searching => loc \in Zone /\ Flat(loc)
  BY LocIs, PosIs DEF Searching
<1>1. CASE ParseText
  <2>1. pc' \notin Fields \cup {"wrap", "found", "none"}
    <3>1. ParseOK(input, Parse(input.text, input.options))
      BY ParseIs DEF Control
    <3>. QED BY <1>1, <3>1, PosIs DEF ParseText, ParseOK
  <2>. QED BY <2>1 DEF SearchInv, Searching
<1>2. CASE NextDelay
  BY <1>2 DEF NextDelay, SearchInv, Searching
<1>3. CASE NextSpec
  BY <1>3, SearchBegins
<1>4. CASE Wrap
  <2>1. Searching /\ InTime /\ PassedMatch /\ AtStart /\ NoneBefore
    BY <1>4 DEF Wrap, Control, SearchInv, Searching
  <2>2. /\ pc' = (IF Date(loc, t).year > yearLimit THEN "none" ELSE "month")
        /\ UNCHANGED <<sched, start, orig, t, added, yearLimit>>
    BY <1>4 DEF Wrap
  <2>3. /\ loc' = loc /\ \A x : Due(x)' <=> Due(x)
        /\ \A g \in Fields : \A x : Matches(g, x)' <=> Matches(g, x)
    BY <2>2, SameClock
  <2>4. InTime'
    <3>1. Date(loc, t).year \in Nat /\ yearLimit \in Nat
      BY <2>1, YearType DEF InTime, InCalendar, Date
    <3>. QED BY <2>1, <2>2, <2>3, <3>1, PosIs DEF InTime
  <2>5. PassedMatch'
    BY <2>2, PosIs DEF PassedMatch, Passed
  <2>6. AtStart'
    BY <2>1, <2>2, <2>3 DEF AtStart
  <2>7. NoneBefore'
    BY <2>1, <2>2, <2>3 DEF NoneBefore
  <2>. QED BY <2>4, <2>5, <2>6, <2>7 DEF SearchInv
<1>5. CASE Accept
  <2>1. Searching /\ InTime /\ PassedMatch /\ AtStart /\ NoneBefore
    BY <1>5 DEF Accept, Control, SearchInv, Searching
  <2>2. /\ pc \in Fields /\ Matches(pc, t)
        /\ pc' = (CASE pc = "month" -> "day" [] pc = "day" -> "hour"
                    [] pc = "hour" -> "minute" [] pc = "minute" -> "second"
                    [] pc = "second" -> "found")
        /\ UNCHANGED <<sched, start, orig, t, added, yearLimit>>
    BY <1>5 DEF Accept
  <2>3. /\ loc' = loc /\ \A x : Due(x)' <=> Due(x)
        /\ \A g \in Fields : \A x : Matches(g, x)' <=> Matches(g, x)
    BY <2>2, SameClock
  <2>4. pc' # "none"
    BY <2>2, PosIs
  <2>5. InTime'
    BY <2>1, <2>2, <2>3, <2>4 DEF InTime
  <2>6. PassedMatch'
    <3>1. Passed(pc) = Pos(pc) /\ Passed(pc') = Pos(pc) + 1
      BY <2>2, PosIs DEF Passed
    <3>2. \A g \in Fields : Pos(g) < Passed(pc') => Pos(g) < Passed(pc) \/ g = pc
      BY <2>2, <3>1, PosIs
    <3>3. \A g \in Fields : Pos(g) < Passed(pc') => Matches(g, t)
      BY <2>1, <2>2, <3>2 DEF PassedMatch
    <3>. QED BY <2>2, <2>3, <3>3 DEF PassedMatch
  <2>7. AtStart'
    BY <2>1, <2>2, <2>3 DEF AtStart
  <2>8. NoneBefore'
    BY <2>1, <2>2, <2>3 DEF NoneBefore
  <2>. QED BY <2>5, <2>6, <2>7, <2>8 DEF SearchInv
<1>6. CASE IncMonth \/ IncDay \/ IncHour \/ IncMinute \/ IncSecond
  <2>1. Searching
    BY <1>6, PosIs DEF IncMonth, IncDay, IncHour, IncMinute, IncSecond, Control, Searching
  <2>. QED BY <1>0, <1>6, <2>1, MonthStep, DayStep, HourStep, MinuteStep, SecondStep
<1>7. CASE UNCHANGED vars
  <2>1. /\ UNCHANGED <<pc, sched, start, orig, t, added, yearLimit>>
    BY <1>7 DEF vars
  <2>2. /\ loc' = loc /\ \A x : Due(x)' <=> Due(x)
        /\ \A g \in Fields : \A x : Matches(g, x)' <=> Matches(g, x)
    BY <2>1, SameClock
  <2>. QED BY <2>1, <2>2
           DEF SearchInv, Searching, InTime, PassedMatch, AtStart, NoneBefore
<1>. QED BY <1>1, <1>2, <1>3, <1>4, <1>5, <1>6, <1>7 DEF Next

(* The location of a spec does not change while it is searched. *)
LEMMA SamePlace == ASSUME [Next]_vars PROVE Place' = Place
<1>1. UNCHANGED <<input, orig>>
  <2>1. CASE IncMonth \/ IncDay \/ IncHour \/ IncMinute \/ IncSecond
    BY <2>1 DEF IncMonth, IncDay, IncHour, IncMinute, IncSecond, Goto
  <2>2. CASE ParseText \/ NextDelay \/ NextSpec \/ Wrap \/ Accept \/ UNCHANGED vars
    BY <2>2 DEF ParseText, NextDelay, NextSpec, Wrap, Accept, vars
  <2>. QED BY <2>1, <2>2 DEF Next
<1>. QED BY <1>1 DEF Place

(***************************************************************************)
(* The inductive invariant of a search in a location without daylight      *)
(* saving time: the candidate is later than the given instant, the fields  *)
(* passed match it, nothing before it is an activation, and once a field   *)
(* was incremented every field matches or is at the start of its unit.     *)
(***************************************************************************)
THEOREM SearchHolds == Spec => [](Flat(Place) => SearchInv)
<1>1. Init => SearchInv
  BY PosIs DEF Init, SearchInv, Searching
<1>2. Control /\ (Flat(Place) => SearchInv) /\ [Next]_vars => (Flat(Place) => SearchInv)'
  <2>. SUFFICES ASSUME Control, Flat(Place) => SearchInv, [Next]_vars, Flat(Place)'
       PROVE  SearchInv'
    OBVIOUS
  <2>1. Flat(Place)
    BY SamePlace DEF Flat
  <2>. QED BY <2>1, SearchStep
<1>. QED BY <1>1, <1>2, ControlHolds, PTL DEF Spec

(* What is before an instant of the calendar is in the calendar. *)
LEMMA EarlierInCalendar ==
    ASSUME NEW z \in Zone, Flat(z), NEW u \in Nat, NEW x \in Nat, u <= x,
           InCalendar(Wall(z, x))
    PROVE  Wall(z, u) \in Nat /\ InCalendar(Wall(z, u))
<1>. DEFINE y == Wall(z, u)
            w == Wall(z, x)
<1>1. y \in Nat /\ w \in Nat /\ y <= w
  BY FlatClock
<1>2. Total \in Nat /\ w \div DayLen \in 0 .. Total - 1
  BY FirstDayType, MonthsType DEF Total, InCalendar
<1>. HIDE DEF y, w
<1>3. y \div DayLen \in Int /\ 0 <= y \div DayLen /\ y \div DayLen <= w \div DayLen
  <2>1. \A a, b \in Nat : a <= b => a \div DayLen <= b \div DayLen
    BY Lengths
  <2>2. \A a \in Nat : a \div DayLen \in Int /\ 0 <= a \div DayLen
    BY Lengths
  <2>. QED BY <1>1, <2>1, <2>2
<1>. QED BY <1>1, <1>2, <1>3 DEF InCalendar, y

(* What the invariant says when Next returns. *)
LEMMA AtReturn ==
    ASSUME Control, SearchInv, Flat(Place), pc \in {"found", "none"}, sched.kind = "spec"
    PROVE  /\ InTime /\ PassedMatch /\ NoneBefore /\ pc # "parse"
           /\ loc = Place /\ loc \in Zone /\ Flat(loc)
           /\ start \in Nat /\ t \in Nat /\ start < t /\ t % SecondLen = 0
           /\ InCalendar(Wall(loc, t))
<1>1. InTime /\ PassedMatch /\ NoneBefore
  BY DEF SearchInv, Searching
<1>. QED BY <1>1, LocIs, SchedulesAssumption DEF InTime

(***************************************************************************)
(* In a location without daylight saving time the instant that Next        *)
(* returns is later than the given one and the spec, read off its text, is *)
(* active then, for any calendar, spec and start.                          *)
(***************************************************************************)
THEOREM FoundActive == Spec => [](Flat(Place) => FoundIsActive)
<1>1. Control /\ (Flat(Place) => SearchInv) => (Flat(Place) => FoundIsActive)
  <2>. SUFFICES ASSUME Control, SearchInv, Flat(Place), pc = "found", sched.kind = "spec"
       PROVE  t > start /\ Active(t)
    BY DEF FoundIsActive
  <2>1. Due(t)
    BY AtReturn, PosIs DEF Due, PassedMatch, Passed
  <2>. QED BY <2>1, AtReturn, DueIsActive
<1>. QED BY <1>1, ControlHolds, SearchHolds, PTL

(***************************************************************************)
(* In a location without daylight saving time Next skips no activation,    *)
(* and gives up only beyond the years that it looks at.                    *)
(***************************************************************************)
THEOREM NoActivationSkipped == Spec => [](Flat(Place) => NoneSkipped)
<1>1. Control /\ (Flat(Place) => SearchInv) => (Flat(Place) => NoneSkipped)
  <2>. SUFFICES ASSUME Control, SearchInv, Flat(Place), pc \in {"found", "none"},
                       sched.kind = "spec"
       PROVE  /\ \A u \in start + 1 .. t - 1 : ~Active(u)
              /\ pc = "none" => Date(Place, t).year > Date(Place, start).year + YearSpan
    BY DEF NoneSkipped
  <2>1. ASSUME NEW u \in start + 1 .. t - 1 PROVE ~Active(u)
    <3>1. u \in Nat /\ u <= t
      BY AtReturn
    <3>2. InCalendar(Wall(loc, u)) /\ ~Due(u)
      BY <3>1, AtReturn, EarlierInCalendar DEF NoneBefore
    <3>. QED BY <3>1, <3>2, AtReturn, DueIsActive
  <2>2. ASSUME pc = "none" PROVE Date(Place, t).year > Date(Place, start).year + YearSpan
    <3>1. /\ Date(loc, start).year + YearSpan <= yearLimit /\ yearLimit \in Nat
          /\ Date(loc, t).year > yearLimit
      BY <2>2, AtReturn DEF InTime
    <3>2. InCalendar(Wall(loc, start))
      BY AtReturn, EarlierInCalendar
    <3>3. Date(loc, t).year \in Nat /\ Date(loc, start).year \in Nat /\ YearSpan \in Nat
      BY <3>2, AtReturn, YearType, SchedulesAssumption DEF Date, InCalendar
    <3>. QED BY <3>1, <3>3, AtReturn
  <2>. QED BY <2>1, <2>2
<1>. QED BY <1>1, ControlHolds, SearchHolds, PTL
===============================================================================
