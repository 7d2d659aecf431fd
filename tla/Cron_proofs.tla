------------------------------ MODULE Cron_proofs -----------------------------
(***************************************************************************)
(* Proofs about Cron: for any callers, schedules and bounds, a scheduler   *)
(* that is late, restarted, or changed while it waits.                     *)
(***************************************************************************)
EXTENDS Cron, Induction

-------------------------------------------------------------------------------
(* removeEntry *)

Unique(s) == \A i, j \in DOMAIN s : s[i].id = s[j].id => i = j

(* The loop of removeEntry: what it has kept after each number of rounds. *)
LEMMA KeptExists ==
  ASSUME NEW s \in Seq(Entry), NEW id
  PROVE  \E g : g = [i \in 0 .. Len(s) |->
                       IF i = 0 THEN <<>>
                       ELSE IF s[i].id # id THEN Append(g[i - 1], s[i]) ELSE g[i - 1]]
<1>. DEFINE n == Len(s)
            Round(q, i) == IF s[i].id # id THEN Append(q, s[i]) ELSE q
            Eq(g, m) == g = [i \in 0 .. m |-> IF i = 0 THEN <<>> ELSE Round(g[i - 1], i)]
            T == {m \in 0 .. n : \E g : Eq(g, m)}
<1>0. n \in Nat
  OBVIOUS
<1>. HIDE DEF n, Round
<1>1. 0 \in T
  <2>. DEFINE g == [i \in 0 .. 0 |-> <<>>]
  <2>1. Eq(g, 0)
    OBVIOUS
  <2>2. \E f : Eq(f, 0)
    <3>. HIDE DEF Eq, g
    <3>. QED BY <2>1
  <2>. QED BY <1>0, <2>2
<1>2. ASSUME NEW m \in 0 .. n - 1, m \in T PROVE m + 1 \in T
  <2>1. PICK g : Eq(g, m)
    BY <1>2
  <2>. DEFINE h == [i \in 0 .. m + 1 |-> IF i <= m THEN g[i] ELSE Round(g[m], m + 1)]
  <2>2. \A i \in 0 .. m : g[i] = IF i = 0 THEN <<>> ELSE Round(g[i - 1], i)
    BY <2>1
  <2>3. ASSUME NEW i \in 0 .. m + 1
        PROVE  h[i] = IF i = 0 THEN <<>> ELSE Round(h[i - 1], i)
    <3>1. CASE i = 0
      BY <1>0, <2>2, <3>1
    <3>2. CASE i \in 1 .. m
      <4>1. h[i] = g[i] /\ h[i - 1] = g[i - 1]
        BY <1>0, <3>2
      <4>2. g[i] = Round(g[i - 1], i)
        BY <1>0, <2>2, <3>2
      <4>. QED BY <3>2, <4>1, <4>2
    <3>3. CASE i = m + 1
      <4>1. h[i] = Round(g[m], i) /\ h[i - 1] = g[m]
        BY <1>0, <3>3
      <4>. QED BY <1>0, <3>3, <4>1
    <3>. QED BY <1>0, <3>1, <3>2, <3>3
  <2>4. Eq(h, m + 1)
    BY <2>3
  <2>5. \E f : Eq(f, m + 1)
    <3>. HIDE DEF Eq, h
    <3>. QED BY <2>4
  <2>. QED BY <1>0, <2>5
<1>3. n \in T
  <2>. HIDE DEF T
  <2>1. 0 .. n \subseteq T
    BY <1>0, <1>1, <1>2, UpTo
  <2>. QED BY <1>0, <2>1
<1>4. PICK g : Eq(g, n)
  BY <1>3
<1>. QED
  BY <1>4 DEF Round, n

(* RemoveEntry keeps exactly the entries with another id, each one once. *)
LEMMA RemoveEntryIs ==
  ASSUME NEW s \in Seq(Entry), NEW id, Unique(s)
  PROVE  /\ RemoveEntry(s, id) \in Seq(Entry) /\ Unique(RemoveEntry(s, id))
         /\ \A e : e \in Elems(RemoveEntry(s, id)) <=> e \in Elems(s) /\ e.id # id
<1>. DEFINE n == Len(s)
            Eq(g) == g = [i \in 0 .. n |->
                            IF i = 0 THEN <<>>
                            ELSE IF s[i].id # id THEN Append(g[i - 1], s[i]) ELSE g[i - 1]]
            kept == CHOOSE g : Eq(g)
            Upto(i) == {s[j] : j \in {k \in 1 .. i : s[k].id # id}}
            Good(i) == kept[i] \in Seq(Entry) /\ Unique(kept[i]) /\ Elems(kept[i]) = Upto(i)
            T == {i \in 0 .. n : Good(i)}
<1>0. n \in Nat /\ DOMAIN s = 1 .. n
  OBVIOUS
<1>1. Eq(kept)
  <2>1. \E g : Eq(g)
    BY KeptExists
  <2>. HIDE DEF Eq
  <2>. QED BY <2>1
<1>2. RemoveEntry(s, id) = kept[n]
  BY DEF RemoveEntry
<1>3. \A i \in 0 .. n : kept[i] = IF i = 0 THEN <<>>
                                 ELSE IF s[i].id # id THEN Append(kept[i - 1], s[i])
                                 ELSE kept[i - 1]
  <2>. HIDE DEF kept, n
  <2>. QED BY <1>1
<1>. HIDE DEF kept, n
<1>4. 0 \in T
  <2>1. kept[0] = <<>>
    BY <1>0, <1>3
  <2>2. Elems(kept[0]) = {} /\ Upto(0) = {}
    BY <2>1 DEF Elems
  <2>3. kept[0] \in Seq(Entry) /\ Unique(kept[0])
    BY <2>1 DEF Unique
  <2>. QED BY <1>0, <2>2, <2>3
<1>5. ASSUME NEW i \in 0 .. n - 1, i \in T PROVE i + 1 \in T
  <2>. DEFINE q == kept[i]
              m == i + 1
  <2>1. m \in 1 .. n /\ m - 1 = i /\ i \in Nat
    BY <1>0
  <2>2. q \in Seq(Entry) /\ Unique(q) /\ Elems(q) = Upto(i) /\ s[m] \in Entry
    BY <1>0, <1>5, <2>1
  <2>3. kept[m] = IF s[m].id # id THEN Append(q, s[m]) ELSE q
    BY <1>0, <1>3, <2>1
  <2>. HIDE DEF q, m
  <2>4. CASE s[m].id = id
    <3>1. Upto(m) = Upto(i)
      BY <2>1, <2>4
    <3>. QED BY <1>0, <2>1, <2>2, <2>3, <2>4, <3>1 DEF m
  <2>5. CASE s[m].id # id
    <3>1. Upto(m) = Upto(i) \cup {s[m]}
      BY <2>1, <2>5
    <3>2. /\ kept[m] \in Seq(Entry) /\ Len(kept[m]) = Len(q) + 1
          /\ \A j \in 1 .. Len(q) : kept[m][j] = q[j]
          /\ kept[m][Len(q) + 1] = s[m] /\ Len(q) \in Nat
      BY <2>2, <2>3, <2>5
    <3>3. DOMAIN kept[m] = 1 .. Len(q) + 1 /\ DOMAIN q = 1 .. Len(q)
      BY <2>2, <3>2
    <3>4. Elems(kept[m]) = Elems(q) \cup {s[m]}
      BY <3>2, <3>3 DEF Elems
    <3>5. \A j \in 1 .. Len(q) : q[j].id # s[m].id
      <4>1. ASSUME NEW j \in 1 .. Len(q) PROVE q[j].id # s[m].id
        <5>1. q[j] \in Upto(i)
          BY <2>2, <3>3 DEF Elems
        <5>2. PICK k \in 1 .. i : q[j] = s[k]
          BY <5>1
        <5>. QED BY <1>0, <2>1, <5>2 DEF Unique
      <4>. QED BY <4>1
    <3>6. Unique(kept[m])
      <4>1. ASSUME NEW j \in 1 .. Len(q) + 1, NEW k \in 1 .. Len(q) + 1, j # k
            PROVE  kept[m][j].id # kept[m][k].id
        <5>1. CASE j \in 1 .. Len(q) /\ k \in 1 .. Len(q)
          BY <2>2, <3>2, <3>3, <4>1, <5>1 DEF Unique
        <5>2. CASE j = Len(q) + 1 \/ k = Len(q) + 1
          BY <3>2, <3>5, <4>1, <5>2
        <5>. QED BY <3>2, <5>1, <5>2
      <4>. QED BY <3>3, <4>1 DEF Unique
    <3>7. Elems(kept[m]) = Upto(m)
      BY <2>2, <3>1, <3>4
    <3>8. Good(m) /\ m \in 0 .. n
      <4>. HIDE DEF Upto
      <4>. QED BY <1>0, <2>1, <3>2, <3>6, <3>7
    <3>. HIDE DEF Good
    <3>. QED BY <3>8 DEF m
  <2>. QED BY <2>4, <2>5
<1>6. Good(n)
  <2>1. 0 .. n \subseteq T
    <3>. HIDE DEF T
    <3>. QED BY <1>0, <1>4, <1>5, UpTo
  <2>. HIDE DEF Good
  <2>. QED BY <1>0, <2>1
<1>7. \A e : e \in Upto(n) <=> e \in Elems(s) /\ e.id # id
  BY <1>0 DEF Elems
<1>. QED BY <1>2, <1>6, <1>7

-------------------------------------------------------------------------------
(* The sort *)

Sorted(s) == \A i, j \in DOMAIN s : i < j => ~Less(s[j], s[i])

(* Whatever order the sort leaves, the entries are the same ones. *)
LEMMA SortIs ==
  ASSUME NEW s \in Seq(Entry), NEW p \in SortedOrders(s), Unique(s),
         NEW t, t = [i \in DOMAIN s |-> s[p[i]]]
  PROVE  /\ t \in Seq(Entry) /\ DOMAIN t = DOMAIN s
         /\ Unique(t) /\ Sorted(t) /\ Elems(t) = Elems(s)
<1>1. Len(s) \in Nat /\ DOMAIN s = 1 .. Len(s)
  OBVIOUS
<1>2. /\ p \in [DOMAIN s -> DOMAIN s]
      /\ \A i, j \in DOMAIN s : p[i] = p[j] => i = j
      /\ \A i, j \in DOMAIN s : i < j => ~Less(s[p[j]], s[p[i]])
  BY DEF SortedOrders
<1>3. t \in Seq(Entry)
  BY <1>1, <1>2
<1>4. \A i \in DOMAIN s : t[i] = s[p[i]]
  OBVIOUS
<1>5. \A k \in DOMAIN s : \E i \in DOMAIN s : p[i] = k
  <2>1. IsFiniteSet(DOMAIN s)
    BY <1>1, FS_Interval
  <2>2. p \in Injection(DOMAIN s, DOMAIN s)
    BY <1>2 DEF Injection, IsInjective
  <2>3. p \in Surjection(DOMAIN s, DOMAIN s)
    BY <2>1, <2>2, FS_Injection
  <2>. QED BY <2>3 DEF Surjection
<1>6. Unique(t)
  BY <1>2, <1>4 DEF Unique
<1>7. Sorted(t)
  BY <1>2, <1>4 DEF Sorted
<1>8. Elems(t) = Elems(s)
  <2>1. \A e : e \in Elems(t) <=> \E i \in DOMAIN s : e = s[p[i]]
    BY <1>4 DEF Elems
  <2>2. \A e : e \in Elems(s) <=> \E k \in DOMAIN s : e = s[k]
    BY DEF Elems
  <2>3. ASSUME NEW e, e \in Elems(s) PROVE e \in Elems(t)
    <3>1. PICK k \in DOMAIN s : e = s[k]
      BY <2>2, <2>3
    <3>2. PICK i \in DOMAIN s : p[i] = k
      BY <1>5
    <3>. QED BY <2>1, <3>1, <3>2
  <2>4. ASSUME NEW e, e \in Elems(t) PROVE e \in Elems(s)
    BY <1>2, <2>1, <2>2, <2>4
  <2>. QED BY <2>3, <2>4
<1>. QED BY <1>3, <1>6, <1>7, <1>8

-------------------------------------------------------------------------------
(* The inductive invariant *)

Sending(c) == pc[c].at = "send"
Waiting == {c \in Caller : pc[c].at = "lock"}

(***************************************************************************)
(* The lock is held by the one caller that sends; a call that waits for it *)
(* has not taken its id yet; the id of a Remove was given out.             *)
(***************************************************************************)
CallOK ==
    /\ mu \in Caller \cup {NoCaller} /\ pc \in [Caller -> Call \cup {Idle}]
    /\ calls \in 0 .. MaxCalls /\ nextID \in Nat
    /\ \A c \in Caller : Sending(c) <=> mu = c
    /\ IsFiniteSet(Waiting) /\ nextID + Cardinality(Waiting) <= calls
    /\ \A c \in Caller : pc[c] # Idle /\ pc[c].op = "Remove" => pc[c].id <= nextID

(* Every id that was given out is in one entry, gone, or on its way. *)
EntriesOK ==
    /\ entries \in Seq(Entry) /\ Unique(entries)
    /\ gone \subseteq 1 .. nextID /\ Pending \subseteq (1 .. nextID) \ gone
    /\ Ids(entries) = (1 .. nextID) \ (gone \cup Pending)

(* The loop exists exactly while running is set; a caller sends only then. *)
LoopOK ==
    /\ loop \in {"none", "init", "arm", "select"}
    /\ running = (loop # "none") /\ (mu # NoCaller => running)
    /\ jobs \in Nat /\ waits \in Nat

(* An entry's last activation is over, and its next one comes after it. *)
PastOK ==
    \A e \in Elems(entries) : e.prev <= clock /\ (e.next # 0 => e.prev < e.next)

(* Up to its lateness the loop has the time, and wakes up in time. *)
ArmOK ==
    loop = "arm" =>
       /\ now # 0 /\ now <= clock /\ clock <= now + late
       /\ \A e \in Elems(entries) : e.next # 0 => clock <= e.next + late
SelectOK ==
    loop = "select" =>
       /\ Sorted(entries) /\ (deadline # 0 => clock <= deadline + late)
       /\ \A e \in Elems(entries) : e.next # 0 =>
            /\ deadline # 0 /\ deadline <= e.next + late
            /\ clock <= deadline \/ clock <= e.next + late
TimeOK ==
    /\ clock \in Time /\ late \in 0 .. MaxLate
    /\ now \in Time \cup {0} /\ deadline \in 0 .. MaxTime + MaxLate
    /\ PastOK /\ ArmOK /\ SelectOK

IInv == CallOK /\ EntriesOK /\ LoopOK /\ TimeOK

(* nextID is an Id once it is positive: every call takes at most one. *)
LEMMA NextIdBound ==
  ASSUME CallOK
  PROVE  nextID \in 0 .. MaxCalls /\ (Waiting # {} => nextID + 1 \in Id)
<1>1. Cardinality(Waiting) \in Nat /\ (Waiting # {} => Cardinality(Waiting) # 0)
  BY FS_CardinalityType, FS_EmptySet DEF CallOK
<1>. QED
  BY <1>1, CronAssumption DEF CallOK, Id

LEMMA InvImpliesType ==
  ASSUME IInv
  PROVE  TypeOK
<1>1. nextID \in 0 .. MaxCalls
  BY NextIdBound DEF IInv
<1>2. running \in BOOLEAN
  <2>1. running = (loop # "none")
    BY DEF IInv, LoopOK
  <2>. QED BY <2>1, Zenon
<1>3. gone \subseteq Id
  BY <1>1, CronAssumption DEF IInv, EntriesOK, Id
<1>4. entries \in Seq(Entry)
  BY DEF IInv, EntriesOK
<1>5. mu \in Caller \cup {NoCaller} /\ pc \in [Caller -> Call \cup {Idle}] /\ calls \in 0 .. MaxCalls
  BY DEF IInv, CallOK
<1>6. loop \in {"none", "init", "arm", "select"} /\ jobs \in Nat /\ waits \in Nat
  BY DEF IInv, LoopOK
<1>7. clock \in Time /\ late \in 0 .. MaxLate /\ now \in Time \cup {0}
      /\ deadline \in 0 .. MaxTime + MaxLate
  BY DEF IInv, TimeOK
<1>. QED
  BY <1>1, <1>2, <1>3, <1>4, <1>5, <1>6, <1>7 DEF TypeOK

(* Where a caller can be. *)
LEMMA Calling ==
  ASSUME CallOK, NEW c \in Caller
  PROVE  /\ pc[c] = Idle \/ pc[c] \in Call
         /\ Idle.at = "idle" /\ Idle \notin Call
         /\ pc[c].at \in {"idle", "lock", "send", "run"}
         /\ pc[c] # Idle <=> pc[c].at # "idle"
         /\ pc[c].at # "idle" => /\ pc[c] \in Call /\ pc[c].sched \in Sched /\ pc[c].id \in Id
                                 /\ pc[c].op \in Op
<1>1. pc[c] = Idle \/ pc[c] \in Call
  BY DEF CallOK
<1>2. Idle.at = "idle"
  BY DEF Idle
<1>3. \A x \in Call : x.at \in {"lock", "send", "run"} /\ x.sched \in Sched /\ x.id \in Id
                      /\ x.op \in Op
  BY DEF Call
<1>. QED BY <1>1, <1>2, <1>3

-------------------------------------------------------------------------------
(* Callers *)

LEMMA EnterCalls ==
  ASSUME CallOK, NEW c \in Caller, Enter(c)
  PROVE  CallOK' /\ (Pending' = Pending)
<1>1. PICK op \in Op, s \in Sched, id \in Id :
        /\ op = "Remove" => id <= nextID
        /\ pc' = [pc EXCEPT ![c] = [at |-> "lock", op |-> op, sched |-> s, id |-> id]]
  BY DEF Enter
<1>. DEFINE w == [at |-> "lock", op |-> op, sched |-> s, id |-> id]
<1>2. w \in Call /\ w.at = "lock" /\ w.op = op /\ w.id = id
  BY DEF Call
<1>3. /\ pc[c] = Idle /\ calls' = calls + 1 /\ calls < MaxCalls
      /\ UNCHANGED <<nextID, mu>>
  BY DEF Enter
<1>. HIDE DEF w
<1>4. /\ pc' \in [Caller -> Call \cup {Idle}] /\ pc'[c] = w
      /\ \A d \in Caller : d # c => pc'[d] = pc[d]
  BY <1>1, <1>2 DEF CallOK, w
<1>5. Waiting' = Waiting \cup {c} /\ c \notin Waiting /\ IsFiniteSet(Waiting)
  BY <1>2, <1>3, <1>4, Calling DEF Waiting, CallOK
<1>6. IsFiniteSet(Waiting') /\ Cardinality(Waiting') = Cardinality(Waiting) + 1
      /\ Cardinality(Waiting) \in Nat
  BY <1>5, FS_AddElement, FS_CardinalityType
<1>7. \A d \in Caller : Sending(d)' <=> Sending(d)
  BY <1>2, <1>3, <1>4, Calling DEF Sending
<1>8. nextID' + Cardinality(Waiting') <= calls' /\ calls' \in 0 .. MaxCalls
  BY <1>3, <1>6, CronAssumption DEF CallOK
<1>9. \A d \in Caller : pc'[d] # Idle /\ pc'[d].op = "Remove" => pc'[d].id <= nextID'
  BY <1>1, <1>2, <1>3, <1>4 DEF CallOK
<1>10. Pending' = Pending
  BY <1>2, <1>3, <1>4, Calling DEF Pending
<1>. QED
  BY <1>3, <1>4, <1>6, <1>7, <1>8, <1>9, <1>10 DEF CallOK

(* A caller that gets the lock returns, sends, or runs the loop itself. *)
LEMMA LeaveLock ==
  ASSUME CallOK, NEW c \in Caller, pc[c].at = "lock", mu = NoCaller, calls' = calls,
         nextID' \in {nextID, nextID + 1},
         NEW w \in Call \cup {Idle}, w.at # "lock", pc' = [pc EXCEPT ![c] = w],
         w # Idle => w.op = pc[c].op /\ w.id = pc[c].id,
         mu' = IF w.at = "send" THEN c ELSE NoCaller
  PROVE  /\ CallOK' /\ pc'[c] = w /\ Pending = {}
         /\ w.at # "send" => Pending' = {}
         /\ w.at = "send" => Pending' = IF pc[c].op = "Schedule" THEN {nextID'} ELSE {}
<1>1. /\ pc' \in [Caller -> Call \cup {Idle}] /\ pc'[c] = w
      /\ \A d \in Caller : d # c => pc'[d] = pc[d]
  BY DEF CallOK
<1>2. \A d \in Caller : ~Sending(d)
  BY CronAssumption DEF CallOK
<1>3. \A d \in Caller : Sending(d)' <=> mu' = d
  BY <1>1, <1>2, CronAssumption DEF Sending
<1>4. Waiting' = Waiting \ {c} /\ c \in Waiting /\ IsFiniteSet(Waiting)
  BY <1>1 DEF Waiting, CallOK
<1>5. IsFiniteSet(Waiting') /\ Cardinality(Waiting') = Cardinality(Waiting) - 1
      /\ Cardinality(Waiting) \in Nat
  BY <1>4, FS_RemoveElement, FS_CardinalityType
<1>6. nextID' \in Nat /\ nextID' >= nextID /\ nextID' + Cardinality(Waiting') <= calls'
  BY <1>5 DEF CallOK
<1>7. \A d \in Caller : pc'[d] # Idle /\ pc'[d].op = "Remove" => pc'[d].id <= nextID'
  <2>. SUFFICES ASSUME NEW d \in Caller, pc'[d] # Idle, pc'[d].op = "Remove"
       PROVE  pc'[d].id <= nextID'
    OBVIOUS
  <2>1. pc[d] # Idle /\ pc[d].op = "Remove" /\ pc'[d].id = pc[d].id
    BY <1>1, Calling
  <2>2. pc[d].id <= nextID /\ pc[d].id \in Nat /\ nextID \in Nat
    BY <2>1, Calling DEF CallOK, Id
  <2>. QED BY <1>6, <2>1, <2>2
<1>8. Pending = {}
  BY <1>2 DEF Pending, Sending
<1>9. w.at # "send" => Pending' = {}
  BY <1>1, <1>2 DEF Pending, Sending
<1>10. w.at = "send" => Pending' = IF pc[c].op = "Schedule" THEN {nextID'} ELSE {}
  <2>. SUFFICES ASSUME w.at = "send"
       PROVE  Pending' = IF pc[c].op = "Schedule" THEN {nextID'} ELSE {}
    OBVIOUS
  <2>1. w # Idle
    BY Calling
  <2>2. {d \in Caller : pc'[d] # Idle /\ pc'[d].at = "send" /\ pc'[d].op = "Schedule"}
          = IF pc[c].op = "Schedule" THEN {c} ELSE {}
    BY <1>1, <1>2, <2>1 DEF Sending
  <2>. QED BY <2>2 DEF Pending
<1>11. mu' \in Caller \cup {NoCaller}
  OBVIOUS
<1>. QED
  BY <1>1, <1>3, <1>5, <1>6, <1>7, <1>8, <1>9, <1>10, <1>11 DEF CallOK

LEMMA ReturnsCalls ==
  ASSUME CallOK, NEW c \in Caller, NEW op, Locks(c, op), Returns(c), calls' = calls,
         nextID' \in {nextID, nextID + 1}
  PROVE  CallOK' /\ Pending = {} /\ Pending' = {}
<1>1. pc[c].at = "lock" /\ mu = NoCaller /\ pc' = [pc EXCEPT ![c] = Idle] /\ mu' = NoCaller
  BY DEF Locks, Returns
<1>2. Idle.at = "idle"
  BY Calling
<1>. QED BY <1>1, <1>2, LeaveLock

(* A caller that is put at another place of its call keeps its arguments. *)
LEMMA Places ==
  ASSUME CallOK, NEW c \in Caller, pc[c].at = "lock", NEW at \in {"send", "run"},
         pc' = [pc EXCEPT ![c].at = at]
  PROVE  \E w \in Call : /\ pc' = [pc EXCEPT ![c] = w] /\ w # Idle /\ w.at = at
                         /\ w.op = pc[c].op /\ w.id = pc[c].id
<1>. DEFINE w == [pc[c] EXCEPT !.at = at]
<1>1. pc[c] \in Call
  BY Calling
<1>2. w \in Call /\ w.at = at /\ w.op = pc[c].op /\ w.id = pc[c].id
  BY <1>1 DEF Call
<1>3. pc' = [pc EXCEPT ![c] = w]
  BY DEF CallOK
<1>. HIDE DEF w
<1>4. w # Idle
  BY <1>2, Calling
<1>. QED BY <1>2, <1>3, <1>4

LEMMA BlocksCalls ==
  ASSUME CallOK, NEW c \in Caller, NEW op, Locks(c, op), Blocks(c), calls' = calls,
         nextID' \in {nextID, nextID + 1}
  PROVE  CallOK' /\ Pending = {} /\ Pending' = IF op = "Schedule" THEN {nextID'} ELSE {}
<1>1. pc[c].at = "lock" /\ mu = NoCaller /\ pc[c].op = op /\ mu' = c
      /\ pc' = [pc EXCEPT ![c].at = "send"]
  BY DEF Locks, Blocks
<1>2. PICK w \in Call : /\ pc' = [pc EXCEPT ![c] = w] /\ w # Idle /\ w.at = "send"
                        /\ w.op = pc[c].op /\ w.id = pc[c].id
  BY <1>1, Places
<1>. QED BY <1>1, <1>2, LeaveLock

LEMMA RunCalls ==
  ASSUME CallOK, NEW c \in Caller, Locks(c, "Run"), pc' = [pc EXCEPT ![c].at = "run"],
         UNCHANGED <<mu, calls, nextID>>
  PROVE  CallOK' /\ Pending = {} /\ Pending' = {}
<1>1. pc[c].at = "lock" /\ mu = NoCaller
  BY DEF Locks
<1>2. PICK w \in Call : /\ pc' = [pc EXCEPT ![c] = w] /\ w # Idle /\ w.at = "run"
                        /\ w.op = pc[c].op /\ w.id = pc[c].id
  BY <1>1, Places
<1>. QED BY <1>1, <1>2, LeaveLock

(* The caller that sends is received, and with Stop a caller of Run returns. *)
LEMMA ReceiveCalls ==
  ASSUME CallOK, NEW c \in Caller, NEW op, Sends(c, op), UNCHANGED <<calls, nextID>>,
         mu' = NoCaller,
         \/ pc' = [pc EXCEPT ![c] = Idle]
         \/ pc' = [d \in Caller |->
                     IF d = c \/ (pc[d] # Idle /\ pc[d].at = "run") THEN Idle ELSE pc[d]]
  PROVE  CallOK' /\ Pending = (IF op = "Schedule" THEN {nextID} ELSE {}) /\ Pending' = {}
<1>1. pc[c].at = "send" /\ pc[c].op = op /\ mu = c /\ pc[c] # Idle
  BY DEF Sends, CallOK, Sending
<1>2. \A d \in Caller : Sending(d) => d = c
  BY <1>1 DEF CallOK
<1>3. /\ pc' \in [Caller -> Call \cup {Idle}] /\ pc'[c] = Idle
      /\ \A d \in Caller : pc'[d] = pc[d] \/ (pc'[d] = Idle /\ pc[d].at \in {"send", "run"})
  BY <1>1 DEF CallOK
<1>4. Waiting' = Waiting
  BY <1>3, Calling DEF Waiting
<1>5. \A d \in Caller : ~Sending(d)'
  BY <1>2, <1>3, Calling DEF Sending
<1>6. \A d \in Caller : pc'[d] # Idle /\ pc'[d].op = "Remove" => pc'[d].id <= nextID'
  BY <1>3 DEF CallOK
<1>7. Pending' = {}
  BY <1>5 DEF Pending, Sending
<1>8. Pending = IF op = "Schedule" THEN {nextID} ELSE {}
  <2>1. {d \in Caller : pc[d] # Idle /\ pc[d].at = "send" /\ pc[d].op = "Schedule"}
          = IF op = "Schedule" THEN {c} ELSE {}
    BY <1>1, <1>2 DEF Sending
  <2>. QED BY <2>1 DEF Pending
<1>. QED
  BY <1>3, <1>4, <1>5, <1>6, <1>7, <1>8, CronAssumption DEF CallOK

LEMMA ReceiveOther ==
  ASSUME CallOK, NEW c \in Caller, NEW op \in {"Remove", "Entries", "Stop"}, Sends(c, op),
         UNCHANGED <<calls, nextID>>, mu' = NoCaller,
         \/ pc' = [pc EXCEPT ![c] = Idle]
         \/ pc' = [d \in Caller |->
                     IF d = c \/ (pc[d] # Idle /\ pc[d].at = "run") THEN Idle ELSE pc[d]]
  PROVE  CallOK' /\ Pending = {} /\ Pending' = {}
<1>1. CallOK' /\ Pending = (IF op = "Schedule" THEN {nextID} ELSE {}) /\ Pending' = {}
  BY ReceiveCalls
<1>2. op # "Schedule"
  OBVIOUS
<1>. QED BY <1>1, <1>2

LEMMA CallFrame ==
  ASSUME CallOK, UNCHANGED <<mu, pc, calls, nextID>>
  PROVE  CallOK' /\ Pending' = Pending
  BY DEF CallOK, Pending, Waiting, Sending

-------------------------------------------------------------------------------
(* Entries *)

LEMMA AppendIs ==
  ASSUME NEW s \in Seq(Entry), Unique(s), NEW e \in Entry, e.id \notin Ids(s)
  PROVE  /\ Append(s, e) \in Seq(Entry) /\ Unique(Append(s, e))
         /\ Elems(Append(s, e)) = Elems(s) \cup {e}
         /\ Ids(Append(s, e)) = Ids(s) \cup {e.id}
<1>. DEFINE t == Append(s, e)
            n == Len(s)
<1>1. /\ t \in Seq(Entry) /\ n \in Nat /\ DOMAIN s = 1 .. n /\ DOMAIN t = 1 .. n + 1
      /\ t[n + 1] = e /\ \A i \in 1 .. n : t[i] = s[i]
  OBVIOUS
<1>. HIDE DEF t, n
<1>2. Elems(t) = Elems(s) \cup {e}
  BY <1>1 DEF Elems
<1>3. \A i \in 1 .. n : s[i].id # e.id
  BY <1>1 DEF Ids, Elems
<1>4. Unique(t)
  BY <1>1, <1>3 DEF Unique
<1>5. Ids(t) = Ids(s) \cup {e.id}
  BY <1>2 DEF Ids
<1>. QED BY <1>1, <1>2, <1>4, <1>5 DEF t

LEMMA MapIs ==
  ASSUME NEW s \in Seq(Entry), Unique(s), NEW t \in [DOMAIN s -> Entry],
         \A i \in DOMAIN s : t[i].id = s[i].id
  PROVE  t \in Seq(Entry) /\ Unique(t) /\ Ids(t) = Ids(s)
<1>1. Len(s) \in Nat /\ DOMAIN s = 1 .. Len(s) /\ DOMAIN t = DOMAIN s
  OBVIOUS
<1>2. t \in Seq(Entry)
  BY <1>1
<1>3. Unique(t)
  BY <1>1 DEF Unique
<1>4. Ids(t) = Ids(s)
  <2>1. \A x : x \in Ids(s) <=> \E i \in DOMAIN s : x = s[i].id
    BY DEF Ids, Elems
  <2>2. \A x : x \in Ids(t) <=> \E i \in DOMAIN s : x = t[i].id
    BY <1>1 DEF Ids, Elems
  <2>. QED BY <2>1, <2>2
<1>. QED BY <1>2, <1>3, <1>4

(* An entry as Schedule makes it, and with its first activation set. *)
LEMMA NewEntryIs ==
  ASSUME NEW id \in Id, NEW s \in Sched
  PROVE  /\ NewEntry(id, s) \in Entry /\ NewEntry(id, s).id = id
         /\ NewEntry(id, s).next = 0 /\ NewEntry(id, s).prev = 0
  BY DEF NewEntry, Entry

LEMMA NewEntryTimed ==
  ASSUME NEW id \in Id, NEW s \in Sched, NEW t \in Time \cup {0}
  PROVE  /\ [NewEntry(id, s) EXCEPT !.next = t] \in Entry
         /\ [NewEntry(id, s) EXCEPT !.next = t].id = id
         /\ [NewEntry(id, s) EXCEPT !.next = t].next = t
         /\ [NewEntry(id, s) EXCEPT !.next = t].prev = 0
  BY DEF NewEntry, Entry

LEMMA EntriesFrame ==
  ASSUME EntriesOK, UNCHANGED <<entries, gone, nextID>>, Pending' = Pending
  PROVE  EntriesOK'
  BY DEF EntriesOK, Unique, Ids, Elems

(* Schedule or the add case, with the id that it has taken. *)
LEMMA AddedEntries ==
  ASSUME EntriesOK, nextID' \in Nat, gone' = gone, NEW e \in Entry, entries' = Append(entries, e),
         e.id = nextID', Pending' = {},
         \/ nextID' = nextID + 1 /\ Pending = {} /\ nextID \in Nat
         \/ nextID' = nextID /\ Pending = {nextID}
  PROVE  EntriesOK' /\ Elems(entries') = Elems(entries) \cup {e}
<1>1. nextID' \notin gone /\ nextID' \notin Ids(entries)
  BY DEF EntriesOK
<1>2. 1 .. nextID' = (1 .. nextID) \cup {nextID'}
  BY DEF EntriesOK
<1>3. /\ entries' \in Seq(Entry) /\ Unique(entries')
      /\ Elems(entries') = Elems(entries) \cup {e}
      /\ Ids(entries') = Ids(entries) \cup {nextID'}
  BY <1>1, AppendIs DEF EntriesOK
<1>4. Ids(entries') = (1 .. nextID') \ (gone' \cup Pending')
  BY <1>1, <1>2, <1>3 DEF EntriesOK
<1>5. gone' \subseteq 1 .. nextID'
  BY <1>2 DEF EntriesOK
<1>6. EntriesOK'
  BY <1>3, <1>4, <1>5 DEF EntriesOK, Unique, Ids, Elems
<1>. QED BY <1>3, <1>6

LEMMA RemovedEntries ==
  ASSUME EntriesOK, nextID' = nextID, NEW id \in 1 .. nextID, gone' = gone \cup {id},
         entries' = RemoveEntry(entries, id), Pending = {}, Pending' = {}
  PROVE  EntriesOK' /\ Elems(entries') \subseteq Elems(entries)
<1>1. /\ entries' \in Seq(Entry) /\ Unique(entries')
      /\ \A e : e \in Elems(entries') <=> e \in Elems(entries) /\ e.id # id
  BY RemoveEntryIs DEF EntriesOK
<1>2. Ids(entries') = Ids(entries) \ {id}
  BY <1>1 DEF Ids
<1>3. Ids(entries') = (1 .. nextID') \ (gone' \cup Pending') /\ gone' \subseteq 1 .. nextID'
  BY <1>2 DEF EntriesOK
<1>4. EntriesOK'
  BY <1>1, <1>3 DEF EntriesOK, Unique, Ids, Elems
<1>. QED BY <1>1, <1>4

-------------------------------------------------------------------------------
(* Time *)

LEMMA TimeFrame ==
  ASSUME TimeOK, UNCHANGED <<clock, late, entries, loop, now, deadline>>
  PROVE  TimeOK'
  BY DEF TimeOK, PastOK, ArmOK, SelectOK, Elems, Sorted, Less

(* The entries of a scheduler that does not run may change. *)
LEMMA TimeStopped ==
  ASSUME TimeOK, loop' \in {"none", "init"}, UNCHANGED <<clock, late, now, deadline>>,
         \A e \in Elems(entries') : e \in Elems(entries) \/ (e.prev = 0 /\ e.next = 0)
  PROVE  TimeOK'
<1>1. PastOK'
  BY DEF TimeOK, PastOK, Time, Elems
<1>. QED
  BY <1>1 DEF TimeOK, ArmOK, SelectOK

LEMMA EntryTypes ==
  ASSUME EntriesOK, NEW e \in Elems(entries)
  PROVE  e.id \in Id /\ e.sched \in Sched /\ e.next \in Time \cup {0} /\ e.prev \in Time \cup {0}
         /\ e \in Entry
<1>1. e \in Entry
  BY DEF EntriesOK, Elems
<1>. QED BY <1>1 DEF Entry

-------------------------------------------------------------------------------
(* Steps of the callers *)

LEMMA LoopFrame ==
  ASSUME LoopOK, UNCHANGED <<loop, running, jobs, waits>>, mu' = NoCaller \/ running
  PROVE  LoopOK'
  BY DEF LoopOK

LEMMA EnterInv ==
  ASSUME IInv, NEW c \in Caller, Enter(c)
  PROVE  IInv'
<1>1. CallOK' /\ Pending' = Pending
  BY EnterCalls DEF IInv
<1>2. UNCHANGED <<clock, late, entries, nextID, running, mu, loop, now, deadline, jobs, waits, gone>>
  BY DEF Enter, timeVars, loopVars, jobVars
<1>3. EntriesOK' /\ TimeOK'
  BY <1>1, <1>2, EntriesFrame, TimeFrame DEF IInv
<1>4. LoopOK'
  BY <1>2 DEF IInv, LoopOK
<1>. QED BY <1>1, <1>3, <1>4 DEF IInv

LEMMA ScheduleInv ==
  ASSUME IInv, NEW c \in Caller, Schedule(c)
  PROVE  IInv'
<1>1. /\ Locks(c, "Schedule") /\ nextID' = nextID + 1
      /\ UNCHANGED <<clock, late, running, loop, now, deadline, jobs, waits, calls, gone>>
  BY DEF Schedule, timeVars, loopVars, jobVars
<1>2. nextID \in Nat /\ nextID' \in Id /\ pc[c].sched \in Sched
  <2>1. pc[c].at = "lock" /\ pc[c] # Idle
    BY <1>1 DEF Locks
  <2>2. nextID + 1 \in Id
    BY <2>1, NextIdBound DEF IInv, Waiting
  <2>. QED BY <1>1, <2>1, <2>2, Calling DEF IInv, CallOK
<1>3. CASE ~running /\ Returns(c) /\ entries' = Append(entries, NewEntry(nextID', pc[c].sched))
  <2>1. CallOK' /\ Pending = {} /\ Pending' = {}
    BY <1>1, <1>3, ReturnsCalls DEF IInv
  <2>2. PICK e \in Entry : /\ e.id = nextID' /\ e.next = 0 /\ e.prev = 0
                            /\ entries' = Append(entries, e)
    <3>. DEFINE n == NewEntry(nextID', pc[c].sched)
    <3>1. n \in Entry /\ n.id = nextID' /\ n.next = 0 /\ n.prev = 0
      BY <1>2, NewEntryIs
    <3>2. entries' = Append(entries, n)
      BY <1>3
    <3>. HIDE DEF n
    <3>. QED BY <3>1, <3>2
  <2>3. EntriesOK' /\ Elems(entries') = Elems(entries) \cup {e}
    BY <1>1, <1>2, <2>1, <2>2, AddedEntries DEF IInv, Id
  <2>4. loop' = "none"
    BY <1>1, <1>3 DEF IInv, LoopOK
  <2>5. TimeOK'
    BY <1>1, <2>2, <2>3, <2>4, TimeStopped DEF IInv
  <2>6. LoopOK'
    BY <1>1, <1>3, LoopFrame DEF IInv, Returns
  <2>. QED BY <2>1, <2>3, <2>5, <2>6 DEF IInv
<1>4. CASE running /\ Blocks(c) /\ UNCHANGED entries
  <2>1. CallOK' /\ Pending = {} /\ Pending' = {nextID'}
    BY <1>1, <1>4, BlocksCalls DEF IInv
  <2>2. EntriesOK'
    <3>1. /\ nextID' \notin gone /\ nextID' \in Nat
          /\ 1 .. nextID' = (1 .. nextID) \cup {nextID'} /\ nextID' \notin 1 .. nextID
      BY <1>1, <1>2 DEF IInv, EntriesOK, Id
    <3>2. (1 .. nextID') \ (gone \cup {nextID'}) = (1 .. nextID) \ gone
      BY <3>1
    <3>. QED BY <1>1, <1>4, <2>1, <3>1, <3>2 DEF IInv, EntriesOK, Unique, Ids, Elems
  <2>3. TimeOK' /\ LoopOK'
    BY <1>1, <1>4, TimeFrame, LoopFrame DEF IInv
  <2>. QED BY <2>1, <2>2, <2>3 DEF IInv
<1>. QED BY <1>3, <1>4 DEF Schedule

LEMMA RemoveInv ==
  ASSUME IInv, NEW c \in Caller, Remove(c)
  PROVE  IInv'
<1>1. /\ Locks(c, "Remove")
      /\ UNCHANGED <<clock, late, nextID, running, loop, now, deadline, jobs, waits, calls>>
  BY DEF Remove, timeVars, loopVars, jobVars
<1>2. CASE /\ ~running /\ Returns(c) /\ entries' = RemoveEntry(entries, pc[c].id)
           /\ gone' = gone \cup {pc[c].id}
  <2>1. CallOK' /\ Pending = {} /\ Pending' = {}
    BY <1>1, <1>2, ReturnsCalls DEF IInv
  <2>2. pc[c].id \in 1 .. nextID
    <3>1. pc[c] # Idle /\ pc[c].op = "Remove"
      BY <1>1 DEF Locks
    <3>2. pc[c].id \in Id /\ pc[c].id <= nextID /\ nextID \in Nat
      BY <3>1, Calling DEF IInv, CallOK
    <3>. QED BY <3>2, CronAssumption DEF Id
  <2>3. EntriesOK' /\ Elems(entries') \subseteq Elems(entries)
    BY <1>1, <1>2, <2>1, <2>2, RemovedEntries DEF IInv
  <2>4. loop' = "none"
    BY <1>1, <1>2 DEF IInv, LoopOK
  <2>5. TimeOK'
    BY <1>1, <2>3, <2>4, TimeStopped DEF IInv
  <2>6. LoopOK'
    BY <1>1, <1>2, LoopFrame DEF IInv, Returns
  <2>. QED BY <2>1, <2>3, <2>5, <2>6 DEF IInv
<1>3. CASE running /\ Blocks(c) /\ UNCHANGED <<entries, gone>>
  <2>1. CallOK' /\ Pending' = Pending
    BY <1>1, <1>3, BlocksCalls DEF IInv
  <2>2. EntriesOK' /\ TimeOK' /\ LoopOK'
    BY <1>1, <1>3, <2>1, EntriesFrame, TimeFrame, LoopFrame DEF IInv
  <2>. QED BY <2>1, <2>2 DEF IInv
<1>. QED BY <1>2, <1>3 DEF Remove

LEMMA ResetInv ==
  ASSUME IInv, NEW c \in Caller, ResetEntries(c)
  PROVE  IInv'
<1>1. /\ Locks(c, "ResetEntries")
      /\ UNCHANGED <<clock, late, nextID, running, loop, now, deadline, jobs, waits, calls>>
  BY DEF ResetEntries, timeVars, loopVars, jobVars
<1>2. CASE ~running /\ Returns(c) /\ entries' = <<>> /\ gone' = gone \cup Ids(entries)
  <2>1. CallOK' /\ Pending = {} /\ Pending' = {}
    BY <1>1, <1>2, ReturnsCalls DEF IInv
  <2>2. /\ entries' \in Seq(Entry) /\ Unique(entries') /\ Elems(entries') = {}
        /\ Ids(entries') = {}
    BY <1>2 DEF Unique, Ids, Elems
  <2>3. gone' = 1 .. nextID'
    BY <1>1, <1>2, <2>1 DEF IInv, EntriesOK
  <2>4. EntriesOK'
    BY <1>1, <2>1, <2>2, <2>3 DEF EntriesOK, Unique, Ids, Elems
  <2>5. loop' = "none"
    BY <1>1, <1>2 DEF IInv, LoopOK
  <2>6. TimeOK'
    BY <1>1, <2>2, <2>5, TimeStopped DEF IInv
  <2>7. LoopOK'
    BY <1>1, <1>2, LoopFrame DEF IInv, Returns
  <2>. QED BY <2>1, <2>4, <2>6, <2>7 DEF IInv
<1>3. CASE running /\ Blocks(c) /\ UNCHANGED <<entries, gone>>
  <2>1. CallOK' /\ Pending' = Pending
    BY <1>1, <1>3, BlocksCalls DEF IInv
  <2>2. EntriesOK' /\ TimeOK' /\ LoopOK'
    BY <1>1, <1>3, <2>1, EntriesFrame, TimeFrame, LoopFrame DEF IInv
  <2>. QED BY <2>1, <2>2 DEF IInv
<1>. QED BY <1>2, <1>3 DEF ResetEntries

LEMMA EntriesInv ==
  ASSUME IInv, NEW c \in Caller, Entries(c)
  PROVE  IInv'
<1>1. /\ Locks(c, "Entries") /\ ((~running /\ Returns(c)) \/ (running /\ Blocks(c)))
      /\ UNCHANGED <<clock, late, entries, nextID, running, loop, now, deadline, jobs, waits,
                     calls, gone>>
  BY DEF Entries, timeVars, loopVars, jobVars
<1>2. CallOK' /\ Pending' = Pending
  <2>1. CASE Returns(c)
    BY <1>1, <2>1, ReturnsCalls DEF IInv
  <2>2. CASE Blocks(c)
    BY <1>1, <2>2, BlocksCalls DEF IInv
  <2>. QED BY <1>1, <2>1, <2>2
<1>3. mu' = NoCaller \/ running
  BY <1>1 DEF Returns
<1>4. EntriesOK' /\ TimeOK' /\ LoopOK'
  BY <1>1, <1>2, <1>3, EntriesFrame, TimeFrame, LoopFrame DEF IInv
<1>. QED BY <1>2, <1>4 DEF IInv

(* Start and Run: the loop begins, or runs already. *)
LEMMA StartInv ==
  ASSUME IInv, NEW c \in Caller, Start(c) \/ Run(c)
  PROVE  IInv'
<1>1. /\ UNCHANGED <<clock, late, entries, nextID, now, deadline, jobs, waits, calls, gone>>
      /\ \/ running /\ UNCHANGED <<running, loop>>
         \/ ~running /\ running' = TRUE /\ loop' = "init"
  BY DEF Start, Run, timeVars, jobVars
<1>2. CallOK' /\ Pending' = Pending /\ mu' = NoCaller
  <2>1. CASE Returns(c) /\ (Locks(c, "Start") \/ Locks(c, "Run"))
    BY <1>1, <2>1, ReturnsCalls DEF IInv, Returns
  <2>2. CASE Locks(c, "Run") /\ pc' = [pc EXCEPT ![c].at = "run"] /\ mu' = mu
    BY <1>1, <2>2, RunCalls DEF IInv, Locks
  <2>. QED BY <2>1, <2>2 DEF Start, Run
<1>3. EntriesOK'
  BY <1>1, <1>2, EntriesFrame DEF IInv
<1>4. TimeOK'
  <2>1. CASE loop' = loop
    BY <1>1, <2>1, TimeFrame DEF IInv
  <2>2. CASE loop' = "init"
    BY <1>1, <2>2, TimeStopped DEF IInv
  <2>. QED BY <1>1, <2>1, <2>2
<1>5. LoopOK'
  BY <1>1, <1>2 DEF IInv, LoopOK
<1>. QED BY <1>2, <1>3, <1>4, <1>5 DEF IInv

LEMMA StopInv ==
  ASSUME IInv, NEW c \in Caller, Stop(c)
  PROVE  IInv'
<1>1. /\ Locks(c, "Stop")
      /\ \/ ~running /\ Returns(c) /\ waits' = NewWait
         \/ running /\ Blocks(c) /\ UNCHANGED waits
      /\ UNCHANGED <<clock, late, entries, nextID, running, loop, now, deadline, jobs, calls, gone>>
  BY DEF Stop, timeVars, loopVars
<1>2. CallOK' /\ Pending' = Pending
  BY <1>1, ReturnsCalls, BlocksCalls DEF IInv
<1>3. mu' = NoCaller \/ running
  BY <1>1 DEF Returns
<1>4. EntriesOK' /\ TimeOK'
  BY <1>1, <1>2, EntriesFrame, TimeFrame DEF IInv
<1>5. LoopOK'
  BY <1>1, <1>3 DEF IInv, LoopOK, NewWait
<1>. QED BY <1>2, <1>4, <1>5 DEF IInv

-------------------------------------------------------------------------------
(* Steps of the scheduler *)

(* The activation after t, and the entries of a scheduler that knows the time. *)
LEMMA NextIs ==
  ASSUME NEW s \in Sched, NEW t \in Time
  PROVE  NextOf[s][t] \in Time \cup {0} /\ (NextOf[s][t] # 0 => NextOf[s][t] > t)
  BY CronAssumption

LEMMA RunInitInv ==
  ASSUME IInv, RunInit
  PROVE  IInv'
<1>1. /\ loop = "init" /\ loop' = "arm" /\ now' = clock
      /\ entries' = [i \in DOMAIN entries |->
                       [entries[i] EXCEPT !.next = NextOf[entries[i].sched][clock]]]
      /\ UNCHANGED <<clock, late, nextID, running, mu, pc, deadline, jobs, waits, calls, gone>>
  BY DEF RunInit, timeVars, jobVars
<1>2. entries \in Seq(Entry) /\ Unique(entries) /\ clock \in Time /\ late \in Nat
  BY CronAssumption DEF IInv, EntriesOK, TimeOK
<1>3. \A i \in DOMAIN entries :
        /\ entries'[i] \in Entry /\ entries'[i].id = entries[i].id
        /\ entries'[i].prev = entries[i].prev
        /\ entries'[i].next = NextOf[entries[i].sched][clock]
        /\ entries[i].sched \in Sched /\ entries[i].prev \in Time \cup {0}
  <2>. SUFFICES ASSUME NEW i \in DOMAIN entries
       PROVE  /\ entries'[i] \in Entry /\ entries'[i].id = entries[i].id
              /\ entries'[i].prev = entries[i].prev
              /\ entries'[i].next = NextOf[entries[i].sched][clock]
              /\ entries[i].sched \in Sched /\ entries[i].prev \in Time \cup {0}
    OBVIOUS
  <2>1. entries[i] \in Entry
    BY <1>2
  <2>2. entries[i].sched \in Sched /\ entries[i].prev \in Time \cup {0}
    BY <2>1 DEF Entry
  <2>3. NextOf[entries[i].sched][clock] \in Time \cup {0}
    BY <1>2, <2>2, NextIs
  <2>4. entries'[i] = [entries[i] EXCEPT !.next = NextOf[entries[i].sched][clock]]
    BY <1>1
  <2>. QED BY <2>1, <2>2, <2>3, <2>4 DEF Entry
<1>4. entries' \in [DOMAIN entries -> Entry] /\ DOMAIN entries' = DOMAIN entries
  BY <1>1, <1>3
<1>5. entries' \in Seq(Entry) /\ Unique(entries') /\ Ids(entries') = Ids(entries)
  BY <1>2, <1>3, <1>4, MapIs
<1>6. CallOK' /\ Pending' = Pending
  BY <1>1, CallFrame DEF IInv
<1>7. EntriesOK'
  BY <1>1, <1>5, <1>6 DEF IInv, EntriesOK, Unique, Ids, Elems
<1>8. LoopOK'
  BY <1>1 DEF IInv, LoopOK
<1>9. \A e \in Elems(entries') : /\ e.prev <= clock /\ (e.next # 0 => e.next > clock)
                                 /\ e.prev \in Nat /\ e.next \in Nat
  <2>. SUFFICES ASSUME NEW i \in DOMAIN entries
       PROVE  /\ entries'[i].prev <= clock /\ (entries'[i].next # 0 => entries'[i].next > clock)
              /\ entries'[i].prev \in Nat /\ entries'[i].next \in Nat
    BY <1>4 DEF Elems
  <2>1. entries[i] \in Elems(entries)
    BY DEF Elems
  <2>2. entries[i].prev <= clock
    BY <2>1 DEF IInv, TimeOK, PastOK
  <2>3. /\ entries'[i].next \in Time \cup {0}
        /\ entries'[i].next # 0 => entries'[i].next > clock
    BY <1>2, <1>3, NextIs
  <2>. QED BY <1>2, <1>3, <2>2, <2>3, CronAssumption DEF Time
<1>10. PastOK'
  BY <1>1, <1>2, <1>9, CronAssumption DEF PastOK, Time, Elems
<1>11. ArmOK'
  BY <1>1, <1>2, <1>9, CronAssumption DEF ArmOK, Time, Elems
<1>12. TimeOK'
  BY <1>1, <1>10, <1>11 DEF IInv, TimeOK, SelectOK
<1>. QED BY <1>6, <1>7, <1>8, <1>12 DEF IInv

(* The first of sorted entries is the first that is due. *)
LEMMA FirstIsFirst ==
  ASSUME NEW s \in Seq(Entry), Sorted(s), NEW i \in DOMAIN s, s[i].next # 0
  PROVE  s # <<>> /\ s[1].next # 0 /\ s[1].next <= s[i].next /\ s[1] \in Elems(s)
<1>1. i \in 1 .. Len(s) /\ 1 \in DOMAIN s /\ s # <<>> /\ Len(s) \in Nat
  OBVIOUS
<1>2. s[1] \in Entry /\ s[i] \in Entry
  BY <1>1
<1>3. s[1].next \in Nat /\ s[i].next \in Nat
  BY <1>2, CronAssumption DEF Entry, Time
<1>4. i = 1 \/ ~Less(s[i], s[1])
  BY <1>1 DEF Sorted
<1>. QED BY <1>1, <1>3, <1>4 DEF Less, Elems

LEMMA ArmInv ==
  ASSUME IInv, Arm
  PROVE  IInv'
<1>1. /\ loop = "arm" /\ loop' = "select" /\ now' = now
      /\ deadline' = IF entries = <<>> \/ entries'[1].next = 0 THEN 0
                     ELSE IF entries'[1].next <= now THEN clock
                     ELSE clock + (entries'[1].next - now)
      /\ UNCHANGED <<clock, late, nextID, running, mu, pc, jobs, waits, calls, gone>>
  BY DEF Arm, timeVars, jobVars
<1>2. PICK p \in SortedOrders(entries) : entries' = [i \in DOMAIN entries |-> entries[p[i]]]
  BY DEF Arm
<1>3. /\ entries' \in Seq(Entry) /\ DOMAIN entries' = DOMAIN entries
      /\ Unique(entries') /\ Sorted(entries') /\ Elems(entries') = Elems(entries)
  BY <1>2, SortIs DEF IInv, EntriesOK
<1>4. CallOK' /\ Pending' = Pending
  BY <1>1, CallFrame DEF IInv
<1>5. EntriesOK'
  BY <1>1, <1>3, <1>4 DEF IInv, EntriesOK, Unique, Ids, Elems
<1>6. LoopOK'
  BY <1>1 DEF IInv, LoopOK
<1>7. PastOK'
  BY <1>1, <1>3 DEF IInv, TimeOK, PastOK, Elems
<1>8. /\ now \in Time /\ clock \in Time /\ late \in 0 .. MaxLate
      /\ now <= clock /\ clock <= now + late
      /\ \A e \in Elems(entries') : e.next # 0 => clock <= e.next + late
      /\ \A e \in Elems(entries') : e.next \in Time \cup {0}
  BY <1>1, <1>3, EntryTypes DEF IInv, TimeOK, ArmOK
<1>9. deadline' # 0 => /\ entries'[1] \in Elems(entries') /\ entries'[1].next # 0
                       /\ deadline' = IF entries'[1].next <= now THEN clock
                                      ELSE clock + (entries'[1].next - now)
  <2>1. entries # <<>> => 1 \in DOMAIN entries
    BY DEF IInv, EntriesOK
  <2>. QED BY <1>1, <1>3, <2>1 DEF Elems
<1>10. deadline' \in 0 .. MaxTime + MaxLate /\ (deadline' # 0 => clock <= deadline')
  <2>1. CASE deadline' = 0
    BY <2>1, CronAssumption
  <2>2. CASE deadline' # 0
    <3>. DEFINE x == entries'[1].next
    <3>1. x \in Time /\ clock <= x + late /\ deadline' = IF x <= now THEN clock ELSE clock + (x - now)
      BY <1>8, <1>9, <2>2
    <3>. HIDE DEF x
    <3>. QED BY <1>8, <3>1, CronAssumption DEF Time
  <2>. QED BY <2>1, <2>2
<1>11. ASSUME NEW e \in Elems(entries'), e.next # 0
       PROVE  deadline' # 0 /\ deadline' <= e.next + late
  <2>1. PICK i \in DOMAIN entries' : e = entries'[i]
    BY DEF Elems
  <2>2. /\ entries' # <<>> /\ entries'[1].next # 0 /\ entries'[1].next <= e.next
        /\ entries'[1] \in Elems(entries')
    BY <1>3, <1>11, <2>1, FirstIsFirst
  <2>3. entries # <<>>
    BY <1>2, <2>2
  <2>. DEFINE x == entries'[1].next
  <2>4. /\ x \in Time /\ x <= e.next /\ e.next \in Time /\ clock <= e.next + late
        /\ deadline' = IF x <= now THEN clock ELSE clock + (x - now)
    BY <1>1, <1>8, <1>11, <2>2, <2>3
  <2>. HIDE DEF x
  <2>. QED BY <1>8, <2>4, CronAssumption DEF Time
<1>12. SelectOK'
  <2>1. deadline' # 0 => clock' <= deadline' + late'
    BY <1>1, <1>8, <1>10 DEF Time
  <2>2. \A e \in Elems(entries') : e.next # 0 =>
            /\ deadline' # 0 /\ deadline' <= e.next + late'
            /\ clock' <= deadline' \/ clock' <= e.next + late'
    BY <1>1, <1>8, <1>11
  <2>. QED BY <1>3, <2>1, <2>2 DEF SelectOK, Sorted, Elems
<1>13. TimeOK'
  BY <1>1, <1>7, <1>10, <1>12 DEF IInv, TimeOK, ArmOK
<1>. QED BY <1>4, <1>5, <1>6, <1>13 DEF IInv

(* Of sorted entries, those that Wake does not run are not due. *)
LEMMA RestIsLater ==
  ASSUME EntriesOK, Sorted(entries), NEW t \in Nat, NEW i \in DOMAIN entries, i \notin Due(t),
         entries[i].next # 0
  PROVE  entries[i].next > t
<1>1. Len(entries) \in Nat /\ DOMAIN entries = 1 .. Len(entries)
  BY DEF EntriesOK
<1>2. PICK j \in 1 .. i : ~(entries[j].next # 0 /\ entries[j].next <= t)
  BY DEF Due
<1>3. j \in DOMAIN entries
  BY <1>1
<1>4. entries[i].next \in Nat /\ entries[j].next \in Nat
  BY <1>3, EntryTypes, CronAssumption DEF Elems, Time
<1>5. i = j \/ ~Less(entries[i], entries[j])
  BY <1>1, <1>3 DEF Sorted
<1>. QED BY <1>2, <1>4, <1>5 DEF Less

LEMMA RanIs ==
  ASSUME NEW e \in Entry, NEW t \in Time
  PROVE  /\ Ran(e, t) \in Entry /\ Ran(e, t).id = e.id /\ Ran(e, t).prev = e.next
         /\ Ran(e, t).next = NextOf[e.sched][t]
         /\ Ran(e, t).next \in Time \cup {0} /\ (Ran(e, t).next # 0 => Ran(e, t).next > t)
<1>1. e.sched \in Sched /\ e.id \in Id /\ e.next \in Time \cup {0}
  BY DEF Entry
<1>2. NextOf[e.sched][t] \in Time \cup {0} /\ (NextOf[e.sched][t] # 0 => NextOf[e.sched][t] > t)
  BY <1>1, NextIs
<1>. QED BY <1>1, <1>2 DEF Ran, Entry

(* The timer fires at a time up to which the loop is not too late. *)
LEMMA WakeTime ==
  ASSUME IInv, Fired, NEW t \in deadline .. clock
  PROVE  t \in Time /\ t <= clock /\ clock <= t + late /\ Sorted(entries)
  BY CronAssumption DEF IInv, TimeOK, SelectOK, Fired, Time

LEMMA WakeInv ==
  ASSUME IInv, Wake
  PROVE  IInv'
<1>1. /\ Fired /\ loop' = "arm"
      /\ UNCHANGED <<clock, late, nextID, running, mu, pc, deadline, waits, calls, gone>>
  BY DEF Wake, timeVars
<1>2. PICK t \in deadline .. clock :
          /\ now' = t
          /\ entries' = [i \in DOMAIN entries |->
                IF i \in Due(t) THEN Ran(entries[i], t) ELSE entries[i]]
          /\ jobs' = jobs + Cardinality(Due(t))
  BY DEF Wake
<1>3. t \in Time /\ t <= clock /\ clock <= t + late /\ Sorted(entries)
  BY <1>1, WakeTime
<1>4. entries \in Seq(Entry) /\ Unique(entries) /\ clock \in Nat /\ late \in Nat /\ t \in Nat
  BY <1>3, CronAssumption DEF IInv, EntriesOK, TimeOK, Time
<1>5. \A i \in DOMAIN entries : entries[i] \in Entry /\ entries[i] \in Elems(entries)
  BY <1>4 DEF Elems
<1>6. \A i \in DOMAIN entries : /\ i \in Due(t) => entries'[i] = Ran(entries[i], t)
                                /\ i \notin Due(t) => entries'[i] = entries[i]
  BY <1>2
<1>7. \A i \in DOMAIN entries : entries'[i] \in Entry /\ entries'[i].id = entries[i].id
  BY <1>3, <1>5, <1>6, RanIs
<1>8. DOMAIN entries' = DOMAIN entries /\ entries' \in [DOMAIN entries -> Entry]
  BY <1>2, <1>7
<1>9. entries' \in Seq(Entry) /\ Unique(entries') /\ Ids(entries') = Ids(entries)
  BY <1>4, <1>7, <1>8, MapIs
<1>10. CallOK' /\ Pending' = Pending
  BY <1>1, CallFrame DEF IInv
<1>11. EntriesOK'
  BY <1>1, <1>9, <1>10 DEF IInv, EntriesOK, Unique, Ids, Elems
<1>12. jobs' \in Nat
  <2>1. IsFiniteSet(DOMAIN entries) /\ Due(t) \subseteq DOMAIN entries
    BY <1>4, FS_Interval DEF Due
  <2>2. Cardinality(Due(t)) \in Nat
    BY <2>1, FS_Subset, FS_CardinalityType
  <2>. QED BY <1>2, <2>2 DEF IInv, LoopOK
<1>13. LoopOK'
  BY <1>1, <1>12 DEF IInv, LoopOK, Fired
<1>14. \A e \in Elems(entries') : /\ e.prev <= clock /\ (e.next # 0 => e.prev < e.next /\ e.next > t)
                                  /\ e.next \in Nat
  <2>. SUFFICES ASSUME NEW i \in DOMAIN entries
       PROVE  /\ entries'[i].prev <= clock
              /\ (entries'[i].next # 0 => entries'[i].prev < entries'[i].next /\ entries'[i].next > t)
              /\ entries'[i].next \in Nat
    BY <1>8 DEF Elems
  <2>1. CASE i \in Due(t)
    <3>1. i \in 1 .. i
      BY <1>4
    <3>2. entries[i].next # 0 /\ entries[i].next <= t /\ entries[i].next \in Nat
      BY <1>5, <2>1, <3>1, EntryTypes, CronAssumption DEF Due, IInv, Time
    <3>3. /\ entries'[i].prev = entries[i].next
          /\ entries'[i].next \in Nat /\ (entries'[i].next # 0 => entries'[i].next > t)
      BY <1>3, <1>5, <1>6, <2>1, RanIs, CronAssumption DEF Time
    <3>. QED BY <1>3, <1>4, <3>2, <3>3
  <2>2. CASE i \notin Due(t)
    <3>1. entries[i].next # 0 => entries[i].next > t
      BY <1>3, <1>4, <2>2, RestIsLater DEF IInv
    <3>2. entries[i].next \in Nat /\ entries[i].prev <= clock
          /\ (entries[i].next # 0 => entries[i].prev < entries[i].next)
      BY <1>5, EntryTypes, CronAssumption DEF IInv, TimeOK, PastOK, Time
    <3>. QED BY <1>6, <2>2, <3>1, <3>2
  <2>. QED BY <2>1, <2>2
<1>15. PastOK'
  BY <1>1, <1>14 DEF PastOK, Elems
<1>16. ArmOK'
  <2>1. \A e \in Elems(entries') : e.next # 0 => clock' <= e.next + late'
    BY <1>1, <1>3, <1>4, <1>14
  <2>2. now' # 0 /\ now' <= clock' /\ clock' <= now' + late'
    BY <1>1, <1>2, <1>3 DEF Time
  <2>. QED BY <2>1, <2>2 DEF ArmOK, Elems
<1>17. TimeOK'
  BY <1>1, <1>2, <1>3, <1>15, <1>16 DEF IInv, TimeOK, SelectOK
<1>. QED BY <1>10, <1>11, <1>13, <1>17 DEF IInv

(* A case of the select that changes the entries: the loop has the time again. *)
LEMMA TimeChanged ==
  ASSUME IInv, loop = "select", loop' = "arm", now' = clock,
         UNCHANGED <<clock, late, deadline>>,
         \A e \in Elems(entries') :
            \/ e \in Elems(entries)
            \/ e.prev = 0 /\ e.next \in Nat /\ (e.next # 0 => e.next > clock)
  PROVE  TimeOK'
<1>1. /\ clock \in Time /\ late \in Nat /\ deadline \in Nat /\ clock \in Nat /\ clock # 0
      /\ PastOK /\ SelectOK
  BY CronAssumption DEF IInv, TimeOK, Time
<1>2. \A e \in Elems(entries') : /\ e.prev <= clock /\ (e.next # 0 => e.prev < e.next)
                                 /\ (e.next # 0 => clock <= e.next + late)
  <2>1. ASSUME NEW e \in Elems(entries)
        PROVE  /\ e.prev <= clock /\ (e.next # 0 => e.prev < e.next)
               /\ (e.next # 0 => clock <= e.next + late)
    <3>1. e.next \in Nat
      BY EntryTypes, CronAssumption DEF IInv, Time
    <3>. QED BY <1>1, <3>1 DEF PastOK, SelectOK
  <2>2. ASSUME NEW e, e.prev = 0, e.next \in Nat, e.next # 0 => e.next > clock
        PROVE  /\ e.prev <= clock /\ (e.next # 0 => e.prev < e.next)
               /\ (e.next # 0 => clock <= e.next + late)
    BY <1>1, <2>2
  <2>. QED BY <2>1, <2>2
<1>3. PastOK' /\ ArmOK'
  BY <1>1, <1>2 DEF PastOK, ArmOK, Elems
<1>. QED BY <1>1, <1>3 DEF IInv, TimeOK, SelectOK

LEMMA AddCaseInv ==
  ASSUME IInv, NEW c \in Caller, AddCase(c)
  PROVE  IInv'
<1>1. /\ Sends(c, "Schedule") /\ Returns(c) /\ loop' = "arm" /\ now' = clock
      /\ entries' = Append(entries, [NewEntry(nextID, pc[c].sched)
                                       EXCEPT !.next = NextOf[pc[c].sched][clock]])
      /\ UNCHANGED <<clock, late, nextID, running, deadline, jobs, waits, calls, gone>>
  BY DEF AddCase, timeVars, jobVars
<1>2. CallOK' /\ Pending = {nextID} /\ Pending' = {} /\ mu' = NoCaller
  BY <1>1, ReceiveCalls DEF IInv, Returns
<1>3. nextID \in Id /\ nextID \in Nat /\ pc[c].sched \in Sched /\ clock \in Time
  <2>1. nextID \in 0 .. MaxCalls /\ nextID \in 1 .. nextID
    BY <1>2, NextIdBound DEF IInv, EntriesOK
  <2>2. pc[c].sched \in Sched
    BY <1>1, Calling DEF IInv, Sends
  <2>. QED BY <2>1, <2>2, CronAssumption DEF IInv, TimeOK, Id
<1>4. /\ NextOf[pc[c].sched][clock] \in Time \cup {0}
      /\ NextOf[pc[c].sched][clock] # 0 => NextOf[pc[c].sched][clock] > clock
  BY <1>3, NextIs
<1>5. PICK e \in Entry : /\ e.id = nextID /\ e.prev = 0 /\ e.next = NextOf[pc[c].sched][clock]
                          /\ entries' = Append(entries, e)
  <2>. DEFINE n == [NewEntry(nextID, pc[c].sched) EXCEPT !.next = NextOf[pc[c].sched][clock]]
  <2>1. n \in Entry /\ n.id = nextID /\ n.prev = 0 /\ n.next = NextOf[pc[c].sched][clock]
    BY <1>3, <1>4, NewEntryTimed
  <2>2. entries' = Append(entries, n)
    BY <1>1
  <2>. HIDE DEF n
  <2>. QED BY <2>1, <2>2
<1>6. EntriesOK' /\ Elems(entries') = Elems(entries) \cup {e}
  BY <1>1, <1>2, <1>3, <1>5, AddedEntries DEF IInv
<1>7. loop = "select"
  BY <1>1 DEF Sends
<1>8. TimeOK'
  <2>1. e.next \in Nat /\ (e.next # 0 => e.next > clock)
    BY <1>4, <1>5, CronAssumption DEF Time
  <2>. QED BY <1>1, <1>5, <1>6, <1>7, <2>1, TimeChanged
<1>9. LoopOK'
  BY <1>1, <1>2, <1>7 DEF IInv, LoopOK
<1>. QED BY <1>2, <1>6, <1>8, <1>9 DEF IInv

LEMMA RemoveCaseInv ==
  ASSUME IInv, NEW c \in Caller, RemoveCase(c)
  PROVE  IInv'
<1>1. /\ Sends(c, "Remove") /\ Returns(c) /\ loop' = "arm" /\ now' = clock
      /\ entries' = RemoveEntry(entries, pc[c].id) /\ gone' = gone \cup {pc[c].id}
      /\ UNCHANGED <<clock, late, nextID, running, deadline, jobs, waits, calls>>
  BY DEF RemoveCase, timeVars, jobVars
<1>2. CallOK' /\ Pending = {} /\ Pending' = {} /\ mu' = NoCaller
  BY <1>1, ReceiveOther DEF IInv, Returns
<1>3. pc[c].id \in 1 .. nextID
  <2>1. pc[c] # Idle /\ pc[c].op = "Remove"
    BY <1>1 DEF Sends
  <2>2. pc[c].id \in Id /\ pc[c].id <= nextID /\ nextID \in Nat
    BY <2>1, Calling DEF IInv, CallOK
  <2>. QED BY <2>2, CronAssumption DEF Id
<1>4. EntriesOK' /\ Elems(entries') \subseteq Elems(entries)
  BY <1>1, <1>2, <1>3, RemovedEntries DEF IInv
<1>5. loop = "select"
  BY <1>1 DEF Sends
<1>6. TimeOK'
  BY <1>1, <1>4, <1>5, TimeChanged
<1>7. LoopOK'
  BY <1>1, <1>2, <1>5 DEF IInv, LoopOK
<1>. QED BY <1>2, <1>4, <1>6, <1>7 DEF IInv

LEMMA SnapshotCaseInv ==
  ASSUME IInv, NEW c \in Caller, SnapshotCase(c)
  PROVE  IInv'
<1>1. /\ Sends(c, "Entries") /\ Returns(c)
      /\ UNCHANGED <<clock, late, entries, nextID, running, loop, now, deadline, jobs, waits,
                     calls, gone>>
  BY DEF SnapshotCase, timeVars, loopVars, jobVars
<1>2. CallOK' /\ Pending = {} /\ Pending' = {} /\ mu' = NoCaller
  BY <1>1, ReceiveOther DEF IInv, Returns
<1>3. EntriesOK' /\ TimeOK' /\ LoopOK'
  BY <1>1, <1>2, EntriesFrame, TimeFrame, LoopFrame DEF IInv
<1>. QED BY <1>2, <1>3 DEF IInv

LEMMA StopCaseInv ==
  ASSUME IInv, NEW c \in Caller, StopCase(c)
  PROVE  IInv'
<1>1. /\ Sends(c, "Stop") /\ mu' = NoCaller /\ loop' = "none" /\ running' = FALSE
      /\ pc' = [d \in Caller |->
                  IF d = c \/ (pc[d] # Idle /\ pc[d].at = "run") THEN Idle ELSE pc[d]]
      /\ waits' = NewWait
      /\ UNCHANGED <<clock, late, entries, nextID, now, deadline, jobs, calls, gone>>
  BY DEF StopCase, timeVars
<1>2. CallOK' /\ Pending = {} /\ Pending' = {}
  BY <1>1, ReceiveOther DEF IInv
<1>3. EntriesOK'
  BY <1>1, <1>2, EntriesFrame DEF IInv
<1>4. TimeOK'
  BY <1>1, TimeStopped DEF IInv
<1>5. waits' \in Nat /\ jobs' \in Nat
  BY <1>1 DEF IInv, LoopOK, NewWait
<1>6. LoopOK'
  BY <1>1, <1>5 DEF LoopOK
<1>. QED BY <1>2, <1>3, <1>4, <1>6 DEF IInv

LEMMA JobDoneInv ==
  ASSUME IInv, JobDone
  PROVE  IInv'
<1>1. /\ jobs > 0 /\ jobs' = jobs - 1 /\ waits' = IF jobs = 1 THEN 0 ELSE waits
      /\ UNCHANGED <<clock, late, entries, nextID, running, mu, pc, loop, now, deadline, calls, gone>>
  BY DEF JobDone, timeVars, loopVars
<1>2. CallOK' /\ Pending' = Pending
  BY <1>1, CallFrame DEF IInv
<1>3. EntriesOK' /\ TimeOK'
  BY <1>1, <1>2, EntriesFrame, TimeFrame DEF IInv
<1>4. LoopOK'
  BY <1>1 DEF IInv, LoopOK
<1>. QED BY <1>2, <1>3, <1>4 DEF IInv

LEMMA TickInv ==
  ASSUME IInv, Tick
  PROVE  IInv'
<1>1. /\ clock < MaxTime /\ clock' = clock + 1
      /\ IF loop \in {"init", "arm"} \/ Fired THEN late < MaxLate /\ late' = late + 1
                                              ELSE late' = late
      /\ UNCHANGED <<entries, nextID, running, mu, pc, loop, now, deadline, jobs, waits, calls, gone>>
  BY DEF Tick, loopVars, jobVars
<1>2. CallOK' /\ Pending' = Pending
  BY <1>1, CallFrame DEF IInv
<1>3. EntriesOK' /\ LoopOK'
  BY <1>1, <1>2, EntriesFrame DEF IInv, LoopOK
<1>4. /\ clock \in Nat /\ late \in Nat /\ deadline \in Nat /\ now \in Nat
      /\ clock' \in Time /\ late' \in 0 .. MaxLate /\ late' >= late
      /\ PastOK /\ ArmOK /\ SelectOK
  BY <1>1, CronAssumption DEF IInv, TimeOK, Time
<1>5. \A e \in Elems(entries) : e.next \in Nat /\ e.prev \in Nat
  BY EntryTypes, CronAssumption DEF IInv, Time
<1>6. PastOK'
  BY <1>1, <1>4, <1>5 DEF PastOK, Elems
<1>7. ArmOK'
  BY <1>1, <1>4, <1>5 DEF ArmOK, Elems
<1>8. SelectOK'
  <2>. SUFFICES ASSUME loop = "select" PROVE SelectOK'
    BY <1>1 DEF SelectOK
  <2>1. \/ deadline # 0 /\ deadline <= clock /\ late' = late + 1
        \/ deadline = 0
        \/ clock' <= deadline
    BY <1>1, <1>4 DEF Fired
  <2>2. deadline # 0 => clock' <= deadline + late'
    <3>1. deadline # 0 => clock <= deadline + late
      BY <1>4 DEF SelectOK
    <3>2. late' \in Nat /\ clock' \in Nat /\ clock' = clock + 1
      BY <1>1, <1>4, CronAssumption
    <3>3. clock \in Nat /\ late \in Nat /\ deadline \in Nat /\ late' >= late
      BY <1>4
    <3>4. CASE clock' <= deadline
      <4>1. \A x, y, z \in Nat : x <= y => x <= y + z
        OBVIOUS
      <4>. QED BY <3>2, <3>3, <3>4, <4>1
    <3>5. CASE deadline = 0
      BY <3>5
    <3>6. CASE late' = late + 1
      BY <3>1, <3>2, <3>3, <3>6
    <3>. QED BY <2>1, <3>4, <3>5, <3>6
  <2>3. ASSUME NEW e \in Elems(entries), e.next # 0
        PROVE  /\ deadline # 0 /\ deadline <= e.next + late'
               /\ clock' <= deadline \/ clock' <= e.next + late'
    BY <1>1, <1>4, <1>5, <2>1, <2>3 DEF SelectOK
  <2>4. Sorted(entries)
    BY <1>4 DEF SelectOK
  <2>. QED BY <1>1, <2>2, <2>3, <2>4 DEF SelectOK, Sorted, Elems, Less
<1>9. TimeOK'
  BY <1>1, <1>4, <1>6, <1>7, <1>8 DEF IInv, TimeOK
<1>. QED BY <1>2, <1>3, <1>9 DEF IInv

-------------------------------------------------------------------------------
(* Theorems *)

LEMMA InitInv ==
  ASSUME Init
  PROVE  IInv
<1>1. /\ clock = 1 /\ late = 0 /\ entries = <<>> /\ nextID = 0 /\ running = FALSE
      /\ mu = NoCaller /\ pc = [c \in Caller |-> Idle] /\ loop = "none" /\ now = 0
      /\ deadline = 0 /\ jobs = 0 /\ waits = 0 /\ calls = 0 /\ gone = {}
  BY DEF Init
<1>2. \A c \in Caller : pc[c] = Idle /\ pc[c].at = "idle"
  BY <1>1 DEF Idle
<1>3. Waiting = {} /\ Pending = {} /\ \A c \in Caller : ~Sending(c)
  BY <1>2 DEF Waiting, Pending, Sending
<1>4. IsFiniteSet(Waiting) /\ Cardinality(Waiting) = 0
  BY <1>3, FS_EmptySet
<1>5. CallOK
  BY <1>1, <1>2, <1>3, <1>4, CronAssumption DEF CallOK
<1>6. Elems(entries) = {} /\ Ids(entries) = {} /\ entries \in Seq(Entry) /\ Unique(entries)
  BY <1>1 DEF Elems, Ids, Unique
<1>7. EntriesOK
  BY <1>1, <1>3, <1>6 DEF EntriesOK
<1>8. LoopOK
  BY <1>1 DEF LoopOK
<1>9. TimeOK
  BY <1>1, <1>6, CronAssumption DEF TimeOK, PastOK, ArmOK, SelectOK, Time
<1>. QED BY <1>5, <1>7, <1>8, <1>9 DEF IInv

LEMMA NextInv ==
  ASSUME IInv, [Next]_vars
  PROVE  IInv'
<1>1. CASE UNCHANGED vars
  <2>1. UNCHANGED <<clock, late, entries, nextID, running, mu, pc, loop, now, deadline,
                    jobs, waits, calls, gone>>
    BY <1>1 DEF vars
  <2>2. CallOK' /\ Pending' = Pending
    BY <2>1, CallFrame DEF IInv
  <2>3. EntriesOK' /\ TimeOK'
    BY <2>1, <2>2, EntriesFrame, TimeFrame DEF IInv
  <2>4. LoopOK'
    BY <2>1 DEF IInv, LoopOK
  <2>. QED BY <2>2, <2>3, <2>4 DEF IInv
<1>2. ASSUME NEW c \in Caller, Enter(c) \/ Method(c) PROVE IInv'
  BY <1>2, EnterInv, ScheduleInv, RemoveInv, ResetInv, EntriesInv, StartInv, StopInv DEF Method
<1>3. ASSUME NEW c \in Caller, Rendezvous(c) PROVE IInv'
  BY <1>3, AddCaseInv, RemoveCaseInv, SnapshotCaseInv, StopCaseInv DEF Rendezvous
<1>4. CASE Scheduler \/ JobDone \/ Tick
  BY <1>4, RunInitInv, ArmInv, WakeInv, JobDoneInv, TickInv DEF Scheduler
<1>. QED BY <1>1, <1>2, <1>3, <1>4 DEF Next

(* The inductive invariant holds in every state the scheduler reaches. *)
THEOREM Inductive == Spec => []IInv
<1>1. Init => IInv
  BY InitInv
<1>2. IInv /\ [Next]_vars => IInv'
  BY NextInv
<1>. QED BY <1>1, <1>2, PTL DEF Spec

(***************************************************************************)
(* The state keeps its types. It is a result and not a restatement: ids    *)
(* never run past the calls made, and the timer is never set further ahead *)
(* than the last activation and the time the scheduler has been late.      *)
(***************************************************************************)
THEOREM TypeCorrect == Spec => []TypeOK
<1>1. IInv => TypeOK
  BY InvImpliesType
<1>. QED BY <1>1, Inductive, PTL

(* Distinct ids: there are as many entries as ids. *)
LEMMA AsManyIds ==
  ASSUME NEW s \in Seq(Entry), Unique(s)
  PROVE  Len(s) = Cardinality(Ids(s))
<1>. DEFINE f == [i \in DOMAIN s |-> s[i].id]
<1>1. Len(s) \in Nat /\ DOMAIN s = 1 .. Len(s)
  OBVIOUS
<1>2. IsFiniteSet(DOMAIN s) /\ Cardinality(DOMAIN s) = Len(s)
  BY <1>1, FS_Interval
<1>3. \A x : x \in Ids(s) <=> \E i \in DOMAIN s : x = s[i].id
  BY DEF Ids, Elems
<1>4. f \in [DOMAIN s -> Ids(s)] /\ \A x \in Ids(s) : \E i \in DOMAIN s : f[i] = x
  BY <1>3
<1>5. f \in Surjection(DOMAIN s, Ids(s))
  BY <1>4 DEF Surjection
<1>6. f \in Injection(DOMAIN s, Ids(s))
  BY <1>4 DEF Injection, IsInjective, Unique
<1>. HIDE DEF f
<1>. QED BY <1>2, <1>5, <1>6, FS_Surjection

(***************************************************************************)
(* Whatever the callers do while the scheduler runs, is stopped or is      *)
(* restarted, it has each entry that was added and not removed exactly     *)
(* once, and none whose Remove or ResetEntries has returned.               *)
(***************************************************************************)
THEOREM NoEntryLost == Spec => []EntriesAccounted
<1>1. IInv => EntriesAccounted
  BY AsManyIds DEF IInv, EntriesOK, EntriesAccounted
<1>. QED BY <1>1, Inductive, PTL

(***************************************************************************)
(* While the scheduler waits its timer is set for no later than the first  *)
(* activation of all, but for the time the scheduler has been late: the    *)
(* timer is set from a variable now that may be behind the clock, and is   *)
(* not set again for a snapshot of the entries.                            *)
(***************************************************************************)
THEOREM TimerInTime == Spec => []NeverOversleeps
<1>1. IInv => NeverOversleeps
  BY DEF IInv, TimeOK, SelectOK, NeverOversleeps
<1>. QED BY <1>1, Inductive, PTL

(* Only the timer's case of the select starts jobs. *)
LEMMA OnlyWakeStarts ==
  ASSUME IInv, [Next]_vars, jobs' > jobs
  PROVE  Wake
<1>1. jobs \in Nat
  BY DEF IInv, LoopOK
<1>2. jobs' = jobs \/ jobs' = jobs - 1 \/ Wake
  BY DEF Next, Enter, Method, Schedule, Remove, ResetEntries, Entries, Start, Run, Stop, Rendezvous,
         AddCase, RemoveCase, SnapshotCase, StopCase, Scheduler, RunInit, Arm, JobDone, Tick,
         jobVars, vars
<1>. QED BY <1>1, <1>2

(* No job starts unless running is set: Stop leaves no loop behind. *)
THEOREM StoppedStartsNone == Spec => NoJobWhenStopped
<1>1. IInv /\ [Next]_vars => [jobs' > jobs => running]_vars
  <2>. SUFFICES ASSUME IInv, Next, jobs' > jobs PROVE running
    OBVIOUS
  <2>1. loop = "select"
    BY OnlyWakeStarts DEF Wake, Fired
  <2>. QED BY <2>1 DEF IInv, LoopOK
<1>. QED BY <1>1, Inductive, PTL DEF Spec, NoJobWhenStopped

(***************************************************************************)
(* The jobs that one wake-up starts are as many as the entries with an     *)
(* activation that is over and later than the one they ran for before, and *)
(* each of those entries remembers it: none runs early and none twice for  *)
(* one activation, however late the scheduler is.                          *)
(***************************************************************************)
THEOREM OncePerActivation == Spec => RunsOncePerActivation
<1>. DEFINE Started == {e \in Elems(entries) :
                          /\ e.prev < e.next /\ e.next <= clock
                          /\ \E f \in Elems(entries') : f.id = e.id /\ f.prev = e.next}
<1>1. IInv /\ [Next]_vars => [jobs' > jobs => jobs' - jobs = Cardinality(Started)]_vars
  <2>. SUFFICES ASSUME IInv, Next, jobs' > jobs PROVE jobs' - jobs = Cardinality(Started)
    OBVIOUS
  <2>1. Wake
    BY OnlyWakeStarts
  <2>2. PICK t \in deadline .. clock :
          /\ entries' = [i \in DOMAIN entries |->
                IF i \in Due(t) THEN Ran(entries[i], t) ELSE entries[i]]
          /\ jobs' = jobs + Cardinality(Due(t))
    BY <2>1 DEF Wake
  <2>3. t \in Time /\ t <= clock /\ clock \in Nat /\ t \in Nat
    <3>1. t \in Time /\ t <= clock
      BY <2>1, WakeTime DEF Wake
    <3>2. clock \in Time
      BY DEF IInv, TimeOK
    <3>. QED BY <3>1, <3>2, CronAssumption DEF Time
  <2>4. entries \in Seq(Entry) /\ Unique(entries) /\ DOMAIN entries = 1 .. Len(entries)
        /\ Len(entries) \in Nat /\ jobs \in Nat /\ DOMAIN entries' = DOMAIN entries
    BY <2>2 DEF IInv, EntriesOK, LoopOK
  <2>5. \A i \in DOMAIN entries :
          /\ entries[i] \in Entry /\ entries[i] \in Elems(entries)
          /\ entries[i].next \in Nat /\ entries[i].prev \in Nat
          /\ entries[i].next # 0 => entries[i].prev < entries[i].next
    BY <2>4, EntryTypes, CronAssumption DEF IInv, TimeOK, PastOK, Elems, Time
  <2>6. \A i \in DOMAIN entries :
          /\ i \in Due(t) => entries'[i] = Ran(entries[i], t)
          /\ i \notin Due(t) => entries'[i] = entries[i]
    BY <2>2
  <2>7. \A i \in DOMAIN entries : entries'[i].id = entries[i].id
    BY <2>3, <2>5, <2>6, RanIs
  <2>8. ASSUME NEW i \in Due(t) PROVE i \in DOMAIN entries /\ entries[i] \in Started
    <3>1. i \in DOMAIN entries /\ i \in 1 .. i
      BY <2>4 DEF Due
    <3>2. entries[i].next # 0 /\ entries[i].next <= t
      BY <3>1 DEF Due
    <3>3. entries'[i].prev = entries[i].next /\ entries'[i] \in Elems(entries')
      BY <2>3, <2>4, <2>5, <2>6, <3>1, RanIs DEF Elems
    <3>. QED BY <2>3, <2>5, <2>7, <3>1, <3>2, <3>3
  <2>9. ASSUME NEW e \in Started PROVE \E i \in Due(t) : e = entries[i]
    <3>1. PICK i \in DOMAIN entries : e = entries[i]
      BY DEF Elems
    <3>2. PICK f \in Elems(entries') : f.id = e.id /\ f.prev = e.next
      OBVIOUS
    <3>3. PICK j \in DOMAIN entries : f = entries'[j]
      BY <2>4 DEF Elems
    <3>4. i = j
      BY <2>4, <2>7, <3>1, <3>2, <3>3 DEF Unique
    <3>5. i \in Due(t)
      <4>. SUFFICES ASSUME i \notin Due(t) PROVE FALSE
        OBVIOUS
      <4>1. e.prev = e.next /\ e.prev < e.next /\ e.next \in Nat
        BY <2>5, <2>6, <3>1, <3>2, <3>3, <3>4
      <4>. QED BY <4>1
    <3>. QED BY <3>1, <3>5
  <2>10. PICK S : S = Started
    OBVIOUS
  <2>11. PICK D : D = Due(t)
    OBVIOUS
  <2>12. IsFiniteSet(D)
    <3>1. IsFiniteSet(DOMAIN entries) /\ D \subseteq DOMAIN entries
      BY <2>4, <2>11, FS_Interval DEF Due
    <3>. QED BY <3>1, FS_Subset
  <2>13. PICK g : g = [i \in D |-> entries[i]]
    OBVIOUS
  <2>14. /\ \A i \in D : i \in DOMAIN entries /\ entries[i] \in S
         /\ \A e \in S : \E i \in D : e = entries[i]
    <3>. HIDE DEF Started
    <3>. QED BY <2>8, <2>9, <2>10, <2>11
  <2>15. g \in [D -> S] /\ (\A i \in D : g[i] = entries[i])
         /\ \A i, j \in D : g[i] = g[j] => i = j
    BY <2>4, <2>13, <2>14 DEF Unique
  <2>16. g \in Surjection(D, S) /\ g \in Injection(D, S)
    BY <2>14, <2>15 DEF Surjection, Injection, IsInjective
  <2>17. Cardinality(S) = Cardinality(D) /\ Cardinality(D) \in Nat
    BY <2>12, <2>16, FS_Surjection, FS_CardinalityType
  <2>. HIDE DEF Started
  <2>. QED BY <2>2, <2>4, <2>10, <2>11, <2>17
<1>. QED BY <1>1, Inductive, PTL DEF Spec, RunsOncePerActivation
===============================================================================
