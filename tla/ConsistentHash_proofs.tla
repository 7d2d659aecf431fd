------------------------- MODULE ConsistentHash_proofs -------------------------
(***************************************************************************)
(* Proofs about ConsistentHash for every set of hosts, keys and callers    *)
(* and every placement of virtual nodes.                                   *)
(***************************************************************************)
EXTENDS ConsistentHash, Induction

(* A non-empty set of naturals has a least element, and Least is it. *)
LEMMA LeastIsMinimum ==
    ASSUME NEW S \in SUBSET Nat, S # {}
    PROVE  /\ Least(S) \in S
           /\ \A q \in S : Least(S) <= q
<1>1. PICK x \in S : \A y \in S : ~(<<y, x>> \in OpToRel(<, Nat))
  BY NatLessThanWellFounded, WFMin
<1>2. \A y \in S : ~(y < x)
  BY <1>1, Zenon DEF OpToRel
<1>3. \A y \in S : x <= y
  BY <1>2
<1>. QED
  BY <1>3 DEF Least

(* search returns a point of the set it searches. *)
LEMMA SearchType ==
    ASSUME NEW S \in SUBSET Nat, S # {}, NEW x \in Nat
    PROVE  Search(S, x) \in S
<1>1. CASE \E p \in S : p >= x
  <2>1. {p \in S : p >= x} \in SUBSET Nat /\ {p \in S : p >= x} # {}
    BY <1>1
  <2>. QED
    BY <1>1, <2>1, LeastIsMinimum DEF Search
<1>2. CASE ~ \E p \in S : p >= x
  BY <1>2, LeastIsMinimum DEF Search
<1>. QED
  BY <1>1, <1>2

(***************************************************************************)
(* Why consistent hashing moves few keys: when the point that search finds *)
(* in a set is still there in a smaller set, search finds it there too.    *)
(***************************************************************************)
LEMMA SearchStable ==
    ASSUME NEW T \in SUBSET Nat, NEW S \in SUBSET T, NEW x \in Nat,
           Search(T, x) \in S
    PROVE  Search(S, x) = Search(T, x)
<1>. DEFINE above(U) == {p \in U : p >= x}
<1>. S # {} /\ T # {} /\ S \in SUBSET Nat
  OBVIOUS
<1>1. CASE \E p \in T : p >= x
  <2>1. above(T) \in SUBSET Nat /\ above(T) # {} /\ Search(T, x) = Least(above(T))
    BY <1>1 DEF Search
  <2>2. Search(T, x) \in above(T) /\ \A q \in above(T) : Search(T, x) <= q
    BY <2>1, LeastIsMinimum
  <2>3. Search(T, x) \in above(S)
    BY <2>2
  <2>4. above(S) \in SUBSET Nat /\ above(S) # {} /\ Search(S, x) = Least(above(S))
    BY <2>3 DEF Search
  <2>5. Search(S, x) \in above(S) /\ \A q \in above(S) : Search(S, x) <= q
    BY <2>4, LeastIsMinimum
  <2>6. Search(S, x) <= Search(T, x) /\ Search(T, x) <= Search(S, x)
    BY <2>2, <2>3, <2>5
  <2>7. Search(S, x) \in Nat /\ Search(T, x) \in Nat
    BY <2>2, <2>5
  <2>. QED
    BY <2>6, <2>7
<1>2. CASE ~ \E p \in T : p >= x
  <2>1. Search(T, x) = Least(T) /\ Search(S, x) = Least(S)
    BY <1>2 DEF Search
  <2>2. Least(T) \in T /\ \A q \in T : Least(T) <= q
    BY LeastIsMinimum
  <2>3. Least(S) \in S /\ \A q \in S : Least(S) <= q
    BY LeastIsMinimum
  <2>4. Least(S) <= Least(T) /\ Least(T) <= Least(S)
    BY <2>1, <2>2, <2>3
  <2>5. Least(S) \in Nat /\ Least(T) \in Nat
    BY <2>2, <2>3
  <2>. QED
    BY <2>1, <2>4, <2>5
<1>. QED
  BY <1>1, <1>2
-------------------------------------------------------------------------------
(* Types *)

LEMMA CopiesType ==
    ASSUME NEW h \in Host, NEW n \in Nat, NEW p
    PROVE  Copies(h, n, p) \in Nat
<1>1. IsFiniteSet(0 .. n - 1)
  BY FS_Interval
<1>2. {i \in 0 .. n - 1 : VHash[h][i] = p} \subseteq 0 .. n - 1
  OBVIOUS
<1>. QED
  BY <1>1, <1>2, FS_Subset, FS_CardinalityType DEF Copies

LEMMA AddHostType ==
    ASSUME NEW r \in Ring, NEW h \in Host
    PROVE  AddHost(r, h) \in Ring
<1>1. \A p : Copies(h, Replicas, p) \in Nat
  BY CopiesType, ReplicaAssumption
<1>. QED
  BY <1>1 DEF AddHost, Ring

LEMMA RemoveHostType ==
    ASSUME NEW r \in Ring, NEW h \in Host
    PROVE  RemoveHost(r, h) \in Ring
<1>1. \A p : Copies(h, ReplicationFactor, p) \in Nat
  BY CopiesType, ReplicaAssumption
<1>. QED
  BY <1>1 DEF RemoveHost, Ring

LEMMA FieldType ==
    ASSUME NEW r \in Ring
    PROVE  /\ \A f \in [Host -> Int] : [r EXCEPT !.load = f] \in Ring
           /\ \A t \in Int : [r EXCEPT !.totalLoad = t] \in Ring
  BY DEF Ring

LEMMA SetLoadType ==
    ASSUME NEW r \in Ring, NEW h, NEW l \in Int
    PROVE  SetLoad(r, h, l) \in Ring
<1>. SUFFICES ASSUME h \in r.members PROVE SetLoad(r, h, l) \in Ring
  BY DEF SetLoad
<1>. DEFINE f == [r.load EXCEPT ![h] = l]
            s == [r EXCEPT !.load = f]
<1>1. f \in [Host -> Int] /\ r.load[h] \in Int
  BY DEF Ring
<1>2. s \in Ring
  BY <1>1, FieldType
<1>3. s.totalLoad - r.load[h] + l \in Int
  BY <1>1, <1>2 DEF Ring
<1>4. [s EXCEPT !.totalLoad = s.totalLoad - r.load[h] + l] \in Ring
  BY <1>2, <1>3, FieldType
<1>. QED
  BY <1>4 DEF SetLoad

LEMMA LoadOpsType ==
    ASSUME NEW r \in Ring
    PROVE  /\ ClampTotal(r) \in Ring
           /\ ResetAllLoads(r) \in Ring
           /\ MaxLoadEffect(r) \in Ring
           /\ \A h : IncLoad(r, h) \in Ring /\ DoneLoad(r, h) \in Ring
           /\ \A h : \A l \in Int : UpdateLoadOf(r, h, l) \in Ring
<1>1. ClampTotal(r) \in Ring
  BY DEF ClampTotal, Ring
<1>2. ResetAllLoads(r) \in Ring
  <2>. DEFINE f == [h \in DOMAIN r.load |-> 0]
              s == [r EXCEPT !.load = f]
  <2>1. f \in [Host -> Int]
    BY DEF Ring
  <2>2. s \in Ring
    BY <2>1, FieldType
  <2>3. ASSUME NEW q \in Ring PROVE [q EXCEPT !.totalLoad = 0] \in Ring
    BY FieldType
  <2>. QED
    BY <2>2, <2>3 DEF ResetAllLoads
<1>3. MaxLoadEffect(r) \in Ring
  BY DEF MaxLoadEffect, Ring
<1>4. ASSUME NEW h PROVE IncLoad(r, h) \in Ring /\ DoneLoad(r, h) \in Ring
  <2>1. CASE h \in r.members
    <3>1. r.load[h] + 1 \in Int /\ r.load[h] - 1 \in Int
      BY <2>1 DEF Ring
    <3>. QED
      BY <3>1, SetLoadType DEF IncLoad, DoneLoad
  <2>2. CASE h \notin r.members
    BY <2>2 DEF IncLoad, DoneLoad, SetLoad
  <2>. QED
    BY <2>1, <2>2
<1>5. ASSUME NEW h, NEW l \in Int PROVE UpdateLoadOf(r, h, l) \in Ring
  BY SetLoadType DEF UpdateLoadOf
<1>. QED
  BY <1>1, <1>2, <1>3, <1>4, <1>5

LEMMA TypeInit == Init => TypeOK
<1>. SUFFICES ASSUME Init PROVE TypeOK
  OBVIOUS
<1>1. NewRing \in Ring
  BY DEF NewRing, Ring
<1>2. [c \in Client |-> Idle] \in [Client -> ClientState]
  BY DEF Idle, ClientState
<1>3. ops \in 0 .. MaxOps
  BY MaxOpsAssumption DEF Init
<1>. QED
  BY <1>1, <1>2, <1>3, Zenon DEF Init, TypeOK

LEMMA TypeNext == TypeOK /\ [Next]_vars => TypeOK'
<1>. SUFFICES ASSUME TypeOK, [Next]_vars PROVE TypeOK'
  OBVIOUS
<1>. USE DEF TypeOK
<1>1. ASSUME NEW h \in Host, Add(h) PROVE TypeOK'
  BY <1>1, AddHostType, MaxOpsAssumption DEF Add, Budget
<1>2. ASSUME NEW h \in Host, Remove(h) PROVE TypeOK'
  BY <1>2, RemoveHostType, MaxOpsAssumption DEF Remove, Budget
<1>3. ASSUME NEW h \in Host, NEW l \in LoadValue, UpdateLoad(h, l) PROVE TypeOK'
  BY <1>3, LoadOpsType, LoadValueAssumption, MaxOpsAssumption
  DEF UpdateLoad, Budget
<1>4. CASE ResetLoads
  BY <1>4, LoadOpsType, MaxOpsAssumption DEF ResetLoads, Budget
<1>5. CASE MaxLoad
  BY <1>5, LoadOpsType, MaxOpsAssumption DEF MaxLoad, Budget
<1>6. ASSUME NEW c \in Client, NEW k \in Key, CallGetLeast(c, k) PROVE TypeOK'
  <2>1. ring' \in Ring
    BY <1>6, LoadOpsType DEF CallGetLeast, GetLeastEffect
  <2>2. client' \in [Client -> ClientState]
    BY <1>6 DEF CallGetLeast, ClientState
  <2>. QED
    BY <1>6, <2>1, <2>2 DEF CallGetLeast
<1>7. ASSUME NEW c \in Client, Inc(c) PROVE TypeOK'
  BY <1>7, LoadOpsType DEF Inc, ClientState
<1>8. ASSUME NEW c \in Client, Done(c) PROVE TypeOK'
  BY <1>8, LoadOpsType DEF Done, ClientState, Idle
<1>9. CASE UNCHANGED vars
  BY <1>9 DEF vars
<1>. QED
  BY <1>1, <1>2, <1>3, <1>4, <1>5, <1>6, <1>7, <1>8, <1>9 DEF Next

(* Every reachable ring is well formed, whatever the callers do. *)
THEOREM TypeCorrect == Spec => []TypeOK
  BY TypeInit, TypeNext, PTL DEF Spec
-------------------------------------------------------------------------------
(* The ring agrees with its members *)

LEMMA VNodesApart ==
    ASSUME PlacementOK, NEW h \in Host, NEW n \in Nat, n <= ReplicationFactor
    PROVE  /\ VNodes(h, n) \subseteq Point
           /\ \A m \in Nat : m <= n => VNodes(h, m) \subseteq VNodes(h, n)
           /\ \A g \in Host, m \in Nat :
                 m <= ReplicationFactor /\ g # h
                 => VNodes(h, n) \cap VNodes(g, m) = {}
           /\ \A p : Copies(h, n, p) = IF p \in VNodes(h, n) THEN 1 ELSE 0
<1>1. ReplicaIndex = 0 .. ReplicationFactor - 1
  BY ReplicaAssumption DEF PlacementOK, ReplicaIndex
<1>2. \A m \in Nat : m <= ReplicationFactor => 0 .. m - 1 \subseteq ReplicaIndex
  BY <1>1, ReplicaAssumption
<1>3. VNodes(h, n) \subseteq Point
  BY <1>2, HashAssumption DEF VNodes
<1>4. ASSUME NEW m \in Nat, m <= n PROVE VNodes(h, m) \subseteq VNodes(h, n)
  BY <1>4 DEF VNodes
<1>5. ASSUME NEW g \in Host, NEW m \in Nat, m <= ReplicationFactor, g # h
      PROVE  VNodes(h, n) \cap VNodes(g, m) = {}
  BY <1>2, <1>5 DEF VNodes, PlacementOK
<1>6. ASSUME NEW p
      PROVE  Copies(h, n, p) = IF p \in VNodes(h, n) THEN 1 ELSE 0
  <2>. DEFINE I == {i \in 0 .. n - 1 : VHash[h][i] = p}
  <2>1. CASE p \in VNodes(h, n)
    <3>1. PICK i \in 0 .. n - 1 : VHash[h][i] = p
      BY <2>1 DEF VNodes
    <3>2. I = {i}
      BY <1>2, <3>1 DEF PlacementOK
    <3>. QED
      BY <2>1, <3>2, FS_Singleton DEF Copies
  <2>2. CASE p \notin VNodes(h, n)
    <3>1. I = {}
      BY <2>2 DEF VNodes
    <3>. QED
      BY <2>2, <3>1, FS_EmptySet DEF Copies
  <2>. QED
    BY <2>1, <2>2
<1>. QED
  BY <1>3, <1>4, <1>5, <1>6

LEMMA AddHostConsistent ==
    ASSUME PlacementOK, NEW r \in Ring, Consistent(r), NEW h \in Host
    PROVE  Consistent(AddHost(r, h))
<1>. SUFFICES ASSUME h \notin r.members PROVE Consistent(AddHost(r, h))
  BY DEF AddHost
<1>. DEFINE s == AddHost(r, h)
<1>. Replicas \in Nat /\ Replicas <= ReplicationFactor /\ r.members \subseteq Host
  BY ReplicaAssumption DEF PlacementOK, Ring
<1>1. s.members = r.members \cup {h}
  BY DEF AddHost
<1>2. \A p \in Point : s.hosts[p] = IF p \in VNodes(h, Replicas)
                                    THEN h ELSE r.hosts[p]
  BY DEF AddHost
<1>3. \A p \in Point : s.sortedSet[p] = r.sortedSet[p] +
                            IF p \in VNodes(h, Replicas) THEN 1 ELSE 0
  BY VNodesApart DEF AddHost
<1>4. \A g \in r.members : VNodes(g, Replicas) \cap VNodes(h, Replicas) = {}
  BY VNodesApart
<1>5. \A g \in Host : VNodes(g, Replicas) \subseteq Point
  BY VNodesApart
<1>6. \A p \in Point : r.sortedSet[p] \in Nat
  BY DEF Ring
<1>. HIDE DEF s
<1>7. ASSUME NEW g \in s.members, NEW p \in VNodes(g, Replicas)
      PROVE  s.hosts[p] = g /\ s.sortedSet[p] = 1
  <2>1. CASE g = h
    <3>1. r.sortedSet[p] = 0
      BY <1>4, <1>5, <2>1 DEF Consistent
    <3>. QED
      BY <1>2, <1>3, <1>5, <2>1, <3>1
  <2>2. CASE g # h
    <3>1. g \in r.members /\ p \notin VNodes(h, Replicas) /\ p \in Point
      BY <1>1, <1>4, <1>5, <2>2
    <3>2. r.hosts[p] = g /\ r.sortedSet[p] = 1
      BY <3>1 DEF Consistent
    <3>. QED
      BY <1>2, <1>3, <3>1, <3>2
  <2>. QED
    BY <2>1, <2>2
<1>8. ASSUME NEW p \in Point, \A g \in s.members : p \notin VNodes(g, Replicas)
      PROVE  s.hosts[p] = NoHost /\ s.sortedSet[p] = 0
  <2>1. p \notin VNodes(h, Replicas) /\ r.hosts[p] = NoHost /\ r.sortedSet[p] = 0
    BY <1>1, <1>8 DEF Consistent
  <2>. QED
    BY <1>2, <1>3, <2>1
<1>9. Consistent(s)
  BY <1>7, <1>8 DEF Consistent
<1>. QED
  BY <1>9 DEF s

LEMMA RemoveHostConsistent ==
    ASSUME PlacementOK, NEW r \in Ring, Consistent(r), NEW h \in Host
    PROVE  Consistent(RemoveHost(r, h))
<1>. DEFINE s == RemoveHost(r, h)
            V == VNodes(h, ReplicationFactor)
<1>. Replicas \in Nat /\ Replicas <= ReplicationFactor /\ r.members \subseteq Host
     /\ ReplicationFactor \in Nat
  BY ReplicaAssumption DEF PlacementOK, Ring
<1>1. s.members = r.members \ {h}
  BY DEF RemoveHost
<1>2. \A p \in Point : s.hosts[p] = IF p \in V THEN NoHost ELSE r.hosts[p]
  BY DEF RemoveHost
<1>3. \A p \in Point : r.sortedSet[p] \in Nat
  BY DEF Ring
<1>4. \A p : Copies(h, ReplicationFactor, p) = IF p \in V THEN 1 ELSE 0
  BY VNodesApart
<1>5. \A p \in Point : s.sortedSet[p] =
         IF p \in V THEN (IF r.sortedSet[p] > 1 THEN r.sortedSet[p] - 1 ELSE 0)
                    ELSE r.sortedSet[p]
  BY <1>3, <1>4 DEF RemoveHost
<1>6. \A g \in Host : VNodes(g, Replicas) \subseteq Point
  BY VNodesApart
<1>7. \A g \in Host : g # h => V \cap VNodes(g, Replicas) = {}
  BY VNodesApart
<1>8. VNodes(h, Replicas) \subseteq V
  BY VNodesApart
<1>. HIDE DEF s, V
<1>9. ASSUME NEW g \in s.members, NEW p \in VNodes(g, Replicas)
      PROVE  s.hosts[p] = g /\ s.sortedSet[p] = 1
  <2>1. g \in r.members /\ g # h /\ p \in Point /\ p \notin V
    BY <1>1, <1>6, <1>7
  <2>2. r.hosts[p] = g /\ r.sortedSet[p] = 1
    BY <2>1 DEF Consistent
  <2>. QED
    BY <1>2, <1>5, <2>1, <2>2
<1>10. ASSUME NEW p \in Point, \A g \in s.members : p \notin VNodes(g, Replicas)
       PROVE  s.hosts[p] = NoHost /\ s.sortedSet[p] = 0
  <2>1. CASE p \in V
    <3>1. r.sortedSet[p] \in {0, 1}
      BY <1>1, <1>10 DEF Consistent
    <3>. QED
      BY <1>2, <1>5, <2>1, <3>1
  <2>2. CASE p \notin V
    <3>1. \A g \in r.members : p \notin VNodes(g, Replicas)
      BY <1>1, <1>8, <1>10, <2>2
    <3>2. r.hosts[p] = NoHost /\ r.sortedSet[p] = 0
      BY <3>1 DEF Consistent
    <3>. QED
      BY <1>2, <1>5, <2>2, <3>2
  <2>. QED
    BY <2>1, <2>2
<1>11. Consistent(s)
  BY <1>9, <1>10, Zenon DEF Consistent
<1>. QED
  BY <1>11 DEF s

(* A step that only touches loads keeps the ring as it is. *)
LEMMA LoadOpsKeepRing ==
    ASSUME NEW r \in Ring, NEW s,
           \/ s = ClampTotal(r) \/ s = ResetAllLoads(r) \/ s = MaxLoadEffect(r)
           \/ \E h : s = IncLoad(r, h) \/ s = DoneLoad(r, h)
           \/ \E h, l : s = UpdateLoadOf(r, h, l)
    PROVE  s.hosts = r.hosts /\ s.sortedSet = r.sortedSet /\ s.members = r.members
  BY DEF ClampTotal, ResetAllLoads, MaxLoadEffect, IncLoad, DoneLoad,
         UpdateLoadOf, SetLoad, Ring

LEMMA StepKinds ==
    ASSUME TypeOK, [Next]_vars
    PROVE  \/ \E h \in Host : ring' = AddHost(ring, h)
           \/ \E h \in Host : ring' = RemoveHost(ring, h)
           \/ /\ ring'.hosts = ring.hosts
              /\ ring'.sortedSet = ring.sortedSet
              /\ ring'.members = ring.members
<1>. ring \in Ring
  BY DEF TypeOK
<1>1. CASE \E h \in Host : Add(h) \/ Remove(h)
  BY <1>1 DEF Add, Remove
<1>2. CASE \/ \E h \in Host, l \in LoadValue : UpdateLoad(h, l)
           \/ ResetLoads \/ MaxLoad
  BY <1>2, LoadOpsKeepRing DEF UpdateLoad, ResetLoads, MaxLoad
<1>3. CASE \E c \in Client, k \in Key : CallGetLeast(c, k)
  BY <1>3, LoadOpsKeepRing DEF CallGetLeast, GetLeastEffect
<1>4. CASE \E c \in Client : Inc(c) \/ Done(c)
  BY <1>4, LoadOpsKeepRing DEF Inc, Done
<1>5. CASE UNCHANGED vars
  BY <1>5 DEF vars
<1>. QED
  BY <1>1, <1>2, <1>3, <1>4, <1>5 DEF Next

LEMMA ConsistentInit ==
    ASSUME PlacementOK, Init PROVE RingMatchesMembers
  BY DEF Init, NewRing, RingMatchesMembers, Consistent

LEMMA ConsistentNext ==
    ASSUME PlacementOK, TypeOK, RingMatchesMembers, [Next]_vars
    PROVE  RingMatchesMembers'
<1>. ring \in Ring
  BY DEF TypeOK
<1>1. CASE \E h \in Host : ring' = AddHost(ring, h)
  BY <1>1, AddHostConsistent DEF RingMatchesMembers
<1>2. CASE \E h \in Host : ring' = RemoveHost(ring, h)
  BY <1>2, RemoveHostConsistent DEF RingMatchesMembers
<1>3. CASE /\ ring'.hosts = ring.hosts
           /\ ring'.sortedSet = ring.sortedSet
           /\ ring'.members = ring.members
  BY <1>3 DEF RingMatchesMembers, Consistent
<1>. QED
  BY <1>1, <1>2, <1>3, StepKinds

(***************************************************************************)
(* For every number of hosts and every placement without collisions, the   *)
(* three parts of the ring that Add and Remove maintain separately never   *)
(* disagree.                                                               *)
(***************************************************************************)
THEOREM RingCorrect ==
    ASSUME PlacementOK PROVE Spec => []RingMatchesMembers
<1>1. Init => TypeOK /\ RingMatchesMembers
  BY TypeInit, ConsistentInit
<1>2. TypeOK /\ RingMatchesMembers /\ [Next]_vars
         => (TypeOK /\ RingMatchesMembers)'
  BY TypeNext, ConsistentNext
<1>. QED
  BY <1>1, <1>2, PTL DEF Spec

-------------------------------------------------------------------------------
(* The ring implements Assignment *)

(* In a consistent ring the points searched are those that have a host. *)
LEMMA PointsOfMembers ==
    ASSUME PlacementOK, NEW r \in Ring, Consistent(r)
    PROVE  /\ InRing(r) \in SUBSET Nat
           /\ \A h \in r.members : VNodes(h, Replicas) \subseteq InRing(r)
           /\ \A p \in InRing(r) :
                 r.hosts[p] \in r.members /\ p \in VNodes(r.hosts[p], Replicas)
           /\ InRing(r) = {} <=> r.members = {}
           /\ IsEmpty(r) <=> r.members = {}
<1>. r.members \subseteq Host /\ Replicas \in Nat /\ Replicas <= ReplicationFactor
  BY ReplicaAssumption DEF Ring, PlacementOK
<1>1. InRing(r) \in SUBSET Nat
  BY PointAssumption DEF InRing
<1>2. \A h \in r.members : VNodes(h, Replicas) \subseteq Point
  BY VNodesApart
<1>3. \A h \in r.members : VNodes(h, Replicas) \subseteq InRing(r)
  BY <1>2 DEF InRing, Consistent
<1>4. \A p \in InRing(r) :
         r.hosts[p] \in r.members /\ p \in VNodes(r.hosts[p], Replicas)
  BY DEF InRing, Consistent
<1>5. \A h \in r.members : VHash[h][0] \in VNodes(h, Replicas)
  BY DEF PlacementOK, VNodes
<1>6. InRing(r) = {} <=> r.members = {}
  BY <1>3, <1>4, <1>5
<1>7. \A h \in r.members : \A p \in VNodes(h, Replicas) : p \in Occupied(r)
  BY <1>2, NoHostAssumption DEF Consistent, Occupied
<1>8. \A p \in Occupied(r) : \E h \in r.members : p \in VNodes(h, Replicas)
  BY DEF Consistent, Occupied
<1>9. IsEmpty(r) <=> r.members = {}
  BY <1>5, <1>7, <1>8 DEF IsEmpty
<1>. QED
  BY <1>1, <1>3, <1>4, <1>6, <1>9

(* Get gives a member as long as there is one. *)
LEMMA GetMember ==
    ASSUME PlacementOK, NEW r \in Ring, Consistent(r), NEW k \in Key
    PROVE  /\ r.members = {} => Get(r, k) = ErrNoHosts
           /\ r.members # {} => /\ Get(r, k) \in r.members
                               /\ Search(InRing(r), KHash[k]) \in InRing(r)
                               /\ Get(r, k) = r.hosts[Search(InRing(r), KHash[k])]
<1>1. KHash[k] \in Nat
  BY HashAssumption, PointAssumption
<1>2. CASE r.members = {}
  BY <1>2, PointsOfMembers DEF Get
<1>3. CASE r.members # {}
  <2>1. Search(InRing(r), KHash[k]) \in InRing(r)
    BY <1>1, <1>3, PointsOfMembers, SearchType
  <2>. QED
    BY <1>3, <2>1, PointsOfMembers DEF Get
<1>. QED
  BY <1>2, <1>3

(***************************************************************************)
(* Two consistent rings that differ in one host h give every key the same  *)
(* owner, except for keys that the larger one gives to h.                  *)
(***************************************************************************)
LEMMA OneHostMoves ==
    ASSUME PlacementOK,
           NEW r \in Ring, NEW s \in Ring, Consistent(r), Consistent(s),
           NEW h \in Host, r.members # {}, s.members = r.members \cup {h},
           NEW k \in Key, Get(s, k) # h
    PROVE  Get(s, k) = Get(r, k)
<1>. DEFINE x == KHash[k]
            p == Search(InRing(s), x)
<1>. x \in Nat
  BY HashAssumption, PointAssumption
<1>1. p \in InRing(s) /\ Get(s, k) = s.hosts[p] /\ Get(s, k) \in s.members
  BY GetMember
<1>2. s.hosts[p] \in r.members /\ p \in VNodes(s.hosts[p], Replicas)
  BY <1>1, PointsOfMembers
<1>3. p \in InRing(r) /\ r.hosts[p] = s.hosts[p]
  BY <1>2, PointsOfMembers DEF Consistent
<1>4. ASSUME NEW q \in InRing(r) PROVE q \in InRing(s)
  <2>1. r.hosts[q] \in s.members /\ q \in VNodes(r.hosts[q], Replicas)
    BY PointsOfMembers
  <2>. QED
    BY <2>1, PointsOfMembers
<1>5. InRing(s) \in SUBSET Nat
  BY PointsOfMembers
<1>6. Search(InRing(r), x) = p
  BY <1>3, <1>4, <1>5, SearchStable
<1>. QED
  BY <1>1, <1>3, <1>6, GetMember

(* The members of a consistent ring determine the owner of every key. *)
LEMMA SameMembers ==
    ASSUME PlacementOK,
           NEW r \in Ring, NEW s \in Ring, Consistent(r), Consistent(s),
           s.members = r.members, NEW k \in Key
    PROVE  Get(s, k) = Get(r, k)
<1>1. CASE r.members = {}
  BY <1>1, GetMember
<1>2. CASE r.members # {}
  <2>1. \A q \in InRing(r) : q \in InRing(s)
    BY PointsOfMembers
  <2>2. \A q \in InRing(s) : q \in InRing(r) /\ r.hosts[q] = s.hosts[q]
    BY PointsOfMembers DEF Consistent
  <2>3. InRing(r) = InRing(s)
    BY <2>1, <2>2
  <2>. QED
    BY <1>2, <2>2, <2>3, GetMember
<1>. QED
  BY <1>1, <1>2

(***************************************************************************)
(* The ring implements Assignment for every placement without collisions:  *)
(* a host that is added only takes keys, a host that is removed only gives *)
(* up its own, and nothing else moves a key.                               *)
(***************************************************************************)
THEOREM RingImplementsAssignment ==
    ASSUME PlacementOK PROVE Spec => AssignmentSpec
<1>. DEFINE Inv == TypeOK /\ RingMatchesMembers
            own(r) == [k \in Key |-> Get(r, k)]
<1>1. Init => Asg!Init
  <2>. SUFFICES ASSUME Init PROVE Asg!Init
    OBVIOUS
  <2>1. ring \in Ring /\ Consistent(ring) /\ ring.members = {}
    BY TypeInit, ConsistentInit DEF TypeOK, RingMatchesMembers, Init, NewRing
  <2>2. \A k \in Key : Get(ring, k) = ErrNoHosts
    BY <2>1, GetMember
  <2>. QED
    BY <2>1, <2>2 DEF Asg!Init
<1>2. Inv /\ Inv' /\ [Next]_vars => [Asg!Next]_(Asg!vars)
  <2>. SUFFICES ASSUME Inv, Inv', [Next]_vars PROVE [Asg!Next]_(Asg!vars)
    OBVIOUS
  <2>0. /\ ring \in Ring /\ Consistent(ring) /\ ring.members \subseteq Host
        /\ ring' \in Ring /\ Consistent(ring') /\ ring'.members \subseteq Host
    BY DEF TypeOK, RingMatchesMembers, Ring
  <2>. HIDE DEF Inv
  <2>1. CASE ring'.members = ring.members
    <3>1. \A k \in Key : Get(ring', k) = Get(ring, k)
      BY <2>0, <2>1, SameMembers
    <3>. QED
      BY <2>1, <3>1 DEF Asg!vars
  <2>2. ASSUME NEW h \in Host, ring' = AddHost(ring, h), h \notin ring.members
        PROVE  Asg!Join(h)
    <3>1. ring'.members = ring.members \cup {h} /\ ring'.members # {}
      BY <2>2 DEF AddHost
    <3>2. \A k \in Key : Get(ring', k) \in ring.members \cup {h}
      BY <2>0, <3>1, GetMember
    <3>3. \A k \in Key : Get(ring', k) \in {Get(ring, k), h}
      <4>1. CASE ring.members = {}
        BY <3>2, <4>1
      <4>2. CASE ring.members # {}
        BY <2>0, <3>1, <4>2, OneHostMoves
      <4>. QED
        BY <4>1, <4>2
    <3>. QED
      BY <3>1, <3>2, <3>3 DEF Asg!Join
  <2>3. ASSUME NEW h \in Host, ring' = RemoveHost(ring, h), h \in ring.members
        PROVE  Asg!Leave(h)
    <3>1. ring'.members = ring.members \ {h} /\ ring.members = ring'.members \cup {h}
      BY <2>3 DEF RemoveHost
    <3>2. \A k \in Key : Get(ring', k) \in IF ring'.members = {} THEN {ErrNoHosts}
                                            ELSE ring'.members
      BY <2>0, GetMember
    <3>3. ASSUME NEW k \in Key, Get(ring, k) # h
          PROVE  Get(ring', k) = Get(ring, k)
      <4>1. Get(ring, k) \in ring.members
        BY <2>0, <2>3, GetMember
      <4>2. ring'.members # {}
        BY <3>1, <3>3, <4>1
      <4>. QED
        BY <2>0, <3>1, <3>3, <4>2, OneHostMoves
    <3>. QED
      BY <3>1, <3>2, <3>3 DEF Asg!Leave
  <2>4. CASE \E h \in Host : ring' = AddHost(ring, h)
    BY <2>1, <2>2, <2>4 DEF AddHost, Asg!Next
  <2>5. CASE \E h \in Host : ring' = RemoveHost(ring, h)
    <3>1. PICK h \in Host : ring' = RemoveHost(ring, h)
      BY <2>5
    <3>2. CASE h \in ring.members
      BY <2>3, <3>1, <3>2 DEF Asg!Next
    <3>3. CASE h \notin ring.members
      BY <2>1, <3>1, <3>3 DEF RemoveHost
    <3>. QED
      BY <3>2, <3>3
  <2>6. TypeOK
    BY DEF Inv
  <2>. QED
    BY <2>1, <2>4, <2>5, <2>6, StepKinds
<1>3. Spec => []Inv
  BY TypeCorrect, RingCorrect, PTL
<1>. QED
  BY <1>1, <1>2, <1>3, PTL DEF Spec, AssignmentSpec, Asg!Spec

-------------------------------------------------------------------------------
(* Loads *)

Holders(h) == {c \in Client : client[c] = [pc |-> "holding", host |-> h]}

(* A caller has a host between GetLeast and Done; there are finitely many  *)
(* of both at a time.                                                      *)
CallersOK ==
    /\ IsFiniteSet(ring.members)
    /\ IsFiniteSet({c \in Client : client[c].pc = "holding"})
    /\ \A c \in Client : client[c].pc \in {"got", "holding"} <=> client[c].host \in Host

(* LoadsAccounted over the sums of Induction. *)
Accounted ==
    ~disturbed => /\ \A h \in ring.members : ring.load[h] >= Cardinality(Holders(h))
                  /\ ring.totalLoad >= Sum(ring.load, ring.members)

LEMMA AccountedIs == Accounted <=> LoadsAccounted
  BY DEF Accounted, LoadsAccounted, Sum, Holders

(* What the operations on loads do to the loads. *)
LEMMA SetLoadIs ==
    ASSUME NEW r \in Ring, NEW h \in r.members, NEW l \in Int
    PROVE  LET s == SetLoad(r, h, l) IN
           /\ s.members = r.members
           /\ s.load = [r.load EXCEPT ![h] = l]
           /\ s.totalLoad = r.totalLoad - r.load[h] + l
<1>. DEFINE f == [r.load EXCEPT ![h] = l]
            s == [r EXCEPT !.load = f]
<1>1. f \in [Host -> Int] /\ r.load[h] \in Int
  BY DEF Ring
<1>2. s \in Ring /\ s.load = f /\ s.members = r.members /\ s.totalLoad = r.totalLoad
  BY <1>1, FieldType DEF Ring
<1>3. SetLoad(r, h, l) = [s EXCEPT !.totalLoad = s.totalLoad - r.load[h] + l]
  BY DEF SetLoad
<1>. HIDE DEF s
<1>. QED BY <1>2, <1>3 DEF Ring

LEMMA ResetIs ==
    ASSUME NEW r \in Ring
    PROVE  LET s == ResetAllLoads(r) IN
           /\ s.members = r.members
           /\ s.load = [h \in Host |-> 0]
           /\ s.totalLoad = 0
<1>. DEFINE f == [h \in DOMAIN r.load |-> 0]
            s == [r EXCEPT !.load = f]
<1>1. f \in [Host -> Int] /\ f = [h \in Host |-> 0]
  BY DEF Ring
<1>2. s \in Ring /\ s.load = f /\ s.members = r.members
  BY <1>1, FieldType DEF Ring
<1>3. ResetAllLoads(r) = [s EXCEPT !.totalLoad = 0]
  BY DEF ResetAllLoads
<1>. HIDE DEF s
<1>. QED BY <1>1, <1>2, <1>3 DEF Ring

(* The total is raised, if it changes at all. *)
LEMMA RaisesTotal ==
    ASSUME NEW r \in Ring, NEW s, s \in {ClampTotal(r), MaxLoadEffect(r)}
    PROVE  s.members = r.members /\ s.load = r.load /\ s.totalLoad >= r.totalLoad
           /\ s.totalLoad \in Int
  BY DEF ClampTotal, MaxLoadEffect, Ring

LEMMA CallersInit == Init => CallersOK
  BY FS_EmptySet, NoHostAssumption DEF Init, CallersOK, NewRing, Idle

LEMMA CallersNext ==
    ASSUME TypeOK, CallersOK, [Next]_vars PROVE CallersOK'
<1>. DEFINE H == {c \in Client : client[c].pc = "holding"}
<1>1. IsFiniteSet(ring.members)'
  <2>1. CASE \E h \in Host : ring' = AddHost(ring, h)
    <3>1. PICK h : ring'.members \in {ring.members, ring.members \cup {h}}
      BY <2>1 DEF AddHost
    <3>. QED BY <3>1, FS_AddElement DEF CallersOK
  <2>2. CASE \E h \in Host : ring' = RemoveHost(ring, h)
    <3>1. PICK h \in Host : ring' = RemoveHost(ring, h)
      BY <2>2
    <3>2. ring'.members = ring.members \ {h}
      BY <3>1 DEF RemoveHost
    <3>3. IsFiniteSet(ring.members)
      BY DEF CallersOK
    <3>4. IsFiniteSet(ring.members \ {h})
      BY <3>3, FS_RemoveElement
    <3>. QED BY <3>2, <3>4
  <2>3. CASE ring'.members = ring.members
    BY <2>3 DEF CallersOK
  <2>. QED BY <2>1, <2>2, <2>3, StepKinds, Zenon
<1>2. /\ IsFiniteSet(H)'
      /\ (\A c \in Client : client[c].pc \in {"got", "holding"} <=> client[c].host \in Host)'
  <2>1. CASE client' = client
    BY <2>1 DEF CallersOK
  <2>2. ASSUME NEW c \in Client, NEW k \in Key, CallGetLeast(c, k), client' # client
        PROVE  /\ H' = H
               /\ (\A d \in Client : client[d].pc \in {"got", "holding"} <=> client[d].host \in Host)'
    BY <2>2, NoHostAssumption DEF CallGetLeast, CallersOK, TypeOK, ClientState
  <2>3. ASSUME NEW c \in Client, Inc(c)
        PROVE  /\ H' = H \cup {c}
               /\ (\A d \in Client : client[d].pc \in {"got", "holding"} <=> client[d].host \in Host)'
    BY <2>3 DEF Inc, CallersOK, TypeOK, ClientState
  <2>4. ASSUME NEW c \in Client, Done(c)
        PROVE  /\ H' = H \ {c}
               /\ (\A d \in Client : client[d].pc \in {"got", "holding"} <=> client[d].host \in Host)'
    BY <2>4, NoHostAssumption DEF Done, CallersOK, TypeOK, ClientState, Idle
  <2>5. IsFiniteSet(H)
    BY DEF CallersOK
  <2>6. \/ client' = client
        \/ \E c \in Client, k \in Key : CallGetLeast(c, k) /\ client' # client
        \/ \E c \in Client : Inc(c) \/ Done(c)
    BY DEF Next, vars, Add, Remove, UpdateLoad, ResetLoads, MaxLoad
  <2>. HIDE DEF H
  <2>. QED BY <2>1, <2>2, <2>3, <2>4, <2>5, <2>6, FS_AddElement, FS_RemoveElement
<1>. QED BY <1>1, <1>2 DEF CallersOK

(* The holders of a host, counted. *)
LEMMA HoldersFinite ==
    ASSUME CallersOK, NEW h
    PROVE  IsFiniteSet(Holders(h)) /\ Cardinality(Holders(h)) \in Nat
<1>1. Holders(h) \subseteq {c \in Client : client[c].pc = "holding"}
  BY DEF Holders
<1>. QED BY <1>1, FS_Subset, FS_CardinalityType DEF CallersOK

(* A step that leaves the holders alone and the loads accounted for. *)
LEMMA AccountedFrame ==
    ASSUME CallersOK, CallersOK', Accounted, disturbed => disturbed',
           \A h \in ring'.members : Holders(h)' = Holders(h),
           ring'.members = ring.members, ring'.load = ring.load,
           ring.totalLoad \in Int, ring'.totalLoad \in Int,
           ring'.totalLoad >= ring.totalLoad,
           \A h \in ring.members : ring.load[h] \in Int
    PROVE  Accounted'
<1>1. Sum(ring.load, ring.members) \in Int
  BY SumOf DEF CallersOK
<1>2. Sum(ring.load, ring.members)' = Sum(ring.load, ring.members)
  BY DEF Sum, MapThenSumSet, MapThenFoldSet
<1>. QED BY <1>1, <1>2 DEF Accounted

(* To show of a step: the sum is over the new loads of the new members. *)
LEMMA AccountedNew ==
    ASSUME ~disturbed' =>
              /\ \A h \in ring'.members : ring'.load[h] >= Cardinality(Holders(h)')
              /\ ring'.totalLoad >= Sum(ring'.load, ring'.members)
    PROVE  Accounted'
  BY DEF Accounted

LEMMA RingTypes ==
    ASSUME TypeOK
    PROVE  /\ ring \in Ring /\ ring.members \subseteq Host /\ ring.load \in [Host -> Int]
           /\ ring.totalLoad \in Int /\ \A h \in ring.members : ring.load[h] \in Int
  BY DEF TypeOK, Ring

LEMMA AddAccounted ==
    ASSUME TypeOK, CallersOK, CallersOK', Accounted, NEW h \in Host, Add(h)
    PROVE  Accounted'
<1>. SUFFICES ASSUME ~disturbed'
     PROVE  /\ \A g \in ring'.members : ring'.load[g] >= Cardinality(Holders(g)')
            /\ ring'.totalLoad >= Sum(ring'.load, ring'.members)
  BY AccountedNew
<1>0. /\ ~disturbed /\ (h \in ring.members \/ ~InFlight(h))
      /\ ring' = AddHost(ring, h) /\ client' = client
  BY DEF Add, TypeOK
<1>1. \A g : Holders(g)' = Holders(g)
  BY <1>0 DEF Holders
<1>2. /\ \A g \in ring.members : ring.load[g] >= Cardinality(Holders(g))
      /\ ring.totalLoad >= Sum(ring.load, ring.members)
  BY <1>0 DEF Accounted
<1>3. CASE h \in ring.members
  BY <1>0, <1>1, <1>2, <1>3 DEF AddHost
<1>4. CASE h \notin ring.members
  <2>. DEFINE f == [ring.load EXCEPT ![h] = 0]
  <2>1. /\ ring'.members = ring.members \cup {h} /\ ring'.load = f
        /\ ring'.totalLoad = ring.totalLoad
    BY <1>0, <1>4 DEF AddHost
  <2>2. /\ f[h] = 0 /\ \A g \in ring.members : f[g] = ring.load[g] /\ ring.load[g] \in Int
    BY <1>4, RingTypes
  <2>. HIDE DEF f
  <2>3. Sum(f, ring.members) = Sum(ring.load, ring.members)
    BY <2>2, SumSame DEF CallersOK
  <2>4. Sum(f, ring.members \cup {h}) = Sum(f, ring.members)
    <3>. DEFINE M == ring.members \cup {h}
    <3>1. IsFiniteSet(M) /\ h \in M /\ \A g \in M : f[g] \in Int
      <4>1. IsFiniteSet(M)
        BY FS_AddElement DEF CallersOK
      <4>2. \A g \in M : f[g] \in Int
        BY <2>2
      <4>. QED BY <4>1, <4>2
    <3>2. M \ {h} = ring.members
      BY <1>4
    <3>3. Sum(f, ring.members) \in Int
      BY <2>2, SumOf DEF CallersOK
    <3>. HIDE DEF M
    <3>4. Sum(f, M) = f[h] + Sum(f, M \ {h})
      BY <3>1, SumOf
    <3>5. Sum(f, M) = 0 + Sum(f, ring.members)
      BY <2>2, <3>2, <3>4
    <3>. QED BY <3>3, <3>5 DEF M
  <2>5. Cardinality(Holders(h)) = 0
    <3>1. Holders(h) = {}
      BY <1>0, <1>4 DEF Holders, InFlight
    <3>. QED BY <3>1, FS_EmptySet
  <2>. QED BY <1>1, <1>2, <2>1, <2>2, <2>3, <2>4, <2>5
<1>. QED BY <1>3, <1>4

LEMMA RemoveAccounted ==
    ASSUME TypeOK, CallersOK, CallersOK', Accounted, NEW h \in Host, Remove(h)
    PROVE  Accounted'
<1>. SUFFICES ASSUME ~disturbed'
     PROVE  /\ \A g \in ring'.members : ring'.load[g] >= Cardinality(Holders(g)')
            /\ ring'.totalLoad >= Sum(ring'.load, ring'.members)
  BY AccountedNew
<1>0. ~disturbed /\ ring' = RemoveHost(ring, h) /\ client' = client
  BY DEF Remove, TypeOK
<1>1. \A g : Holders(g)' = Holders(g)
  BY <1>0 DEF Holders
<1>2. /\ \A g \in ring.members : ring.load[g] >= Cardinality(Holders(g))
      /\ ring.totalLoad >= Sum(ring.load, ring.members)
  BY <1>0 DEF Accounted
<1>. DEFINE f == [ring.load EXCEPT ![h] = 0]
            M == ring.members \ {h}
<1>3. ring'.members = M /\ ring'.load = f /\ ring'.totalLoad = ring.totalLoad
  BY <1>0 DEF RemoveHost
<1>4. \A g \in M : f[g] = ring.load[g] /\ ring.load[g] \in Int /\ g \in ring.members
  BY RingTypes
<1>5. IsFiniteSet(M)
  BY FS_RemoveElement DEF CallersOK
<1>. HIDE DEF f
<1>6. Sum(f, M) = Sum(ring.load, M) /\ Sum(ring.load, M) \in Int
  <2>. HIDE DEF M
  <2>. QED BY <1>4, <1>5, SumSame, SumOf
<1>7. Sum(ring.load, M) <= Sum(ring.load, ring.members)
  <2>1. CASE h \in ring.members
    <3>1. Sum(ring.load, ring.members) = ring.load[h] + Sum(ring.load, M)
      BY <2>1, RingTypes, SumOf DEF CallersOK
    <3>2. ring.load[h] \in Int /\ ring.load[h] >= 0
      BY <1>2, <2>1, RingTypes, HoldersFinite
    <3>. QED BY <1>6, <3>1, <3>2
  <2>2. CASE h \notin ring.members
    <3>1. M = ring.members
      BY <2>2
    <3>. QED BY <1>6, <3>1
  <2>. QED BY <2>1, <2>2
<1>8. Sum(ring.load, ring.members) \in Int /\ ring.totalLoad \in Int
  BY RingTypes, SumOf DEF CallersOK
<1>. HIDE DEF M
<1>. QED BY <1>1, <1>2, <1>3, <1>4, <1>6, <1>7, <1>8

LEMMA UpdateAccounted ==
    ASSUME TypeOK, CallersOK, CallersOK', Accounted, NEW h \in Host, NEW l \in LoadValue,
           UpdateLoad(h, l)
    PROVE  Accounted'
<1>. SUFFICES ASSUME ~disturbed'
     PROVE  /\ \A g \in ring'.members : ring'.load[g] >= Cardinality(Holders(g)')
            /\ ring'.totalLoad >= Sum(ring'.load, ring'.members)
  BY AccountedNew
<1>0. /\ ~disturbed /\ Quiescent /\ client' = client
      /\ ring' = SetLoad(ring, h, l) /\ l \in Nat
  BY LoadValueAssumption DEF UpdateLoad, UpdateLoadOf, TypeOK
<1>1. \A g \in Host : Cardinality(Holders(g)') = 0
  <2>1. \A g \in Host : Holders(g)' = {}
    BY <1>0, NoHostAssumption DEF Quiescent, Holders
  <2>. QED BY <2>1, FS_EmptySet
<1>2. /\ \A g \in ring.members : ring.load[g] >= 0
      /\ ring.totalLoad >= Sum(ring.load, ring.members)
  BY <1>0, RingTypes, HoldersFinite DEF Accounted
<1>3. CASE h \in ring.members
  <2>. DEFINE f == [ring.load EXCEPT ![h] = l]
  <2>1. /\ ring'.members = ring.members /\ ring'.load = f
        /\ ring'.totalLoad = ring.totalLoad - ring.load[h] + l
    BY <1>0, <1>3, RingTypes, SetLoadIs
  <2>2. f[h] = l /\ \A g \in ring.members : g # h => f[g] = ring.load[g]
    BY <1>3, RingTypes
  <2>. HIDE DEF f
  <2>3. Sum(f, ring.members) = Sum(ring.load, ring.members) - ring.load[h] + l
    BY <1>0, <1>3, <2>2, RingTypes, SumChange DEF CallersOK
  <2>4. Sum(ring.load, ring.members) \in Int
    BY RingTypes, SumOf DEF CallersOK
  <2>5. ring'.totalLoad >= Sum(ring'.load, ring'.members)
    BY <1>0, <1>2, <1>3, <2>1, <2>3, <2>4, RingTypes
  <2>. QED BY <1>0, <1>1, <1>2, <2>1, <2>2, <2>5, RingTypes
<1>4. CASE h \notin ring.members
  <2>1. ring' = ring
    BY <1>0, <1>4 DEF SetLoad
  <2>. QED BY <1>1, <1>2, <2>1, RingTypes
<1>. QED BY <1>3, <1>4

LEMMA ResetAccounted ==
    ASSUME TypeOK, CallersOK, CallersOK', Accounted, ResetLoads
    PROVE  Accounted'
<1>. SUFFICES ASSUME ~disturbed'
     PROVE  /\ \A g \in ring'.members : ring'.load[g] >= Cardinality(Holders(g)')
            /\ ring'.totalLoad >= Sum(ring'.load, ring'.members)
  BY AccountedNew
<1>0. /\ ~disturbed /\ Quiescent /\ client' = client
      /\ ring' = ResetAllLoads(ring)
  BY DEF ResetLoads, TypeOK
<1>1. \A g \in Host : Cardinality(Holders(g)') = 0
  <2>1. \A g \in Host : Holders(g)' = {}
    BY <1>0, NoHostAssumption DEF Quiescent, Holders
  <2>. QED BY <2>1, FS_EmptySet
<1>. DEFINE f == [h \in Host |-> 0]
<1>2. ring'.members = ring.members /\ ring'.load = f /\ ring'.totalLoad = 0
  BY <1>0, RingTypes, ResetIs
<1>3. Sum(f, ring.members) = 0
  <2>1. /\ \A g \in ring.members : f[g] \in {0, 1}
        /\ {g \in ring.members : f[g] = 1} = {}
    BY RingTypes
  <2>. HIDE DEF f
  <2>. QED BY <2>1, SumCounts, FS_EmptySet DEF CallersOK
<1>. QED BY <1>1, <1>2, <1>3, RingTypes

(* Inc and Done move the load of a host and its holders together. *)
LEMMA MoveAccounted ==
    ASSUME TypeOK, CallersOK, CallersOK', Accounted, NEW c \in Client, Inc(c) \/ Done(c)
    PROVE  Accounted'
<1>. SUFFICES ASSUME ~disturbed'
     PROVE  /\ \A g \in ring'.members : ring'.load[g] >= Cardinality(Holders(g)')
            /\ ring'.totalLoad >= Sum(ring'.load, ring'.members)
  BY AccountedNew
<1>h. PICK h : h = client[c].host
  OBVIOUS
<1>. DEFINE l == IF Inc(c) THEN ring.load[h] + 1 ELSE ring.load[h] - 1
<1>0. ~disturbed /\ h \in Host /\ ring' = SetLoad(ring, h, l)
  BY <1>h DEF Inc, Done, IncLoad, DoneLoad, TypeOK, CallersOK
<1>1. /\ \A g : g # h => Holders(g)' = Holders(g)
      /\ Inc(c) => Holders(h)' = Holders(h) \cup {c} /\ c \notin Holders(h)
      /\ Done(c) => Holders(h)' = Holders(h) \ {c} /\ c \in Holders(h)
  <2>1. \A d \in Client : d # c => client'[d] = client[d]
    BY DEF Inc, Done, TypeOK
  <2>2. CASE Inc(c)
    <3>1. client[c].pc = "got" /\ client'[c] = [pc |-> "holding", host |-> h]
      BY <1>h, <2>2 DEF Inc, TypeOK, ClientState
    <3>2. ~Done(c)
      BY <3>1 DEF Done
    <3>3. \A g : client[c] # [pc |-> "holding", host |-> g]
      BY <3>1
    <3>4. \A g : g # h => client'[c] # [pc |-> "holding", host |-> g]
      BY <3>1
    <3>. QED BY <2>1, <3>1, <3>2, <3>3, <3>4 DEF Holders
  <2>3. CASE Done(c)
    <3>1. client[c] = [pc |-> "holding", host |-> h] /\ client'[c] = Idle
      BY <1>h, <2>3 DEF Done, TypeOK, ClientState
    <3>2. ~Inc(c)
      BY <3>1 DEF Inc
    <3>3. \A g : client'[c] # [pc |-> "holding", host |-> g]
      BY <3>1 DEF Idle
    <3>4. \A g : g # h => client[c] # [pc |-> "holding", host |-> g]
      BY <3>1
    <3>. QED BY <2>1, <3>1, <3>2, <3>3, <3>4 DEF Holders
  <2>. QED BY <2>2, <2>3
<1>2. /\ \A g \in ring.members : ring.load[g] >= Cardinality(Holders(g))
      /\ ring.totalLoad >= Sum(ring.load, ring.members)
  BY <1>0 DEF Accounted
<1>3. CASE h \in ring.members
  <2>. DEFINE f == [ring.load EXCEPT ![h] = l]
  <2>0. l \in Int /\ ring.load[h] \in Int
    BY <1>3, RingTypes
  <2>. HIDE DEF l
  <2>1. /\ ring'.members = ring.members /\ ring'.load = f
        /\ ring'.totalLoad = ring.totalLoad - ring.load[h] + l
    BY <1>0, <1>3, <2>0, RingTypes, SetLoadIs
  <2>2. f[h] = l /\ \A g \in ring.members : g # h => f[g] = ring.load[g]
    BY <1>3, RingTypes
  <2>. HIDE DEF f
  <2>3. Sum(f, ring.members) = Sum(ring.load, ring.members) - ring.load[h] + l
    <3>1. f[h] \in Int /\ IsFiniteSet(ring.members) /\ \A g \in ring.members : ring.load[g] \in Int
      BY <2>0, <2>2, RingTypes DEF CallersOK
    <3>. QED BY <1>3, <2>2, <3>1, SumChange
  <2>4. Sum(ring.load, ring.members) \in Int
    BY RingTypes, SumOf DEF CallersOK
  <2>5. ring'.totalLoad >= Sum(ring'.load, ring'.members)
    BY <1>2, <2>0, <2>1, <2>3, <2>4, RingTypes
  <2>6. l >= Cardinality(Holders(h)')
    <3>1. IsFiniteSet(Holders(h)) /\ Cardinality(Holders(h)) \in Nat
      BY HoldersFinite
    <3>2. ring.load[h] >= Cardinality(Holders(h))
      BY <1>2, <1>3
    <3>3. CASE Inc(c)
      <4>1. Cardinality(Holders(h)') = Cardinality(Holders(h)) + 1
        BY <1>1, <3>1, <3>3, FS_AddElement
      <4>. QED BY <2>0, <3>1, <3>2, <3>3, <4>1 DEF l
    <3>4. CASE ~Inc(c)
      <4>1. Cardinality(Holders(h)') = Cardinality(Holders(h)) - 1
        BY <1>1, <3>1, <3>4, FS_RemoveElement
      <4>. QED BY <2>0, <3>1, <3>2, <3>4, <4>1 DEF l
    <3>. QED BY <3>3, <3>4
  <2>. QED BY <1>1, <1>2, <2>1, <2>2, <2>5, <2>6
<1>4. CASE h \notin ring.members
  <2>1. ring' = ring
    BY <1>0, <1>4 DEF SetLoad
  <2>. QED BY <1>1, <1>2, <1>4, <2>1
<1>. QED BY <1>3, <1>4

(* MaxLoad and loadOK only raise the total; GetLeast gives no load yet. *)
LEMMA RaiseAccounted ==
    ASSUME TypeOK, CallersOK, CallersOK', Accounted,
           MaxLoad \/ \E c \in Client, k \in Key : CallGetLeast(c, k)
    PROVE  Accounted'
<1>1. disturbed' = disturbed /\ ring' \in {ring, ClampTotal(ring), MaxLoadEffect(ring)}
  BY DEF MaxLoad, CallGetLeast, GetLeastEffect
<1>2. /\ ring'.members = ring.members /\ ring'.load = ring.load
      /\ ring'.totalLoad \in Int /\ ring'.totalLoad >= ring.totalLoad
  BY <1>1, RingTypes, RaisesTotal
<1>3. \A h : Holders(h)' = Holders(h)
  <2>1. CASE client' = client
    BY <2>1 DEF Holders
  <2>2. ASSUME NEW c \in Client, NEW k \in Key, CallGetLeast(c, k), client' # client,
               NEW h
        PROVE  Holders(h)' = Holders(h)
    <3>1. client[c].pc = "idle" /\ client'[c].pc # "holding"
      BY <2>2 DEF CallGetLeast, TypeOK, ClientState
    <3>2. \A d \in Client : d # c => client'[d] = client[d]
      BY <2>2 DEF CallGetLeast, TypeOK
    <3>. QED BY <3>1, <3>2 DEF Holders
  <2>. QED BY <2>1, <2>2 DEF MaxLoad
<1>. QED BY <1>1, <1>2, <1>3, AccountedFrame, RingTypes

LEMMA AccountedNext ==
    ASSUME TypeOK, CallersOK, CallersOK', Accounted, [Next]_vars
    PROVE  Accounted'
<1>1. CASE UNCHANGED vars
  BY <1>1 DEF vars, Accounted, Holders
<1>2. CASE Next
  BY <1>2, AddAccounted, RemoveAccounted, UpdateAccounted, ResetAccounted, MoveAccounted,
     RaiseAccounted DEF Next
<1>. QED BY <1>1, <1>2

LEMMA AccountedInit == Init => Accounted
<1>. SUFFICES ASSUME Init PROVE Accounted
  OBVIOUS
<1>1. ring.members = {} /\ ring.totalLoad = 0
  BY DEF Init, NewRing
<1>2. \A f : Sum(f, {}) = 0
  BY SumOf, FS_EmptySet
<1>. QED BY <1>1, <1>2 DEF Accounted

(* The inductive invariant of the loads and of the callers. *)
THEOREM LoadsInductive == Spec => [](TypeOK /\ CallersOK /\ Accounted)
<1>1. Init => TypeOK /\ CallersOK /\ Accounted
  BY TypeInit, CallersInit, AccountedInit
<1>2. TypeOK /\ CallersOK /\ Accounted /\ [Next]_vars => (TypeOK /\ CallersOK /\ Accounted)'
  BY TypeNext, CallersNext, AccountedNext
<1>. QED BY <1>1, <1>2, PTL DEF Spec

(***************************************************************************)
(* Whoever calls what in between: unless loads are overwritten or a host   *)
(* is added again under a caller, the load of a member covers the callers  *)
(* between Inc and Done, and totalLoad is not below the sum of the loads.  *)
(***************************************************************************)
THEOREM LoadsCorrect == Spec => []LoadsAccounted
  BY LoadsInductive, AccountedIs, PTL

-------------------------------------------------------------------------------
(* The sorted slice *)

(* Of a consistent ring, each point is in the slice once. *)
LEMMA Slice ==
    ASSUME PlacementOK, NEW r \in Ring, Consistent(r)
    PROVE  /\ InRing(r) \subseteq Point /\ InRing(r) \subseteq Nat /\ IsFiniteSet(InRing(r))
           /\ Occupied(r) = InRing(r)
           /\ \A p \in Point : r.sortedSet[p] = IF p \in InRing(r) THEN 1 ELSE 0
           /\ \A p \in Nat : FirstIndex(r, p) = Cardinality({q \in InRing(r) : q < p})
<1>1. InRing(r) \subseteq Point /\ InRing(r) \subseteq Nat /\ IsFiniteSet(InRing(r))
  BY PointAssumption, FS_Subset DEF InRing
<1>2. \A p \in Point : r.sortedSet[p] = IF p \in InRing(r) THEN 1 ELSE 0
  BY DEF InRing, Consistent
<1>3. Occupied(r) = InRing(r)
  <2>1. \A p \in InRing(r) : r.hosts[p] # NoHost
    BY PointsOfMembers, NoHostAssumption DEF Ring
  <2>2. \A p \in Point : r.hosts[p] # NoHost => p \in InRing(r)
    BY PointsOfMembers DEF Consistent
  <2>. QED BY <1>1, <2>1, <2>2 DEF Occupied
<1>4. ASSUME NEW p \in Nat
      PROVE  FirstIndex(r, p) = Cardinality({q \in InRing(r) : q < p})
  <2>. DEFINE B == {q \in Point : q < p}
  <2>1. IsFiniteSet(B) /\ \A q \in B : r.sortedSet[q] \in {0, 1}
    BY <1>2, PointAssumption, FS_Subset
  <2>2. FirstIndex(r, p) = Sum(r.sortedSet, B)
    BY DEF FirstIndex, Sum
  <2>3. {q \in B : r.sortedSet[q] = 1} = {q \in InRing(r) : q < p}
    BY <1>1, <1>2
  <2>. HIDE DEF B
  <2>. QED BY <2>1, <2>2, <2>3, SumCounts
<1>. QED BY <1>1, <1>2, <1>3, <1>4

(***************************************************************************)
(* The slice is sorted and has no gaps: the points of the ring are at the  *)
(* indices below their number, one at each, in their order.                *)
(***************************************************************************)
LEMMA Indices ==
    ASSUME PlacementOK, NEW r \in Ring, Consistent(r)
    PROVE  LET n == Cardinality(Occupied(r)) IN
           /\ n \in Nat
           /\ \A p \in InRing(r) : FirstIndex(r, p) \in 0 .. n - 1
           /\ \A p, q \in InRing(r) : q < p => FirstIndex(r, q) < FirstIndex(r, p)
           /\ \A p \in InRing(r) : At(r, FirstIndex(r, p)) = p
           /\ \A i \in 0 .. n - 1 : At(r, i) \in InRing(r) /\ FirstIndex(r, At(r, i)) = i
<1>. DEFINE P == InRing(r)
            n == Cardinality(P)
            Below(p) == {q \in P : q < p}
            ix == [p \in P |-> Cardinality(Below(p))]
<1>0. P \subseteq Nat /\ IsFiniteSet(P) /\ Occupied(r) = P /\ n \in Nat /\ P \subseteq Point
  BY Slice, FS_CardinalityType
<1>. HIDE DEF P
<1>1. \A p \in P : IsFiniteSet(Below(p)) /\ Cardinality(Below(p)) \in Nat
  BY <1>0, FS_Subset, FS_CardinalityType
<1>2. \A p \in P : FirstIndex(r, p) = ix[p] /\ r.sortedSet[p] = 1
  BY <1>0, Slice DEF P
<1>3. \A p \in P : ix[p] \in 0 .. n - 1
  <2>. TAKE p \in P
  <2>1. Below(p) \in SUBSET P /\ Below(p) # P
    BY <1>0
  <2>2. Cardinality(Below(p)) <= n /\ Cardinality(Below(p)) # n
    <3>. HIDE DEF Below
    <3>. QED BY <1>0, <2>1, FS_Subset
  <2>3. Cardinality(Below(p)) \in Nat
    BY <1>1
  <2>. HIDE DEF Below
  <2>. QED BY <1>0, <2>2, <2>3
<1>4. ASSUME NEW p \in P, NEW q \in P, q < p PROVE ix[q] < ix[p]
  <2>1. Below(q) \in SUBSET Below(p) /\ Below(q) # Below(p)
    <3>1. \A z \in P : z < q => z < p
      BY <1>0, <1>4
    <3>2. q \in Below(p) /\ q \notin Below(q)
      BY <1>0, <1>4
    <3>. QED BY <3>1, <3>2
  <2>2. IsFiniteSet(Below(p)) /\ Cardinality(Below(p)) \in Nat /\ Cardinality(Below(q)) \in Nat
    BY <1>1
  <2>. HIDE DEF Below
  <2>3. Cardinality(Below(q)) <= Cardinality(Below(p)) /\ Cardinality(Below(q)) # Cardinality(Below(p))
    BY <2>1, <2>2, FS_Subset
  <2>. QED BY <2>2, <2>3
<1>5. \A p, q \in P : ix[p] = ix[q] => p = q
  <2>. TAKE p, q \in P
  <2>1. p < q \/ q < p \/ p = q
    BY <1>0
  <2>2. ix[p] \in Int /\ ix[q] \in Int
    BY <1>0, <1>3
  <2>. HIDE DEF ix
  <2>. QED BY <1>4, <2>1, <2>2
<1>6. \A i \in 0 .. n - 1 : \E p \in P : ix[p] = i
  <2>1. IsFiniteSet(0 .. n - 1) /\ Cardinality(0 .. n - 1) = n
    BY <1>0, FS_Interval
  <2>2. ix \in [P -> 0 .. n - 1]
    BY <1>3
  <2>. HIDE DEF ix, n
  <2>3. ix \in Injection(P, 0 .. n - 1)
    BY <1>5, <2>2 DEF Injection, IsInjective
  <2>4. ix \in Surjection(P, 0 .. n - 1)
    BY <2>1, <2>3, FS_Injection DEF n
  <2>. QED BY <2>4 DEF Surjection
<1>7. ASSUME NEW p \in P PROVE At(r, ix[p]) = p
  <2>. DEFINE C(z) == FirstIndex(r, z) <= ix[p] /\ ix[p] < FirstIndex(r, z) + r.sortedSet[z]
  <2>1. \A z \in P : C(z) <=> ix[z] = ix[p]
    <3>1. \A z \in P : ix[z] \in Int
      BY <1>0, <1>3
    <3>. HIDE DEF ix
    <3>. QED BY <1>2, <3>1
  <2>2. \A z \in P : C(z) <=> z = p
    BY <1>5, <2>1
  <2>. HIDE DEF ix
  <2>. QED BY <2>2 DEF At, P
<1>8. ASSUME NEW i \in 0 .. n - 1 PROVE At(r, i) \in P /\ FirstIndex(r, At(r, i)) = i
  <2>. HIDE DEF ix
  <2>. QED BY <1>2, <1>6, <1>7
<1>. HIDE DEF ix, n
<1>. QED BY <1>0, <1>2, <1>3, <1>4, <1>7, <1>8 DEF P, n

-------------------------------------------------------------------------------
(* The walk *)

(* The points whose host takes the load, and the turn at which the walk of *)
(* a key gets to a point.                                                  *)
Fit(r) == {p \in InRing(r) : LoadOK(r, r.hosts[p])}

Start(r, k) == FirstIndex(r, Search(InRing(r), KHash[k]))

Turn(r, k, p) ==
    IF FirstIndex(r, p) >= Start(r, k)
    THEN FirstIndex(r, p) - Start(r, k)
    ELSE Cardinality(Occupied(r)) + FirstIndex(r, p)

LEMMA TurnType ==
    ASSUME PlacementOK, NEW r \in Ring, Consistent(r), r.members # {}, NEW k \in Key
    PROVE  /\ Start(r, k) \in 0 .. Cardinality(Occupied(r)) - 1
           /\ \A p \in InRing(r) : Turn(r, k, p) \in Nat
<1>1. Search(InRing(r), KHash[k]) \in InRing(r)
  BY GetMember
<1>2. Start(r, k) \in 0 .. Cardinality(Occupied(r)) - 1
  BY <1>1, Indices DEF Start
<1>3. \A p \in InRing(r) : FirstIndex(r, p) \in 0 .. Cardinality(Occupied(r)) - 1
  BY Indices
<1>4. Cardinality(Occupied(r)) \in Nat
  BY Indices
<1>. QED BY <1>2, <1>3, <1>4 DEF Turn

(* A set of points that is not empty has one that comes first in the walk. *)
LEMMA FirstTurn ==
    ASSUME PlacementOK, NEW r \in Ring, Consistent(r), r.members # {}, NEW k \in Key,
           NEW S \in SUBSET InRing(r), S # {}
    PROVE  \E p \in S : \A q \in S : Turn(r, k, p) <= Turn(r, k, q)
<1>. DEFINE T == {Turn(r, k, p) : p \in S}
<1>1. T \subseteq Nat /\ T # {}
  BY TurnType
<1>2. PICK t \in T : \A u \in T : t <= u
  <2>. HIDE DEF T
  <2>. QED BY <1>1, LeastNumber
<1>. QED BY <1>2

(***************************************************************************)
(* GetLeast gives the host of the first point, in the order of the walk,   *)
(* whose host takes the load; with none it does not end.                   *)
(***************************************************************************)
LEMMA GetLeastWalks ==
    ASSUME PlacementOK, NEW r \in Ring, Consistent(r), NEW k \in Key
    PROVE  /\ r.members = {} => GetLeast(r, k) = ErrNoHosts
           /\ r.members # {} /\ Fit(r) = {} => GetLeast(r, k) = Spin
           /\ r.members # {} /\ Fit(r) # {} =>
                 \E p \in Fit(r) : /\ GetLeast(r, k) = r.hosts[p]
                                   /\ \A q \in Fit(r) : Turn(r, k, p) <= Turn(r, k, q)
<1>1. CASE r.members = {}
  BY <1>1, PointsOfMembers DEF GetLeast
<1>2. CASE r.members # {}
  <2>. DEFINE n       == Cardinality(Occupied(r))
              start   == FirstIndex(r, Search(InRing(r), KHash[k]))
              visited == (0 .. n - 1) \cup {start}
              turn(i) == IF i >= start THEN i - start ELSE n + i
              host(i) == r.hosts[At(r, i)]
              stops   == {i \in visited : host(i) = NoHost \/ LoadOK(r, host(i))}
              first   == CHOOSE i \in stops : \A j \in stops : turn(i) <= turn(j)
  <2>1. ~IsEmpty(r)
    BY <1>2, PointsOfMembers
  <2>2. start = Start(r, k) /\ visited = 0 .. n - 1
    BY <1>2, TurnType DEF Start
  <2>3. /\ \A p \in InRing(r) : FirstIndex(r, p) \in 0 .. n - 1 /\ At(r, FirstIndex(r, p)) = p
        /\ \A i \in 0 .. n - 1 : At(r, i) \in InRing(r) /\ FirstIndex(r, At(r, i)) = i
    BY Indices
  <2>4. \A i \in 0 .. n - 1 : host(i) \in r.members /\ host(i) # NoHost
    <3>1. NoHost \notin r.members
      BY NoHostAssumption DEF Ring
    <3>. QED BY <2>3, <3>1, PointsOfMembers
  <2>5. start \in 0 .. n - 1
    BY <1>2, <2>2, TurnType
  <2>6. GetLeast(r, k) = IF stops = {} THEN Spin
                         ELSE IF host(first) = NoHost THEN ErrNoHosts ELSE host(first)
    BY <1>2, <2>1, <2>4, <2>5 DEF GetLeast
  <2>7. stops = {i \in 0 .. n - 1 : At(r, i) \in Fit(r)}
    BY <2>2, <2>3, <2>4 DEF Fit
  <2>8. \A i \in 0 .. n - 1 : turn(i) = Turn(r, k, At(r, i))
    BY <2>2, <2>3 DEF Turn
  <2>9. CASE Fit(r) = {}
    BY <1>2, <2>6, <2>7, <2>9
  <2>10. CASE Fit(r) # {}
    <3>1. PICK p \in Fit(r) : \A q \in Fit(r) : Turn(r, k, p) <= Turn(r, k, q)
      <4>1. Fit(r) \in SUBSET InRing(r)
        BY DEF Fit
      <4>. QED BY <1>2, <2>10, <4>1, FirstTurn
    <3>2. FirstIndex(r, p) \in stops
      BY <2>3, <2>7 DEF Fit
    <3>3. \A j \in stops : turn(FirstIndex(r, p)) <= turn(j)
      <4>. TAKE j \in stops
      <4>1. j \in 0 .. n - 1 /\ At(r, j) \in Fit(r)
        BY <2>7
      <4>2. FirstIndex(r, p) \in 0 .. n - 1 /\ At(r, FirstIndex(r, p)) = p
        BY <2>3 DEF Fit
      <4>. HIDE DEF stops, turn, n
      <4>. QED BY <2>8, <3>1, <4>1, <4>2
    <3>. HIDE DEF turn, stops
    <3>4. first \in stops /\ \A j \in stops : turn(first) <= turn(j)
      BY <3>2, <3>3
    <3>5. first \in 0 .. n - 1 /\ At(r, first) \in Fit(r)
      BY <2>7, <3>4
    <3>6. \A q \in Fit(r) : Turn(r, k, At(r, first)) <= Turn(r, k, q)
      <4>. TAKE q \in Fit(r)
      <4>1. FirstIndex(r, q) \in stops /\ At(r, FirstIndex(r, q)) = q /\ FirstIndex(r, q) \in 0 .. n - 1
        BY <2>3, <2>7 DEF Fit
      <4>. HIDE DEF first, n
      <4>. QED BY <2>8, <3>4, <3>5, <4>1
    <3>7. GetLeast(r, k) = host(first)
      BY <2>4, <2>6, <3>4, <3>5
    <3>. QED BY <2>10, <3>5, <3>6, <3>7, <1>2
  <2>. QED BY <1>2, <2>9, <2>10
<1>. QED BY <1>1, <1>2

(***************************************************************************)
(* As long as totalLoad is not below the sum of the loads, some member is  *)
(* within the bound of loadOK: one that is not above the average.          *)
(***************************************************************************)
LEMMA SomeHostTakes ==
    ASSUME NEW r, IsFiniteSet(r.members), r.members # {},
           r.totalLoad \in Int, \A h \in r.members : r.load[h] \in Int,
           ClampTotal(r).totalLoad = (IF r.totalLoad < 0 THEN 0 ELSE r.totalLoad),
           r.totalLoad >= Sum(r.load, r.members)
    PROVE  \E h \in r.members : LoadOK(r, h)
<1>. DEFINE t == ClampTotal(r).totalLoad + 1
            q == t \div Cardinality(r.members)
<1>1. t \in Nat /\ Sum(r.load, r.members) <= t
  BY SumOf
<1>2. Cardinality(r.members) \in Nat /\ Cardinality(r.members) > 0
  BY FS_CardinalityType, FS_EmptySet
<1>3. q \in Nat
  <2>. HIDE DEF t
  <2>. QED BY <1>1, <1>2
<1>4. PICK h \in r.members : r.load[h] <= q
  <2>. HIDE DEF t
  <2>. QED BY <1>1, SomeBelowAverage
<1>5. LoadBound(r) \in Nat /\ LoadBound(r) >= q + 1
  <2>1. LoadBound(r) = CeilFiveQuarters(IF q = 0 THEN 1 ELSE q)
    BY DEF LoadBound
  <2>. HIDE DEF q
  <2>. QED BY <1>3, <2>1 DEF CeilFiveQuarters
<1>. QED BY <1>3, <1>4, <1>5 DEF LoadOK

(***************************************************************************)
(* The loop of GetLeast, which has no bound, ends for every key and gives  *)
(* a member whenever there is one, however callers are interleaved with    *)
(* changes of members and loads.                                           *)
(***************************************************************************)
THEOREM WalkEnds ==
    ASSUME PlacementOK PROVE Spec => []GetLeastTerminates
<1>1. TypeOK /\ CallersOK /\ Accounted /\ RingMatchesMembers => GetLeastTerminates
  <2>. SUFFICES ASSUME TypeOK, CallersOK, Accounted, RingMatchesMembers, ~disturbed, NEW k \in Key
       PROVE  GetLeast(ring, k) \in IF ring.members = {} THEN {ErrNoHosts} ELSE ring.members
    BY DEF GetLeastTerminates
  <2>0. ring \in Ring /\ Consistent(ring)
    BY DEF TypeOK, RingMatchesMembers
  <2>1. CASE ring.members = {}
    BY <2>0, <2>1, GetLeastWalks
  <2>2. CASE ring.members # {}
    <3>1. ClampTotal(ring).totalLoad = (IF ring.totalLoad < 0 THEN 0 ELSE ring.totalLoad)
      BY <2>0 DEF ClampTotal, Ring
    <3>2. PICK h \in ring.members : LoadOK(ring, h)
      BY <2>2, <3>1, RingTypes, SomeHostTakes DEF CallersOK, Accounted
    <3>3. VHash[h][0] \in VNodes(h, Replicas)
      BY ReplicaAssumption DEF PlacementOK, VNodes
    <3>4. VHash[h][0] \in Fit(ring)
      BY <2>0, <3>2, <3>3, PointsOfMembers DEF Consistent, Fit
    <3>5. PICK p \in Fit(ring) : GetLeast(ring, k) = ring.hosts[p]
      BY <2>0, <2>2, <3>4, GetLeastWalks
    <3>. QED BY <2>0, <2>2, <3>5, PointsOfMembers DEF Fit
  <2>. QED BY <2>1, <2>2
<1>. QED BY <1>1, LoadsInductive, RingCorrect, PTL

-------------------------------------------------------------------------------
(* The order in which a key meets the hosts *)

LEMMA LastPoint == Point # {} => Max(Point) \in Point /\ \A p \in Point : p <= Max(Point)
<1>. SUFFICES ASSUME Point # {} PROVE \E m \in Point : \A p \in Point : m >= p
  BY PointAssumption DEF Max
<1>. DEFINE Ends(m) == {p \in Point : p > m}
            T == {Cardinality(Ends(m)) : m \in Point}
<1>0. \A m \in Point : IsFiniteSet(Ends(m)) /\ Cardinality(Ends(m)) \in Nat
  BY PointAssumption, FS_Subset, FS_CardinalityType
<1>1. T \subseteq Nat /\ T # {}
  BY <1>0
<1>2. PICK t \in T : \A u \in T : t <= u
  <2>. HIDE DEF T
  <2>. QED BY <1>1, LeastNumber
<1>3. PICK m \in Point : t = Cardinality(Ends(m))
  BY <1>2
<1>4. ASSUME NEW p \in Point, p > m PROVE FALSE
  <2>1. Ends(p) \in SUBSET Ends(m) /\ Ends(p) # Ends(m)
    <3>1. \A z \in Point : z > p => z > m
      BY <1>4, PointAssumption
    <3>2. p \in Ends(m) /\ p \notin Ends(p)
      BY <1>4, PointAssumption
    <3>. QED BY <3>1, <3>2
  <2>2. IsFiniteSet(Ends(m)) /\ Cardinality(Ends(m)) \in Nat /\ Cardinality(Ends(p)) \in Nat
    BY <1>0
  <2>3. Cardinality(Ends(m)) <= Cardinality(Ends(p))
    BY <1>2, <1>3
  <2>. HIDE DEF Ends
  <2>4. Cardinality(Ends(p)) <= Cardinality(Ends(m)) /\ Cardinality(Ends(p)) # Cardinality(Ends(m))
    BY <2>1, <2>2, FS_Subset
  <2>. QED BY <2>2, <2>3, <2>4
<1>. QED BY <1>4, PointAssumption

(* What search finds: the first point at or after x, or the first of all. *)
LEMMA SearchIs ==
    ASSUME NEW S \in SUBSET Nat, S # {}, NEW x \in Nat
    PROVE  /\ Search(S, x) \in S
           /\ (\E p \in S : p >= x) => Search(S, x) >= x /\ \A p \in S : p >= x => Search(S, x) <= p
           /\ (\A p \in S : p < x) => \A p \in S : Search(S, x) <= p
<1>1. CASE \E p \in S : p >= x
  <2>1. {p \in S : p >= x} \in SUBSET Nat /\ {p \in S : p >= x} # {}
    BY <1>1
  <2>2. Search(S, x) = Least({p \in S : p >= x})
    BY <1>1 DEF Search
  <2>3. Search(S, x) \in {p \in S : p >= x} /\ \A q \in {p \in S : p >= x} : Search(S, x) <= q
    BY <2>1, <2>2, LeastIsMinimum
  <2>4. ~ \A p \in S : p < x
    BY <1>1
  <2>. QED BY <2>3, <2>4
<1>2. CASE ~ \E p \in S : p >= x
  BY <1>2, LeastIsMinimum DEF Search
<1>. QED BY <1>1, <1>2

(* The turns of the walk are in the order of the distance from the key. *)
LEMMA TurnsClockwise ==
    ASSUME PlacementOK, NEW r \in Ring, Consistent(r), r.members # {}, NEW k \in Key,
           NEW p \in InRing(r), NEW q \in InRing(r)
    PROVE  /\ Clockwise(k, p) \in Nat
           /\ Turn(r, k, p) <= Turn(r, k, q) <=> Clockwise(k, p) <= Clockwise(k, q)
<1>. DEFINE n == Cardinality(Occupied(r))
            x == KHash[k]
            s == Search(InRing(r), x)
            i == FirstIndex(r, p)
            j == FirstIndex(r, q)
            a == FirstIndex(r, s)
            M == Max(Point)
<1>0. x \in Point /\ InRing(r) \subseteq Point /\ Point \subseteq Nat /\ InRing(r) \in SUBSET Nat
  BY HashAssumption, PointAssumption, Slice
<1>1. /\ s \in InRing(r)
      /\ (\E z \in InRing(r) : z >= x) => s >= x /\ \A z \in InRing(r) : z >= x => s <= z
      /\ (\A z \in InRing(r) : z < x) => \A z \in InRing(r) : s <= z
  <2>1. InRing(r) # {} /\ x \in Nat
    BY <1>0
  <2>. HIDE DEF x
  <2>. QED BY <1>0, <2>1, SearchIs
<1>2. /\ n \in Nat
      /\ \A z \in InRing(r) : FirstIndex(r, z) \in 0 .. n - 1
      /\ \A y, z \in InRing(r) : y < z => FirstIndex(r, y) < FirstIndex(r, z)
  BY Indices
<1>3. x <= M /\ p <= M /\ q <= M /\ M \in Nat /\ x \in Nat /\ p \in Nat /\ q \in Nat /\ s \in Nat
  BY <1>0, <1>1, LastPoint
<1>4. /\ Turn(r, k, p) = (IF i >= a THEN i - a ELSE n + i)
      /\ Turn(r, k, q) = (IF j >= a THEN j - a ELSE n + j)
  BY DEF Turn, Start
<1>5. /\ Clockwise(k, p) = (IF p >= x THEN p - x ELSE p - x + M + 1)
      /\ Clockwise(k, q) = (IF q >= x THEN q - x ELSE q - x + M + 1)
  BY DEF Clockwise
<1>6. /\ i \in 0 .. n - 1 /\ j \in 0 .. n - 1 /\ a \in 0 .. n - 1
      /\ p < q => i < j
      /\ q < p => j < i
      /\ p < s => i < a
      /\ s < p => a < i
      /\ q < s => j < a
      /\ s < q => a < j
      /\ p = q => i = j
      /\ p = s => i = a
      /\ q = s => j = a
  BY <1>1, <1>2
<1>7. \/ /\ s >= x /\ (p >= x => s <= p) /\ (q >= x => s <= q)
      \/ p < x /\ q < x /\ s <= p /\ s <= q
  BY <1>1, <1>3, <1>0
<1>. HIDE DEF n, x, s, i, j, a, M
<1>. QED BY <1>2, <1>3, <1>4, <1>5, <1>6, <1>7

LEMMA ClockwiseApart ==
    ASSUME NEW k \in Key
    PROVE  /\ \A p \in Point : Clockwise(k, p) \in Nat
           /\ \A p, q \in Point : Clockwise(k, p) = Clockwise(k, q) => p = q
<1>1. KHash[k] \in Point /\ Point \subseteq Nat
  BY HashAssumption, PointAssumption
<1>2. Max(Point) \in Nat /\ KHash[k] <= Max(Point) /\ \A p \in Point : p <= Max(Point)
  BY <1>1, LastPoint
<1>. DEFINE x == KHash[k]
            M == Max(Point)
<1>3. \A p \in Point : Clockwise(k, p) = (IF p >= x THEN p - x ELSE p - x + M + 1)
  BY DEF Clockwise
<1>4. \A p \in Point : p \in Nat /\ p <= M /\ x \in Nat /\ M \in Nat /\ x <= M
  BY <1>1, <1>2
<1>. HIDE DEF x, M
<1>5. \A p \in Point : Clockwise(k, p) \in Nat
  BY <1>3, <1>4
<1>6. ASSUME NEW p \in Point, NEW q \in Point, Clockwise(k, p) = Clockwise(k, q) PROVE p = q
  BY <1>3, <1>4, <1>6
<1>. QED BY <1>5, <1>6

(* Nearest is the distance of the nearest virtual node. *)
LEMMA NearestIs ==
    ASSUME PlacementOK, NEW k \in Key, NEW h \in Host
    PROVE  \E p \in VNodes(h, Replicas) :
              Nearest(k, h) = Clockwise(k, p)
              /\ \A q \in VNodes(h, Replicas) : Nearest(k, h) <= Clockwise(k, q)
<1>. DEFINE T == {Clockwise(k, p) : p \in VNodes(h, Replicas)}
<1>1. VNodes(h, Replicas) \subseteq Point /\ VHash[h][0] \in VNodes(h, Replicas)
  <2>1. Replicas \in Nat /\ Replicas <= ReplicationFactor /\ Replicas >= 1
    BY ReplicaAssumption DEF PlacementOK
  <2>2. VHash[h][0] \in VNodes(h, Replicas)
    BY <2>1 DEF VNodes
  <2>. QED BY <2>1, <2>2, VNodesApart
<1>2. T \subseteq Nat /\ T # {}
  BY <1>1, ClockwiseApart
<1>3. PICK t \in T : \A u \in T : t <= u
  <2>. HIDE DEF T
  <2>. QED BY <1>2, LeastNumber
<1>4. Min(T) \in T /\ \A u \in T : Min(T) <= u
  <2>. HIDE DEF T
  <2>. QED BY <1>3 DEF Min
<1>5. Nearest(k, h) = Min(T)
  BY DEF Nearest
<1>. HIDE DEF Min
<1>. QED BY <1>4, <1>5

(* Of some members, the host of the point that comes first in the walk is  *)
(* the first in the order of MemberRing.                                   *)
LEMMA FirstHost ==
    ASSUME PlacementOK, NEW r \in Ring, Consistent(r), NEW k \in Key,
           NEW H \in SUBSET r.members, NEW p \in InRing(r), r.hosts[p] \in H,
           \A q \in InRing(r) : r.hosts[q] \in H => Clockwise(k, p) <= Clockwise(k, q)
    PROVE  MR!FirstOf(H, k) = r.hosts[p]
<1>0. r.members \subseteq Host /\ H \subseteq Host
  BY DEF Ring
<1>1. p \in VNodes(r.hosts[p], Replicas) /\ InRing(r) \subseteq Point
  BY PointsOfMembers, Slice
<1>2. ASSUME NEW g \in H
      PROVE  \E q \in InRing(r) : /\ r.hosts[q] = g /\ Nearest(k, g) = Clockwise(k, q)
                                  /\ Clockwise(k, p) <= Nearest(k, g)
                                  /\ \A z \in VNodes(g, Replicas) : Nearest(k, g) <= Clockwise(k, z)
  <2>1. PICK q \in VNodes(g, Replicas) : /\ Nearest(k, g) = Clockwise(k, q)
                                         /\ \A z \in VNodes(g, Replicas) : Nearest(k, g) <= Clockwise(k, z)
    BY <1>0, NearestIs
  <2>2. q \in InRing(r) /\ r.hosts[q] = g
    BY <2>1, PointsOfMembers DEF Consistent
  <2>. QED BY <2>1, <2>2
<1>3. \A g \in H : Nearest(k, g) \in Nat
  BY <1>1, <1>2, ClockwiseApart
<1>4. Nearest(k, r.hosts[p]) = Clockwise(k, p)
  <2>1. Nearest(k, r.hosts[p]) <= Clockwise(k, p) /\ Clockwise(k, p) <= Nearest(k, r.hosts[p])
    BY <1>1, <1>2
  <2>2. Clockwise(k, p) \in Nat
    BY <1>1, ClockwiseApart
  <2>. QED BY <1>3, <2>1, <2>2
<1>5. ASSUME NEW g \in H, \A f \in H : Nearest(k, g) <= Nearest(k, f) PROVE g = r.hosts[p]
  <2>1. PICK q \in InRing(r) : r.hosts[q] = g /\ Nearest(k, g) = Clockwise(k, q)
                               /\ Clockwise(k, p) <= Nearest(k, g)
    BY <1>2
  <2>2. Clockwise(k, p) \in Nat /\ Clockwise(k, q) \in Nat
    BY <1>1, ClockwiseApart
  <2>3. Clockwise(k, q) = Clockwise(k, p)
    BY <1>4, <1>5, <2>1, <2>2
  <2>. QED BY <1>1, <2>1, <2>3, ClockwiseApart
<1>6. \A f \in H : Nearest(k, r.hosts[p]) <= Nearest(k, f)
  BY <1>2, <1>4
<1>7. MR!FirstOf(H, k) = CHOOSE h \in H : \A g \in H : Nearest(k, h) <= Nearest(k, g)
  BY <1>0 DEF MR!FirstOf
<1>. QED BY <1>5, <1>6, <1>7

LEMMA SameLoadOK ==
    ASSUME NEW r, NEW h PROVE MR!LoadOK(r, h) <=> LoadOK(r, h)
<1>1. MR!ClampTotal(r) = ClampTotal(r)
  BY Zenon DEF MR!ClampTotal, ClampTotal
<1>2. \A a : MR!CeilFiveQuarters(a) = CeilFiveQuarters(a)
  BY Zenon DEF MR!CeilFiveQuarters, CeilFiveQuarters
<1>3. MR!LoadBound(r) = LoadBound(r)
  <2>. DEFINE avg == (ClampTotal(r).totalLoad + 1) \div Cardinality(r.members)
  <2>1. LoadBound(r) = CeilFiveQuarters(IF avg = 0 THEN 1 ELSE avg)
    BY DEF LoadBound
  <2>2. MR!LoadBound(r) = MR!CeilFiveQuarters(IF avg = 0 THEN 1 ELSE avg)
    <3>1. MR!Cardinality(r.members) = Cardinality(r.members)
      BY Zenon DEF MR!Cardinality, Cardinality
    <3>. QED BY <1>1, <3>1 DEF MR!LoadBound
  <2>. HIDE DEF avg
  <2>. QED BY <1>2, <2>1, <2>2
<1>. QED BY <1>3, Zenon DEF MR!LoadOK, LoadOK

(* In a consistent ring Get and GetLeast are Owner and LeastLoaded. *)
LEMMA LookupsAgree ==
    ASSUME PlacementOK, NEW r \in Ring, Consistent(r), NEW k \in Key
    PROVE  Get(r, k) = MR!Owner(r, k) /\ GetLeast(r, k) = MR!LeastLoaded(r, k)
<1>1. CASE r.members = {}
  BY <1>1, GetMember, GetLeastWalks DEF MR!Owner, MR!LeastLoaded
<1>2. CASE r.members # {}
  <2>0. /\ \A q \in InRing(r) : r.hosts[q] \in r.members
        /\ \A p, q \in InRing(r) : Turn(r, k, p) <= Turn(r, k, q) <=> Clockwise(k, p) <= Clockwise(k, q)
    BY <1>2, PointsOfMembers, TurnsClockwise
  <2>1. Get(r, k) = MR!Owner(r, k)
    <3>. DEFINE s == Search(InRing(r), KHash[k])
    <3>1. s \in InRing(r) /\ Get(r, k) = r.hosts[s]
      BY <1>2, GetMember
    <3>2. Turn(r, k, s) = 0 /\ \A q \in InRing(r) : Turn(r, k, s) <= Turn(r, k, q)
      <4>1. Start(r, k) \in Int /\ \A q \in InRing(r) : Turn(r, k, q) \in Nat
        BY <1>2, TurnType
      <4>2. Turn(r, k, s) = 0
        BY <4>1 DEF Turn, Start
      <4>. QED BY <4>1, <4>2
    <3>. HIDE DEF s
    <3>3. MR!FirstOf(r.members, k) = r.hosts[s]
      BY <2>0, <3>1, <3>2, FirstHost
    <3>. QED BY <1>2, <3>1, <3>3 DEF MR!Owner
  <2>2. GetLeast(r, k) = MR!LeastLoaded(r, k)
    <3>. DEFINE H == {h \in r.members : LoadOK(r, h)}
    <3>1. MR!LeastLoaded(r, k) = IF H = {} THEN Spin ELSE MR!FirstOf(H, k)
      BY <1>2, SameLoadOK DEF MR!LeastLoaded
    <3>2. \A q \in InRing(r) : q \in Fit(r) <=> r.hosts[q] \in H
      BY <2>0 DEF Fit
    <3>3. CASE Fit(r) = {}
      <4>1. H = {}
        <5>. SUFFICES ASSUME NEW h \in H PROVE FALSE
          OBVIOUS
        <5>1. VHash[h][0] \in VNodes(h, Replicas)
          BY ReplicaAssumption DEF PlacementOK, VNodes
        <5>2. VHash[h][0] \in InRing(r) /\ r.hosts[VHash[h][0]] = h
          BY <5>1, PointsOfMembers DEF Consistent
        <5>. QED BY <3>2, <3>3, <5>2
      <4>. QED BY <1>2, <3>1, <3>3, <4>1, GetLeastWalks
    <3>4. CASE Fit(r) # {}
      <4>1. PICK p \in Fit(r) : /\ GetLeast(r, k) = r.hosts[p]
                                /\ \A q \in Fit(r) : Turn(r, k, p) <= Turn(r, k, q)
        BY <1>2, <3>4, GetLeastWalks
      <4>2. p \in InRing(r) /\ r.hosts[p] \in H
        BY <3>2 DEF Fit
      <4>3. \A q \in InRing(r) : r.hosts[q] \in H => Clockwise(k, p) <= Clockwise(k, q)
        BY <2>0, <3>2, <4>1, <4>2
      <4>4. H \in SUBSET r.members /\ H # {}
        BY <4>2
      <4>. HIDE DEF H
      <4>5. MR!FirstOf(H, k) = r.hosts[p]
        BY <4>2, <4>3, <4>4, FirstHost
      <4>. QED BY <3>1, <4>1, <4>4, <4>5
    <3>. QED BY <3>3, <3>4
  <2>. QED BY <2>1, <2>2
<1>. QED BY <1>1, <1>2

(***************************************************************************)
(* The ring is MemberRing: which host a key gets from Get or GetLeast      *)
(* depends on the members and their loads alone, in an order of the hosts  *)
(* that belongs to the key. The modules above the ring rest on it.         *)
(***************************************************************************)
THEOREM RingIsMemberRing ==
    ASSUME PlacementOK PROVE Spec => []MemberRingAgrees
<1>1. TypeOK /\ RingMatchesMembers => MemberRingAgrees
  BY LookupsAgree DEF TypeOK, RingMatchesMembers, MemberRingAgrees
<1>. QED BY <1>1, TypeCorrect, RingCorrect, PTL

-------------------------------------------------------------------------------
(* GetLeastv2wip *)

(* A finite set of integers that is not empty has a least element. *)
LEMMA LeastInteger ==
    ASSUME NEW S \in SUBSET Int, IsFiniteSet(S), S # {}
    PROVE  \E m \in S : \A z \in S : m <= z
<1>. DEFINE Under(m) == {z \in S : z < m}
            T == {Cardinality(Under(m)) : m \in S}
<1>0. \A m \in S : IsFiniteSet(Under(m)) /\ Cardinality(Under(m)) \in Nat
  BY FS_Subset, FS_CardinalityType
<1>1. T \subseteq Nat /\ T # {}
  BY <1>0
<1>2. PICK t \in T : \A u \in T : t <= u
  <2>. HIDE DEF T
  <2>. QED BY <1>1, LeastNumber
<1>3. PICK m \in S : t = Cardinality(Under(m))
  BY <1>2
<1>4. ASSUME NEW z \in S, z < m PROVE FALSE
  <2>1. Under(z) \in SUBSET Under(m) /\ Under(z) # Under(m)
    <3>1. \A y \in S : y < z => y < m
      BY <1>4
    <3>2. z \in Under(m) /\ z \notin Under(z)
      BY <1>4
    <3>. QED BY <3>1, <3>2
  <2>2. IsFiniteSet(Under(m)) /\ Cardinality(Under(m)) \in Nat /\ Cardinality(Under(z)) \in Nat
    BY <1>0
  <2>3. Cardinality(Under(m)) <= Cardinality(Under(z))
    BY <1>2, <1>3
  <2>. HIDE DEF Under
  <2>4. Cardinality(Under(z)) <= Cardinality(Under(m)) /\ Cardinality(Under(z)) # Cardinality(Under(m))
    BY <2>1, <2>2, FS_Subset
  <2>. QED BY <2>2, <2>3, <2>4
<1>. QED BY <1>4

(* The point at turn t of the walk of GetLeastv2wip. *)
PointAt(r, k, t) == At(r, (Start(r, k) + t) % Length(r))

(* It visits every point once, in the same order as GetLeast. *)
LEMMA Rotation ==
    ASSUME PlacementOK, NEW r \in Ring, Consistent(r), r.members # {}, NEW k \in Key
    PROVE  /\ Length(r) \in Nat \ {0}
           /\ \A t \in 0 .. Length(r) : PointAt(r, k, t) \in InRing(r)
           /\ \A p \in InRing(r) : \E t \in 0 .. Length(r) - 1 : PointAt(r, k, t) = p
           /\ \A t, u \in 0 .. Length(r) - 1 :
                 t < u => Turn(r, k, PointAt(r, k, t)) < Turn(r, k, PointAt(r, k, u))
<1>. DEFINE n == Cardinality(Occupied(r))
            s == Start(r, k)
            ix(t) == IF s + t < n THEN s + t ELSE s + t - n
<1>1. Length(r) = n
  <2>1. \A q \in Point : r.sortedSet[q] \in {0, 1}
    BY Slice
  <2>2. Length(r) = Sum(r.sortedSet, Point)
    BY DEF Length, Sum
  <2>3. {q \in Point : r.sortedSet[q] = 1} = Occupied(r)
    BY Slice
  <2>4. Sum(r.sortedSet, Point) = Cardinality({q \in Point : r.sortedSet[q] = 1})
    BY <2>1, SumCounts, PointAssumption, Zenon
  <2>. QED BY <2>2, <2>3, <2>4, Zenon DEF n
<1>2. s \in 0 .. n - 1 /\ n \in Nat /\ n > 0
  BY TurnType, Indices
<1>3. /\ \A p \in InRing(r) : FirstIndex(r, p) \in 0 .. n - 1 /\ At(r, FirstIndex(r, p)) = p
      /\ \A i \in 0 .. n - 1 : At(r, i) \in InRing(r) /\ FirstIndex(r, At(r, i)) = i
  BY Indices
<1>. HIDE DEF n, s
<1>4. \A t \in 0 .. n : (s + t) % n = (IF t = n THEN s ELSE ix(t))
  <2>1. \A m \in Nat : m < n => m % n = m
    BY <1>2
  <2>2. \A m \in Nat : m < n => (m + n) % n = m
    BY <1>2
  <2>. TAKE t \in 0 .. n
  <2>3. CASE s + t < n
    BY <1>2, <2>1, <2>3
  <2>4. CASE s + t >= n
    <3>1. s + t - n \in Nat /\ s + t - n < n /\ (s + t - n) + n = s + t
      BY <1>2, <2>4
    <3>2. (s + t) % n = s + t - n
      BY <2>2, <3>1
    <3>. QED BY <1>2, <2>4, <3>2
  <2>. QED BY <1>2, <2>3, <2>4
<1>5. \A t \in 0 .. n - 1 : ix(t) \in 0 .. n - 1 /\ PointAt(r, k, t) = At(r, ix(t))
  <2>1. \A t \in 0 .. n - 1 : ix(t) \in 0 .. n - 1
    BY <1>2
  <2>2. \A t \in 0 .. n - 1 : (s + t) % n = ix(t)
    BY <1>2, <1>4
  <2>. HIDE DEF ix
  <2>. QED BY <1>1, <2>1, <2>2 DEF PointAt, s
<1>6. PointAt(r, k, n) = At(r, s)
  <2>1. (s + n) % n = s
    BY <1>2, <1>4
  <2>. QED BY <1>1, <2>1 DEF PointAt, s
<1>7. \A t \in 0 .. n : PointAt(r, k, t) \in InRing(r)
  <2>1. \A t \in 0 .. n : t = n \/ t \in 0 .. n - 1
    BY <1>2
  <2>. HIDE DEF ix
  <2>. QED BY <1>2, <1>3, <1>5, <1>6, <2>1
<1>8. ASSUME NEW p \in InRing(r) PROVE \E t \in 0 .. n - 1 : PointAt(r, k, t) = p
  <2>. DEFINE i == FirstIndex(r, p)
              t == IF i >= s THEN i - s ELSE i - s + n
  <2>1. i \in 0 .. n - 1 /\ At(r, i) = p
    BY <1>3
  <2>. HIDE DEF i
  <2>2. t \in 0 .. n - 1 /\ ix(t) = i
    BY <1>2, <2>1
  <2>. HIDE DEF t, ix
  <2>. QED BY <1>5, <2>1, <2>2
<1>9. ASSUME NEW t \in 0 .. n - 1, NEW u \in 0 .. n - 1, t < u
      PROVE  Turn(r, k, PointAt(r, k, t)) < Turn(r, k, PointAt(r, k, u))
  <2>1. FirstIndex(r, PointAt(r, k, t)) = ix(t) /\ FirstIndex(r, PointAt(r, k, u)) = ix(u)
    <3>. HIDE DEF ix
    <3>. QED BY <1>3, <1>5
  <2>2. /\ Turn(r, k, PointAt(r, k, t)) = (IF ix(t) >= s THEN ix(t) - s ELSE n + ix(t))
        /\ Turn(r, k, PointAt(r, k, u)) = (IF ix(u) >= s THEN ix(u) - s ELSE n + ix(u))
    <3>. HIDE DEF ix
    <3>. QED BY <2>1 DEF Turn, s, n
  <2>. QED BY <1>2, <1>9, <2>2
<1>. QED BY <1>1, <1>2, <1>7, <1>8, <1>9

(* Both walks find the same host, and without a host that takes the load   *)
(* GetLeastv2wip ends with the least loaded of all members.                *)
LEMMA WalksAgree ==
    ASSUME PlacementOK, NEW r \in Ring, Consistent(r), IsFiniteSet(r.members), NEW k \in Key
    PROVE  /\ Fit(r) = {} /\ r.members # {} => GetLeastv2wip(r, k) \in r.members
           /\ Fit(r) # {} \/ r.members = {} =>
                 GetLeastv2wip(r, k) = GetLeast(r, k) /\ GetLeast(r, k) # Spin
<1>1. CASE r.members = {}
  BY <1>1, PointsOfMembers, GetLeastWalks, OutcomeAssumption, Zenon DEF GetLeastv2wip
<1>2. CASE r.members # {}
  <2>. DEFINE len     == Length(r)
              start   == FirstIndex(r, Search(InRing(r), KHash[k]))
              host(t) == r.hosts[At(r, (start + t) % len)]
              seen(t) == {host(u) : u \in 0 .. t - 1}
              done(t) == Cardinality(seen(t)) = Cardinality(r.members)
              stops   == {t \in 0 .. len :
                            done(t) \/ host(t) = NoHost \/ LoadOK(r, host(t))}
              t0      == Least(stops)
              least   == {t \in 0 .. t0 - 1 : \A u \in 0 .. t0 - 1 :
                                    r.load[host(t)] <= r.load[host(u)]}
  <2>0. GetLeastv2wip(r, k) =
             IF stops = {} THEN Spin
             ELSE IF done(t0) THEN (IF t0 = 0 THEN NoHost ELSE host(Least(least)))
             ELSE IF host(t0) = NoHost THEN ErrNoHosts ELSE host(t0)
    BY <1>2, PointsOfMembers, Zenon DEF GetLeastv2wip
  <2>1. \A t : host(t) = r.hosts[PointAt(r, k, t)]
    BY DEF PointAt, Start
  <2>. HIDE DEF host
  <2>2. len \in Nat \ {0}
    BY <1>2, Rotation
  <2>3. \A t \in 0 .. len : host(t) \in r.members /\ host(t) # NoHost
    <3>1. NoHost \notin r.members
      BY NoHostAssumption DEF Ring
    <3>. QED BY <1>2, <2>1, <3>1, Rotation, PointsOfMembers
  <2>4. \A h \in r.members : \E u \in 0 .. len - 1 : host(u) = h
    <3>. TAKE h \in r.members
    <3>1. VHash[h][0] \in VNodes(h, Replicas)
      BY ReplicaAssumption DEF PlacementOK, VNodes
    <3>2. VHash[h][0] \in InRing(r) /\ r.hosts[VHash[h][0]] = h
      BY <3>1, PointsOfMembers DEF Consistent
    <3>. QED BY <1>2, <2>1, <3>2, Rotation
  <2>. HIDE DEF len
  <2>5. \A t \in 0 .. len : seen(t) \in SUBSET r.members
    BY <2>2, <2>3
  <2>6. \A t \in 0 .. len : done(t) <=> seen(t) = r.members
    <3>. HIDE DEF seen
    <3>. QED BY <2>5, FS_Subset
  <2>7. done(len) /\ len \in 0 .. len
    <3>1. len \in 0 .. len
      BY <2>2
    <3>2. seen(len) = r.members
      BY <2>4, <2>5, <3>1
    <3>. HIDE DEF seen
    <3>. QED BY <2>6, <3>1, <3>2
  <2>8. stops \in SUBSET Nat /\ stops # {}
    <3>. HIDE DEF done
    <3>. QED BY <2>2, <2>7
  <2>9. t0 \in stops /\ \A t \in stops : t0 <= t
    <3>. HIDE DEF stops
    <3>. QED BY <2>8, LeastIsMinimum
  <2>10. t0 \in 0 .. len /\ (done(t0) \/ LoadOK(r, host(t0)))
    <3>. HIDE DEF done, t0
    <3>. QED BY <2>3, <2>9
  <2>. HIDE DEF t0
  <2>11. CASE Fit(r) = {}
    <3>1. \A t \in 0 .. len : ~LoadOK(r, host(t))
      BY <1>2, <2>1, <2>11, Rotation DEF Fit, len
    <3>2. done(t0)
      <4>. HIDE DEF done
      <4>. QED BY <2>10, <3>1
    <3>3. t0 # 0
      <4>1. seen(0) = {}
        OBVIOUS
      <4>. HIDE DEF seen
      <4>. QED BY <1>2, <2>6, <2>10, <3>2, <4>1
    <3>4. least # {}
      <4>. DEFINE L == {r.load[host(t)] : t \in 0 .. t0 - 1}
                  f == [t \in 0 .. t0 - 1 |-> r.load[host(t)]]
      <4>1. t0 \in Nat /\ t0 <= len /\ t0 > 0
        BY <2>2, <2>10, <3>3
      <4>2. L \in SUBSET Int /\ L # {}
        <5>1. \A t \in 0 .. t0 - 1 : host(t) \in r.members
          BY <2>2, <2>3, <4>1
        <5>2. \A h \in r.members : r.load[h] \in Int
          BY DEF Ring
        <5>3. 0 \in 0 .. t0 - 1
          BY <4>1
        <5>. QED BY <5>1, <5>2, <5>3
      <4>3. IsFiniteSet(L)
        <5>1. IsFiniteSet(0 .. t0 - 1)
          BY <4>1, FS_Interval
        <5>2. f \in Surjection(0 .. t0 - 1, L)
          BY DEF Surjection
        <5>. HIDE DEF f, L
        <5>. QED BY <5>1, <5>2, FS_Surjection
      <4>4. PICK m \in L : \A z \in L : m <= z
        <5>. HIDE DEF L
        <5>. QED BY <4>2, <4>3, LeastInteger
      <4>. QED BY <4>4
    <3>5. Least(least) \in 0 .. t0 - 1
      <4>1. least \in SUBSET Nat
        BY <2>2, <2>10
      <4>2. Least(least) \in least
        <5>. HIDE DEF least
        <5>. QED BY <3>4, <4>1, LeastIsMinimum
      <4>. HIDE DEF Least
      <4>. QED BY <4>2
    <3>6. host(Least(least)) \in r.members
      <4>1. \A x \in 0 .. t0 - 1 : x \in 0 .. len
        BY <2>2, <2>10
      <4>. HIDE DEF least
      <4>. QED BY <2>3, <3>5, <4>1
    <3>. HIDE DEF done, stops, least
    <3>. QED BY <1>2, <2>0, <2>8, <2>11, <3>2, <3>3, <3>6 DEF t0
  <2>12. CASE Fit(r) # {}
    <3>1. PICK p \in Fit(r) : /\ GetLeast(r, k) = r.hosts[p]
                              /\ \A q \in Fit(r) : Turn(r, k, p) <= Turn(r, k, q)
      BY <1>2, <2>12, GetLeastWalks
    <3>2. p \in InRing(r) /\ LoadOK(r, r.hosts[p]) /\ r.hosts[p] \in r.members
      BY PointsOfMembers DEF Fit
    <3>3. PICK t1 \in 0 .. len - 1 : PointAt(r, k, t1) = p
      BY <1>2, <3>2, Rotation DEF len
    <3>4. ASSUME NEW t \in 0 .. len, t < t1 PROVE ~LoadOK(r, host(t))
      <4>1. t \in 0 .. len - 1
        BY <2>2, <3>3, <3>4
      <4>2. /\ Turn(r, k, PointAt(r, k, t)) < Turn(r, k, p)
            /\ PointAt(r, k, t) \in InRing(r)
        BY <1>2, <3>3, <3>4, <4>1, Rotation DEF len
      <4>3. Turn(r, k, PointAt(r, k, t)) \in Nat /\ Turn(r, k, p) \in Nat
        BY <1>2, <3>2, <4>2, TurnType
      <4>4. PointAt(r, k, t) \notin Fit(r)
        BY <3>1, <4>2, <4>3
      <4>. QED BY <2>1, <4>2, <4>4 DEF Fit
    <3>5. ASSUME NEW t \in 0 .. len, t <= t1 PROVE ~done(t)
      <4>1. \A u \in 0 .. t - 1 : u \in 0 .. len /\ u < t1
        BY <2>2, <3>3, <3>5
      <4>2. r.hosts[p] \notin seen(t)
        BY <3>2, <3>4, <4>1
      <4>. HIDE DEF seen
      <4>. QED BY <2>6, <3>2, <4>2
    <3>6. t1 \in stops /\ host(t1) = r.hosts[p]
      <4>1. t1 \in 0 .. len /\ host(t1) = r.hosts[p]
        BY <2>1, <2>2, <3>3
      <4>. HIDE DEF done
      <4>. QED BY <3>2, <4>1
    <3>7. t0 = t1 /\ ~done(t0)
      <4>1. t0 <= t1
        BY <2>9, <3>6
      <4>2. ~done(t0)
        BY <2>10, <3>5, <4>1
      <4>3. ~(t0 < t1)
        <5>. HIDE DEF done
        <5>. QED BY <2>10, <3>4, <4>2
      <4>. QED BY <2>2, <2>10, <3>3, <4>1, <4>2, <4>3
    <3>8. GetLeastv2wip(r, k) = r.hosts[p]
      <4>1. r.hosts[p] # NoHost
        BY <3>2, NoHostAssumption DEF Ring
      <4>. HIDE DEF done, stops, least
      <4>. QED BY <2>0, <2>8, <3>6, <3>7, <4>1 DEF t0
    <3>9. r.hosts[p] # Spin
      BY <3>2, OutcomeAssumption DEF Ring
    <3>. HIDE DEF len, start, seen, done, stops, t0, least
    <3>. QED BY <2>12, <3>1, <3>8, <3>9
  <2>. HIDE DEF len, start, seen, done, stops, t0, least
  <2>. QED BY <2>11, <2>12
<1>. QED BY <1>1, <1>2

(***************************************************************************)
(* GetLeastv2wip agrees with GetLeast for every ring without collisions,   *)
(* and gives a member also where GetLeast would walk for ever.             *)
(***************************************************************************)
THEOREM V2Agrees ==
    ASSUME PlacementOK PROVE Spec => []GetLeastv2Agrees
<1>1. TypeOK /\ CallersOK /\ RingMatchesMembers => GetLeastv2Agrees
  <2>. SUFFICES ASSUME TypeOK, CallersOK, RingMatchesMembers, NEW k \in Key
       PROVE  GetLeastv2wip(ring, k) \in IF GetLeast(ring, k) = Spin THEN ring.members
                                                              ELSE {GetLeast(ring, k)}
    BY DEF GetLeastv2Agrees
  <2>0. ring \in Ring /\ Consistent(ring) /\ IsFiniteSet(ring.members)
    BY DEF TypeOK, CallersOK, RingMatchesMembers
  <2>1. CASE Fit(ring) = {} /\ ring.members # {}
    BY <2>0, <2>1, WalksAgree, GetLeastWalks
  <2>2. CASE Fit(ring) # {} \/ ring.members = {}
    BY <2>0, <2>2, WalksAgree
  <2>. QED BY <2>1, <2>2
<1>. QED BY <1>1, LoadsInductive, RingCorrect, PTL
===============================================================================
