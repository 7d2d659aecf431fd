------------------------------- MODULE HashRing -------------------------------
(***************************************************************************)
(* The data structure of consistenthash/consistenthash.go as operators on  *)
(* a ring record: type Consistent and its methods, without the lock.       *)
(* ConsistentHash puts the lock and its callers around them; NodePool and  *)
(* Cluster use them for the ring a node pool keeps.                        *)
(*                                                                         *)
(* The sorted slice sortedSet is kept as a bag, [Point -> Nat]: the slice  *)
(* is re-sorted by every Add and stays sorted under every Remove, so the   *)
(* number of copies of each point determines it.                           *)
(***************************************************************************)
EXTENDS Loads, FiniteSetsExt

CONSTANTS
    Host,               \* host names
    Key,                \* keys looked up in the ring
    Point,              \* the uint64 points of the ring that the names hash to
    Replicas,           \* the field replicas (WithReplicas)
    ReplicationFactor,  \* the constant replicationFactor
    VHash,              \* VHash[h][i] = hash(fmt.Sprintf("%s%d", h, i))
    KHash,              \* KHash[k] = hash(k)
    NoHost              \* Go's "": what a missing key of the map hosts reads as

ReplicaIndex == 0 .. (IF Replicas > ReplicationFactor
                      THEN Replicas ELSE ReplicationFactor) - 1

ASSUME PointAssumption == Point \subseteq Nat /\ IsFiniteSet(Point)

ASSUME ReplicaAssumption == /\ Replicas \in Nat
                            /\ ReplicationFactor \in Nat

ASSUME HashAssumption == /\ VHash \in [Host -> [ReplicaIndex -> Point]]
                         /\ KHash \in [Key -> Point]

ASSUME NoHostAssumption == NoHost \notin Host

(***************************************************************************)
(* Outcomes of a lookup other than a host: the error ErrNoHosts, a loop    *)
(* that never ends, and the panic of the division by len(loadMap) = 0.     *)
(***************************************************************************)
CONSTANTS ErrNoHosts, Spin, Panic

ASSUME OutcomeAssumption ==
    /\ {ErrNoHosts, Spin, Panic} \cap (Host \cup {NoHost}) = {}
    /\ ErrNoHosts # Spin /\ ErrNoHosts # Panic /\ Spin # Panic

Ring == [hosts     : [Point -> Host \cup {NoHost}],
         sortedSet : [Point -> Nat],
         members   : SUBSET Host,        \* the keys of loadMap
         load      : [Host -> Int],      \* loadMap[h].Load, 0 for a non-member
         totalLoad : Int]

NewRing == [hosts     |-> [p \in Point |-> NoHost],
            sortedSet |-> [p \in Point |-> 0],
            members   |-> {},
            load      |-> [h \in Host |-> 0],
            totalLoad |-> 0]

(***************************************************************************)
(* Points of the first n virtual nodes of h, and how many of them fall on  *)
(* the point p.                                                            *)
(***************************************************************************)
VNodes(h, n) == {VHash[h][i] : i \in 0 .. n - 1}
Copies(h, n, p) == Cardinality({i \in 0 .. n - 1 : VHash[h][i] = p})

(* Mutant of AddHost: without the early return for a host already present. *)
AddHostAgain(r, h) ==
    [hosts     |-> [p \in Point |-> IF p \in VNodes(h, Replicas)
                                   THEN h ELSE r.hosts[p]],
     sortedSet |-> [p \in Point |-> r.sortedSet[p] + Copies(h, Replicas, p)],
     members   |-> r.members \cup {h},
     load      |-> [r.load EXCEPT ![h] = 0],
     totalLoad |-> r.totalLoad]

(***************************************************************************)
(* Add: nothing for a host already in loadMap; otherwise every virtual     *)
(* node overwrites its point in hosts and is appended to sortedSet.        *)
(***************************************************************************)
AddHost(r, h) ==
    IF h \in r.members THEN r
    ELSE [hosts     |-> [p \in Point |-> IF p \in VNodes(h, Replicas)
                                        THEN h ELSE r.hosts[p]],
          sortedSet |-> [p \in Point |->
                           r.sortedSet[p] + Copies(h, Replicas, p)],
          members   |-> r.members \cup {h},
          load      |-> [r.load EXCEPT ![h] = 0],
          totalLoad |-> r.totalLoad]

(* Mutants of RemoveHost: delSlice without its "not found" test, a loop one *)
(* short of replicas, and a loop without delSlice.                          *)
RemoveHostNotFound(r, h) ==
    [r EXCEPT !.members = @ \ {h},
              !.hosts = [p \in Point |-> IF p \in VNodes(h, ReplicationFactor)
                                        THEN NoHost ELSE @[p]],
              !.sortedSet = [p \in Point |->
                               @[p] - Copies(h, ReplicationFactor, p)]]
RemoveHostShort(r, h) ==
    [r EXCEPT !.members = @ \ {h},
              !.hosts = [p \in Point |-> IF p \in VNodes(h, Replicas - 1)
                                        THEN NoHost ELSE @[p]],
              !.sortedSet = [p \in Point |-> IF p \in VNodes(h, Replicas - 1)
                                            THEN 0 ELSE @[p]]]
RemoveHostKeepSlice(r, h) ==
    [r EXCEPT !.members = @ \ {h},
              !.hosts = [p \in Point |-> IF p \in VNodes(h, ReplicationFactor)
                                        THEN NoHost ELSE @[p]]]

(***************************************************************************)
(* Remove: deletes the points of the first replicationFactor (not          *)
(* replicas) virtual nodes, one copy of each from sortedSet (delSlice),    *)
(* and the entry of loadMap. The load of the host stays in totalLoad.      *)
(***************************************************************************)
RemoveHost(r, h) ==
    [hosts     |-> [p \in Point |-> IF p \in VNodes(h, ReplicationFactor)
                                   THEN NoHost ELSE r.hosts[p]],
     sortedSet |-> [p \in Point |->
                      IF r.sortedSet[p] > Copies(h, ReplicationFactor, p)
                      THEN r.sortedSet[p] - Copies(h, ReplicationFactor, p)
                      ELSE 0],
     members   |-> r.members \ {h},
     load      |-> [r.load EXCEPT ![h] = 0],
     totalLoad |-> r.totalLoad]

(***************************************************************************)
(* The three parts of the ring agree: each virtual node of a member is on  *)
(* the ring once and leads to it, and there is nothing else on the ring.   *)
(***************************************************************************)
Consistent(r) ==
    /\ \A h \in r.members : \A p \in VNodes(h, Replicas) :
          r.hosts[p] = h /\ r.sortedSet[p] = 1
    /\ \A p \in Point : (\A h \in r.members : p \notin VNodes(h, Replicas))
                          => r.hosts[p] = NoHost /\ r.sortedSet[p] = 0

(***************************************************************************)
(* What the placement of virtual nodes must satisfy for the ring to stay   *)
(* Consistent: every host has one, Remove reaches them all, and no two are *)
(* on one point (xxhash does not collide on the names in use).             *)
(***************************************************************************)
PlacementOK ==
    /\ Replicas >= 1 /\ Replicas <= ReplicationFactor
    /\ \A h, g \in Host, i, j \in ReplicaIndex :
          VHash[h][i] = VHash[g][j] => h = g /\ i = j

-------------------------------------------------------------------------------
(* Lookup *)

InRing(r) == {p \in Point : r.sortedSet[p] > 0}
Occupied(r) == {p \in Point : r.hosts[p] # NoHost}
IsEmpty(r) == Occupied(r) = {}

Least(S) == CHOOSE p \in S : \A q \in S : p <= q

(***************************************************************************)
(* search: the first point at or after x, or the first point of all.       *)
(***************************************************************************)
Search(S, x) == IF \E p \in S : p >= x THEN Least({p \in S : p >= x})
                                       ELSE Least(S)

(* Get: the host of the point that search finds. *)
Get(r, k) == IF IsEmpty(r) THEN ErrNoHosts
                           ELSE r.hosts[Search(InRing(r), KHash[k])]

(* Indices of the sorted slice: the first one of point p, and the point at i. *)
FirstIndex(r, p) ==
    MapThenSumSet(LAMBDA q : r.sortedSet[q], {q \in Point : q < p})
Length(r) == MapThenSumSet(LAMBDA q : r.sortedSet[q], Point)
At(r, i) == CHOOSE p \in InRing(r) : /\ FirstIndex(r, p) <= i
                                     /\ i < FirstIndex(r, p) + r.sortedSet[p]

(* Mutant of GetLeast: the walk ends at the end of the slice, with the first *)
(* host that takes the load in the order of the slice.                       *)
GetLeastNoWrap(r, k) ==
    LET fit == {p \in InRing(r) : LoadOK(r, r.hosts[p])}
    IN  IF IsEmpty(r) THEN ErrNoHosts
        ELSE IF fit = {} THEN Spin ELSE r.hosts[Least(fit)]

(***************************************************************************)
(* GetLeast walks the slice from the index search finds; past              *)
(* len(hosts) - 1 it goes on at 0. It stops at an index whose point has no *)
(* host, or whose host takes the load; with neither it walks for ever.     *)
(***************************************************************************)
GetLeast(r, k) ==
    IF IsEmpty(r) THEN ErrNoHosts
    ELSE LET n       == Cardinality(Occupied(r))
             start   == FirstIndex(r, Search(InRing(r), KHash[k]))
             visited == (0 .. n - 1) \cup {start}
             turn(i) == IF i >= start THEN i - start ELSE n + i
             host(i) == r.hosts[At(r, i)]
             stops   == {i \in visited : host(i) = NoHost \/ LoadOK(r, host(i))}
             first   == CHOOSE i \in stops : \A j \in stops : turn(i) <= turn(j)
         IN  CASE host(start) = NoHost -> ErrNoHosts
               [] host(start) # NoHost /\ r.members = {} -> Panic
               [] host(start) # NoHost /\ r.members # {} ->
                    IF stops = {} THEN Spin
                    ELSE IF host(first) = NoHost THEN ErrNoHosts ELSE host(first)

(* GetLeast as an effect: loadOK runs when there is a host to start from. *)
GetLeastEffect(r, k) ==
    IF Get(r, k) \in {ErrNoHosts, NoHost} THEN r ELSE ClampTotal(r)

(* Mutant of GetLeastv2wip: the least loaded host without the walk. *)
GetLeastv2NoWalk(r, k) ==
    IF IsEmpty(r) THEN ErrNoHosts
    ELSE CHOOSE h \in r.members : \A g \in r.members : r.load[h] <= r.load[g]

(***************************************************************************)
(* GetLeastv2wip: the same walk over the whole slice, each host considered *)
(* once, ending when as many hosts have been considered as loadMap holds;  *)
(* then the least loaded of them, the earliest in case of a tie.           *)
(***************************************************************************)
GetLeastv2wip(r, k) ==
    IF IsEmpty(r) THEN ErrNoHosts
    ELSE LET len     == Length(r)
             start   == FirstIndex(r, Search(InRing(r), KHash[k]))
             host(t) == r.hosts[At(r, (start + t) % len)]   \* at turn t
             seen(t) == {host(u) : u \in 0 .. t - 1}
             done(t) == Cardinality(seen(t)) = Cardinality(r.members)
             stops   == {t \in 0 .. len :
                           done(t) \/ host(t) = NoHost \/ LoadOK(r, host(t))}
             t0      == Least(stops)
             least   == {t \in 0 .. t0 - 1 : \A u \in 0 .. t0 - 1 :
                                   r.load[host(t)] <= r.load[host(u)]}
         IN  IF stops = {} THEN Spin
             ELSE IF done(t0) THEN (IF t0 = 0 THEN NoHost ELSE host(Least(least)))
             ELSE IF host(t0) = NoHost THEN ErrNoHosts ELSE host(t0)
===============================================================================
