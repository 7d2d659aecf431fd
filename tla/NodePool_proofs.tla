---------------------------- MODULE NodePool_proofs ----------------------------
(***************************************************************************)
(* Proofs about NodePool for every set of nodes, keys and callers and      *)
(* every value of the bounds.                                              *)
(***************************************************************************)
EXTENDS NodePool, Induction

(* Types *)

LEMMA ChangeType ==
    ASSUME NEW r \in MemberRings, NEW gone \in SUBSET Host, NEW new \in SUBSET Host
    PROVE  Change(r, gone, new) \in MemberRings
  BY DEF Change, MemberRings

LEMMA RingFieldType ==
    ASSUME NEW r \in MemberRings
    PROVE  /\ \A f \in [Host -> Int] : [r EXCEPT !.load = f] \in MemberRings
           /\ \A t \in Int : [r EXCEPT !.totalLoad = t] \in MemberRings
  BY DEF MemberRings

LEMMA SetLoadType ==
    ASSUME NEW r \in MemberRings, NEW h, NEW l \in Int
    PROVE  SetLoad(r, h, l) \in MemberRings
<1>. SUFFICES ASSUME h \in r.members PROVE SetLoad(r, h, l) \in MemberRings
  BY DEF SetLoad
<1>. DEFINE f == [r.load EXCEPT ![h] = l]
            s == [r EXCEPT !.load = f]
<1>1. f \in [Host -> Int] /\ r.load[h] \in Int
  BY DEF MemberRings
<1>2. s \in MemberRings
  BY <1>1, RingFieldType
<1>3. s.totalLoad - r.load[h] + l \in Int
  BY <1>1, <1>2 DEF MemberRings
<1>4. [s EXCEPT !.totalLoad = s.totalLoad - r.load[h] + l] \in MemberRings
  BY <1>2, <1>3, RingFieldType
<1>. QED
  BY <1>4 DEF SetLoad

LEMMA LoadOpsType ==
    ASSUME NEW r \in MemberRings
    PROVE  /\ ClampTotal(r) \in MemberRings
           /\ ResetAllLoads(r) \in MemberRings
           /\ \A h : IncLoad(r, h) \in MemberRings /\ DoneLoad(r, h) \in MemberRings
<1>1. ClampTotal(r) \in MemberRings
  BY DEF ClampTotal, MemberRings
<1>2. ResetAllLoads(r) \in MemberRings
  <2>. DEFINE f == [h \in DOMAIN r.load |-> 0]
              s == [r EXCEPT !.load = f]
  <2>1. f \in [Host -> Int]
    BY DEF MemberRings
  <2>2. s \in MemberRings
    BY <2>1, RingFieldType
  <2>3. ASSUME NEW q \in MemberRings PROVE [q EXCEPT !.totalLoad = 0] \in MemberRings
    BY RingFieldType
  <2>. QED
    BY <2>2, <2>3 DEF ResetAllLoads
<1>3. ASSUME NEW h PROVE IncLoad(r, h) \in MemberRings /\ DoneLoad(r, h) \in MemberRings
  <2>1. CASE h \in r.members
    <3>1. r.load[h] + 1 \in Int /\ r.load[h] - 1 \in Int
      BY <2>1 DEF MemberRings
    <3>. QED
      BY <3>1, SetLoadType DEF IncLoad, DoneLoad
  <2>2. CASE h \notin r.members
    BY <2>2 DEF IncLoad, DoneLoad, SetLoad
  <2>. QED
    BY <2>1, <2>2
<1>. QED
  BY <1>1, <1>2, <1>3

(***************************************************************************)
(* TypeOK in three groups, so that an action is only held against the      *)
(* groups it changes.                                                      *)
(***************************************************************************)
LifeOK ==
    /\ registry \in SUBSET Host
    /\ drvStarted \in BOOLEAN
    /\ token \in 0 .. 1
    /\ start \in [pc : {"off", "fetch", "store", "update", "wait"}, nodes : NodeList]
    /\ stop \in {"off", "driver", "clear"}
    /\ loop \in [Loop -> [pc : {"off", "select", "update"}, nodes : NodeList]]
    /\ count \in [starts : 0 .. MaxStarts, stops : 0 .. MaxStops,
                  changes : 0 .. MaxChanges, errors : 0 .. MaxErrors]
ViewOK ==
    /\ ring \in MemberRings
    /\ preNodes \in NodeList
    /\ state \in {"unset", "Upgrade", "Steady"}
    /\ skewed \in BOOLEAN
CallOK ==
    /\ caller \in [Caller -> [pc : {"idle", "inc", "dec", "spin", "panic"},
                              host : Host \cup {NoHost}]]
    /\ claims \in [Key -> 0 .. MaxClaims]

LEMMA TypeGroups == TypeOK <=> LifeOK /\ ViewOK /\ CallOK
  BY DEF TypeOK, LifeOK, ViewOK, CallOK

LEMMA EmptyListType == EmptyList \in NodeList
  BY BoundAssumption DEF EmptyList, NodeList

LEMMA TypeInit == Init => TypeOK
<1>. SUFFICES ASSUME Init PROVE TypeOK
  OBVIOUS
<1>. USE DEF Init
<1>1. EmptyRing \in MemberRings
  BY DEF EmptyRing, MemberRings
<1>2. Off \in [pc : {"off", "fetch", "store", "update", "wait"}, nodes : NodeList]
      /\ Off \in [pc : {"off", "select", "update"}, nodes : NodeList]
  BY EmptyListType DEF Off, At
<1>3. count \in [starts : 0 .. MaxStarts, stops : 0 .. MaxStops,
                 changes : 0 .. MaxChanges, errors : 0 .. MaxErrors]
  BY BoundAssumption
<1>4. claims \in [Key -> 0 .. MaxClaims]
  BY BoundAssumption
<1>5. Idle \in [pc : {"idle", "inc", "dec", "spin", "panic"}, host : Host \cup {NoHost}]
  BY DEF Idle
<1>6. token \in 0 .. 1
  OBVIOUS
<1>7. caller \in [Caller -> [pc : {"idle", "inc", "dec", "spin", "panic"},
                             host : Host \cup {NoHost}]]
  BY <1>5
<1>8. loop \in [Loop -> [pc : {"off", "select", "update"}, nodes : NodeList]]
  BY <1>2
<1>. QED
  BY <1>1, <1>2, <1>3, <1>4, <1>6, <1>7, <1>8, EmptyListType, Zenon DEF TypeOK

(* updateHashRing keeps the types of what it changes. *)
LEMMA UpdateType ==
    ASSUME ViewOK, NEW l \in NodeList, UpdateHashRing(l)
    PROVE  ViewOK'
<1>1. CASE Added(l) = {} /\ Removed(l) = {}
  BY <1>1 DEF UpdateHashRing, ViewOK
<1>2. CASE ~(Added(l) = {} /\ Removed(l) = {})
  <2>1. Added(l) \in SUBSET Host /\ Removed(l) \in SUBSET Host
    BY DEF Added, Removed
  <2>2. ring' \in MemberRings
    BY <1>2, <2>1, ChangeType DEF UpdateHashRing, ViewOK
  <2>. QED
    BY <1>2, <2>2 DEF UpdateHashRing, ViewOK
<1>. QED
  BY <1>1, <1>2

LEMMA TypeNext == TypeOK /\ [Next]_vars => TypeOK'
<1>. SUFFICES ASSUME TypeOK, [Next]_vars PROVE TypeOK'
  OBVIOUS
<1>0. LifeOK /\ ViewOK /\ CallOK
  BY TypeGroups
<1>. SUFFICES LifeOK' /\ ViewOK' /\ CallOK'
  BY TypeGroups DEF TypeOK, LifeOK, ViewOK, CallOK
<1>1. ASSUME NEW h \in Host, NodeChange(h) PROVE LifeOK' /\ ViewOK' /\ CallOK'
  BY <1>0, <1>1, BoundAssumption DEF NodeChange, LifeOK, ViewOK, CallOK, loadVars
<1>2. CASE StartDriver
  <2>1. At("fetch", EmptyList) \in
           [pc : {"off", "fetch", "store", "update", "wait"}, nodes : NodeList]
    BY EmptyListType DEF At
  <2>2. count' \in [starts : 0 .. MaxStarts, stops : 0 .. MaxStops,
                    changes : 0 .. MaxChanges, errors : 0 .. MaxErrors]
    BY <1>0, <1>2, BoundAssumption DEF StartDriver, LifeOK
  <2>3. registry' \in SUBSET Host /\ drvStarted' \in BOOLEAN
    BY <1>0, <1>2, SelfAssumption, Zenon DEF StartDriver, LifeOK
  <2>4. LifeOK'
    BY <1>0, <1>2, <2>1, <2>2, <2>3 DEF StartDriver, LifeOK
  <2>. QED
    BY <1>0, <1>2, <2>4 DEF StartDriver, ViewOK, CallOK, loadVars
<1>3. CASE StartGetNodes
  <2>1. start' \in [pc : {"off", "fetch", "store", "update", "wait"}, nodes : NodeList]
    BY <1>3, EmptyListType DEF StartGetNodes, At, Off, Answers
  <2>2. count' \in [starts : 0 .. MaxStarts, stops : 0 .. MaxStops,
                    changes : 0 .. MaxChanges, errors : 0 .. MaxErrors]
    BY <1>0, <1>3, BoundAssumption DEF StartGetNodes, GetNodesError, LifeOK
  <2>3. LifeOK'
    BY <1>0, <1>3, <2>1, <2>2 DEF StartGetNodes, LifeOK
  <2>. QED
    BY <1>0, <1>3, <2>3 DEF StartGetNodes, ViewOK, CallOK, loadVars
<1>4. CASE StartStore
  BY <1>0, <1>4 DEF StartStore, LifeOK, ViewOK, CallOK, loadVars
<1>5. CASE StartUpdate
  <2>1. ViewOK'
    BY <1>0, <1>5, UpdateType DEF StartUpdate, LifeOK
  <2>2. At("wait", EmptyList) \in
           [pc : {"off", "fetch", "store", "update", "wait"}, nodes : NodeList]
        /\ At("select", EmptyList) \in [pc : {"off", "select", "update"}, nodes : NodeList]
    BY EmptyListType DEF At
  <2>3. LifeOK'
    BY <1>0, <1>5, <2>2 DEF StartUpdate, LifeOK
  <2>. QED
    BY <1>0, <1>5, <2>1, <2>3 DEF StartUpdate, CallOK
<1>6. CASE StartReturn
  <2>1. Off \in [pc : {"off", "fetch", "store", "update", "wait"}, nodes : NodeList]
    BY EmptyListType DEF Off, At
  <2>. QED
    BY <1>0, <1>6, <2>1 DEF StartReturn, LifeOK, ViewOK, CallOK, loadVars
<1>7. ASSUME NEW i \in Loop, LoopGetNodes(i) PROVE LifeOK' /\ ViewOK' /\ CallOK'
  <2>1. \A l \in Answers : At("update", l) \in [pc : {"off", "select", "update"},
                                                nodes : NodeList]
    BY DEF At, Answers
  <2>2. loop' \in [Loop -> [pc : {"off", "select", "update"}, nodes : NodeList]]
    BY <1>0, <1>7, <2>1 DEF LoopGetNodes, LifeOK
  <2>3. count' \in [starts : 0 .. MaxStarts, stops : 0 .. MaxStops,
                    changes : 0 .. MaxChanges, errors : 0 .. MaxErrors]
    BY <1>0, <1>7, BoundAssumption DEF LoopGetNodes, GetNodesError, LifeOK
  <2>4. LifeOK'
    BY <1>0, <1>7, <2>2, <2>3 DEF LoopGetNodes, LifeOK
  <2>. QED
    BY <1>0, <1>7, <2>4 DEF LoopGetNodes, ViewOK, CallOK, loadVars
<1>8. ASSUME NEW i \in Loop, LoopUpdate(i) PROVE LifeOK' /\ ViewOK' /\ CallOK'
  <2>1. ViewOK'
    BY <1>0, <1>8, UpdateType DEF LoopUpdate, LifeOK
  <2>2. At("select", EmptyList) \in [pc : {"off", "select", "update"}, nodes : NodeList]
    BY EmptyListType DEF At
  <2>3. LifeOK'
    BY <1>0, <1>8, <2>2 DEF LoopUpdate, LifeOK
  <2>. QED
    BY <1>0, <1>8, <2>1, <2>3 DEF LoopUpdate, CallOK
<1>9. ASSUME NEW i \in Loop, LoopStop(i) PROVE LifeOK' /\ ViewOK' /\ CallOK'
  <2>1. Off \in [pc : {"off", "select", "update"}, nodes : NodeList]
    BY EmptyListType DEF Off, At
  <2>. QED
    BY <1>0, <1>9, <2>1 DEF LoopStop, LifeOK, ViewOK, CallOK, loadVars
<1>10. CASE StopSend
  BY <1>0, <1>10, BoundAssumption DEF StopSend, LifeOK, ViewOK, CallOK, loadVars
<1>11. CASE StopDriver
  <2>1. LifeOK'
    BY <1>0, <1>11 DEF StopDriver, LifeOK
  <2>. QED
    BY <1>0, <1>11, <2>1 DEF StopDriver, ViewOK, CallOK, loadVars
<1>12. CASE StopClear
  BY <1>0, <1>12, EmptyListType DEF StopClear, LifeOK, ViewOK, CallOK, loadVars
<1>13. ASSUME NEW c \in Caller, NEW k \in Key, NEW next \in {"inc", "dec"},
              Lookup(c, k, next), claims' \in [Key -> 0 .. MaxClaims]
       PROVE  LifeOK' /\ ViewOK' /\ CallOK'
  <2>1. ring' \in MemberRings
    BY <1>0, <1>13, LoadOpsType DEF Lookup, AfterGetHost, ViewOK
  <2>2. caller' \in [Caller -> [pc : {"idle", "inc", "dec", "spin", "panic"},
                                host : Host \cup {NoHost}]]
    BY <1>0, <1>13 DEF Lookup, CallOK
  <2>. QED
    BY <1>0, <1>13, <2>1, <2>2 DEF Lookup, LifeOK, ViewOK, CallOK, lifeVars
<1>14. ASSUME NEW c \in Caller, NEW k \in Key, IsEligible(c, k)
       PROVE  LifeOK' /\ ViewOK' /\ CallOK'
  <2>1. claims' \in [Key -> 0 .. MaxClaims]
    BY <1>0, <1>14, BoundAssumption DEF IsEligible, CallOK
  <2>. QED
    BY <1>13, <1>14, <2>1 DEF IsEligible
<1>15. ASSUME NEW c \in Caller, NEW k \in Key, DecreaseLoadByKey(c, k)
       PROVE  LifeOK' /\ ViewOK' /\ CallOK'
  <2>1. claims' \in [Key -> 0 .. MaxClaims]
    BY <1>0, <1>15, BoundAssumption DEF DecreaseLoadByKey, CallOK
  <2>. QED
    BY <1>13, <1>15, <2>1 DEF DecreaseLoadByKey
<1>16. ASSUME NEW c \in Caller, ChangeLoad(c) PROVE LifeOK' /\ ViewOK' /\ CallOK'
  <2>1. ring' \in MemberRings
    BY <1>0, <1>16, LoadOpsType DEF ChangeLoad, ViewOK
  <2>2. caller' \in [Caller -> [pc : {"idle", "inc", "dec", "spin", "panic"},
                                host : Host \cup {NoHost}]]
    BY <1>0, <1>16 DEF ChangeLoad, CallOK, Idle
  <2>. QED
    BY <1>0, <1>16, <2>1, <2>2 DEF ChangeLoad, LifeOK, ViewOK, CallOK, lifeVars
<1>17. CASE ResetLoads
  <2>1. ring' \in MemberRings
    BY <1>0, <1>17, LoadOpsType DEF ResetLoads, ViewOK
  <2>. QED
    BY <1>0, <1>17, <2>1 DEF ResetLoads, LifeOK, ViewOK, CallOK, lifeVars, loadVars
<1>18. CASE UNCHANGED vars
  BY <1>0, <1>18 DEF vars, LifeOK, ViewOK, CallOK
<1>. QED
  BY <1>1, <1>2, <1>3, <1>4, <1>5, <1>6, <1>7, <1>8, <1>9, <1>10, <1>11, <1>12,
     <1>14, <1>15, <1>16, <1>17, <1>18
  DEF Next, StartNext, LoopNext, StopNext, CallerNext

(* The pool's state is well formed under every interleaving of its goroutines. *)
THEOREM TypeCorrect == Spec => []TypeOK
  BY TypeInit, TypeNext, PTL DEF Spec

-------------------------------------------------------------------------------
(* The pool implements StableView *)

(***************************************************************************)
(* The strengthening: every node on the list kept in preNodes is on the    *)
(* ring, so that a node updateHashRing does not add is there already. That *)
(* the two are equal does not hold: Stop empties preNodes.                 *)
(***************************************************************************)
LastListInRing == Listed(preNodes) \subseteq ring.members

(* Steps that leave the view alone. *)
LEMMA LoadOpsKeepMembers ==
    ASSUME NEW r \in MemberRings
    PROVE  /\ ClampTotal(r).members = r.members
           /\ ResetAllLoads(r).members = r.members
           /\ \A h : IncLoad(r, h).members = r.members /\ DoneLoad(r, h).members = r.members
  BY DEF ClampTotal, ResetAllLoads, IncLoad, DoneLoad, SetLoad, MemberRings

LEMMA ViewSteps ==
    ASSUME TypeOK, [Next]_vars
    PROVE  \/ \E l \in NodeList : UpdateHashRing(l)
           \/ preNodes' = EmptyList /\ UNCHANGED <<ring, state>>
           \/ /\ ring'.members = ring.members
              /\ UNCHANGED preNodes
              /\ state' = state \/ state' = "Upgrade"
<1>. ring \in MemberRings
  BY DEF TypeOK
<1>1. CASE \E h \in Host : NodeChange(h)
  BY <1>1 DEF NodeChange
<1>2. CASE StartDriver \/ StartGetNodes \/ StartStore \/ StartReturn
  BY <1>2 DEF StartDriver, StartGetNodes, StartStore, StartReturn
<1>3. CASE StartUpdate
  BY <1>3 DEF StartUpdate, TypeOK
<1>4. CASE \E i \in Loop : LoopGetNodes(i) \/ LoopStop(i)
  BY <1>4 DEF LoopGetNodes, LoopStop
<1>5. CASE \E i \in Loop : LoopUpdate(i)
  BY <1>5 DEF LoopUpdate, TypeOK
<1>6. CASE StopNext
  BY <1>6 DEF StopNext, StopSend, StopDriver, StopClear
<1>7. CASE \E c \in Caller, k \in Key : IsEligible(c, k) \/ DecreaseLoadByKey(c, k)
  BY <1>7, LoadOpsKeepMembers
  DEF IsEligible, DecreaseLoadByKey, Lookup, AfterGetHost, lifeVars
<1>8. CASE \E c \in Caller : ChangeLoad(c)
  BY <1>8, LoadOpsKeepMembers DEF ChangeLoad, lifeVars
<1>9. CASE ResetLoads
  BY <1>9, LoadOpsKeepMembers DEF ResetLoads, lifeVars
<1>10. CASE UNCHANGED vars
  BY <1>10 DEF vars
<1>. QED
  BY <1>1, <1>2, <1>3, <1>4, <1>5, <1>6, <1>7, <1>8, <1>9, <1>10
  DEF Next, StartNext, LoopNext, CallerNext

(***************************************************************************)
(* updateHashRing with lists that name a node once: it finds no difference *)
(* just when the list is the last one, and the nodes of the last list give *)
(* way to those of the new one.                                            *)
(***************************************************************************)
LEMMA UpdateObserves ==
    ASSUME TypeOK, LastListInRing, MaxDup = 1, NEW l \in NodeList, UpdateHashRing(l)
    PROVE  /\ preNodes' = l
           /\ ring'.members = (ring.members \ Listed(preNodes)) \cup Listed(l)
           /\ state' = "Steady" <=> Listed(l) = Listed(preNodes)
<1>1. \A h \in Host : l[h] \in {0, 1} /\ preNodes[h] \in {0, 1}
  BY DEF TypeOK, NodeList
<1>2. CASE Added(l) = {} /\ Removed(l) = {}
  <2>1. \A h \in Host : l[h] = preNodes[h]
    BY <1>1, <1>2 DEF Added, Removed
  <2>2. l = preNodes
    BY <2>1 DEF TypeOK, NodeList
  <2>. QED
    BY <1>2, <2>2 DEF UpdateHashRing, LastListInRing
<1>3. CASE ~(Added(l) = {} /\ Removed(l) = {})
  <2>1. PICK h \in Host : l[h] # preNodes[h]
    BY <1>1, <1>3 DEF Added, Removed
  <2>2. Listed(l) # Listed(preNodes)
    BY <1>1, <2>1 DEF Listed
  <2>3. ring'.members = (ring.members \ Removed(l)) \cup Added(l)
    BY <1>3 DEF UpdateHashRing, Change
  <2>4. Removed(l) = Listed(preNodes) \ Listed(l) /\ Added(l) = Listed(l) \ Listed(preNodes)
    BY <1>1 DEF Listed, Added, Removed
  <2>5. ring'.members = (ring.members \ Listed(preNodes)) \cup Listed(l)
    BY <2>3, <2>4 DEF LastListInRing
  <2>. QED
    BY <1>3, <2>2, <2>5 DEF UpdateHashRing
<1>. QED
  BY <1>2, <1>3

LEMMA NoneListed == Listed(EmptyList) = {}
  BY DEF Listed, EmptyList

LEMMA LastListInvariant ==
    ASSUME MaxDup = 1
    PROVE  Spec => [](TypeOK /\ LastListInRing)
<1>1. Init => TypeOK /\ LastListInRing
  BY TypeInit, NoneListed DEF Init, LastListInRing
<1>2. TypeOK /\ LastListInRing /\ [Next]_vars => (TypeOK /\ LastListInRing)'
  <2>. SUFFICES ASSUME TypeOK, LastListInRing, [Next]_vars
                PROVE  LastListInRing'
    BY TypeNext
  <2>1. ASSUME NEW l \in NodeList, UpdateHashRing(l) PROVE LastListInRing'
    BY <2>1, UpdateObserves DEF LastListInRing, Listed
  <2>2. CASE preNodes' = EmptyList
    BY <2>2 DEF LastListInRing, Listed, EmptyList
  <2>3. CASE ring'.members = ring.members /\ UNCHANGED preNodes
    BY <2>3 DEF LastListInRing, Listed
  <2>. QED
    BY <2>1, <2>2, <2>3, ViewSteps
<1>. QED
  BY <1>1, <1>2, PTL DEF Spec

(***************************************************************************)
(* A pool whose driver names a node once per list spreads keys over the    *)
(* whole of the last list, and beside it only over nodes that were on the  *)
(* ring when it was stopped, and is Steady only on a confirmed list, under *)
(* every interleaving of Starts, Stops, update goroutines and callers.     *)
(***************************************************************************)
THEOREM PoolImplementsStableView ==
    ASSUME MaxDup = 1 PROVE Spec => StableViewSpec
<1>1. Init => Stable!Init
  BY NoneListed DEF Init, Stable!Init, EmptyRing
<1>2. TypeOK /\ LastListInRing /\ [Next]_vars => [Stable!Next]_(Stable!vars)
  <2>. SUFFICES ASSUME TypeOK, LastListInRing, [Next]_vars
                PROVE  [Stable!Next]_(Stable!vars)
    OBVIOUS
  <2>1. ASSUME NEW l \in NodeList, UpdateHashRing(l) PROVE Stable!Next
    <3>1. /\ preNodes' = l
          /\ ring'.members = (ring.members \ Listed(preNodes)) \cup Listed(l)
          /\ state' = "Steady" <=> Listed(l) = Listed(preNodes)
      BY <2>1, UpdateObserves
    <3>2. Listed(preNodes)' = Listed(l)
      BY <3>1 DEF Listed
    <3>3. Stable!Observe(Listed(l))
      BY <3>1, <3>2 DEF Stable!Observe
    <3>4. Listed(l) \in SUBSET Host
      BY DEF Listed
    <3>. QED
      BY <3>3, <3>4 DEF Stable!Next
  <2>2. CASE preNodes' = EmptyList /\ UNCHANGED <<ring, state>>
    <3>1. Listed(preNodes)' = {}
      BY <2>2 DEF Listed, EmptyList
    <3>. QED
      BY <2>2, <3>1 DEF Stable!Next, Stable!Forget
  <2>3. CASE ring'.members = ring.members /\ UNCHANGED preNodes /\ state' = state
    BY <2>3 DEF Stable!vars, Listed
  <2>4. CASE ring'.members = ring.members /\ UNCHANGED preNodes /\ state' = "Upgrade"
    BY <2>4 DEF Stable!Next, Stable!Begin, Listed
  <2>. QED
    BY <2>1, <2>2, <2>3, <2>4, ViewSteps
<1>3. Spec => [](TypeOK /\ LastListInRing)
  BY LastListInvariant
<1>. QED
  BY <1>1, <1>2, <1>3, PTL DEF Spec, StableViewSpec, Stable!Spec

-------------------------------------------------------------------------------
(* Lookups by load end *)

(***************************************************************************)
(* The strengthening: a host that is not in the ring has no load, and      *)
(* until a host leaves with a load below zero (its load stays in           *)
(* totalLoad, so that totalLoad is then too low) totalLoad is not below    *)
(* the sum of the loads. By SomeHostTakes some host then takes the load.   *)
(***************************************************************************)
NoneOutside == \A h \in Host \ ring.members : ring.load[h] = 0
TotalEnough == ring.totalLoad >= Sum(ring.load, Host)
LoadInv ==
    /\ NoneOutside
    /\ ~skewed => TotalEnough /\ \A c \in Caller : caller[c].pc # "spin"

(* The fields after each of the operations on loads. *)
LEMMA SetLoadFields ==
    ASSUME NEW r \in MemberRings, NEW h \in r.members, NEW l \in Int
    PROVE  /\ SetLoad(r, h, l).members = r.members
           /\ SetLoad(r, h, l).load = [r.load EXCEPT ![h] = l]
           /\ SetLoad(r, h, l).totalLoad = r.totalLoad - r.load[h] + l
<1>. DEFINE s == [r EXCEPT !.load = [@ EXCEPT ![h] = l]]
<1>1. /\ s.members = r.members /\ s.totalLoad = r.totalLoad
      /\ s.load = [r.load EXCEPT ![h] = l] /\ s \in MemberRings
  BY DEF MemberRings
<1>2. SetLoad(r, h, l) = [s EXCEPT !.totalLoad = @ - r.load[h] + l]
  BY DEF SetLoad
<1>. HIDE DEF s
<1>. QED BY <1>1, <1>2 DEF MemberRings

LEMMA SetLoadFits ==
    ASSUME NEW r \in MemberRings, NEW h, NEW l, h \in r.members => l \in Int
    PROVE  /\ LET q == SetLoad(r, h, l) IN
                \A g \in Host \ q.members :
                   (\A x \in Host \ r.members : r.load[x] = 0) => q.load[g] = 0
           /\ r.totalLoad >= Sum(r.load, Host)
                => SetLoad(r, h, l).totalLoad >= Sum(SetLoad(r, h, l).load, Host)
<1>1. CASE h \notin r.members
  BY <1>1 DEF SetLoad
<1>2. CASE h \in r.members
  <2>. DEFINE q == SetLoad(r, h, l)
  <2>1. /\ q.members = r.members /\ q.load = [r.load EXCEPT ![h] = l]
        /\ q.totalLoad = r.totalLoad - r.load[h] + l /\ l \in Int
    BY <1>2, SetLoadFields
  <2>. HIDE DEF q
  <2>2. /\ h \in Host /\ r.load[h] \in Int /\ r.totalLoad \in Int
        /\ \A g \in Host : r.load[g] \in Int
        /\ q.load[h] = l /\ \A g \in Host : g # h => q.load[g] = r.load[g]
    BY <1>2, <2>1 DEF MemberRings
  <2>3. Sum(q.load, Host) = Sum(r.load, Host) - r.load[h] + q.load[h]
    <3>1. q.load[h] \in Int
      BY <2>1, <2>2
    <3>. DEFINE f == r.load
                e == q.load
    <3>2. /\ h \in Host /\ \A g \in Host : f[g] \in Int
          /\ e[h] \in Int /\ \A g \in Host : g # h => e[g] = f[g]
      BY <2>2, <3>1
    <3>. HIDE DEF f, e
    <3>3. Sum(e, Host) = Sum(f, Host) - f[h] + e[h]
      BY <3>2, HostAssumption, SumChange
    <3>. QED BY <3>3 DEF f, e
  <2>4. Sum(r.load, Host) \in Int
    BY <2>2, HostAssumption, SumOf
  <2>5. r.totalLoad >= Sum(r.load, Host) => q.totalLoad >= Sum(q.load, Host)
    BY <2>1, <2>2, <2>3, <2>4
  <2>6. \A g \in Host \ q.members :
           (\A x \in Host \ r.members : r.load[x] = 0) => q.load[g] = 0
    BY <1>2, <2>1, <2>2
  <2>. QED BY <2>5, <2>6 DEF q
<1>. QED BY <1>1, <1>2

LEMMA ZeroSum ==
    ASSUME NEW f \in [Host -> Int], \A h \in Host : f[h] = 0
    PROVE  Sum(f, Host) = 0
<1>1. Sum(f, Host) = Cardinality({h \in Host : f[h] = 1})
  BY HostAssumption, SumCounts
<1>2. {h \in Host : f[h] = 1} = {}
  OBVIOUS
<1>. QED BY <1>1, <1>2, FS_EmptySet

LEMMA ResetFits ==
    ASSUME NEW r \in MemberRings
    PROVE  /\ \A h \in Host : ResetAllLoads(r).load[h] = 0
           /\ ResetAllLoads(r).totalLoad >= Sum(ResetAllLoads(r).load, Host)
<1>. DEFINE q == ResetAllLoads(r)
            s == [r EXCEPT !.load = [h \in DOMAIN @ |-> 0]]
<1>1. s.load = [h \in Host |-> 0] /\ s \in MemberRings
  BY DEF MemberRings
<1>2. q = [s EXCEPT !.totalLoad = 0]
  BY DEF ResetAllLoads
<1>. HIDE DEF s
<1>3. q.load = [h \in Host |-> 0] /\ q.totalLoad = 0
  BY <1>1, <1>2 DEF MemberRings
<1>4. Sum(q.load, Host) = 0
  BY <1>3, ZeroSum
<1>. QED BY <1>3, <1>4

LEMMA ChangeFits ==
    ASSUME NEW r \in MemberRings, NEW gone \in SUBSET Host, NEW new \in SUBSET Host
    PROVE  /\ (\A x \in Host \ r.members : r.load[x] = 0)
                 => \A g \in Host \ Change(r, gone, new).members :
                       Change(r, gone, new).load[g] = 0
           /\ (\A h \in gone : ~(r.load[h] < 0)) /\ r.totalLoad >= Sum(r.load, Host)
                 => Change(r, gone, new).totalLoad >= Sum(Change(r, gone, new).load, Host)
<1>. DEFINE q == Change(r, gone, new)
<1>1. /\ q.members = (r.members \ gone) \cup new /\ q.totalLoad = r.totalLoad
      /\ \A h \in Host : q.load[h] = IF h \in gone THEN 0 ELSE r.load[h]
  BY DEF Change
<1>. HIDE DEF q
<1>2. r.totalLoad \in Int /\ \A h \in Host : r.load[h] \in Int
  BY DEF MemberRings
<1>3. ASSUME \A h \in gone : ~(r.load[h] < 0) PROVE Sum(q.load, Host) <= Sum(r.load, Host)
  <2>1. \A h \in Host : q.load[h] \in Int /\ q.load[h] <= r.load[h]
    BY <1>1, <1>2, <1>3
  <2>2. Host \subseteq Host /\ \A h \in Host \ Host : r.load[h] >= 0
    OBVIOUS
  <2>. QED BY <1>2, <2>1, <2>2, HostAssumption, SumBelow
<1>4. Sum(q.load, Host) \in Int /\ Sum(r.load, Host) \in Int
  <2>1. \A h \in Host : q.load[h] \in Int
    BY <1>1, <1>2
  <2>. QED BY <1>2, <2>1, HostAssumption, SumOf
<1>5. (\A h \in gone : ~(r.load[h] < 0)) /\ r.totalLoad >= Sum(r.load, Host)
         => q.totalLoad >= Sum(q.load, Host)
  BY <1>1, <1>2, <1>3, <1>4
<1>6. (\A x \in Host \ r.members : r.load[x] = 0)
         => \A g \in Host \ q.members : q.load[g] = 0
  BY <1>1
<1>. QED BY <1>5, <1>6 DEF q

LEMMA ClampFields ==
    ASSUME NEW r \in MemberRings
    PROVE  /\ ClampTotal(r).members = r.members /\ ClampTotal(r).load = r.load
           /\ ClampTotal(r).totalLoad = (IF r.totalLoad < 0 THEN 0 ELSE r.totalLoad)
           /\ ClampTotal(r).totalLoad >= r.totalLoad
  BY DEF ClampTotal, MemberRings

(* A walk over members that are ranked meets one of them first. *)
LEMMA FirstOfIn ==
    ASSUME NEW k \in Key, NEW S \in SUBSET Host, S # {}
    PROVE  FirstOf(S, k) \in S
<1>. DEFINE R == {Rank[k][h] : h \in S}
<1>1. R \in SUBSET Nat /\ R # {}
  BY RankAssumption
<1>2. PICK n \in R : \A m \in R : n <= m
  <2>. HIDE DEF R
  <2>. QED BY <1>1, LeastNumber
<1>3. \E h \in S : \A g \in S : Rank[k][h] <= Rank[k][g]
  BY <1>2
<1>. QED BY <1>3 DEF FirstOf

(***************************************************************************)
(* As long as totalLoad is not below the sum of the loads, some member is  *)
(* within the bound of loadOK: one that is not above the average.          *)
(***************************************************************************)
LEMMA SomeHostTakes ==
    ASSUME NEW r, IsFiniteSet(r.members), r.members # {},
           r.totalLoad \in Int, \A h \in r.members : r.load[h] \in Int,
           ClampTotal(r).totalLoad = (IF r.totalLoad < 0 THEN 0 ELSE r.totalLoad),
           r.totalLoad >= Sum(r.load, r.members)
    PROVE  \E h \in r.members : LoadOK(r, h)
<1>. DEFINE t == ClampTotal(r).totalLoad + 1
            q == t \div Cardinality(r.members)
<1>1. t \in Nat /\ Sum(r.load, r.members) <= t
  BY SumOf
<1>2. Cardinality(r.members) \in Nat /\ Cardinality(r.members) > 0
  BY FS_CardinalityType, FS_EmptySet
<1>3. q \in Nat
  <2>. HIDE DEF t
  <2>. QED BY <1>1, <1>2
<1>4. PICK h \in r.members : r.load[h] <= q
  <2>. HIDE DEF t
  <2>. QED BY <1>1, SomeBelowAverage
<1>5. LoadBound(r) \in Nat /\ LoadBound(r) >= q + 1
  <2>1. LoadBound(r) = CeilFiveQuarters(IF q = 0 THEN 1 ELSE q)
    BY DEF LoadBound
  <2>. HIDE DEF q
  <2>. QED BY <1>3, <2>1 DEF CeilFiveQuarters
<1>. QED BY <1>3, <1>4, <1>5 DEF LoadOK

(* The walk ends when totalLoad is not below the sum of the loads. *)
LEMMA LeastLoadedEnds ==
    ASSUME NEW r \in MemberRings, NEW k \in Key,
           \A h \in Host \ r.members : r.load[h] = 0,
           r.totalLoad >= Sum(r.load, Host)
    PROVE  LeastLoaded(r, k) # Spin
<1>1. CASE r.members = {}
  BY <1>1, NoHostAssumption DEF LeastLoaded
<1>2. CASE r.members # {}
  <2>0. /\ r.members \subseteq Host /\ r.totalLoad \in Int
        /\ \A h \in Host : r.load[h] \in Int
    BY DEF MemberRings
  <2>1. IsFiniteSet(r.members)
    BY <2>0, HostAssumption, FS_Subset
  <2>2. Sum(r.load, r.members) <= Sum(r.load, Host)
    <3>1. \A h \in r.members : r.load[h] \in Int /\ r.load[h] <= r.load[h]
      BY <2>0
    <3>2. \A h \in Host \ r.members : r.load[h] >= 0
      OBVIOUS
    <3>. QED BY <2>0, <3>1, <3>2, HostAssumption, SumBelow
  <2>3. Sum(r.load, r.members) \in Int /\ Sum(r.load, Host) \in Int
    BY <2>0, <2>1, HostAssumption, SumOf
  <2>4. \E h \in r.members : LoadOK(r, h)
    <3>1. r.totalLoad >= Sum(r.load, r.members)
      BY <2>0, <2>2, <2>3
    <3>2. ClampTotal(r).totalLoad = (IF r.totalLoad < 0 THEN 0 ELSE r.totalLoad)
      BY ClampFields
    <3>. QED BY <1>2, <2>0, <2>1, <3>1, <3>2, SomeHostTakes
  <2>. DEFINE fit == {h \in r.members : LoadOK(r, h)}
  <2>5. fit # {} /\ fit \in SUBSET Host
    BY <2>0, <2>4
  <2>6. LeastLoaded(r, k) = FirstOf(fit, k)
    BY <1>2, <2>5 DEF LeastLoaded
  <2>. HIDE DEF fit
  <2>7. FirstOf(fit, k) \in Host
    BY <2>5, FirstOfIn
  <2>. QED BY <2>6, <2>7, NoHostAssumption
<1>. QED BY <1>1, <1>2

LEMMA LoadInit == Init => LoadInv
<1>. SUFFICES ASSUME Init PROVE LoadInv
  OBVIOUS
<1>1. /\ ring.load = [h \in Host |-> 0] /\ ring.totalLoad = 0
      /\ caller = [c \in Caller |-> Idle]
  BY DEF Init, EmptyRing
<1>2. Sum(ring.load, Host) = 0
  BY <1>1, ZeroSum
<1>. QED BY <1>1, <1>2 DEF LoadInv, NoneOutside, TotalEnough, Idle

(* updateHashRing under the write lock. *)
LEMMA UpdateLoads ==
    ASSUME TypeOK, LoadInv, NEW l \in NodeList, UpdateHashRing(l), UNCHANGED caller
    PROVE  LoadInv'
<1>. DEFINE gone == Removed(l)
            new == Added(l)
<1>1. CASE new = {} /\ gone = {}
  BY <1>1 DEF UpdateHashRing, LoadInv, NoneOutside, TotalEnough
<1>2. CASE ~(new = {} /\ gone = {})
  <2>1. /\ ring' = Change(ring, gone, new) /\ ring \in MemberRings
        /\ ~skewed' => ~skewed /\ \A h \in gone : ~(ring.load[h] < 0)
    BY <1>2 DEF UpdateHashRing, TypeOK
  <2>2. gone \in SUBSET Host /\ new \in SUBSET Host
    BY DEF Added, Removed
  <2>. HIDE DEF gone, new
  <2>3. NoneOutside'
    BY <2>1, <2>2, ChangeFits DEF LoadInv, NoneOutside
  <2>4. ~skewed' => TotalEnough'
    BY <2>1, <2>2, ChangeFits DEF LoadInv, TotalEnough
  <2>5. ~skewed' => ~skewed
    BY <2>1
  <2>. QED BY <2>3, <2>4, <2>5 DEF LoadInv
<1>. QED BY <1>1, <1>2

(* A lookup with RLock: no walk without an end as long as skewed is false. *)
LEMMA LookupLoads ==
    ASSUME TypeOK, LoadInv, CapacityLoad, NEW c \in Caller, NEW k \in Key,
           NEW next \in {"inc", "dec"}, Lookup(c, k, next)
    PROVE  LoadInv'
<1>0. ring \in MemberRings /\ UNCHANGED skewed
  BY DEF TypeOK, Lookup
<1>1. /\ ring'.members = ring.members /\ ring'.load = ring.load
      /\ ring'.totalLoad >= ring.totalLoad /\ ring' \in MemberRings
  BY <1>0, ClampFields, LoadOpsType DEF Lookup, AfterGetHost, MemberRings
<1>2. NoneOutside'
  BY <1>1 DEF LoadInv, NoneOutside
<1>3. TotalEnough => TotalEnough'
  <2>1. Sum(ring.load, Host) \in Int
    BY <1>0, HostAssumption, SumOf DEF MemberRings
  <2>2. ring.totalLoad \in Int /\ ring'.totalLoad \in Int
    BY <1>0, <1>1 DEF MemberRings
  <2>. QED BY <1>1, <2>1, <2>2 DEF TotalEnough
<1>4. ASSUME ~skewed PROVE GetHost(k) # Spin
  <2>1. LeastLoaded(ring, k) # Spin
    BY <1>0, <1>4, LeastLoadedEnds DEF LoadInv, NoneOutside, TotalEnough
  <2>. QED BY <2>1, NoHostAssumption DEF GetHost
<1>5. ASSUME ~skewed, NEW d \in Caller PROVE caller'[d].pc # "spin"
  <2>1. caller[d].pc # "spin"
    BY <1>5 DEF LoadInv
  <2>2. \/ UNCHANGED caller
        \/ caller' = [caller EXCEPT ![c].pc = "panic"]
        \/ caller' = [caller EXCEPT ![c] = [pc |-> next, host |-> GetHost(k)]]
    BY <1>4, <1>5 DEF Lookup
  <2>3. caller \in [Caller -> [pc : {"idle", "inc", "dec", "spin", "panic"},
                               host : Host \cup {NoHost}]]
    BY DEF TypeOK
  <2>. QED BY <2>1, <2>2, <2>3
<1>. QED BY <1>0, <1>2, <1>3, <1>5 DEF LoadInv

LEMMA LoadNext == TypeOK /\ LoadInv /\ [Next]_vars => LoadInv'
<1>. SUFFICES ASSUME TypeOK, LoadInv, [Next]_vars PROVE LoadInv'
  OBVIOUS
<1>0. ring \in MemberRings
  BY DEF TypeOK
<1>1. CASE UNCHANGED <<ring, caller, skewed>>
  BY <1>1 DEF LoadInv, NoneOutside, TotalEnough
<1>2. CASE StartUpdate
  BY <1>2, UpdateLoads DEF StartUpdate, TypeOK
<1>3. ASSUME NEW i \in Loop, LoopUpdate(i) PROVE LoadInv'
  BY <1>3, UpdateLoads DEF LoopUpdate, TypeOK
<1>4. ASSUME NEW c \in Caller, NEW k \in Key, IsEligible(c, k) PROVE LoadInv'
  BY <1>4, LookupLoads DEF IsEligible
<1>5. ASSUME NEW c \in Caller, NEW k \in Key, DecreaseLoadByKey(c, k) PROVE LoadInv'
  BY <1>5, LookupLoads DEF DecreaseLoadByKey
<1>6. ASSUME NEW c \in Caller, ChangeLoad(c) PROVE LoadInv'
  <2>. DEFINE h == caller[c].host
              l == IF caller[c].pc = "inc" THEN ring.load[h] + 1 ELSE ring.load[h] - 1
  <2>1. ring' = SetLoad(ring, h, l) /\ UNCHANGED skewed
    BY <1>6 DEF ChangeLoad, IncLoad, DoneLoad
  <2>2. h \in ring.members => l \in Int
    BY <1>0 DEF MemberRings
  <2>. HIDE DEF h, l
  <2>3. NoneOutside'
    BY <1>0, <2>1, <2>2, SetLoadFits DEF LoadInv, NoneOutside
  <2>4. TotalEnough => TotalEnough'
    BY <1>0, <2>1, <2>2, SetLoadFits DEF TotalEnough
  <2>5. ASSUME NEW d \in Caller, caller[d].pc # "spin" PROVE caller'[d].pc # "spin"
    <3>1. caller' = [caller EXCEPT ![c] = Idle]
      BY <1>6 DEF ChangeLoad
    <3>. QED BY <2>5, <3>1 DEF TypeOK, Idle
  <2>. QED BY <2>1, <2>3, <2>4, <2>5 DEF LoadInv
<1>7. CASE ResetLoads
  <2>1. ring' = ResetAllLoads(ring) /\ UNCHANGED <<caller, skewed>>
    BY <1>7 DEF ResetLoads, loadVars
  <2>2. NoneOutside' /\ TotalEnough'
    BY <1>0, <2>1, ResetFits DEF NoneOutside, TotalEnough
  <2>. QED BY <2>1, <2>2 DEF LoadInv
<1>8. CASE UNCHANGED vars
  BY <1>1, <1>8 DEF vars
<1>9. ASSUME \/ \E h \in Host : NodeChange(h)
             \/ StartDriver \/ StartGetNodes \/ StartStore \/ StartReturn
             \/ StopNext
             \/ \E i \in Loop : LoopGetNodes(i) \/ LoopStop(i)
      PROVE  UNCHANGED <<ring, caller, skewed>>
  BY <1>9 DEF NodeChange, StartDriver, StartGetNodes, StartStore, StartReturn,
              StopNext, StopSend, StopDriver, StopClear, LoopGetNodes, LoopStop,
              loadVars
<1>. QED
  BY <1>1, <1>2, <1>3, <1>4, <1>5, <1>6, <1>7, <1>8, <1>9
  DEF Next, StartNext, LoopNext, CallerNext

(***************************************************************************)
(* IsEligible and DecreaseLoadByKey come back as long as no host has left  *)
(* the ring with a load below zero: neither ResetLoads under claims, nor   *)
(* DecreaseLoadByKey on another host than the one IsEligible raised, nor   *)
(* any other change of the ring can make the walk of GetLeast endless.     *)
(***************************************************************************)
THEOREM LookupsEnd == Spec => []LookupTerminates
<1>1. Init => TypeOK /\ LoadInv
  BY TypeInit, LoadInit
<1>2. TypeOK /\ LoadInv /\ [Next]_vars => (TypeOK /\ LoadInv)'
  BY TypeNext, LoadNext
<1>3. LoadInv => LookupTerminates
  BY DEF LoadInv, LookupTerminates
<1>. QED BY <1>1, <1>2, <1>3, PTL DEF Spec
===============================================================================
