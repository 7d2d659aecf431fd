------------------------------- MODULE NodePool -------------------------------
(***************************************************************************)
(* nodepool.NodePool on one node: Start and Stop, the goroutine            *)
(* waitingForHashRing, updateHashRing and diffNodes under rwMut, and the   *)
(* callers of IsEligible, DecreaseLoadByKey and ResetLoads. The driver is  *)
(* the variable registry: the nodes registered, which GetNodes lists, a    *)
(* node up to MaxDup times (SCAN may repeat a key), or fails to list.      *)
(***************************************************************************)
EXTENDS MemberRing

CONSTANTS
    Self,           \* this node's id
    CapacityLoad,   \* option WithCapacityLoad
    Caller,         \* goroutines that call IsEligible / DecreaseLoadByKey
    MaxDup,         \* bound: times a node may appear in one list
    MaxStarts, MaxStops, MaxChanges, MaxErrors, MaxClaims   \* bounds

ErrUpgrading == "ErrNodePoolIsUpgrading"

ASSUME SelfAssumption == Self \in Host
ASSUME HostAssumption == IsFiniteSet(Host)
ASSUME RankAssumption == \A k \in Key, h \in Host : Rank[k][h] \in Nat
ASSUME NoHostAssumption ==
    /\ NoHost \notin Host /\ {ErrNoHosts, Spin} \cap (Host \cup {NoHost}) = {}
    /\ Spin \notin {ErrNoHosts, ErrUpgrading}
ASSUME BoundAssumption ==
    /\ MaxDup \in Nat \ {0} /\ MaxStarts \in Nat /\ MaxStops \in Nat
    /\ MaxChanges \in Nat /\ MaxErrors \in Nat /\ MaxClaims \in Nat
ASSUME CapacityAssumption == CapacityLoad \in BOOLEAN

VARIABLES
    registry,   \* the nodes registered with the driver
    drvStarted, \* the driver's field started
    ring,       \* np.Nodes
    preNodes,   \* np.preNodes, a sorted slice, as a bag
    state,      \* np.state ("unset" before the first Store)
    token,      \* elements in the channel stopChan, of capacity 1
    start,      \* the goroutine in Start
    stop,       \* the goroutine in Stop
    loop,       \* loop[i]: the goroutine waitingForHashRing of the i-th Start
    caller,     \* caller[c]: in IsEligible or DecreaseLoadByKey, with RLock
    claims,     \* claims[k]: IsEligible calls for k not yet decreased
    skewed,     \* history: a host left with a load below zero
    count       \* calls so far that count against the bounds

vars == <<registry, drvStarted, ring, preNodes, state, token, start, stop,
          loop, caller, claims, skewed, count>>

lifeVars == <<registry, drvStarted, token, start, stop, loop, count>>
loadVars == <<caller, claims, skewed>>

NodeList == [Host -> 0 .. MaxDup]
EmptyList == [h \in Host |-> 0]
Listed(l) == {h \in Host : l[h] > 0}
Loop == 1 .. MaxStarts

At(pc, l) == [pc |-> pc, nodes |-> l]
Off == At("off", EmptyList)
Idle == [pc |-> "idle", host |-> NoHost]

(* Type invariant of the pool, its goroutines and its callers. *)
TypeOK ==
    /\ registry \in SUBSET Host
    /\ drvStarted \in BOOLEAN
    /\ ring \in MemberRings
    /\ preNodes \in NodeList
    /\ state \in {"unset", "Upgrade", "Steady"}
    /\ token \in 0 .. 1
    /\ start \in [pc : {"off", "fetch", "store", "update", "wait"}, nodes : NodeList]
    /\ stop \in {"off", "driver", "clear"}
    /\ loop \in [Loop -> [pc : {"off", "select", "update"}, nodes : NodeList]]
    /\ caller \in [Caller -> [pc : {"idle", "inc", "dec", "spin", "panic"},
                              host : Host \cup {NoHost}]]
    /\ claims \in [Key -> 0 .. MaxClaims]
    /\ skewed \in BOOLEAN
    /\ count \in [starts : 0 .. MaxStarts, stops : 0 .. MaxStops,
                  changes : 0 .. MaxChanges, errors : 0 .. MaxErrors]

Init ==
    /\ registry \in SUBSET (Host \ {Self})
    /\ drvStarted = FALSE
    /\ ring = EmptyRing
    /\ preNodes = EmptyList
    /\ state = "unset"
    /\ token = 0
    /\ start = Off
    /\ stop = "off"
    /\ loop = [i \in Loop |-> Off]
    /\ caller = [c \in Caller |-> Idle]
    /\ claims = [k \in Key |-> 0]
    /\ skewed = FALSE
    /\ count = [starts |-> 0, stops |-> 0, changes |-> 0, errors |-> 0]

-------------------------------------------------------------------------------
(* The driver: other nodes come and go; a list names the registered nodes. *)

NodeChange(h) ==
    /\ h # Self /\ count.changes < MaxChanges
    /\ registry' = IF h \in registry THEN registry \ {h} ELSE registry \cup {h}
    /\ count' = [count EXCEPT !.changes = @ + 1]
    /\ UNCHANGED <<drvStarted, token, start, stop, loop, ring, preNodes, state,
                   loadVars>>

Answers == {l \in NodeList : Listed(l) = registry}

GetNodesError ==
    /\ count.errors < MaxErrors
    /\ count' = [count EXCEPT !.errors = @ + 1]

-------------------------------------------------------------------------------
(* rwMut and updateHashRing *)

WriteLockFree == \A c \in Caller : caller[c].pc \in {"idle", "panic"}

(* A goroutine waiting for Lock keeps new readers out (sync.RWMutex). *)
ReadLockFree == /\ start.pc # "update"
                /\ \A i \in Loop : loop[i].pc # "update"

(* A goroutine has come with list l to updateHashRing. *)
Updating(l) == \/ start = At("update", l)
               \/ \E i \in Loop : loop[i] = At("update", l)

(* diffNodes counts each name in both lists. *)
Added(l) == {h \in Host : l[h] > preNodes[h]}
RemovedNever(l) == {}           \* mutant: only additions are found
Removed(l) == {h \in Host : l[h] < preNodes[h]}

(* Mutant of UpdateHashRing: Steady at once, without a confirming list. *)
UpdateHashRingSteady(l) ==
    /\ WriteLockFree
    /\ ring' = Change(ring, Removed(l), Added(l))
    /\ preNodes' = l
    /\ state' = "Steady"
    /\ UNCHANGED skewed

(* Mutant of UpdateHashRing: the list is not kept for the next comparison. *)
UpdateHashRingNotKept(l) ==
    /\ WriteLockFree
    /\ IF Added(l) = {} /\ Removed(l) = {}
       THEN state' = "Steady" /\ UNCHANGED <<ring, skewed>>
       ELSE /\ state' = "Upgrade"
            /\ ring' = Change(ring, Removed(l), Added(l))
            /\ skewed' = (skewed \/ \E h \in Removed(l) : ring.load[h] < 0)
    /\ UNCHANGED preNodes

UpdateHashRing(l) ==
    /\ WriteLockFree
    /\ IF Added(l) = {} /\ Removed(l) = {}
       THEN /\ state' = "Steady"
            /\ UNCHANGED <<ring, preNodes, skewed>>
       ELSE /\ state' = "Upgrade"
            /\ ring' = Change(ring, Removed(l), Added(l))
            /\ preNodes' = l
            /\ skewed' = (skewed \/ \E h \in Removed(l) : ring.load[h] < 0)

-------------------------------------------------------------------------------
(* Start *)

(* Driver.Start: registers the node, or fails when the driver is started. *)
StartDriver ==
    /\ start.pc = "off" /\ count.starts < MaxStarts
    /\ count' = [count EXCEPT !.starts = @ + 1]
    /\ IF drvStarted
       THEN UNCHANGED <<registry, drvStarted, start>>
       ELSE /\ registry' = registry \cup {Self}
            /\ drvStarted' = TRUE
            /\ start' = At("fetch", EmptyList)
    /\ UNCHANGED <<token, stop, loop, ring, preNodes, state, loadVars>>

(* GetNodes: on an error Start returns, and leaves the driver started. *)
StartGetNodes ==
    /\ start.pc = "fetch"
    /\ \/ GetNodesError /\ start' = Off
       \/ UNCHANGED count /\ \E l \in Answers : start' = At("store", l)
    /\ UNCHANGED <<registry, drvStarted, token, stop, loop, ring, preNodes,
                   state, loadVars>>

StartStore ==
    /\ start.pc = "store"
    /\ state' = "Upgrade"
    /\ start' = [start EXCEPT !.pc = "update"]
    /\ UNCHANGED <<registry, drvStarted, token, stop, loop, count, ring,
                   preNodes, loadVars>>

StartUpdate ==
    /\ start.pc = "update"
    /\ UpdateHashRing(start.nodes)
    /\ start' = At("wait", EmptyList)
    /\ loop' = [loop EXCEPT ![count.starts] = At("select", EmptyList)]
    /\ UNCHANGED <<registry, drvStarted, token, stop, count, caller, claims>>

StartReturn ==
    /\ start.pc = "wait" /\ state = "Steady"
    /\ start' = Off
    /\ UNCHANGED <<registry, drvStarted, token, stop, loop, count, ring,
                   preNodes, state, loadVars>>

-------------------------------------------------------------------------------
(* waitingForHashRing: GetNodes runs before the lock is taken *)

LoopGetNodes(i) ==
    /\ loop[i].pc = "select"
    /\ \/ GetNodesError /\ UNCHANGED loop
       \/ /\ UNCHANGED count
          /\ \E l \in Answers : loop' = [loop EXCEPT ![i] = At("update", l)]
    /\ UNCHANGED <<registry, drvStarted, token, start, stop, ring, preNodes,
                   state, loadVars>>

LoopUpdate(i) ==
    /\ loop[i].pc = "update"
    /\ UpdateHashRing(loop[i].nodes)
    /\ loop' = [loop EXCEPT ![i] = At("select", EmptyList)]
    /\ UNCHANGED <<registry, drvStarted, token, start, stop, count, caller, claims>>

(* Mutant of LoopStop: a "break" that leaves the select, not the loop. *)
LoopStopBreak(i) ==
    /\ loop[i].pc = "select" /\ token = 1
    /\ token' = 0
    /\ UNCHANGED <<registry, drvStarted, start, stop, count, loop, ring,
                   preNodes, state, loadVars>>

LoopStop(i) ==
    /\ loop[i].pc = "select" /\ token = 1
    /\ token' = 0
    /\ loop' = [loop EXCEPT ![i] = Off]
    /\ UNCHANGED <<registry, drvStarted, start, stop, count, ring, preNodes,
                   state, loadVars>>

-------------------------------------------------------------------------------
(* Stop: the send blocks while the channel is full; no lock is taken. *)

(* Mutant of StopSend: a send that does not wait for room in the channel. *)
StopSendNoWait ==
    /\ stop = "off" /\ count.stops < MaxStops /\ count.stops < count.starts
    /\ token' = token + 1
    /\ stop' = "driver"
    /\ count' = [count EXCEPT !.stops = @ + 1]
    /\ UNCHANGED <<registry, drvStarted, start, loop, ring, preNodes, state,
                   loadVars>>

StopSend ==
    /\ stop = "off" /\ count.stops < MaxStops /\ count.stops < count.starts
    /\ token = 0
    /\ token' = token + 1
    /\ stop' = "driver"
    /\ count' = [count EXCEPT !.stops = @ + 1]
    /\ UNCHANGED <<registry, drvStarted, start, loop, ring, preNodes, state,
                   loadVars>>

StopDriver ==
    /\ stop = "driver"
    /\ registry' = registry \ {Self}
    /\ drvStarted' = FALSE
    /\ stop' = "clear"
    /\ UNCHANGED <<token, start, loop, count, ring, preNodes, state, loadVars>>

(***************************************************************************)
(* The write is not under rwMut: when it falls between the comparison and  *)
(* the assignment of an updateHashRing with a new list, it is lost.        *)
(***************************************************************************)
StopClear ==
    /\ stop = "clear"
    /\ \/ preNodes' = EmptyList
       \/ /\ WriteLockFree
          /\ \E l \in NodeList : l # preNodes /\ Updating(l)
          /\ UNCHANGED preNodes
    /\ stop' = "off"
    /\ UNCHANGED <<registry, drvStarted, token, start, loop, count, ring, state,
                   loadVars>>

-------------------------------------------------------------------------------
(* Callers *)

GetHost(k) ==
    IF ring.members = {} THEN NoHost
    ELSE IF state # "Steady" THEN ErrUpgrading
    ELSE IF CapacityLoad THEN LeastLoaded(ring, k) ELSE Owner(ring, k)

(* GetHost has looked at loads, so loadOK has reset a negative total. *)
AfterGetHost == IF CapacityLoad /\ ring.members # {} /\ state = "Steady"
                THEN ClampTotal(ring) ELSE ring

(***************************************************************************)
(* Both calls take RLock, look up the host, then change its load. GetHost  *)
(* walks for ever, with RLock, when no host takes the load. Before the     *)
(* first Start np.Nodes is nil: GetHost gives NoHost, and changing a load  *)
(* panics, which gives RLock back. (np.Nodes is set by the updateHashRing  *)
(* that follows the first Store of state, which keeps readers out.)        *)
(***************************************************************************)
Lookup(c, k, next) ==
    /\ caller[c].pc = "idle" /\ ReadLockFree
    /\ ring' = AfterGetHost
    /\ \/ state = "unset" /\ caller' = [caller EXCEPT ![c].pc = "panic"]
       \/ /\ state # "unset" /\ GetHost(k) = ErrUpgrading
          /\ UNCHANGED caller
       \/ /\ state # "unset" /\ GetHost(k) = Spin
          /\ caller' = [caller EXCEPT ![c].pc = "spin"]
       \/ /\ state # "unset" /\ GetHost(k) \in Host \cup {NoHost}
          /\ caller' = [caller EXCEPT ![c] = [pc |-> next, host |-> GetHost(k)]]
    /\ UNCHANGED <<lifeVars, preNodes, state, skewed>>

IsEligible(c, k) ==
    /\ CapacityLoad /\ claims[k] < MaxClaims
    /\ claims' = [claims EXCEPT ![k] = @ + IF GetHost(k) \in Host THEN 1 ELSE 0]
    /\ Lookup(c, k, "inc")

DecreaseLoadByKey(c, k) ==
    /\ CapacityLoad /\ claims[k] > 0
    /\ claims' = [claims EXCEPT ![k] = @ - IF GetHost(k) \in Host THEN 1 ELSE 0]
    /\ Lookup(c, k, "dec")

ChangeLoad(c) ==
    /\ caller[c].pc \in {"inc", "dec"}
    /\ ring' = IF caller[c].pc = "inc" THEN IncLoad(ring, caller[c].host)
                                       ELSE DoneLoad(ring, caller[c].host)
    /\ caller' = [caller EXCEPT ![c] = Idle]
    /\ UNCHANGED <<lifeVars, preNodes, state, claims, skewed>>

(* Before the first Start np.Nodes is nil, and the call panics. *)
ResetLoads ==
    /\ CapacityLoad /\ ReadLockFree
    /\ \A c \in Caller : caller[c].pc # "spin"
    /\ ring' = ResetAllLoads(ring)
    /\ UNCHANGED <<lifeVars, preNodes, state, loadVars>>

-------------------------------------------------------------------------------
StartNext == StartDriver \/ StartGetNodes \/ StartStore \/ StartUpdate \/ StartReturn
LoopNext(i) == LoopGetNodes(i) \/ LoopUpdate(i) \/ LoopStop(i)
StopNext == StopSend \/ StopDriver \/ StopClear
CallerNext(c) == \/ \E k \in Key : IsEligible(c, k) \/ DecreaseLoadByKey(c, k)
                 \/ ChangeLoad(c)

Next == \/ \E h \in Host : NodeChange(h)
        \/ StartNext \/ StopNext
        \/ \E i \in Loop : LoopNext(i)
        \/ \E c \in Caller : CallerNext(c)
        \/ ResetLoads

Spec == Init /\ [][Next]_vars

(***************************************************************************)
(* Fairness: goroutines that can go on do; the select of the loop takes    *)
(* each of its ready cases again and again, as Go's select chooses among   *)
(* them at random. Nothing makes a caller call, or the node start or stop. *)
(***************************************************************************)
Fairness ==
    /\ WF_vars(StartGetNodes \/ StartStore \/ StartUpdate \/ StartReturn)
    /\ WF_vars(StopDriver \/ StopClear)
    /\ \A i \in Loop : WF_vars(LoopNext(i)) /\ SF_vars(LoopStop(i))
    /\ \A c \in Caller : WF_vars(ChangeLoad(c))

FairSpec == Spec /\ Fairness

-------------------------------------------------------------------------------
(* The abstract view this pool keeps, with the ring's members as the view. *)
Stable == INSTANCE StableView WITH
             heard <- Listed(preNodes),
             view <- ring.members,
             steady <- (state = "Steady")

(***************************************************************************)
(* The pool implements StableView: the ring, which updateHashRing changes  *)
(* by the differences from preNodes, always holds the whole of the last    *)
(* list, and beside it only what was there when Stop emptied preNodes; the *)
(* pool turns Steady only on a list equal to the one before.               *)
(***************************************************************************)
StableViewSpec == Stable!Spec

(***************************************************************************)
(* IsEligible and DecreaseLoadByKey never keep the read lock for ever.     *)
(***************************************************************************)
NeverStuck == \A c \in Caller : caller[c].pc # "spin"

Running == \E i \in Loop : loop[i].pc # "off"

(***************************************************************************)
(* Once nodes stop coming and going, a pool that updates ends up steady on *)
(* a ring with all the registered nodes, and with no other when it was     *)
(* never stopped (after a Stop, those that were on the ring then may stay  *)
(* for ever). A caller stuck in a lookup (see NeverStuck) keeps it from    *)
(* updating.                                                               *)
(***************************************************************************)
ViewConverges ==
    <>[](Running /\ NeverStuck =>
            /\ state = "Steady" /\ registry \subseteq ring.members
            /\ count.stops = 0 => ring.members = registry)

(***************************************************************************)
(* Start, which waits without a time limit for Steady, returns, whatever   *)
(* Starts and Stops came before it or come meanwhile, unless no update     *)
(* goroutine is left (the token of a Stop, also of one called before this  *)
(* Start, has ended it) or a caller is stuck in a lookup.                  *)
(***************************************************************************)
StartReturns ==
    start.pc = "wait" ~> (start.pc # "wait" \/ ~Running \/ ~NeverStuck)

(***************************************************************************)
(* Once every Start has been followed by a Stop, all update goroutines     *)
(* end, although Stop does not wait for the one that takes its token,      *)
(* which may be that of a later Start; a caller stuck in a lookup (see     *)
(* NeverStuck) is the one thing that keeps them.                           *)
(***************************************************************************)
StopEndsLoops ==
    (count.stops = count.starts /\ stop = "off" /\ start.pc = "off")
       ~> (~Running \/ count.starts > count.stops \/ ~NeverStuck)

(***************************************************************************)
(* IsEligible and DecreaseLoadByKey come back: as long as no host left     *)
(* with a load below zero, some host takes the load, even though loads are *)
(* reset under claims and DecreaseLoadByKey may lower another host than    *)
(* the one IsEligible raised.                                              *)
(***************************************************************************)
LookupTerminates == ~skewed => \A c \in Caller : caller[c].pc # "spin"

===============================================================================
