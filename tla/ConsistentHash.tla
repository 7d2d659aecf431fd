---------------------------- MODULE ConsistentHash ----------------------------
(***************************************************************************)
(* consistenthash.Consistent under concurrent callers. Every exported      *)
(* method takes the RWMutex for its whole body, so each is one atomic      *)
(* action; what is not atomic is the sequence the package asks of a caller *)
(* that balances load: GetLeast, then Inc of the host it got, then Done of *)
(* that host, with any other caller's methods in between.                  *)
(***************************************************************************)
EXTENDS HashRing

CONSTANTS
    Client,         \* callers of GetLeast / Inc / Done
    LoadValue,      \* values passed to UpdateLoad
    MaxOps          \* bound: calls that are not GetLeast, Inc or Done

ASSUME LoadValueAssumption == LoadValue \subseteq Nat
ASSUME MaxOpsAssumption == MaxOps \in Nat

VARIABLES
    ring,       \* the Consistent object
    client,     \* client[c]: where caller c is, and the host GetLeast gave it
    ops,        \* calls so far that count against MaxOps
    disturbed   \* history: loads were overwritten, or a host re-added, under
                \* a caller between its GetLeast and its Done

vars == <<ring, client, ops, disturbed>>

ClientState == [pc : {"idle", "got", "holding", "spinning"},
                host : Host \cup {NoHost}]

Idle == [pc |-> "idle", host |-> NoHost]

Init == /\ ring = NewRing
        /\ client = [c \in Client |-> Idle]
        /\ ops = 0
        /\ disturbed = FALSE

InFlight(h) == \E c \in Client : client[c].host = h
Quiescent == \A c \in Client : client[c].host = NoHost

(***************************************************************************)
(* A writer needs the lock that a GetLeast which never ends keeps (RLock). *)
(***************************************************************************)
LockFree == \A c \in Client : client[c].pc # "spinning"

Budget == ops < MaxOps /\ ops' = ops + 1

Add(h) ==
    /\ LockFree /\ Budget
    /\ ring' = AddHost(ring, h)
    /\ disturbed' = (disturbed \/ (h \notin ring.members /\ InFlight(h)))
    /\ UNCHANGED client

Remove(h) ==
    /\ LockFree /\ Budget
    /\ ring' = RemoveHost(ring, h)
    /\ UNCHANGED <<client, disturbed>>

UpdateLoad(h, l) ==
    /\ LockFree /\ Budget
    /\ ring' = UpdateLoadOf(ring, h, l)
    /\ disturbed' = (disturbed \/ ~Quiescent)
    /\ UNCHANGED client

ResetLoads ==
    /\ LockFree /\ Budget
    /\ ring' = ResetAllLoads(ring)
    /\ disturbed' = (disturbed \/ ~Quiescent)
    /\ UNCHANGED client

(* MaxLoad takes no lock; with no member its division panics. *)
MaxLoad ==
    /\ Budget
    /\ ring.members # {}
    /\ ring' = MaxLoadEffect(ring)
    /\ UNCHANGED <<client, disturbed>>

CallGetLeast(c, k) ==
    LET res == GetLeast(ring, k) IN
    /\ client[c].pc = "idle"
    /\ ring' = GetLeastEffect(ring, k)
    /\ \/ res = ErrNoHosts /\ UNCHANGED client
       \/ res = Spin /\ client' = [client EXCEPT ![c].pc = "spinning"]
       \/ res \in Host /\ client' = [client EXCEPT ![c] =
                                       [pc |-> "got", host |-> res]]
    /\ UNCHANGED <<ops, disturbed>>

Inc(c) ==
    /\ client[c].pc = "got" /\ LockFree
    /\ ring' = IncLoad(ring, client[c].host)
    /\ client' = [client EXCEPT ![c].pc = "holding"]
    /\ UNCHANGED <<ops, disturbed>>

Done(c) ==
    /\ client[c].pc = "holding" /\ LockFree
    /\ ring' = DoneLoad(ring, client[c].host)
    /\ client' = [client EXCEPT ![c] = Idle]
    /\ UNCHANGED <<ops, disturbed>>

Next ==
    \/ \E h \in Host : Add(h)
    \/ \E h \in Host : Remove(h)
    \/ \E h \in Host, l \in LoadValue : UpdateLoad(h, l)
    \/ ResetLoads
    \/ MaxLoad
    \/ \E c \in Client, k \in Key : CallGetLeast(c, k)
    \/ \E c \in Client : Inc(c)
    \/ \E c \in Client : Done(c)

Spec == Init /\ [][Next]_vars

-------------------------------------------------------------------------------
(* Type invariant of the ring and of its callers. *)
TypeOK ==
    /\ ring \in Ring
    /\ client \in [Client -> ClientState]
    /\ ops \in 0 .. MaxOps
    /\ disturbed \in BOOLEAN

(***************************************************************************)
(* hosts, sortedSet and loadMap, which Add and Remove update separately,   *)
(* describe the same members: each virtual node of a member is on the ring *)
(* once and leads to it, and nothing else is on the ring.                  *)
(***************************************************************************)
RingMatchesMembers == Consistent(ring)

(***************************************************************************)
(* As long as nobody overwrote loads under a caller, the load of a member  *)
(* covers its callers between Inc and Done, and totalLoad, which keeps the *)
(* load of removed hosts, is never below the sum of the loads: the fact    *)
(* that makes the walk of GetLeast end.                                    *)
(***************************************************************************)
LoadsAccounted ==
    ~disturbed =>
       /\ \A h \in ring.members :
             ring.load[h] >= Cardinality({c \in Client :
                                client[c] = [pc |-> "holding", host |-> h]})
       /\ ring.totalLoad >= MapThenSumSet(LAMBDA h : ring.load[h], ring.members)

(***************************************************************************)
(* GetLeast, whose loop has no bound, ends for every key, and gives a      *)
(* member whenever there is one.                                           *)
(***************************************************************************)
GetLeastTerminates ==
    ~disturbed => \A k \in Key :
       GetLeast(ring, k) \in IF ring.members = {} THEN {ErrNoHosts}
                                                  ELSE ring.members

(***************************************************************************)
(* GetLeastv2wip, the alternative implementation of GetLeast, gives the    *)
(* same host, and gives a member also where GetLeast would walk for ever.  *)
(***************************************************************************)
GetLeastv2Agrees ==
    \A k \in Key :
       GetLeastv2wip(ring, k) \in IF GetLeast(ring, k) = Spin THEN ring.members
                                                      ELSE {GetLeast(ring, k)}

(* How far clockwise of the key its walk meets the first virtual node of h. *)
Clockwise(k, p) ==
    IF p >= KHash[k] THEN p - KHash[k] ELSE p - KHash[k] + Max(Point) + 1
Nearest(k, h) == Min({Clockwise(k, p) : p \in VNodes(h, Replicas)})

MR == INSTANCE MemberRing WITH
         Rank <- [k \in Key |-> [h \in Host |-> Nearest(k, h)]]

(***************************************************************************)
(* Which host a key gets depends on members and loads alone: Get and       *)
(* GetLeast, which walk a slice by index and wrap at the length of another *)
(* structure, meet the hosts in the fixed clockwise order of the key.      *)
(***************************************************************************)
MemberRingAgrees ==
    \A k \in Key : /\ Get(ring, k) = MR!Owner(ring, k)
                   /\ GetLeast(ring, k) = MR!LeastLoaded(ring, k)

(* The abstract assignment this ring implements, with Get as the owner. *)
Asg == INSTANCE Assignment WITH
          None <- ErrNoHosts,
          members <- ring.members,
          owner <- [k \in Key |-> Get(ring, k)]

(***************************************************************************)
(* The ring implements Assignment: adding a host moves keys only to it,    *)
(* removing one moves only the keys it owned, and load never moves a key   *)
(* that Get looks up.                                                      *)
(***************************************************************************)
AssignmentSpec == Asg!Spec
===============================================================================
