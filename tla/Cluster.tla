------------------------------- MODULE Cluster --------------------------------
(***************************************************************************)
(* Several nodes, each with a node pool and a driver, sharing one Redis.   *)
(* Both drivers of package driver are modelled: RedisDriver keeps a key    *)
(* with a time to live per node, RedisZSetDriver a member of a sorted set  *)
(* scored with the time of its last heartbeat. The pool of a node is its   *)
(* StableView: the hosts it spreads keys over, and whether it is steady.   *)
(*                                                                         *)
(* Time is discrete; D units are the pool's updateDuration, which is also  *)
(* the driver's timeout. A ticker of D units polls GetNodes, a ticker of   *)
(* D / 2 units sends heartbeats. Time moves on only when no running node   *)
(* has a ticker due, so steps of one unit happen in any order.             *)
(***************************************************************************)
EXTENDS Integers, FiniteSets

CONSTANTS
    Node, Key,
    Rank,           \* Rank[k][<<n, g>>]: how far k is from the host on the ring
    DriverKind,     \* subset of {"redis", "zset"}
    D,              \* updateDuration in units of time, even
    MaxGen,         \* how often a node can take a new id
    MaxEvents,      \* bound: starts, stops and crashes; each costs at most one id
    MaxCuts         \* bound: connections lost; each costs at most one id

ASSUME ClusterAssumption ==
    /\ DriverKind \subseteq {"redis", "zset"}
    /\ D \in Nat \ {0} /\ D % 2 = 0 /\ MaxEvents \in Nat
    /\ MaxCuts \in Nat /\ MaxGen \in Nat /\ MaxGen >= MaxCuts + MaxEvents

Host == Node \X (0 .. MaxGen)   \* node ids: GetNodeId makes a new uuid

(* Every key meets the hosts one after the other: no two points collide. *)
ASSUME RankAssumption ==
    /\ Rank \in [Key -> [Host -> Nat]]
    /\ \A k \in Key, g, h \in Host : Rank[k][g] = Rank[k][h] => g = h

VARIABLES
    driver,     \* the kind of driver the cluster uses
    ttl,        \* ttl[h]: how long Redis will list h without a heartbeat
    node,       \* node[n]: the process on n
    cut,        \* nodes that cannot reach Redis
    events,     \* starts, stops and crashes so far
    cuts        \* connections lost so far

vars == <<driver, ttl, node, cut, events, cuts>>

NodeState ==
    [run    : {"off", "starting", "joining", "up", "stopped", "down"},
     old    : BOOLEAN,              \* a stopped heartbeat has still to end
     gen    : 0 .. MaxGen,          \* rd.nodeID is <<n, gen>>
     id     : 0 .. MaxGen,          \* np.nodeID is <<n, id>>, read once by Start
     beat   : {"sleep", "set"},     \* the heartbeat, between Exists and SetEx
     hb     : 0 .. D \div 2,        \* time to the next heartbeat
     poll   : 0 .. D,               \* time to the next GetNodes
     pre    : SUBSET Host,          \* np.preNodes, the last list
     view   : SUBSET Host,          \* the members of the ring
     steady : BOOLEAN]

(* Type invariant of Redis and of the processes. *)
TypeOK ==
    /\ driver \in DriverKind
    /\ ttl \in [Host -> 0 .. D + 1]
    /\ node \in [Node -> NodeState]
    /\ cut \in SUBSET Node
    /\ events \in 0 .. MaxEvents
    /\ cuts \in 0 .. MaxCuts

Init ==
    /\ driver \in DriverKind
    /\ ttl = [h \in Host |-> 0]
    /\ node = [n \in Node |->
                 [run |-> "off", old |-> FALSE, gen |-> 0, id |-> 0,
                  beat |-> "sleep", hb |-> 0, poll |-> 0, pre |-> {},
                  view |-> {}, steady |-> FALSE]]
    /\ cut = {}
    /\ events = 0
    /\ cuts = 0

Budget == events < MaxEvents /\ events' = events + 1

-------------------------------------------------------------------------------
(* Redis, as the drivers use it *)

Listed == {h \in Host : ttl[h] > 0}

(***************************************************************************)
(* A key set with SETEX is gone after D; ZRANGEBYSCORE from now - D still  *)
(* finds a score that is D old.                                            *)
(***************************************************************************)
Lifetime == IF driver = "redis" THEN D ELSE D + 1

Expire == [h \in Host |-> IF ttl[h] > 0 THEN ttl[h] - 1 ELSE 0]

-------------------------------------------------------------------------------
(* Pool *)

(* Mutant: a change of the list does not make the pool unsteady. *)
ObservedAtOnce(s, list) == [s EXCEPT !.view = list, !.pre = list, !.steady = TRUE]

(* Mutant: a second equal list does not make the pool steady again. *)
ObservedNoReturn(s, list) ==
    [s EXCEPT !.view = list, !.pre = list, !.steady = s.steady /\ list = s.pre]

(***************************************************************************)
(* updateHashRing: what the list has lost or gained since the last one     *)
(* leaves or enters the ring; steady when the list is the last one.        *)
(***************************************************************************)
Observed(s, list) ==
    [s EXCEPT !.view = (s.view \ (s.pre \ list)) \cup list,
              !.pre = list, !.steady = (list = s.pre)]

(***************************************************************************)
(* Start: the driver registers the node (the key of the id made by Init    *)
(* does not exist yet) and starts its heartbeat, the pool reads the id,    *)
(* takes its first list and starts its ticker.                             *)
(***************************************************************************)
Registered(n) ==
    /\ n \notin cut
    /\ ttl' = [ttl EXCEPT ![<<n, node[n].gen>>] = Lifetime]
    /\ node' = [node EXCEPT ![n].run = "joining", ![n].hb = D \div 2]
    /\ UNCHANGED <<driver, cut, cuts>>

Register(n) == node[n].run = "off" /\ Budget /\ Registered(n)

(***************************************************************************)
(* Start after Stop: RedisDriver takes a new id when the key of its id is  *)
(* gone, which the old heartbeat may have deleted, or may delete later.    *)
(* A heartbeat that is between Exists and SetEx meanwhile is left out.     *)
(***************************************************************************)
Restart(n) ==
    /\ node[n].run = "stopped" /\ node[n].beat = "sleep" /\ n \notin cut /\ Budget
    /\ node' = [node EXCEPT ![n].run = "starting",
                   ![n].gen = IF driver = "redis" /\ ttl[<<n, @>>] = 0 THEN @ + 1 ELSE @]
    /\ UNCHANGED <<driver, ttl, cut, cuts>>

RestartSet(n) == node[n].run = "starting" /\ UNCHANGED events /\ Registered(n)

FirstPoll(n) ==
    /\ node[n].run = "joining" /\ n \notin cut
    /\ node' = [node EXCEPT ![n] =
                  [Observed(@, Listed) EXCEPT !.run = "up", !.id = node[n].gen,
                                              !.poll = D]]
    /\ UNCHANGED <<driver, ttl, cut, events, cuts>>

(***************************************************************************)
(* A tick of waitingForHashRing. The scan of RedisDriver drops the error   *)
(* of its iterator, so that a node that cannot reach Redis is given an     *)
(* empty list; RedisZSetDriver returns the error, and nothing changes.     *)
(***************************************************************************)
Poll(n) ==
    /\ node[n].run = "up" /\ node[n].poll = 0
    /\ LET s == [node[n] EXCEPT !.poll = D] IN
       node' = [node EXCEPT ![n] =
                  IF n \notin cut THEN Observed(s, Listed)
                  ELSE IF driver = "redis" THEN Observed(s, {}) ELSE s]
    /\ UNCHANGED <<driver, ttl, cut, events, cuts>>

-------------------------------------------------------------------------------
(* Driver *)

Running(n) == node[n].run \in {"joining", "up"}
BeatDue(n) == Running(n) /\ node[n].beat = "sleep" /\ node[n].hb = 0

(* registerServiceNode fails, which the heartbeat only logs. *)
BeatFails(n) ==
    /\ BeatDue(n) /\ n \in cut
    /\ node' = [node EXCEPT ![n].hb = D \div 2]
    /\ UNCHANGED <<driver, ttl, cut, events, cuts>>

(* Mutant: a new id with every heartbeat. *)
BeatExistsAlways(n) ==
    /\ driver = "redis" /\ BeatDue(n) /\ n \notin cut
    /\ node' = [node EXCEPT ![n].beat = "set", ![n].gen = @ + 1]
    /\ UNCHANGED <<driver, ttl, cut, events, cuts>>

(***************************************************************************)
(* RedisDriver.registerServiceNode first asks whether its key exists; when *)
(* it does not, the node takes a new id.                                   *)
(***************************************************************************)
BeatExists(n) ==
    /\ driver = "redis" /\ BeatDue(n) /\ n \notin cut
    /\ \/ ttl[<<n, node[n].gen>>] > 0 /\ node' = [node EXCEPT ![n].beat = "set"]
       \/ /\ ttl[<<n, node[n].gen>>] = 0
          /\ node' = [node EXCEPT ![n].beat = "set", ![n].gen = @ + 1]
    /\ UNCHANGED <<driver, ttl, cut, events, cuts>>

(* SetEx, with the id the node has now, or an error. *)
BeatSet(n) ==
    /\ node[n].beat = "set"
    /\ ttl' = IF n \in cut THEN ttl
                           ELSE [ttl EXCEPT ![<<n, node[n].gen>>] = Lifetime]
    /\ node' = [node EXCEPT ![n].beat = "sleep", ![n].hb = D \div 2]
    /\ UNCHANGED <<driver, cut, events, cuts>>

(* RedisZSetDriver.registerServiceNode is one ZADD under a fixed id. *)
BeatZAdd(n) ==
    /\ driver = "zset" /\ BeatDue(n) /\ n \notin cut
    /\ ttl' = [ttl EXCEPT ![<<n, node[n].gen>>] = Lifetime]
    /\ node' = [node EXCEPT ![n].hb = D \div 2]
    /\ UNCHANGED <<driver, cut, events, cuts>>

(* Stop: the pool forgets its last list, the heartbeat is told to end. *)
Leave(n) ==
    /\ node[n].run = "up" /\ Budget
    /\ node' = [node EXCEPT ![n].run = "stopped", ![n].old = TRUE, ![n].pre = {}]
    /\ UNCHANGED <<driver, ttl, cut, cuts>>

(***************************************************************************)
(* The stopped heartbeat ends, not before a heartbeat it is in: it deletes *)
(* the key named by the node id of that moment, which unregisters a        *)
(* RedisDriver that can reach Redis, restarted or not. The member a        *)
(* RedisZSetDriver has in the sorted set stays until its score is too old. *)
(***************************************************************************)
Unregister(n) ==
    /\ node[n].old /\ (node[n].run = "stopped" => node[n].beat = "sleep")
    /\ node' = [node EXCEPT ![n].old = FALSE]
    /\ ttl' = IF driver = "redis" /\ n \notin cut
              THEN [ttl EXCEPT ![<<n, node[n].gen>>] = 0] ELSE ttl
    /\ UNCHANGED <<driver, cut, events, cuts>>

-------------------------------------------------------------------------------
(* Environment *)

Crash(n) ==
    /\ Running(n) /\ Budget
    /\ node' = [node EXCEPT ![n].run = "down", ![n].beat = "sleep",
                            ![n].old = FALSE]
    /\ UNCHANGED <<driver, ttl, cut, cuts>>

Disconnect(n) ==
    /\ node[n].run = "up" /\ n \notin cut
    /\ cuts < MaxCuts /\ cuts' = cuts + 1
    /\ cut' = cut \cup {n}
    /\ UNCHANGED <<driver, ttl, node, events>>

Reconnect(n) ==
    /\ n \in cut
    /\ cut' = cut \ {n}
    /\ UNCHANGED <<driver, ttl, node, events, cuts>>

(* No ticker is due and no heartbeat, start or stop is half done. *)
Quiet ==
    \A n \in Node : /\ node[n].run \notin {"starting", "joining"}
                    /\ ~node[n].old
                    /\ node[n].beat = "sleep"
                    /\ Running(n) => node[n].hb > 0 /\ node[n].poll > 0

Tick ==
    /\ Quiet
    /\ ttl' = Expire
    /\ node' = [n \in Node |-> IF Running(n) THEN [node[n] EXCEPT !.hb = @ - 1,
                                                                 !.poll = @ - 1]
                                             ELSE node[n]]
    /\ UNCHANGED <<driver, cut, events, cuts>>

-------------------------------------------------------------------------------
NodeNext(n) == \/ RestartSet(n) \/ FirstPoll(n) \/ Poll(n)
               \/ BeatFails(n) \/ BeatExists(n) \/ BeatSet(n) \/ BeatZAdd(n)
               \/ Unregister(n)

Next == \/ \E n \in Node : NodeNext(n)
        \/ \E n \in Node : \/ Register(n) \/ Leave(n) \/ Restart(n) \/ Crash(n)
                           \/ Disconnect(n) \/ Reconnect(n)
        \/ Tick

Spec == Init /\ [][Next]_vars

(***************************************************************************)
(* Fairness: time passes, the goroutines of a running node take their      *)
(* steps, and a lost connection comes back.                                *)
(***************************************************************************)
FairSpec == /\ Spec
            /\ WF_vars(Tick)
            /\ \A n \in Node : WF_vars(NodeNext(n)) /\ WF_vars(Reconnect(n))

-------------------------------------------------------------------------------
Owner(S, k) == CHOOSE h \in S : \A g \in S : Rank[k][h] <= Rank[k][g]

(***************************************************************************)
(* IsEligible(k) on node n. A stopped pool goes on answering, from the     *)
(* state and the ring that Stop leaves. Before the first Start np.nodeID   *)
(* and the host that GetHost gives are both "": the answer is true.        *)
(***************************************************************************)
Eligible(n, k) ==
    \/ node[n].run = "off"
    \/ /\ node[n].steady
       /\ node[n].view # {}
       /\ Owner(node[n].view, k) = <<n, node[n].id>>

(***************************************************************************)
(* The nodes that run the jobs of key k: a Dcron asks its pool only from   *)
(* activations, which come after Start of the pool and end with its Stop.  *)
(***************************************************************************)
Up == {n \in Node : node[n].run = "up"}
Servers(k) == {n \in Up : Eligible(n, k)}

(* The ring of n has no member that the last list did not name. *)
Clean(n) == node[n].view = node[n].pre

(***************************************************************************)
(* Two nodes never both serve a key for as long as a unit of time, while   *)
(* nodes join, leave, crash, restart and, with RedisDriver, lose their     *)
(* connection: waiting for a second equal list is enough to fence off the  *)
(* old owner, unless a ring still has members of before a restart.         *)
(***************************************************************************)
OneServerPerKey ==
    Quiet /\ (driver = "zset" => cuts = 0) =>
       \A k \in Key : Cardinality({n \in Servers(k) : Clean(n)}) <= 1

(***************************************************************************)
(* Once nodes stop coming and going, every key is served by exactly one    *)
(* running node.                                                           *)
(***************************************************************************)
EveryKeyServed ==
    <>[](Up # {} => \A k \in Key : Cardinality(Servers(k)) = 1)

(***************************************************************************)
(* The same, for clusters in which every pool knows its node under the id  *)
(* the driver registers, and has no member in its ring that its last list  *)
(* did not name.                                                           *)
(***************************************************************************)
SameIds == \A n \in Up : node[n].gen = node[n].id
NoGhosts == \A n \in Up : Clean(n)
KeysServedUnderSameIds ==
    <>[](Up # {} /\ SameIds /\ NoGhosts =>
            \A k \in Key : Cardinality(Servers(k)) = 1)
===============================================================================
