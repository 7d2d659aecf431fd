---------------------------- MODULE Cluster_proofs ----------------------------
(***************************************************************************)
(* Proofs about Cluster: for any nodes, keys, period and bounds, nodes     *)
(* that join, leave, restart, crash and lose their connection.             *)
(***************************************************************************)
EXTENDS Cluster, Induction

-------------------------------------------------------------------------------
(* The inductive invariant *)

Half == D \div 2

(* The host under which the pool of n knows its node, and whether it is listed. *)
Own(n) == <<n, node[n].id>>
Live(n) == ttl[Own(n)] > 0

(* The condition of OneServerPerKey that lasts. *)
Fenced == driver = "zset" => cuts = 0

(* The key of n will not expire before the next heartbeat. *)
Healthy(n) == ttl[<<n, node[n].gen>>] >= node[n].hb + Half

(* n may need another id without a start, stop, crash or lost connection. *)
Charged(n) ==
    \/ node[n].old
    \/ Running(n) /\ (n \in cut \/ (node[n].beat = "sleep" /\ ~Healthy(n)))

IdsOK(n) ==
    /\ node[n].gen <= cuts + events
    /\ Charged(n) => node[n].gen < cuts + events

(* What the steps of one node keep, between its start and its end. *)
StartOK(n) ==
    /\ node[n].run \in {"off", "starting", "joining", "stopped"} => node[n].pre = {}
    /\ node[n].run \in {"off", "starting", "joining", "down"} => node[n].beat = "sleep"
    /\ node[n].run \in {"off", "down"} => ~node[n].old
    /\ node[n].run = "joining" => node[n].hb = Half
    /\ node[n].old /\ Running(n) => node[n].hb = Half /\ node[n].beat = "sleep"
    /\ node[n].old /\ node[n].run = "up" =>
          node[n].poll = D /\ (node[n].steady => node[n].pre = {})

(* Once the key of a running node is gone, no heartbeat sets it again. *)
KeyOK(n) ==
    /\ node[n].id <= node[n].gen
    /\ node[n].run = "up" /\ node[n].beat = "set" /\ node[n].gen = node[n].id => Live(n)
    /\ driver = "zset" => node[n].gen = 0 /\ node[n].id = 0 /\ node[n].beat = "sleep"
    /\ driver = "zset" /\ cuts = 0 /\ Running(n) => ttl[<<n, 0>>] > node[n].hb + Half
    /\ /\ Fenced /\ node[n].run = "up" /\ node[n].poll = D
       /\ node[n].steady /\ Own(n) \in node[n].pre
       => Live(n)

Local(n) == IdsOK(n) /\ StartOK(n) /\ KeyOK(n)

(***************************************************************************)
(* When the last list of n named n and not m, although that of m named m:  *)
(* n is due to look again, or m has not looked twice yet and will not do   *)
(* so before n, or m is gone from Redis since and n has just found out.    *)
(***************************************************************************)
Pair(m, n) ==
    /\ Fenced /\ m # n /\ node[m].run = "up" /\ node[n].run = "up"
    /\ Own(m) \in node[m].pre /\ Own(n) \in node[n].pre /\ Own(m) \notin node[n].pre
    => \/ node[n].poll = 0 /\ node[m].poll = D
       \/ ~node[m].steady /\ (Live(m) => node[n].poll <= node[m].poll)
       \/ ~Live(m) /\ ~node[n].steady /\ node[n].poll > node[m].poll

IInv ==
    /\ TypeOK
    /\ cuts = 0 => cut = {}
    /\ \A n \in Node : Local(n)
    /\ \A m, n \in Node : Pair(m, n)

-------------------------------------------------------------------------------
(* Operators *)

LEMMA HalfIs == /\ Half \in Nat /\ Half > 0 /\ Half + Half = D /\ D \in Nat
                /\ Half \in 0 .. D \div 2
  BY ClusterAssumption DEF Half

LEMMA LifetimeIs ==
  Lifetime \in {D, D + 1} /\ Lifetime \in 1 .. D + 1 /\ (driver = "zset" => Lifetime = D + 1)
  BY HalfIs DEF Lifetime

LEMMA NodeType ==
  ASSUME TypeOK, NEW n \in Node
  PROVE  /\ node[n] \in NodeState
         /\ node[n].run \in {"off", "starting", "joining", "up", "stopped", "down"}
         /\ node[n].old \in BOOLEAN /\ node[n].steady \in BOOLEAN
         /\ node[n].gen \in 0 .. MaxGen /\ node[n].id \in 0 .. MaxGen
         /\ node[n].beat \in {"sleep", "set"}
         /\ node[n].hb \in 0 .. Half /\ node[n].poll \in 0 .. D
         /\ node[n].pre \in SUBSET Host /\ node[n].view \in SUBSET Host
  BY DEF TypeOK, NodeState, Half

(* A step of one node. *)
LEMMA NodeSet ==
  ASSUME TypeOK, NEW n \in Node, NEW r \in NodeState, node' = [node EXCEPT ![n] = r]
  PROVE  /\ node' \in [Node -> NodeState] /\ node'[n] = r
         /\ \A d \in Node : d # n => node'[d] = node[d]
  BY DEF TypeOK

LEMMA TtlSet ==
  ASSUME TypeOK, NEW n \in Node, NEW g \in 0 .. MaxGen, NEW v \in 0 .. D + 1,
         ttl' = [ttl EXCEPT ![<<n, g>>] = v]
  PROVE  /\ ttl' \in [Host -> 0 .. D + 1] /\ ttl'[<<n, g>>] = v
         /\ \A d \in Node, x \in 0 .. MaxGen : d # n \/ x # g => ttl'[<<d, x>>] = ttl[<<d, x>>]
<1>1. <<n, g>> \in Host /\ ttl \in [Host -> 0 .. D + 1]
  BY DEF Host, TypeOK
<1>2. \A d \in Node, x \in 0 .. MaxGen : <<d, x>> \in Host
  BY DEF Host
<1>. QED BY <1>1, <1>2

LEMMA ObservedIs ==
  ASSUME NEW s \in NodeState, NEW list \in SUBSET Host
  PROVE  /\ Observed(s, list) \in NodeState
         /\ Observed(s, list).run = s.run /\ Observed(s, list).old = s.old
         /\ Observed(s, list).gen = s.gen /\ Observed(s, list).id = s.id
         /\ Observed(s, list).beat = s.beat /\ Observed(s, list).hb = s.hb
         /\ Observed(s, list).poll = s.poll /\ Observed(s, list).pre = list
         /\ Observed(s, list).steady = (list = s.pre)
<1>1. (s.view \ (s.pre \ list)) \cup list \in SUBSET Host
  BY DEF NodeState
<1>2. (list = s.pre) \in BOOLEAN
  BY Zenon
<1>. QED BY <1>1, <1>2 DEF Observed, NodeState

-------------------------------------------------------------------------------
(* Frames *)

(* What a step of n leaves to the others. *)
Only(n) ==
    /\ driver' = driver /\ cuts' \in {cuts, cuts + 1} /\ events' \in {events, events + 1}
    /\ \A d \in Node : d # n =>
          /\ node'[d] = node[d] /\ (d \in cut' <=> d \in cut)
          /\ \A g \in 0 .. MaxGen : ttl'[<<d, g>>] = ttl[<<d, g>>]

LEMMA LocalFrame ==
  ASSUME IInv, NEW n \in Node, Only(n), NEW d \in Node, d # n
  PROVE  Local(d)' /\ (Live(d)' <=> Live(d)) /\ Own(d)' = Own(d)
<1>1. /\ node'[d] = node[d] /\ (d \in cut' <=> d \in cut) /\ driver' = driver
      /\ \A g \in 0 .. MaxGen : ttl'[<<d, g>>] = ttl[<<d, g>>]
  BY DEF Only
<1>2. cuts \in Nat /\ events \in Nat /\ cuts' \in Nat /\ events' \in Nat
      /\ cuts + events <= cuts' + events' /\ (cuts' = 0 => cuts = 0)
  <2>1. cuts \in Nat /\ events \in Nat
    BY ClusterAssumption DEF IInv, TypeOK
  <2>2. (cuts' = cuts \/ cuts' = cuts + 1) /\ (events' = events \/ events' = events + 1)
    BY DEF Only
  <2>3. cuts' \in Nat /\ cuts <= cuts' /\ events' \in Nat /\ events <= events'
    BY <2>1, <2>2
  <2>4. \A a, b, x, y \in Nat : a <= x /\ b <= y => a + b <= x + y
    OBVIOUS
  <2>5. cuts + events <= cuts' + events'
    BY <2>1, <2>3, <2>4
  <2>6. cuts' = 0 => cuts = 0
    BY <2>1, <2>2
  <2>. QED BY <2>1, <2>3, <2>5, <2>6
<1>3. node[d].gen \in 0 .. MaxGen /\ node[d].id \in 0 .. MaxGen /\ MaxGen \in Nat
  BY NodeType, ClusterAssumption DEF IInv
<1>4. Own(d)' = Own(d) /\ (Live(d)' <=> Live(d)) /\ (Healthy(d)' <=> Healthy(d))
      /\ ttl'[<<d, node[d].gen>>] = ttl[<<d, node[d].gen>>] /\ ttl'[<<d, 0>>] = ttl[<<d, 0>>]
  BY <1>1, <1>3 DEF Own, Live, Healthy
<1>5. IdsOK(d) /\ StartOK(d) /\ KeyOK(d)
  BY DEF IInv, Local
<1>6. (Charged(d)' <=> Charged(d)) /\ (Running(d)' <=> Running(d))
  BY <1>1, <1>4 DEF Charged, Running
<1>7. IdsOK(d)'
  BY <1>1, <1>2, <1>3, <1>5, <1>6 DEF IdsOK
<1>8. StartOK(d)'
  BY <1>1, <1>5, <1>6 DEF StartOK
<1>9. KeyOK(d)'
  BY <1>1, <1>2, <1>4, <1>5, <1>6 DEF KeyOK, Fenced
<1>. QED BY <1>4, <1>7, <1>8, <1>9 DEF Local

(* A step that changes what no pool has seen, and lists no node again. *)
Calm(d) ==
    node'[d].run = "up" /\ Fenced' =>
       /\ node[d].run = "up" /\ node'[d].id = node[d].id /\ node'[d].poll = node[d].poll
       /\ node'[d].pre = node[d].pre /\ node'[d].steady = node[d].steady
       /\ Live(d)' => Live(d)

LEMMA CalmPairs ==
  ASSUME IInv, NEW n \in Node, Only(n), Calm(n)
  PROVE  \A d, e \in Node : Pair(d, e)'
<1>1. \A d \in Node : Calm(d)
  BY LocalFrame DEF Calm, Only
<1>2. Fenced' => Fenced
  BY DEF Only, Fenced, IInv, TypeOK
<1>. SUFFICES ASSUME NEW d \in Node, NEW e \in Node PROVE Pair(d, e)'
  OBVIOUS
<1>3. Pair(d, e) /\ Calm(d) /\ Calm(e)
  BY <1>1 DEF IInv
<1>. QED BY <1>2, <1>3 DEF Pair, Calm, Own

(* A step of n that is Calm and keeps the invariant of n. *)
LEMMA CalmStep ==
  ASSUME IInv, NEW n \in Node, Only(n), Calm(n), TypeOK', Local(n)', cuts' = 0 => cut' = {}
  PROVE  IInv'
<1>1. \A d \in Node : Local(d)'
  BY LocalFrame
<1>. QED BY <1>1, CalmPairs DEF IInv

-------------------------------------------------------------------------------
(* Steps that no pool sees *)

LEMMA RegisteredInv ==
  ASSUME IInv, NEW n \in Node, node[n].run \in {"off", "starting"}, Registered(n),
         events' \in {events, events + 1}, events' \in 0 .. MaxEvents
  PROVE  IInv'
<1>1. /\ n \notin cut /\ ttl' = [ttl EXCEPT ![<<n, node[n].gen>>] = Lifetime]
      /\ node' = [node EXCEPT ![n].run = "joining", ![n].hb = Half]
      /\ UNCHANGED <<driver, cut, cuts>>
  BY DEF Registered, Half
<1>2. PICK r \in NodeState :
        /\ node' = [node EXCEPT ![n] = r]
        /\ r.run = "joining" /\ r.hb = Half /\ r.old = node[n].old /\ r.gen = node[n].gen
        /\ r.id = node[n].id /\ r.beat = node[n].beat /\ r.pre = node[n].pre
  <2>. DEFINE r == [node[n] EXCEPT !.run = "joining", !.hb = Half]
  <2>1. r \in NodeState
    BY NodeType, HalfIs DEF IInv, NodeState
  <2>2. /\ r.run = "joining" /\ r.hb = Half /\ r.old = node[n].old /\ r.gen = node[n].gen
        /\ r.id = node[n].id /\ r.beat = node[n].beat /\ r.pre = node[n].pre
    BY NodeType DEF IInv, NodeState
  <2>3. node' = [node EXCEPT ![n] = r]
    BY <1>1 DEF IInv, TypeOK
  <2>. HIDE DEF r
  <2>. QED BY <2>1, <2>2, <2>3
<1>3. /\ node' \in [Node -> NodeState] /\ node'[n] = r
      /\ \A d \in Node : d # n => node'[d] = node[d]
  BY <1>2, NodeSet DEF IInv
<1>4. /\ ttl' \in [Host -> 0 .. D + 1] /\ ttl'[<<n, node[n].gen>>] = Lifetime
      /\ \A d \in Node, x \in 0 .. MaxGen :
            d # n \/ x # node[n].gen => ttl'[<<d, x>>] = ttl[<<d, x>>]
  <2>1. node[n].gen \in 0 .. MaxGen /\ Lifetime \in 0 .. D + 1 /\ TypeOK
    BY LifetimeIs, NodeType, HalfIs DEF IInv
  <2>. QED BY <1>1, <2>1, TtlSet
<1>5. TypeOK' /\ Only(n) /\ Calm(n) /\ (cuts' = 0 => cut' = {})
  BY <1>1, <1>2, <1>3, <1>4 DEF IInv, TypeOK, Only, Calm
<1>6. IdsOK(n) /\ StartOK(n) /\ KeyOK(n)
  BY DEF IInv, Local
<1>7. StartOK(n)'
  BY <1>2, <1>3, <1>6 DEF StartOK, Running
<1>8. KeyOK(n)'
  BY <1>1, <1>2, <1>3, <1>4, <1>6, HalfIs, LifetimeIs DEF KeyOK, Running
<1>9. IdsOK(n)'
  <2>1. Healthy(n)'
    BY <1>2, <1>3, <1>4, HalfIs, LifetimeIs DEF Healthy
  <2>2. Charged(n)' => Charged(n)
    BY <1>1, <1>2, <1>3, <2>1 DEF Charged
  <2>3. cuts \in Nat /\ events \in Nat /\ node[n].gen \in Nat
    BY NodeType, ClusterAssumption DEF IInv, TypeOK
  <2>. QED BY <1>1, <1>2, <1>3, <1>6, <2>2, <2>3 DEF IdsOK
<1>. QED BY <1>5, <1>7, <1>8, <1>9, CalmStep DEF Local

LEMMA RestartInv ==
  ASSUME IInv, NEW n \in Node, Restart(n)
  PROVE  IInv'
<1>. DEFINE new == IF driver = "redis" /\ ttl[<<n, node[n].gen>>] = 0
                   THEN node[n].gen + 1 ELSE node[n].gen
<1>1. /\ node[n].run = "stopped" /\ node[n].beat = "sleep"
      /\ events < MaxEvents /\ events' = events + 1
      /\ node' = [node EXCEPT ![n].run = "starting", ![n].gen = new]
      /\ UNCHANGED <<driver, ttl, cut, cuts>>
  BY DEF Restart, Budget
<1>2. IdsOK(n) /\ StartOK(n) /\ KeyOK(n)
  BY DEF IInv, Local
<1>3. cuts \in 0 .. MaxCuts /\ events \in 0 .. MaxEvents /\ node[n].gen \in 0 .. MaxGen
  BY NodeType DEF IInv, TypeOK
<1>4. new \in {node[n].gen, node[n].gen + 1} /\ (driver = "zset" => new = node[n].gen)
  OBVIOUS
<1>. HIDE DEF new
<1>5. new \in 0 .. MaxGen
  BY <1>1, <1>2, <1>3, <1>4, ClusterAssumption DEF IdsOK
<1>6. PICK r \in NodeState :
        /\ node' = [node EXCEPT ![n] = r]
        /\ r.run = "starting" /\ r.gen = new /\ r.old = node[n].old
        /\ r.id = node[n].id /\ r.beat = node[n].beat /\ r.pre = node[n].pre
  <2>. DEFINE r == [node[n] EXCEPT !.run = "starting", !.gen = new]
  <2>1. r \in NodeState
    BY <1>5, NodeType DEF IInv, NodeState
  <2>2. /\ r.run = "starting" /\ r.gen = new /\ r.old = node[n].old
        /\ r.id = node[n].id /\ r.beat = node[n].beat /\ r.pre = node[n].pre
    BY NodeType DEF IInv, NodeState
  <2>3. node' = [node EXCEPT ![n] = r]
    BY <1>1 DEF IInv, TypeOK
  <2>. HIDE DEF r
  <2>. QED BY <2>1, <2>2, <2>3
<1>7. /\ node' \in [Node -> NodeState] /\ node'[n] = r
      /\ \A d \in Node : d # n => node'[d] = node[d]
  BY <1>6, NodeSet DEF IInv
<1>8. TypeOK' /\ Only(n) /\ Calm(n) /\ (cuts' = 0 => cut' = {})
  BY <1>1, <1>3, <1>6, <1>7, ClusterAssumption DEF IInv, TypeOK, Only, Calm
<1>9. StartOK(n)'
  BY <1>1, <1>2, <1>6, <1>7 DEF StartOK, Running
<1>10. KeyOK(n)'
  <2>1. node[n].id \in Nat /\ node[n].gen \in Nat /\ new \in Nat /\ node[n].gen <= new
    BY <1>3, <1>4, NodeType DEF IInv
  <2>. QED BY <1>1, <1>2, <1>4, <1>6, <1>7, <2>1 DEF KeyOK, Running
<1>11. IdsOK(n)'
  <2>1. Charged(n)' => Charged(n)
    BY <1>6, <1>7 DEF Charged, Running
  <2>. QED BY <1>1, <1>2, <1>3, <1>4, <1>6, <1>7, <2>1, ClusterAssumption DEF IdsOK
<1>. QED BY <1>8, <1>9, <1>10, <1>11, CalmStep DEF Local

(* A heartbeat that fails or has found out whether its key exists. *)
LEMMA BeatInv ==
  ASSUME IInv, NEW n \in Node, BeatFails(n) \/ BeatExists(n)
  PROVE  IInv'
<1>1. /\ Running(n) /\ node[n].beat = "sleep" /\ node[n].hb = 0
      /\ UNCHANGED <<driver, ttl, cut, events, cuts>>
  BY DEF BeatFails, BeatExists, BeatDue
<1>2. IdsOK(n) /\ StartOK(n) /\ KeyOK(n)
  BY DEF IInv, Local
<1>3. cuts \in 0 .. MaxCuts /\ events \in 0 .. MaxEvents /\ node[n].gen \in 0 .. MaxGen
  BY NodeType DEF IInv, TypeOK
<1>4. node[n].run = "up" /\ ~node[n].old
  BY <1>1, <1>2, HalfIs DEF StartOK, Running
<1>5. PICK r \in NodeState :
        /\ node' = [node EXCEPT ![n] = r]
        /\ r.run = node[n].run /\ r.old = node[n].old /\ r.id = node[n].id
        /\ r.poll = node[n].poll /\ r.pre = node[n].pre /\ r.steady = node[n].steady
        /\ \/ n \in cut /\ r.beat = "sleep" /\ r.gen = node[n].gen /\ r.hb = Half
           \/ /\ n \notin cut /\ r.beat = "set" /\ driver = "redis" /\ r.hb = 0
              /\ \/ ttl[<<n, node[n].gen>>] > 0 /\ r.gen = node[n].gen
                 \/ ttl[<<n, node[n].gen>>] = 0 /\ r.gen = node[n].gen + 1
  <2>1. CASE n \in cut /\ node' = [node EXCEPT ![n].hb = Half]
    <3>. DEFINE r == [node[n] EXCEPT !.hb = Half]
    <3>1. r \in NodeState
      BY NodeType, HalfIs DEF IInv, NodeState
    <3>2. /\ r.run = node[n].run /\ r.old = node[n].old /\ r.id = node[n].id
          /\ r.poll = node[n].poll /\ r.pre = node[n].pre /\ r.steady = node[n].steady
          /\ r.beat = "sleep" /\ r.gen = node[n].gen /\ r.hb = Half
      BY <1>1, NodeType DEF IInv, NodeState
    <3>3. node' = [node EXCEPT ![n] = r]
      BY <2>1 DEF IInv, TypeOK
    <3>. HIDE DEF r
    <3>. QED BY <2>1, <3>1, <3>2, <3>3
  <2>2. CASE /\ driver = "redis" /\ n \notin cut /\ ttl[<<n, node[n].gen>>] > 0
             /\ node' = [node EXCEPT ![n].beat = "set"]
    <3>. DEFINE r == [node[n] EXCEPT !.beat = "set"]
    <3>1. r \in NodeState
      BY NodeType DEF IInv, NodeState
    <3>2. /\ r.run = node[n].run /\ r.old = node[n].old /\ r.id = node[n].id
          /\ r.poll = node[n].poll /\ r.pre = node[n].pre /\ r.steady = node[n].steady
          /\ r.beat = "set" /\ r.gen = node[n].gen /\ r.hb = 0
      BY <1>1, NodeType DEF IInv, NodeState
    <3>3. node' = [node EXCEPT ![n] = r]
      BY <2>2 DEF IInv, TypeOK
    <3>. HIDE DEF r
    <3>. QED BY <2>2, <3>1, <3>2, <3>3
  <2>3. CASE /\ driver = "redis" /\ n \notin cut /\ ttl[<<n, node[n].gen>>] = 0
             /\ node' = [node EXCEPT ![n].beat = "set", ![n].gen = @ + 1]
    <3>. DEFINE r == [node[n] EXCEPT !.beat = "set", !.gen = @ + 1]
    <3>1. ~Healthy(n)
      BY <1>1, <2>3, HalfIs DEF Healthy
    <3>2. node[n].gen + 1 \in 0 .. MaxGen
      BY <1>1, <1>2, <1>3, <3>1, ClusterAssumption DEF IdsOK, Charged
    <3>3. r \in NodeState
      BY <3>2, NodeType DEF IInv, NodeState
    <3>4. /\ r.run = node[n].run /\ r.old = node[n].old /\ r.id = node[n].id
          /\ r.poll = node[n].poll /\ r.pre = node[n].pre /\ r.steady = node[n].steady
          /\ r.beat = "set" /\ r.gen = node[n].gen + 1 /\ r.hb = 0
      BY <1>1, NodeType DEF IInv, NodeState
    <3>5. node' = [node EXCEPT ![n] = r]
      BY <2>3 DEF IInv, TypeOK
    <3>. HIDE DEF r
    <3>. QED BY <2>3, <3>3, <3>4, <3>5
  <2>. QED BY <2>1, <2>2, <2>3 DEF BeatFails, BeatExists, Half
<1>6. /\ node' \in [Node -> NodeState] /\ node'[n] = r
      /\ \A d \in Node : d # n => node'[d] = node[d]
  BY <1>5, NodeSet DEF IInv
<1>7. TypeOK' /\ Only(n) /\ Calm(n) /\ (cuts' = 0 => cut' = {})
  BY <1>1, <1>4, <1>5, <1>6 DEF IInv, TypeOK, Only, Calm, Live, Own
<1>8. StartOK(n)'
  BY <1>2, <1>4, <1>5, <1>6 DEF StartOK, Running
<1>9. KeyOK(n)'
  <2>1. Own(n)' = Own(n) /\ (Live(n)' <=> Live(n)) /\ (Fenced' <=> Fenced)
    BY <1>1, <1>5, <1>6 DEF Own, Live, Fenced
  <2>2. r.beat = "set" /\ r.gen = r.id => Live(n)
    <3>1. KeyOK(n) /\ node[n].id \in 0 .. MaxGen
      BY <1>2, NodeType DEF IInv
    <3>. QED BY <1>3, <1>4, <1>5, <3>1 DEF KeyOK, Live, Own
  <2>3. driver = "zset" => n \in cut /\ cuts # 0
    BY <1>5 DEF IInv
  <2>4. node[n].id \in Nat /\ node[n].gen \in Nat /\ r.gen \in Nat /\ node[n].gen <= r.gen
    BY <1>3, <1>5, NodeType DEF IInv
  <2>. QED BY <1>1, <1>2, <1>4, <1>5, <1>6, <2>1, <2>2, <2>3, <2>4 DEF KeyOK, Running
<1>10. IdsOK(n)'
  <2>1. CASE n \in cut
    BY <1>1, <1>2, <1>3, <1>5, <1>6, <2>1 DEF IdsOK, Charged
  <2>2. CASE n \notin cut
    <3>1. ~Charged(n)'
      BY <1>1, <1>4, <1>5, <1>6, <2>2 DEF Charged
    <3>2. r.gen = node[n].gen + 1 => Charged(n)
      BY <1>1, <1>3, <1>5, <2>2, HalfIs DEF Charged, Healthy
    <3>. QED BY <1>1, <1>2, <1>3, <1>5, <1>6, <2>2, <3>1, <3>2, ClusterAssumption DEF IdsOK
  <2>. QED BY <2>1, <2>2
<1>. QED BY <1>7, <1>8, <1>9, <1>10, CalmStep DEF Local

(* A heartbeat sets the key of the id that the driver has now, or fails to. *)
LEMMA BeatSetInv ==
  ASSUME IInv, NEW n \in Node, BeatSet(n) \/ BeatZAdd(n)
  PROVE  IInv'
<1>1. /\ node[n].beat = "set" \/ (driver = "zset" /\ BeatDue(n) /\ n \notin cut)
      /\ ttl' = IF n \in cut THEN ttl ELSE [ttl EXCEPT ![<<n, node[n].gen>>] = Lifetime]
      /\ UNCHANGED <<driver, cut, events, cuts>>
  BY DEF BeatSet, BeatZAdd
<1>2. IdsOK(n) /\ StartOK(n) /\ KeyOK(n)
  BY DEF IInv, Local
<1>3. /\ cuts \in Nat /\ events \in Nat /\ node[n].gen \in 0 .. MaxGen /\ node[n].id \in 0 .. MaxGen
      /\ node[n].run \in {"off", "starting", "joining", "up", "stopped", "down"}
  BY NodeType, ClusterAssumption DEF IInv, TypeOK
<1>4. PICK r \in NodeState :
        /\ node' = [node EXCEPT ![n] = r] /\ r.beat = "sleep" /\ r.hb = Half
        /\ r.run = node[n].run /\ r.old = node[n].old /\ r.gen = node[n].gen /\ r.id = node[n].id
        /\ r.poll = node[n].poll /\ r.pre = node[n].pre /\ r.steady = node[n].steady
  <2>1. CASE node' = [node EXCEPT ![n].beat = "sleep", ![n].hb = Half]
    <3>. DEFINE r == [node[n] EXCEPT !.beat = "sleep", !.hb = Half]
    <3>1. r \in NodeState
      BY NodeType, HalfIs DEF IInv, NodeState
    <3>2. /\ r.beat = "sleep" /\ r.hb = Half
          /\ r.run = node[n].run /\ r.old = node[n].old /\ r.gen = node[n].gen /\ r.id = node[n].id
          /\ r.poll = node[n].poll /\ r.pre = node[n].pre /\ r.steady = node[n].steady
      BY NodeType DEF IInv, NodeState
    <3>3. node' = [node EXCEPT ![n] = r]
      BY <2>1 DEF IInv, TypeOK
    <3>. HIDE DEF r
    <3>. QED BY <3>1, <3>2, <3>3
  <2>2. CASE node[n].beat = "sleep" /\ node' = [node EXCEPT ![n].hb = Half]
    <3>. DEFINE r == [node[n] EXCEPT !.hb = Half]
    <3>1. r \in NodeState
      BY NodeType, HalfIs DEF IInv, NodeState
    <3>2. /\ r.beat = "sleep" /\ r.hb = Half
          /\ r.run = node[n].run /\ r.old = node[n].old /\ r.gen = node[n].gen /\ r.id = node[n].id
          /\ r.poll = node[n].poll /\ r.pre = node[n].pre /\ r.steady = node[n].steady
      BY <2>2, NodeType DEF IInv, NodeState
    <3>3. node' = [node EXCEPT ![n] = r]
      BY <2>2 DEF IInv, TypeOK
    <3>. HIDE DEF r
    <3>. QED BY <3>1, <3>2, <3>3
  <2>. QED BY <2>1, <2>2 DEF BeatSet, BeatZAdd, BeatDue, Half
<1>5. /\ node' \in [Node -> NodeState] /\ node'[n] = r
      /\ \A d \in Node : d # n => node'[d] = node[d]
  BY <1>4, NodeSet DEF IInv
<1>6. /\ ttl' \in [Host -> 0 .. D + 1]
      /\ n \notin cut => ttl'[<<n, node[n].gen>>] = Lifetime
      /\ \A d \in Node, x \in 0 .. MaxGen :
            d # n \/ x # node[n].gen \/ n \in cut => ttl'[<<d, x>>] = ttl[<<d, x>>]
  <2>1. node[n].gen \in 0 .. MaxGen /\ Lifetime \in 0 .. D + 1 /\ TypeOK
    BY LifetimeIs, NodeType, HalfIs DEF IInv
  <2>2. CASE n \in cut
    BY <1>1, <2>2 DEF IInv, TypeOK
  <2>3. CASE n \notin cut
    <3>1. ttl' = [ttl EXCEPT ![<<n, node[n].gen>>] = Lifetime]
      BY <1>1, <2>3
    <3>2. /\ ttl' \in [Host -> 0 .. D + 1] /\ ttl'[<<n, node[n].gen>>] = Lifetime
          /\ \A d \in Node, x \in 0 .. MaxGen :
                d # n \/ x # node[n].gen => ttl'[<<d, x>>] = ttl[<<d, x>>]
      BY <2>1, <3>1, TtlSet
    <3>. QED BY <2>3, <3>2
  <2>. QED BY <2>2, <2>3
<1>7. Own(n)' = Own(n) /\ (Live(n) /\ node[n].gen = node[n].id => Live(n)')
  BY <1>3, <1>4, <1>5, <1>6, LifetimeIs DEF Own, Live
<1>8. node[n].run = "up" /\ Fenced => (Live(n)' => Live(n))
  <2>. SUFFICES ASSUME node[n].run = "up", Fenced, Live(n)' PROVE Live(n)
    OBVIOUS
  <2>1. CASE node[n].gen # node[n].id \/ n \in cut
    BY <1>3, <1>6, <1>7, <2>1 DEF Live, Own
  <2>2. CASE node[n].gen = node[n].id /\ node[n].beat = "set"
    BY <1>2, <2>2 DEF KeyOK
  <2>3. CASE node[n].gen = node[n].id /\ driver = "zset"
    <3>1. ttl[<<n, 0>>] > node[n].hb + Half /\ node[n].id = 0
      BY <1>2, <2>3 DEF KeyOK, Fenced, Running
    <3>2. node[n].hb \in Nat /\ ttl[<<n, 0>>] \in Nat
      <4>1. <<n, 0>> \in Host
        BY <1>2, <1>3, <2>3, <3>1 DEF Host
      <4>. QED BY <4>1, NodeType DEF IInv, TypeOK
    <3>. QED BY <3>1, <3>2, HalfIs DEF Live, Own
  <2>. QED BY <1>1, <2>1, <2>2, <2>3
<1>9. Only(n) /\ Calm(n)
  BY <1>1, <1>4, <1>5, <1>6, <1>8 DEF Only, Calm, Fenced
<1>10. TypeOK' /\ (cuts' = 0 => cut' = {})
  BY <1>1, <1>5, <1>6 DEF IInv, TypeOK
<1>11. StartOK(n)'
  BY <1>2, <1>4, <1>5 DEF StartOK, Running
<1>12. KeyOK(n)'
  <2>1. CASE n \in cut
    <3>1. cuts # 0 /\ (Live(n)' <=> Live(n))
      BY <1>3, <1>6, <1>7, <2>1 DEF IInv, Live, Own
    <3>. QED BY <1>1, <1>2, <1>4, <1>5, <1>7, <3>1 DEF KeyOK, Fenced
  <2>2. CASE n \notin cut
    <3>1. Live(n) => Live(n)'
      BY <1>3, <1>6, <1>7, <2>2 DEF Live, Own
    <3>2. driver = "zset" => ttl'[<<n, 0>>] > r.hb + Half
      BY <1>2, <1>4, <1>6, <2>2, LifetimeIs, HalfIs DEF KeyOK
    <3>. QED BY <1>1, <1>2, <1>4, <1>5, <1>7, <3>1, <3>2 DEF KeyOK, Fenced
  <2>. QED BY <2>1, <2>2
<1>13. IdsOK(n)'
  <2>1. n \notin cut => Healthy(n)'
    BY <1>4, <1>5, <1>6, HalfIs, LifetimeIs DEF Healthy
  <2>2. Charged(n)' => Charged(n)
    BY <1>1, <1>4, <1>5, <2>1 DEF Charged, Running
  <2>. QED BY <1>1, <1>2, <1>4, <1>5, <2>2 DEF IdsOK
<1>. QED BY <1>9, <1>10, <1>11, <1>12, <1>13, CalmStep DEF Local

(* Stop or a crash: the pool serves no more. *)
LEMMA LeaveInv ==
  ASSUME IInv, NEW n \in Node, Leave(n) \/ Crash(n)
  PROVE  IInv'
<1>1. /\ Running(n) /\ events < MaxEvents /\ events' = events + 1
      /\ UNCHANGED <<driver, ttl, cut, cuts>>
  BY DEF Leave, Crash, Budget, Running
<1>2. IdsOK(n) /\ StartOK(n) /\ KeyOK(n)
  BY DEF IInv, Local
<1>3. cuts \in Nat /\ events \in 0 .. MaxEvents /\ node[n].gen \in Nat
  BY NodeType, ClusterAssumption DEF IInv, TypeOK
<1>4. PICK r \in NodeState :
        /\ node' = [node EXCEPT ![n] = r] /\ r.gen = node[n].gen /\ r.id = node[n].id
        /\ \/ r.run = "stopped" /\ r.old = TRUE /\ r.pre = {} /\ r.beat = node[n].beat
           \/ r.run = "down" /\ r.old = FALSE /\ r.beat = "sleep"
  <2>1. CASE node' = [node EXCEPT ![n].run = "stopped", ![n].old = TRUE, ![n].pre = {}]
    <3>. DEFINE r == [node[n] EXCEPT !.run = "stopped", !.old = TRUE, !.pre = {}]
    <3>1. r \in NodeState
      BY NodeType DEF IInv, NodeState
    <3>2. /\ r.gen = node[n].gen /\ r.id = node[n].id
          /\ r.run = "stopped" /\ r.old = TRUE /\ r.pre = {} /\ r.beat = node[n].beat
      BY NodeType DEF IInv, NodeState
    <3>3. node' = [node EXCEPT ![n] = r]
      BY <2>1 DEF IInv, TypeOK
    <3>. HIDE DEF r
    <3>. QED BY <3>1, <3>2, <3>3
  <2>2. CASE node' = [node EXCEPT ![n].run = "down", ![n].beat = "sleep", ![n].old = FALSE]
    <3>. DEFINE r == [node[n] EXCEPT !.run = "down", !.beat = "sleep", !.old = FALSE]
    <3>1. r \in NodeState
      BY NodeType DEF IInv, NodeState
    <3>2. /\ r.gen = node[n].gen /\ r.id = node[n].id
          /\ r.run = "down" /\ r.old = FALSE /\ r.beat = "sleep"
      BY NodeType DEF IInv, NodeState
    <3>3. node' = [node EXCEPT ![n] = r]
      BY <2>2 DEF IInv, TypeOK
    <3>. HIDE DEF r
    <3>. QED BY <3>1, <3>2, <3>3
  <2>. QED BY <2>1, <2>2 DEF Leave, Crash
<1>5. /\ node' \in [Node -> NodeState] /\ node'[n] = r
      /\ \A d \in Node : d # n => node'[d] = node[d]
  BY <1>4, NodeSet DEF IInv
<1>6. TypeOK' /\ Only(n) /\ Calm(n) /\ (cuts' = 0 => cut' = {})
  BY <1>1, <1>3, <1>4, <1>5, ClusterAssumption DEF IInv, TypeOK, Only, Calm
<1>7. StartOK(n)'
  BY <1>4, <1>5 DEF StartOK, Running
<1>8. KeyOK(n)'
  BY <1>1, <1>2, <1>4, <1>5 DEF KeyOK, Running
<1>9. IdsOK(n)'
  BY <1>1, <1>2, <1>3, <1>4, <1>5, ClusterAssumption DEF IdsOK
<1>. QED BY <1>6, <1>7, <1>8, <1>9, CalmStep DEF Local

(* The end of a stopped heartbeat, also after the node has started again. *)
LEMMA UnregisterInv ==
  ASSUME IInv, NEW n \in Node, Unregister(n)
  PROVE  IInv'
<1>1. /\ node[n].old /\ (node[n].run = "stopped" => node[n].beat = "sleep")
      /\ node' = [node EXCEPT ![n].old = FALSE]
      /\ ttl' = IF driver = "redis" /\ n \notin cut
                THEN [ttl EXCEPT ![<<n, node[n].gen>>] = 0] ELSE ttl
      /\ UNCHANGED <<driver, cut, events, cuts>>
  BY DEF Unregister
<1>2. IdsOK(n) /\ StartOK(n) /\ KeyOK(n)
  BY DEF IInv, Local
<1>3. /\ cuts \in Nat /\ events \in Nat /\ node[n].gen \in 0 .. MaxGen /\ node[n].id \in 0 .. MaxGen
      /\ MaxGen \in Nat
  BY NodeType, ClusterAssumption DEF IInv, TypeOK
<1>4. PICK r \in NodeState :
        /\ node' = [node EXCEPT ![n] = r] /\ r.old = FALSE /\ r.beat = node[n].beat /\ r.hb = node[n].hb
        /\ r.run = node[n].run /\ r.gen = node[n].gen /\ r.id = node[n].id
        /\ r.poll = node[n].poll /\ r.pre = node[n].pre /\ r.steady = node[n].steady
  <2>. DEFINE r == [node[n] EXCEPT !.old = FALSE]
  <2>1. r \in NodeState
    BY NodeType DEF IInv, NodeState
  <2>2. /\ r.old = FALSE /\ r.beat = node[n].beat /\ r.hb = node[n].hb
        /\ r.run = node[n].run /\ r.gen = node[n].gen /\ r.id = node[n].id
        /\ r.poll = node[n].poll /\ r.pre = node[n].pre /\ r.steady = node[n].steady
    BY NodeType DEF IInv, NodeState
  <2>3. node' = [node EXCEPT ![n] = r]
    BY <1>1 DEF IInv, TypeOK
  <2>. HIDE DEF r
  <2>. QED BY <2>1, <2>2, <2>3
<1>5. /\ node' \in [Node -> NodeState] /\ node'[n] = r
      /\ \A d \in Node : d # n => node'[d] = node[d]
  BY <1>4, NodeSet DEF IInv
<1>6. /\ ttl' \in [Host -> 0 .. D + 1]
      /\ \A x \in 0 .. MaxGen : ttl'[<<n, x>>] \in {0, ttl[<<n, x>>]}
      /\ driver = "zset" => ttl' = ttl
      /\ \A d \in Node, x \in 0 .. MaxGen : d # n => ttl'[<<d, x>>] = ttl[<<d, x>>]
  <2>1. node[n].gen \in 0 .. MaxGen /\ 0 \in 0 .. D + 1 /\ TypeOK
    BY NodeType, HalfIs DEF IInv
  <2>2. CASE driver = "redis" /\ n \notin cut
    <3>1. ttl' = [ttl EXCEPT ![<<n, node[n].gen>>] = 0]
      BY <1>1, <2>2
    <3>2. /\ ttl' \in [Host -> 0 .. D + 1] /\ ttl'[<<n, node[n].gen>>] = 0
          /\ \A d \in Node, x \in 0 .. MaxGen :
                d # n \/ x # node[n].gen => ttl'[<<d, x>>] = ttl[<<d, x>>]
      BY <2>1, <3>1, TtlSet
    <3>. QED BY <2>2, <3>2
  <2>3. CASE ~(driver = "redis" /\ n \notin cut)
    BY <1>1, <2>3 DEF IInv, TypeOK
  <2>. QED BY <2>2, <2>3
<1>7. Own(n)' = Own(n) /\ (Live(n)' => Live(n)) /\ (Fenced' <=> Fenced)
  BY <1>1, <1>3, <1>4, <1>5, <1>6 DEF Own, Live, Fenced
<1>8. TypeOK' /\ Only(n) /\ Calm(n) /\ (cuts' = 0 => cut' = {})
  BY <1>1, <1>4, <1>5, <1>6, <1>7 DEF IInv, TypeOK, Only, Calm
<1>9. StartOK(n)'
  BY <1>2, <1>4, <1>5 DEF StartOK, Running
<1>10. KeyOK(n)'
  <2>1. node[n].run = "up" => node[n].beat = "sleep" /\ (node[n].steady => node[n].pre = {})
    BY <1>1, <1>2 DEF StartOK, Running
  <2>. QED BY <1>1, <1>2, <1>4, <1>5, <1>6, <1>7, <2>1 DEF KeyOK, Running
<1>11. IdsOK(n)'
  BY <1>1, <1>2, <1>3, <1>4, <1>5 DEF IdsOK, Charged
<1>. QED BY <1>8, <1>9, <1>10, <1>11, CalmStep DEF Local

LEMMA CutInv ==
  ASSUME IInv, NEW n \in Node, Disconnect(n) \/ Reconnect(n)
  PROVE  IInv'
<1>1. /\ UNCHANGED <<driver, ttl, node, events>>
      /\ \/ cuts < MaxCuts /\ cuts' = cuts + 1 /\ cut' = cut \cup {n}
         \/ cuts' = cuts /\ cut' = cut \ {n} /\ n \in cut
  BY DEF Disconnect, Reconnect
<1>2. IdsOK(n) /\ StartOK(n) /\ KeyOK(n)
  BY DEF IInv, Local
<1>3. cuts \in 0 .. MaxCuts /\ events \in Nat /\ node[n].gen \in Nat /\ MaxCuts \in Nat
  BY NodeType, ClusterAssumption DEF IInv, TypeOK
<1>4. TypeOK' /\ Only(n) /\ Calm(n) /\ (cuts' = 0 => cut' = {})
  BY <1>1, <1>3 DEF IInv, TypeOK, Only, Calm, Live, Own
<1>5. StartOK(n)'
  BY <1>1, <1>2 DEF StartOK, Running
<1>6. KeyOK(n)'
  BY <1>1, <1>2, <1>3 DEF KeyOK, Running, Fenced, Live, Own
<1>7. IdsOK(n)'
  <2>1. CASE cuts' = cuts + 1
    BY <1>1, <1>2, <1>3, <2>1 DEF IdsOK
  <2>2. CASE cuts' = cuts /\ n \in cut
    <3>1. Charged(n)' => Charged(n)
      BY <1>1, <2>2 DEF Charged, Running
    <3>. QED BY <1>1, <1>2, <2>2, <3>1 DEF IdsOK
  <2>. QED BY <1>1, <2>1, <2>2
<1>. QED BY <1>4, <1>5, <1>6, <1>7, CalmStep DEF Local

-------------------------------------------------------------------------------
(* A pool takes a list *)

LEMMA ListedIs ==
  ASSUME TypeOK, NEW n \in Node, NEW g \in 0 .. MaxGen
  PROVE  Listed \in SUBSET Host /\ (<<n, g>> \in Listed <=> ttl[<<n, g>>] > 0)
  BY DEF Listed, Host

(* The step of FirstPoll and of Poll that takes the list and keeps the rest. *)
Looks(n, list) ==
    /\ UNCHANGED <<driver, ttl, cut, events, cuts>>
    /\ \A d \in Node : d # n => node'[d] = node[d]
    /\ node' \in [Node -> NodeState]
    /\ node'[n].run = "up" /\ node'[n].poll = D
    /\ node'[n].old = node[n].old /\ node'[n].gen = node[n].gen
    /\ node'[n].beat = node[n].beat /\ node'[n].hb = node[n].hb
    /\ node'[n].pre = list /\ (node'[n].steady <=> list = node[n].pre)
    /\ \/ node[n].run = "joining" /\ node'[n].id = node[n].gen
       \/ node[n].run = "up" /\ node[n].poll = 0 /\ node'[n].id = node[n].id
    /\ list = Listed \/ (list = {} /\ n \in cut)

LEMMA LooksPairs ==
  ASSUME IInv, NEW n \in Node, NEW list, Looks(n, list), NEW d \in Node, d # n
  PROVE  Pair(d, n)' /\ Pair(n, d)'
<1>1. /\ node'[d] = node[d] /\ Own(d)' = Own(d) /\ (Live(d)' <=> Live(d)) /\ (Fenced' <=> Fenced)
  BY DEF Looks, Own, Live, Fenced
<1>2. /\ StartOK(n) /\ KeyOK(d) /\ Pair(d, n) /\ Pair(n, d)
  BY DEF IInv, Local
<1>3. /\ node[d].poll \in 0 .. D /\ node[d].id \in 0 .. MaxGen /\ D \in Nat
      /\ node'[n].id \in 0 .. MaxGen
  BY NodeType, HalfIs DEF IInv, Looks
<1>4. Own(n)' \in list => list = Listed /\ Live(n)'
  BY <1>3, ListedIs DEF Looks, Own, Live, IInv
<1>5. Own(n)' \in list /\ Own(d) \notin list => ~Live(d)
  BY <1>3, <1>4, ListedIs DEF Own, Live, IInv
<1>6. node'[n].steady /\ Own(n)' \in list =>
        /\ node[n].run = "up" /\ node[n].poll = 0 /\ list = node[n].pre /\ Own(n)' = Own(n)
        /\ Live(n)' <=> Live(n)
  BY <1>2 DEF Looks, StartOK, Own, Live
<1>7. Pair(d, n)'
  <2>. SUFFICES ASSUME Fenced, node[d].run = "up", Own(d) \in node[d].pre, Own(n)' \in list,
                       Own(d) \notin list, node[d].steady
       PROVE  ~Live(d) /\ ~node'[n].steady /\ node'[n].poll > node[d].poll
    BY <1>1, <1>5 DEF Pair, Looks
  <2>1. ~Live(d) /\ node[d].poll < D
    BY <1>2, <1>3, <1>5 DEF KeyOK
  <2>2. ~node'[n].steady
    <3>. SUFFICES ASSUME node'[n].steady PROVE FALSE
      OBVIOUS
    <3>. QED BY <1>2, <1>3, <1>6, <2>1 DEF Pair
  <2>. QED BY <1>3, <2>1, <2>2 DEF Looks
<1>8. Pair(n, d)'
  <2>. SUFFICES ASSUME Fenced, node[d].run = "up", Own(d) \in node[d].pre, Own(n)' \in list,
                       Own(n)' \notin node[d].pre
       PROVE  \/ node[d].poll = 0 /\ node'[n].poll = D
              \/ ~node'[n].steady /\ node[d].poll <= node'[n].poll
    BY <1>1 DEF Pair, Looks
  <2>1. CASE ~node'[n].steady
    BY <1>3, <2>1 DEF Looks
  <2>2. CASE node'[n].steady
    BY <1>2, <1>3, <1>4, <1>6, <2>2 DEF Pair, Looks
  <2>. QED BY <2>1, <2>2
<1>. QED BY <1>7, <1>8

LEMMA LooksInv ==
  ASSUME IInv, NEW n \in Node, NEW list, Looks(n, list)
  PROVE  IInv'
<1>1. TypeOK' /\ Only(n) /\ (cuts' = 0 => cut' = {})
  BY DEF IInv, TypeOK, Only, Looks
<1>2. IdsOK(n) /\ StartOK(n) /\ KeyOK(n)
  BY DEF IInv, Local
<1>3. /\ node[n].gen \in 0 .. MaxGen /\ node'[n].id \in 0 .. MaxGen /\ MaxGen \in Nat
  BY NodeType, ClusterAssumption DEF IInv, Looks
<1>4. /\ Running(n) /\ Running(n)' /\ (Healthy(n)' <=> Healthy(n)) /\ (Fenced' <=> Fenced)
      /\ Charged(n)' <=> Charged(n)
  BY DEF Looks, Running, Healthy, Charged, Fenced
<1>5. IdsOK(n)'
  BY <1>2, <1>4 DEF IdsOK, Looks
<1>6. StartOK(n)'
  <2>1. node[n].old => node[n].run = "joining" /\ node[n].pre = {}
    BY <1>2, <1>4, HalfIs DEF StartOK, Looks
  <2>. QED BY <1>2, <1>4, <2>1 DEF StartOK, Looks
<1>7. KeyOK(n)'
  <2>1. node'[n].pre = list /\ (Own(n)' \in list => Live(n)')
    BY <1>3, ListedIs DEF Looks, Own, Live, IInv
  <2>2. node'[n].beat = "set" => node[n].run = "up" /\ Own(n)' = Own(n) /\ (Live(n)' <=> Live(n))
    BY <1>2 DEF StartOK, Looks, Own, Live
  <2>3. node'[n].id <= node'[n].gen
    BY <1>2, <1>3 DEF KeyOK, Looks
  <2>. QED BY <1>2, <1>4, <2>1, <2>2, <2>3 DEF KeyOK, Looks
<1>8. \A d \in Node : Local(d)'
  BY <1>1, <1>5, <1>6, <1>7, LocalFrame DEF Local
<1>9. ASSUME NEW d \in Node, NEW e \in Node PROVE Pair(d, e)'
  <2>1. CASE d = n \/ e = n
    <3>1. d = e => Pair(d, e)'
      BY DEF Pair
    <3>. QED BY <2>1, <3>1, LooksPairs
  <2>2. CASE d # n /\ e # n
    <3>1. /\ node'[d] = node[d] /\ node'[e] = node[e] /\ Own(d)' = Own(d) /\ Own(e)' = Own(e)
          /\ (Live(d)' <=> Live(d)) /\ (Fenced' <=> Fenced)
      BY <2>2 DEF Looks, Own, Live, Fenced
    <3>2. Pair(d, e)
      BY DEF IInv
    <3>. QED BY <3>1, <3>2 DEF Pair
  <2>. QED BY <2>1, <2>2
<1>. QED BY <1>1, <1>8, <1>9 DEF IInv

LEMMA FirstPollInv ==
  ASSUME IInv, NEW n \in Node, FirstPoll(n)
  PROVE  IInv'
<1>1. /\ node[n].run = "joining"
      /\ node' = [node EXCEPT ![n] = [Observed(node[n], Listed) EXCEPT
                                        !.run = "up", !.id = node[n].gen, !.poll = D]]
      /\ UNCHANGED <<driver, ttl, cut, events, cuts>>
  BY DEF FirstPoll, IInv, TypeOK
<1>2. node[n] \in NodeState /\ Listed \in SUBSET Host /\ D \in 0 .. D /\ node[n].gen \in 0 .. MaxGen
  BY NodeType, HalfIs DEF IInv, Listed
<1>3. PICK o \in NodeState :
        /\ o = Observed(node[n], Listed) /\ o.old = node[n].old /\ o.gen = node[n].gen
        /\ o.beat = node[n].beat /\ o.hb = node[n].hb /\ o.pre = Listed
        /\ o.steady = (Listed = node[n].pre)
  BY <1>2, ObservedIs
<1>. DEFINE r == [o EXCEPT !.run = "up", !.id = node[n].gen, !.poll = D]
<1>4. /\ r \in NodeState /\ r.run = "up" /\ r.id = node[n].gen /\ r.poll = D /\ r.old = o.old
      /\ r.gen = o.gen /\ r.beat = o.beat /\ r.hb = o.hb /\ r.pre = o.pre /\ r.steady = o.steady
  BY <1>2 DEF NodeState
<1>5. node' = [node EXCEPT ![n] = r]
  BY <1>1, <1>3
<1>. HIDE DEF r
<1>6. /\ node' \in [Node -> NodeState] /\ node'[n] = r
      /\ \A d \in Node : d # n => node'[d] = node[d]
  BY <1>4, <1>5, NodeSet DEF IInv
<1>7. Looks(n, Listed)
  BY <1>1, <1>3, <1>4, <1>6 DEF Looks
<1>. QED BY <1>7, LooksInv

LEMMA PollInv ==
  ASSUME IInv, NEW n \in Node, Poll(n)
  PROVE  IInv'
<1>1. PICK s : s = [node[n] EXCEPT !.poll = D]
  OBVIOUS
<1>2. /\ node[n].run = "up" /\ node[n].poll = 0
      /\ node' = [node EXCEPT ![n] = IF n \notin cut THEN Observed(s, Listed)
                                     ELSE IF driver = "redis" THEN Observed(s, {}) ELSE s]
      /\ UNCHANGED <<driver, ttl, cut, events, cuts>>
  BY <1>1 DEF Poll
<1>3. Listed \in SUBSET Host /\ {} \in SUBSET Host /\ D \in 0 .. D /\ D \in Nat /\ D > 0
  BY HalfIs DEF Listed
<1>4. /\ s \in NodeState /\ s.run = "up" /\ s.poll = D /\ s.id = node[n].id /\ s.old = node[n].old
      /\ s.gen = node[n].gen /\ s.beat = node[n].beat /\ s.hb = node[n].hb /\ s.pre = node[n].pre
      /\ s.steady = node[n].steady
  BY <1>1, <1>2, <1>3, NodeType DEF IInv, NodeState
<1>5. ASSUME NEW list \in SUBSET Host, node' = [node EXCEPT ![n] = Observed(s, list)],
             list = Listed \/ (list = {} /\ n \in cut)
      PROVE  IInv'
  <2>1. PICK o \in NodeState :
          /\ o = Observed(s, list) /\ o.run = s.run /\ o.old = s.old /\ o.gen = s.gen /\ o.id = s.id
          /\ o.beat = s.beat /\ o.hb = s.hb /\ o.poll = s.poll /\ o.pre = list
          /\ o.steady = (list = s.pre)
    BY <1>4, ObservedIs
  <2>2. /\ node' \in [Node -> NodeState] /\ node'[n] = o
        /\ \A d \in Node : d # n => node'[d] = node[d]
    BY <1>5, <2>1, NodeSet DEF IInv
  <2>3. Looks(n, list)
    BY <1>2, <1>4, <1>5, <2>1, <2>2 DEF Looks
  <2>. QED BY <2>3, LooksInv
<1>6. CASE n \in cut /\ driver # "redis"
  <2>1. node' = [node EXCEPT ![n] = s]
    BY <1>2, <1>6
  <2>2. /\ node' \in [Node -> NodeState] /\ node'[n] = s
        /\ \A d \in Node : d # n => node'[d] = node[d]
    BY <1>4, <2>1, NodeSet DEF IInv
  <2>3. ~Fenced' /\ cuts # 0
    BY <1>2, <1>6, ClusterAssumption DEF Fenced, IInv, TypeOK
  <2>4. TypeOK' /\ Only(n) /\ Calm(n) /\ (cuts' = 0 => cut' = {})
    BY <1>2, <2>2, <2>3 DEF IInv, TypeOK, Only, Calm
  <2>5. IdsOK(n) /\ StartOK(n) /\ KeyOK(n)
    BY DEF IInv, Local
  <2>6. IdsOK(n)'
    BY <1>2, <1>4, <2>2, <2>5 DEF IdsOK, Charged, Running, Healthy
  <2>7. StartOK(n)'
    BY <1>2, <1>3, <1>4, <2>2, <2>5 DEF StartOK, Running
  <2>8. KeyOK(n)'
    BY <1>2, <1>4, <2>2, <2>3, <2>5 DEF KeyOK, Running, Live, Own
  <2>. QED BY <2>4, <2>6, <2>7, <2>8, CalmStep DEF Local
<1>7. CASE n \notin cut
  BY <1>2, <1>3, <1>5, <1>7
<1>8. CASE n \in cut /\ driver = "redis"
  BY <1>2, <1>3, <1>5, <1>8
<1>. QED BY <1>6, <1>7, <1>8

-------------------------------------------------------------------------------
(* Time *)

LEMMA TickInv ==
  ASSUME IInv, Tick
  PROVE  IInv'
<1>1. Quiet /\ ttl' = Expire /\ UNCHANGED <<driver, cut, events, cuts>>
  BY DEF Tick
<1>2. /\ ttl' \in [Host -> 0 .. D + 1]
      /\ \A n \in Node, g \in 0 .. MaxGen :
            /\ ttl[<<n, g>>] \in Nat
            /\ ttl'[<<n, g>>] = IF ttl[<<n, g>>] > 0 THEN ttl[<<n, g>>] - 1 ELSE 0
  <2>1. \A n \in Node, g \in 0 .. MaxGen : <<n, g>> \in Host
    BY DEF Host
  <2>2. \A h \in Host : ttl[h] \in 0 .. D + 1
    BY DEF IInv, TypeOK
  <2>. QED BY <1>1, <2>1, <2>2, HalfIs DEF Expire
<1>3. ASSUME NEW n \in Node
      PROVE  /\ node'[n] \in NodeState
             /\ node'[n].run = node[n].run /\ node'[n].old = node[n].old
             /\ node'[n].gen = node[n].gen /\ node'[n].id = node[n].id
             /\ node'[n].beat = node[n].beat /\ node'[n].pre = node[n].pre
             /\ node'[n].steady = node[n].steady
             /\ Running(n) => /\ node[n].hb > 0 /\ node'[n].hb = node[n].hb - 1
                              /\ node[n].poll > 0 /\ node'[n].poll = node[n].poll - 1
  <2>1. /\ node[n] \in NodeState /\ node[n].hb \in 0 .. Half /\ node[n].poll \in 0 .. D
        /\ Running(n) => node[n].hb > 0 /\ node[n].poll > 0
    BY <1>1, NodeType DEF IInv, Quiet
  <2>2. node'[n] = IF Running(n) THEN [node[n] EXCEPT !.hb = @ - 1, !.poll = @ - 1] ELSE node[n]
    BY DEF Tick
  <2>3. CASE Running(n)
    <3>1. node[n].hb - 1 \in 0 .. D \div 2 /\ node[n].poll - 1 \in 0 .. D
      BY <2>1, <2>3, HalfIs DEF Half
    <3>. QED BY <2>1, <2>2, <2>3, <3>1 DEF NodeState
  <2>4. CASE ~Running(n)
    BY <2>1, <2>2, <2>4
  <2>. QED BY <2>3, <2>4
<1>4. node' \in [Node -> NodeState]
  BY <1>3 DEF Tick
<1>5. TypeOK' /\ (cuts' = 0 => cut' = {})
  BY <1>1, <1>2, <1>4 DEF IInv, TypeOK
<1>6. ASSUME NEW n \in Node
      PROVE  /\ Own(n)' = Own(n) /\ (Live(n)' => Live(n)) /\ (Fenced' <=> Fenced)
             /\ (Running(n)' <=> Running(n))
  <2>1. node[n].id \in 0 .. MaxGen
    BY NodeType DEF IInv
  <2>. QED BY <1>1, <1>2, <1>3, <2>1 DEF Own, Live, Fenced, Running
<1>7. ASSUME NEW n \in Node PROVE Local(n)'
  <2>1. IdsOK(n) /\ StartOK(n) /\ KeyOK(n)
    BY DEF IInv, Local
  <2>2. /\ ~node[n].old /\ node[n].beat = "sleep" /\ node[n].run \notin {"starting", "joining"}
    BY <1>1 DEF Quiet
  <2>3. /\ node[n].gen \in 0 .. MaxGen /\ node[n].hb \in Nat /\ node[n].poll \in 0 .. D
        /\ MaxGen \in Nat /\ ttl[<<n, node[n].gen>>] \in Nat
    BY <1>2, NodeType, HalfIs, ClusterAssumption DEF IInv
  <2>4. Running(n) /\ Healthy(n) => Healthy(n)'
    <3>. SUFFICES ASSUME Running(n), Healthy(n) PROVE Healthy(n)'
      OBVIOUS
    <3>. DEFINE x == ttl[<<n, node[n].gen>>]
                y == ttl'[<<n, node[n].gen>>]
    <3>1. /\ x \in Nat /\ y = IF x > 0 THEN x - 1 ELSE 0
          /\ x >= node[n].hb + Half
      BY <1>2, <2>3 DEF Healthy
    <3>2. node'[n].hb = node[n].hb - 1 /\ node'[n].gen = node[n].gen /\ node[n].hb > 0
      BY <1>3
    <3>. HIDE DEF x
    <3>3. y >= (node[n].hb - 1) + Half
      BY <2>3, <3>1, <3>2, HalfIs
    <3>. QED BY <3>2, <3>3 DEF Healthy
  <2>5. Charged(n)' => Charged(n)
    BY <1>1, <1>3, <1>6, <2>2, <2>4 DEF Charged
  <2>6. IdsOK(n)'
    BY <1>1, <1>3, <2>1, <2>5 DEF IdsOK
  <2>7. StartOK(n)'
    BY <1>3, <2>1, <2>2 DEF StartOK
  <2>8. KeyOK(n)'
    <3>1. node[n].run = "up" => node'[n].poll # D
      BY <1>3, <2>3, HalfIs DEF Running
    <3>2. driver = "zset" /\ cuts = 0 /\ Running(n) => ttl'[<<n, 0>>] > node'[n].hb + Half
      <4>. SUFFICES ASSUME driver = "zset", cuts = 0, Running(n)
           PROVE  ttl'[<<n, 0>>] > node'[n].hb + Half
        OBVIOUS
      <4>. DEFINE x == ttl[<<n, 0>>]
      <4>1. /\ x > node[n].hb + Half /\ x \in Nat
            /\ ttl'[<<n, 0>>] = IF x > 0 THEN x - 1 ELSE 0
        BY <1>2, <2>1, <2>3 DEF KeyOK
      <4>2. node'[n].hb = node[n].hb - 1
        BY <1>3
      <4>. HIDE DEF x
      <4>. QED BY <2>3, <4>1, <4>2, HalfIs
    <3>. QED BY <1>1, <1>3, <1>6, <2>1, <2>2, <3>1, <3>2 DEF KeyOK
  <2>. QED BY <2>6, <2>7, <2>8 DEF Local
<1>8. ASSUME NEW m \in Node, NEW n \in Node PROVE Pair(m, n)'
  <2>. SUFFICES ASSUME node[m].run = "up", node[n].run = "up" PROVE Pair(m, n)'
    BY <1>3 DEF Pair
  <2>1. /\ node[m].poll \in Nat /\ node[n].poll \in Nat /\ node[n].poll > 0
        /\ node'[m].poll = node[m].poll - 1 /\ node'[n].poll = node[n].poll - 1
    BY <1>3, NodeType, HalfIs DEF Running, IInv
  <2>2. /\ node[n].poll <= node[m].poll => node'[n].poll <= node'[m].poll
        /\ node[n].poll > node[m].poll => node'[n].poll > node'[m].poll
    BY <2>1
  <2>3. /\ Own(m)' = Own(m) /\ Own(n)' = Own(n) /\ (Live(m)' => Live(m)) /\ (Fenced' <=> Fenced)
        /\ node'[m].pre = node[m].pre /\ node'[n].pre = node[n].pre
        /\ node'[m].steady = node[m].steady /\ node'[n].steady = node[n].steady
    BY <1>3, <1>6
  <2>4. Pair(m, n)
    BY DEF IInv
  <2>. QED BY <2>1, <2>2, <2>3, <2>4 DEF Pair
<1>. QED BY <1>5, <1>7, <1>8 DEF IInv

-------------------------------------------------------------------------------
(* Theorems *)

LEMMA InitInv ==
  ASSUME Init
  PROVE  IInv
<1>. DEFINE r == [run |-> "off", old |-> FALSE, gen |-> 0, id |-> 0,
                  beat |-> "sleep", hb |-> 0, poll |-> 0, pre |-> {},
                  view |-> {}, steady |-> FALSE]
<1>1. /\ driver \in DriverKind /\ ttl = [h \in Host |-> 0] /\ node = [n \in Node |-> r]
      /\ cut = {} /\ events = 0 /\ cuts = 0
  BY DEF Init
<1>2. /\ r \in NodeState /\ r.run = "off" /\ ~r.old /\ r.gen = 0 /\ r.id = 0
      /\ r.beat = "sleep" /\ r.pre = {}
  BY HalfIs, ClusterAssumption DEF NodeState, Half
<1>. HIDE DEF r
<1>3. \A n \in Node : node[n] = r
  BY <1>1
<1>4. TypeOK
  BY <1>1, <1>2, HalfIs, ClusterAssumption DEF TypeOK
<1>5. ASSUME NEW n \in Node PROVE Local(n)
  BY <1>1, <1>2, <1>3 DEF Local, IdsOK, StartOK, KeyOK, Charged, Running
<1>6. ASSUME NEW m \in Node, NEW n \in Node PROVE Pair(m, n)
  BY <1>2, <1>3 DEF Pair
<1>. QED BY <1>1, <1>4, <1>5, <1>6 DEF IInv

LEMMA NextInv ==
  ASSUME IInv, [Next]_vars
  PROVE  IInv'
<1>1. CASE UNCHANGED vars
  BY <1>1 DEF IInv, TypeOK, Local, IdsOK, StartOK, KeyOK, Charged, Running, Healthy, Pair, Fenced,
              Live, Own, vars
<1>2. ASSUME NEW n \in Node, NodeNext(n) PROVE IInv'
  <2>1. ASSUME RestartSet(n) PROVE IInv'
    BY <2>1, RegisteredInv DEF RestartSet, IInv, TypeOK
  <2>. QED BY <1>2, <2>1, FirstPollInv, PollInv, BeatInv, BeatSetInv, UnregisterInv DEF NodeNext
<1>3. ASSUME NEW n \in Node, Register(n) PROVE IInv'
  <2>1. events' = events + 1 /\ events' \in 0 .. MaxEvents
    BY <1>3, ClusterAssumption DEF Register, Budget, IInv, TypeOK
  <2>. QED BY <1>3, <2>1, RegisteredInv DEF Register
<1>4. ASSUME NEW n \in Node, Leave(n) \/ Restart(n) \/ Crash(n) \/ Disconnect(n) \/ Reconnect(n)
      PROVE  IInv'
  BY <1>4, LeaveInv, RestartInv, CutInv
<1>. QED BY <1>1, <1>2, <1>3, <1>4, TickInv DEF Next

(* The inductive invariant holds in every state the cluster reaches. *)
THEOREM Inductive == Spec => []IInv
<1>1. Init => IInv
  BY InitInv
<1>2. IInv /\ [Next]_vars => IInv'
  BY NextInv
<1>. QED BY <1>1, <1>2, PTL DEF Spec

(***************************************************************************)
(* The state keeps its types, which bounds the ids that RedisDriver makes: *)
(* every new one is owed to a start, a stop, a crash or a lost connection, *)
(* and none to a heartbeat that is on time.                                *)
(***************************************************************************)
THEOREM TypeCorrect == Spec => []TypeOK
<1>1. IInv => TypeOK
  BY DEF IInv
<1>. QED BY <1>1, Inductive, PTL

(* The owner of a key is a member that no other member comes before. *)
LEMMA OwnerIs ==
  ASSUME NEW S \in SUBSET Host, S # {}, NEW k \in Key
  PROVE  Owner(S, k) \in S /\ \A g \in S : Rank[k][Owner(S, k)] <= Rank[k][g]
<1>. DEFINE R == {Rank[k][g] : g \in S}
<1>1. R \subseteq Nat /\ R # {}
  BY RankAssumption
<1>2. PICK x \in R : \A y \in R : x <= y
  BY <1>1, LeastNumber
<1>3. PICK h \in S : x = Rank[k][h]
  OBVIOUS
<1>4. \A g \in S : Rank[k][h] <= Rank[k][g]
  BY <1>2, <1>3
<1>. QED BY <1>4 DEF Owner

(* Two members of two lists that each name both own different keys. *)
LEMMA OwnersAgree ==
  ASSUME NEW S \in SUBSET Host, NEW T \in SUBSET Host, NEW k \in Key,
         NEW g \in S \cap T, NEW h \in S \cap T, Owner(S, k) = g, Owner(T, k) = h
  PROVE  g = h
<1>1. Rank[k][g] <= Rank[k][h] /\ Rank[k][h] <= Rank[k][g]
  BY OwnerIs
<1>2. Rank[k][g] \in Nat /\ Rank[k][h] \in Nat
  BY RankAssumption
<1>3. Rank[k][g] = Rank[k][h]
  BY <1>1, <1>2
<1>. QED BY <1>3, RankAssumption

(***************************************************************************)
(* However long the period and however many nodes join, leave, crash and   *)
(* restart, and with RedisDriver lose their connection: of the nodes whose *)
(* ring has no member of before a restart, no two serve one key when a     *)
(* unit of time passes.                                                    *)
(***************************************************************************)
THEOREM ServedOnce == Spec => []OneServerPerKey
<1>1. IInv => OneServerPerKey
  <2>. SUFFICES ASSUME IInv, Quiet, driver = "zset" => cuts = 0, NEW k \in Key
       PROVE  Cardinality({n \in Servers(k) : Clean(n)}) <= 1
    BY DEF OneServerPerKey
  <2>. DEFINE S == {n \in Servers(k) : Clean(n)}
  <2>1. ASSUME NEW n \in S
        PROVE  /\ n \in Node /\ node[n].run = "up" /\ node[n].steady
               /\ node[n].pre \in SUBSET Host /\ Own(n) \in node[n].pre
               /\ Owner(node[n].pre, k) = Own(n) /\ node[n].poll > 0
    <3>1. /\ n \in Node /\ node[n].run = "up" /\ node[n].steady
          /\ node[n].pre # {} /\ Owner(node[n].pre, k) = Own(n)
      BY DEF Servers, Up, Eligible, Clean, Own
    <3>2. node[n].pre \in SUBSET Host /\ node[n].poll > 0
      BY <3>1, NodeType DEF IInv, Quiet, Running
    <3>. QED BY <3>1, <3>2, OwnerIs
  <2>2. ASSUME NEW m \in S, NEW n \in S, m # n PROVE Own(m) \in node[n].pre
    <3>1. Pair(m, n)
      BY <2>1 DEF IInv
    <3>. QED BY <2>1, <2>2, <3>1 DEF Pair, Fenced
  <2>3. ASSUME NEW m \in S, NEW n \in S PROVE m = n
    <3>. SUFFICES ASSUME m # n PROVE FALSE
      OBVIOUS
    <3>1. Own(m) \in node[m].pre \cap node[n].pre /\ Own(n) \in node[m].pre \cap node[n].pre
      BY <2>1, <2>2
    <3>2. Own(m) = Own(n)
      BY <2>1, <3>1, OwnersAgree
    <3>. QED BY <3>2 DEF Own
  <2>4. CASE S = {}
    BY <2>4, FS_EmptySet
  <2>5. CASE S # {}
    <3>1. PICK n : S = {n}
      BY <2>3, <2>5
    <3>2. Cardinality(S) = 1
      <4>. HIDE DEF S
      <4>. QED BY <3>1, FS_Singleton
    <3>. QED BY <3>2
  <2>. QED BY <2>4, <2>5
<1>. QED BY <1>1, Inductive, PTL
===============================================================================
