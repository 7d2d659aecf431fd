----------------------------- MODULE Dcron_proofs -----------------------------
(***************************************************************************)
(* Proofs about Dcron: for any callers, jobs, window and bounds, any       *)
(* number of goroutines that start and stop it and any number of           *)
(* activations in progress at once.                                        *)
(***************************************************************************)
EXTENDS Dcron, TLAPS

(* The type invariant in three groups: an action changes one of them. *)
TableType ==
    /\ jobs \in [Name -> 0 .. MaxCalls] /\ jobsMu \in Caller \cup {None}
    /\ entries \subseteq (1 .. MaxCalls) \X Name /\ lastId \in 0 .. MaxCalls
    /\ calls \in 0 .. MaxCalls
ControlType ==
    /\ running \in BOOLEAN /\ crRunning \in BOOLEAN
    /\ pc \in [Caller -> [at : At, wait : BOOLEAN]]
    /\ drv \in {"new", "started", "stopped"}
    /\ token \in 0 .. 1 /\ loops \in Nat /\ crossed \in BOOLEAN
ActType ==
    /\ capacity \in BOOLEAN
    /\ act \in [Act -> Activation] /\ rerun \in [Act -> Rerun]
    /\ state \in {"none", "steady", "upgrade"}
    /\ recent \subseteq Recent
    /\ ran \in [Act -> 0 .. 2] /\ over \subseteq Act
    /\ clock \in 0 .. MaxTime
PoolType ==
    /\ pool \in {"steady", "upgrading"} /\ mine \subseteq Name
    /\ upgrades \in 0 .. MaxUpgrades

(***************************************************************************)
(* The table and the entries agree, and no two jobs share an id: what      *)
(* JobsMatchEntries needs for Remove to take away one entry only.          *)
(***************************************************************************)
TableOK ==
    /\ TableType
    /\ lastId <= calls
    /\ \A n \in Name : jobs[n] <= lastId
    /\ \A n, m \in Name : jobs[n] = jobs[m] /\ HasJob(n) => n = m
    /\ JobsMatchEntries

(* Callers that neither start nor stop are idle, or stuck in CleanJobs. *)
ControlOK ==
    /\ ControlType
    /\ \A c \in Caller \ Controller : pc[c].at \in {"idle", "stuck"}

(* An activation that was started has the name of its job. *)
NamedOK == \A a \in Act : act[a].at # "new" => act[a].name \in Name

(* The rerun of an activation starts with what PopAllJobs hands to it. *)
FreshOK ==
    \A a \in Act : act[a].at \in {"new", "check", "store", "pop"} => Pending(a) = {}

(* A job that was packed is in one place only. *)
PackedOK ==
    /\ \A r, q \in recent : r.act = q.act => r = q
    /\ \A a \in Act : \A r \in Pending(a), q \in recent : r.act # q.act
    /\ \A a, b \in Act : \A r \in Pending(a), q \in Pending(b) :
          r.act = q.act => a = b /\ r = q
    /\ \A a \in Act : rerun[a].cur \notin rerun[a].left

Packed(a) == \/ \E r \in recent : r.act = a
             \/ \E b \in Act : \E r \in Pending(b) : r.act = a

(* An activation runs its job itself, and once more if the job was packed. *)
RanOK ==
    \A a \in Act :
       /\ act[a].at \notin {"exec", "done"} => ~Packed(a) /\ ran[a] = 0
       /\ act[a].at = "exec" => ran[a] <= 1 /\ (Packed(a) => ran[a] = 0)
       /\ Packed(a) => ran[a] <= 1

ActOK == ActType /\ NamedOK /\ FreshOK /\ PackedOK /\ RanOK

IInv == TableOK /\ ControlOK /\ PoolType /\ ActOK

LEMMA TypeGroups == TypeOK <=> TableType /\ ControlType /\ ActType /\ PoolType
  BY DEF TypeOK, TableType, ControlType, ActType, PoolType

-------------------------------------------------------------------------------
(* The table of jobs and the entries of the scheduler *)

LEMMA AddJobKeeps ==
  ASSUME TableOK, NEW c \in Caller, NEW n \in Name, AddJob(c, n)
  PROVE  TableOK'
<1>. USE DcronAssumption
<1>1. calls' = calls + 1 /\ calls' \in 0 .. MaxCalls /\ jobsMu = None /\ jobsMu' = jobsMu
  BY DEF AddJob, Calls, TableOK, TableType
<1>2. CASE UNCHANGED <<lastId, entries, jobs>>
  BY <1>1, <1>2 DEF TableOK, TableType, HasJob, JobsMatchEntries
<1>3. CASE ~HasJob(n) /\ lastId' = lastId + 1 /\ entries' = entries \cup {<<lastId', n>>}
           /\ jobs' = [jobs EXCEPT ![n] = lastId']
  <2>1. lastId' \in 1 .. MaxCalls /\ lastId' <= calls' /\ TableType'
    BY <1>1, <1>3 DEF TableOK, TableType
  <2>2. \A m \in Name : jobs'[m] = IF m = n THEN lastId' ELSE jobs[m]
    BY <1>3 DEF TableOK, TableType
  <2>3. \A m \in Name : jobs[m] \in Nat /\ jobs[m] <= lastId /\ jobs[m] < lastId'
    BY <1>3 DEF TableOK, TableType
  <2>4. \A m \in Name : jobs'[m] <= lastId'
    BY <2>1, <2>2, <2>3
  <2>5. \A m, k \in Name : jobs'[m] = jobs'[k] /\ HasJob(m)' => m = k
    BY <2>1, <2>2, <2>3 DEF TableOK, HasJob
  <2>6. entries = {<<jobs[m], m>> : m \in {k \in Name : jobs[k] # 0}}
    BY <1>1 DEF TableOK, JobsMatchEntries, HasJob
  <2>7. entries' = {<<jobs'[m], m>> : m \in {k \in Name : jobs'[k] # 0}}
    <3>1. \A e : e \in entries' <=> e \in entries \/ e = <<lastId', n>>
      BY <1>3
    <3>2. \A e : e \in entries <=> \E m \in Name : jobs[m] # 0 /\ e = <<jobs[m], m>>
      BY <2>6
    <3>3. \A e : e \in entries' <=> \E m \in Name : jobs'[m] # 0 /\ e = <<jobs'[m], m>>
      BY <3>1, <3>2, <2>2, <2>1, <1>3 DEF HasJob
    <3>. QED BY <3>3
  <2>. QED
    BY <2>1, <2>4, <2>5, <2>7 DEF TableOK, JobsMatchEntries, HasJob
<1>. QED
  BY <1>2, <1>3 DEF AddJob

LEMMA RemoveKeeps ==
  ASSUME TableOK, NEW c \in Caller, NEW n \in Name, Remove(c, n)
  PROVE  TableOK'
<1>. USE DcronAssumption
<1>1. /\ calls' = calls + 1 /\ calls' \in 0 .. MaxCalls /\ jobsMu = None
      /\ jobsMu' = jobsMu /\ lastId' = lastId
      /\ jobs' = [jobs EXCEPT ![n] = 0] /\ entries' = {e \in entries : e[1] # jobs[n]}
  BY DEF Remove, Calls, TableOK, TableType
<1>2. TableType' /\ lastId' <= calls'
  BY <1>1 DEF TableOK, TableType
<1>3. \A m \in Name : jobs[m] \in Nat /\ jobs'[m] = IF m = n THEN 0 ELSE jobs[m]
  BY <1>1 DEF TableOK, TableType
<1>4. \A m \in Name : jobs'[m] <= lastId'
  BY <1>1, <1>3 DEF TableOK, TableType
<1>5. \A m, k \in Name : jobs'[m] = jobs'[k] /\ HasJob(m)' => m = k
  BY <1>3 DEF TableOK, HasJob
<1>6. entries' = {<<jobs'[m], m>> : m \in {k \in Name : jobs'[k] # 0}}
  <2>1. \A e : e \in entries <=> \E m \in Name : jobs[m] # 0 /\ e = <<jobs[m], m>>
    BY <1>1 DEF TableOK, JobsMatchEntries, HasJob
  <2>2. \A m \in Name : jobs[m] # 0 => (jobs[m] # jobs[n] <=> m # n)
    BY DEF TableOK, HasJob
  <2>3. \A e : e \in entries' <=> \E m \in Name : jobs[m] # 0 /\ m # n /\ e = <<jobs[m], m>>
    BY <1>1, <2>1, <2>2
  <2>4. \A e : e \in entries' <=> \E m \in Name : jobs'[m] # 0 /\ e = <<jobs'[m], m>>
    BY <2>3, <1>3
  <2>. QED BY <2>4
<1>. QED
  BY <1>2, <1>4, <1>5, <1>6 DEF TableOK, JobsMatchEntries, HasJob

LEMMA CleanJobsKeeps ==
  ASSUME TableOK, NEW c \in Caller, CleanJobs(c)
  PROVE  TableOK'
<1>. USE DcronAssumption
<1>1. /\ calls' = calls + 1 /\ calls' \in 0 .. MaxCalls /\ jobsMu = None
      /\ lastId' = lastId /\ jobs' = [n \in Name |-> 0]
      /\ (entries' = {} /\ jobsMu' = jobsMu) \/ (entries' = entries /\ jobsMu' = c)
  BY DEF CleanJobs, Calls, TableOK, TableType
<1>2. TableType' /\ lastId' <= calls'
  BY <1>1 DEF TableOK, TableType
<1>3. \A n \in Name : jobs'[n] = 0 /\ ~HasJob(n)'
  BY <1>1 DEF HasJob
<1>4. JobsMatchEntries'
  BY <1>1, <1>3 DEF JobsMatchEntries
<1>. QED
  BY <1>1, <1>2, <1>3, <1>4 DEF TableOK, TableType

LEMMA TableFrame ==
  ASSUME TableOK, UNCHANGED <<jobs, jobsMu, entries, lastId>>,
         calls' = calls \/ (calls < MaxCalls /\ calls' = calls + 1)
  PROVE  TableOK'
<1>1. calls' \in 0 .. MaxCalls /\ lastId <= calls'
  BY DcronAssumption DEF TableOK, TableType
<1>. QED
  BY <1>1 DEF TableOK, TableType, JobsMatchEntries, HasJob

-------------------------------------------------------------------------------
(* Start, Run and Stop *)

Where == [at : At, wait : BOOLEAN]

(* A step that puts c at a place of its role. *)
LEMMA PutKeeps ==
  ASSUME ControlOK, NEW c \in Caller, NEW w \in Where,
         pc' = [pc EXCEPT ![c] = w],
         c \in Controller \/ w.at \in {"idle", "stuck"}
  PROVE  /\ pc' \in [Caller -> Where] /\ pc'[c] = w
         /\ \A d \in Caller : d # c => pc'[d] = pc[d]
         /\ \A d \in Caller \ Controller : pc'[d].at \in {"idle", "stuck"}
<1>1. pc \in [Caller -> Where]
  BY DEF ControlOK, ControlType, Where
<1>. QED
  BY <1>1 DEF ControlOK

LEMMA GoesPuts ==
  ASSUME ControlOK, NEW c \in Caller, NEW at \in At, Goes(c, at)
  PROVE  \E w \in Where : pc' = [pc EXCEPT ![c] = w] /\ w.at = at
<1>1. pc \in [Caller -> Where] /\ pc[c] \in Where
  BY DEF ControlOK, ControlType, Where
<1>2. [pc[c] EXCEPT !.at = at] \in Where /\ [pc[c] EXCEPT !.at = at].at = at
  BY <1>1 DEF Where
<1>3. pc' = [pc EXCEPT ![c] = [pc[c] EXCEPT !.at = at]]
  BY <1>1 DEF Goes
<1>. QED BY <1>2, <1>3

LEMMA IdleIsWhere == Idle \in Where /\ Idle.at = "idle"
  BY DEF Idle, Where, At

LEMMA ControlFrame ==
  ASSUME ControlOK, UNCHANGED <<running, crRunning, pc, drv, token, loops, crossed>>
  PROVE  ControlOK'
  BY DEF ControlOK, ControlType

LEMMA CleanJobsControl ==
  ASSUME ControlOK, NEW c \in Caller \ Controller, CleanJobs(c)
  PROVE  ControlOK'
<1>1. CASE UNCHANGED pc
  BY <1>1, ControlFrame DEF CleanJobs
<1>2. CASE Goes(c, "stuck")
  <2>1. PICK w \in Where : pc' = [pc EXCEPT ![c] = w] /\ w.at = "stuck"
    BY <1>2, GoesPuts DEF At
  <2>2. pc' \in [Caller -> Where] /\ \A d \in Caller \ Controller : pc'[d].at \in {"idle", "stuck"}
    BY <2>1, PutKeeps
  <2>. QED BY <2>2 DEF ControlOK, ControlType, CleanJobs, Where
<1>. QED BY <1>1, <1>2 DEF CleanJobs, Goes

LEMMA ControlKeeps ==
  ASSUME ControlOK, NEW c \in Controller,
         Control(c) \/ Stop(c) \/ \E wait \in BOOLEAN : Start(c, wait)
  PROVE  ControlOK'
<1>0. c \in Caller
  BY DcronAssumption
<1>1. ASSUME NEW at \in At, Goes(c, at)
      PROVE  pc' \in [Caller -> Where] /\ \A d \in Caller \ Controller : pc'[d].at \in {"idle", "stuck"}
  BY <1>0, <1>1, GoesPuts, PutKeeps
<1>2. ASSUME pc' = [pc EXCEPT ![c] = Idle]
      PROVE  pc' \in [Caller -> Where] /\ \A d \in Caller \ Controller : pc'[d].at \in {"idle", "stuck"}
  BY <1>0, <1>2, IdleIsWhere, PutKeeps
<1>3. ASSUME NEW wait \in BOOLEAN, Start(c, wait) PROVE ControlOK'
  <2>1. CASE running /\ UNCHANGED <<running, pc>>
    BY <1>3, <2>1, ControlFrame DEF Start
  <2>2. CASE ~running /\ running' = TRUE /\ pc' = [pc EXCEPT ![c] = [at |-> "poolStart", wait |-> wait]]
    <3>1. [at |-> "poolStart", wait |-> wait] \in Where
      BY DEF Where, At
    <3>2. pc' \in [Caller -> Where] /\ \A d \in Caller \ Controller : pc'[d].at \in {"idle", "stuck"}
      BY <1>0, <2>2, <3>1, PutKeeps
    <3>. QED BY <1>3, <2>2, <3>2 DEF ControlOK, ControlType, Start, Where
  <2>. QED BY <1>3, <2>1, <2>2 DEF Start
<1>4. CASE Stop(c)
  BY <1>1, <1>4 DEF ControlOK, ControlType, Stop, Where, At
<1>5. CASE PoolStart(c)
  <2>1. pc' \in [Caller -> Where] /\ \A d \in Caller \ Controller : pc'[d].at \in {"idle", "stuck"}
    BY <1>1, <1>2, <1>5 DEF PoolStart, At
  <2>2. loops' \in Nat /\ running' \in BOOLEAN
    <3>1. loops \in Nat /\ running \in BOOLEAN
      BY DEF ControlOK, ControlType
    <3>2. loops' = loops + 1 \/ loops' = loops
      BY <1>5 DEF PoolStart
    <3>3. running' = running \/ running' = FALSE
      BY <1>5 DEF PoolStart
    <3>4. running' \in BOOLEAN
      BY <3>1, <3>3, Zenon
    <3>. QED BY <3>1, <3>2, <3>4
  <2>3. UNCHANGED <<crRunning, token, crossed>> /\ drv' = "started"
    BY <1>5 DEF PoolStart
  <2>. QED BY <2>1, <2>2, <2>3 DEF ControlOK, ControlType, Where
<1>6. CASE PoolWait(c)
  BY <1>1, <1>6 DEF ControlOK, ControlType, PoolWait, Where, At
<1>7. CASE CrStart(c)
  <2>1. pc \in [Caller -> Where] /\ pc[c] \in Where
    BY <1>0 DEF ControlOK, ControlType, Where
  <2>2. PICK w \in Where : pc' = [pc EXCEPT ![c] = w]
    <3>1. [pc[c] EXCEPT !.at = "run"] \in Where
      BY <2>1 DEF Where, At
    <3>2. pc' = [pc EXCEPT ![c] = IF pc[c].wait /\ ~crRunning
                                  THEN [pc[c] EXCEPT !.at = "run"] ELSE Idle]
      BY <1>7, <2>1 DEF CrStart
    <3>. QED BY <3>1, <3>2, IdleIsWhere
  <2>3. pc' \in [Caller -> Where] /\ \A d \in Caller \ Controller : pc'[d].at \in {"idle", "stuck"}
    BY <1>0, <2>2, PutKeeps
  <2>. QED BY <1>7, <2>3 DEF ControlOK, ControlType, CrStart, Where
<1>8. CASE PoolStop(c)
  BY <1>1, <1>8 DEF ControlOK, ControlType, PoolStop, Where, At
<1>9. CASE Spin(c)
  BY <1>1, <1>9 DEF ControlOK, ControlType, Spin, Where, At
<1>10. CASE CrStop(c)
  <2>1. pc \in [Caller -> Where]
    BY DEF ControlOK, ControlType, Where
  <2>2. pc' = [d \in Caller |-> IF d = c \/ pc[d].at = "run" THEN Idle ELSE pc[d]]
    BY <1>10 DEF CrStop
  <2>3. pc' \in [Caller -> Where] /\ \A d \in Caller \ Controller : pc'[d].at \in {"idle", "stuck"}
    BY <2>1, <2>2, IdleIsWhere DEF ControlOK
  <2>. QED BY <1>10, <2>3 DEF ControlOK, ControlType, CrStop, Where
<1>. QED
  BY <1>3, <1>4, <1>5, <1>6, <1>7, <1>8, <1>9, <1>10 DEF Control

LEMMA PoolLoopStopKeeps ==
  ASSUME ControlOK, PoolLoopStop
  PROVE  ControlOK'
  BY DEF ControlOK, ControlType, PoolLoopStop

-------------------------------------------------------------------------------
(* Activations, the packer and the reruns *)

Early == {"new", "check", "store", "pop"}

(* The step of activation a puts it at a place and leaves the others alone. *)
Moved(a, at) ==
    /\ act' \in [Act -> Activation] /\ act'[a].at = at /\ act'[a].name \in Name
    /\ \A b \in Act : b # a => act'[b] = act[b]

LEMMA MovesMoves ==
  ASSUME ActOK, NEW a \in Act, NEW at, Moves(a, at), act[a].at # "new",
         at \in {"new", "check", "store", "pop", "load", "add", "exec", "done"}
  PROVE  Moved(a, at) /\ act'[a].answer = act[a].answer /\ act'[a].name = act[a].name
<1>. DEFINE r == [act[a] EXCEPT !.at = at]
<1>1. act \in [Act -> Activation] /\ act[a] \in Activation /\ act[a].name \in Name
  BY DEF ActOK, ActType, NamedOK
<1>2. act' = [act EXCEPT ![a] = r]
  BY <1>1 DEF Moves
<1>3. r \in Activation /\ r.at = at /\ r.answer = act[a].answer /\ r.name = act[a].name
  BY <1>1 DEF Activation
<1>. HIDE DEF r
<1>. QED
  BY <1>1, <1>2, <1>3 DEF Moved

LEMMA Acts ==
  ASSUME ActType, NEW a \in Act
  PROVE  /\ act[a].at \in {"new", "check", "store", "pop", "load", "add", "exec", "done"}
         /\ act[a].answer \in {"none", "error", "yes", "no"}
         /\ act[a].name \in Name \cup {None}
         /\ rerun[a].left \subseteq Recent /\ rerun[a].cur \in Recent \cup {None}
         /\ ran[a] \in 0 .. 2
         /\ Pending(a) \subseteq Recent
<1>1. act[a] \in Activation /\ rerun[a] \in Rerun /\ ran[a] \in 0 .. 2
  BY DEF ActType
<1>2. rerun[a].left \subseteq Recent /\ rerun[a].cur \in Recent \cup {None}
  BY <1>1 DEF Rerun
<1>3. Pending(a) \subseteq Recent
  BY <1>2 DEF Pending
<1>. QED
  BY <1>1, <1>2, <1>3 DEF Activation

LEMMA RecentActs == \A r \in Recent : r.act \in Act /\ r.name \in Name /\ r.t \in Nat
  BY DEF Recent

(* A step of an activation that has neither packed nor run its job yet. *)
LEMMA EarlyStep ==
  ASSUME ActOK, NEW a \in Act, NEW at, Moved(a, at), UNCHANGED <<rerun, recent, ran>>,
         act[a].at \notin {"exec", "done"}, at \in Early => act[a].at \in Early
  PROVE  NamedOK' /\ FreshOK' /\ PackedOK' /\ RanOK'
<1>0. NamedOK'
  BY DEF NamedOK, ActOK, Moved
<1>1. \A b \in Act : Pending(b)' = Pending(b) /\ (Packed(b)' <=> Packed(b))
  BY DEF Pending, Packed
<1>2. FreshOK'
  BY <1>1 DEF FreshOK, ActOK, Moved, Early
<1>3. PackedOK'
  BY <1>1 DEF PackedOK, ActOK
<1>4. ~Packed(a) /\ ran[a] = 0
  BY DEF ActOK, RanOK
<1>5. RanOK'
  BY <1>1, <1>4 DEF ActOK, RanOK, Moved
<1>. QED BY <1>0, <1>2, <1>3, <1>5

LEMMA ActFrame ==
  ASSUME ActOK, UNCHANGED <<capacity, actVars>>, clock' \in 0 .. MaxTime
  PROVE  ActOK'
  BY DEF ActOK, ActType, NamedOK, FreshOK, PackedOK, RanOK, Packed, Pending, actVars

LEMMA ActivateKeeps ==
  ASSUME ActOK, TableOK, NEW a \in Act, Activate(a)
  PROVE  ActOK' /\ act[a].at = "new" /\ act'[a].answer = act[a].answer
<1>1. PICK e \in entries :
        act' = [act EXCEPT ![a] = [at |-> IF capacity THEN "exec" ELSE "check",
                                   name |-> e[2], answer |-> act[a].answer]]
  BY DEF Activate
<1>2. e[2] \in Name
  BY DEF TableOK, TableType
<1>. DEFINE at == IF capacity THEN "exec" ELSE "check"
            r == [at |-> at, name |-> e[2], answer |-> act[a].answer]
<1>3. at \in {"exec", "check"}
  OBVIOUS
<1>. HIDE DEF at
<1>4. r \in Activation /\ r.at = at /\ r.answer = act[a].answer /\ r.name \in Name
  BY <1>2, <1>3, Acts DEF Activation, ActOK
<1>5. act' = [act EXCEPT ![a] = r]
  BY <1>1 DEF at
<1>. HIDE DEF r
<1>6. Moved(a, at) /\ act'[a].answer = act[a].answer
  BY <1>4, <1>5 DEF Moved, ActOK, ActType
<1>7. act[a].at = "new" /\ UNCHANGED <<capacity, clock, rerun, state, recent, ran, over>>
  BY DEF Activate
<1>8. NamedOK' /\ FreshOK' /\ PackedOK' /\ RanOK'
  BY <1>6, <1>7, <1>3, EarlyStep DEF Early
<1>. QED
  BY <1>6, <1>7, <1>8 DEF ActOK, ActType, Moved

LEMMA CheckKeeps ==
  ASSUME ActOK, NEW a \in Act, Check(a)
  PROVE  ActOK' /\ act[a].at = "check" /\ act'[a].at = "store"
<1>. DEFINE r == [at |-> "store", name |-> act[a].name, answer |-> IsEligible(act[a].name)]
<1>1. act' = [act EXCEPT ![a] = r]
  BY DEF Check
<1>2. r \in Activation /\ r.at = "store" /\ r.name \in Name
  BY Acts DEF Activation, ActOK, IsEligible, Check, Progress, NamedOK
<1>. HIDE DEF r
<1>3. Moved(a, "store")
  BY <1>1, <1>2 DEF Moved, ActOK, ActType
<1>4. act[a].at = "check" /\ UNCHANGED <<capacity, clock, rerun, state, recent, ran, over>>
  BY DEF Check, Progress
<1>5. NamedOK' /\ FreshOK' /\ PackedOK' /\ RanOK'
  BY <1>3, <1>4, EarlyStep DEF Early
<1>. QED
  BY <1>3, <1>4, <1>5 DEF ActOK, ActType, Moved

LEMMA StoreStateKeeps ==
  ASSUME ActOK, NEW a \in Act, StoreState(a)
  PROVE  ActOK'
<1>1. /\ act[a].at = "store" /\ UNCHANGED <<capacity, clock, rerun, recent, ran>>
      /\ state' \in {"none", "steady", "upgrade"} /\ over' = over \cup Overwrites(a)
  BY DEF StoreState, Progress
<1>2. PICK at \in {"load", "pop"} : Moves(a, at)
  BY DEF StoreState
<1>3. Moved(a, at)
  BY <1>1, <1>2, MovesMoves
<1>4. NamedOK' /\ FreshOK' /\ PackedOK' /\ RanOK'
  BY <1>1, <1>3, EarlyStep DEF Early
<1>5. over' \subseteq Act
  BY <1>1 DEF ActOK, ActType, Overwrites
<1>. QED
  BY <1>1, <1>3, <1>4, <1>5 DEF ActOK, ActType, Moved

LEMMA LoadStateKeeps ==
  ASSUME ActOK, NEW a \in Act, LoadState(a)
  PROVE  ActOK'
<1>1. act[a].at = "load" /\ UNCHANGED <<capacity, clock, rerun, recent, ran, state, over>>
  BY DEF LoadState, Progress
<1>2. PICK at \in {"add", "exec", "done"} : Moves(a, at)
  BY DEF LoadState, Allowed
<1>3. Moved(a, at)
  BY <1>1, <1>2, MovesMoves
<1>4. NamedOK' /\ FreshOK' /\ PackedOK' /\ RanOK'
  BY <1>1, <1>3, EarlyStep DEF Early
<1>. QED
  BY <1>1, <1>3, <1>4 DEF ActOK, ActType, Moved

LEMMA PopAllJobsKeeps ==
  ASSUME ActOK, NEW a \in Act, PopAllJobs(a)
  PROVE  ActOK'
<1>1. /\ act[a].at = "pop" /\ UNCHANGED <<capacity, clock, ran, state, over>>
      /\ Moved(a, "load") /\ recent' = {}
  BY MovesMoves DEF PopAllJobs, Progress, ActOK
<1>2. Pending(a) = {} /\ rerun[a].cur \in Recent \cup {None}
  BY <1>1, Acts DEF ActOK, FreshOK
<1>3. rerun[a].cur = None
  BY <1>2 DEF Pending
<1>. DEFINE r == [rerun[a] EXCEPT !.left = recent]
<1>4. /\ rerun \in [Act -> Rerun] /\ rerun' = [rerun EXCEPT ![a] = r]
      /\ r \in Rerun /\ r.left = recent /\ r.cur = None
  BY <1>3 DEF PopAllJobs, ActOK, ActType, Rerun
<1>. HIDE DEF r
<1>5. /\ rerun' \in [Act -> Rerun] /\ rerun'[a].left = recent /\ rerun'[a].cur = None
      /\ \A b \in Act : b # a => rerun'[b] = rerun[b]
  BY <1>4
<1>6. Pending(a)' = recent /\ \A b \in Act : b # a => Pending(b)' = Pending(b)
  <2>1. Pending(a)' = recent
    BY <1>5 DEF Pending
  <2>2. \A b \in Act : b # a => Pending(b)' = Pending(b)
    BY <1>5 DEF Pending
  <2>. QED BY <2>1, <2>2
<1>7. FreshOK' /\ NamedOK'
  BY <1>1, <1>6 DEF FreshOK, NamedOK, ActOK, Moved
<1>8. PackedOK'
  <2>1. \A b, c \in Act : \A x \in Pending(b)', y \in Pending(c)' : x.act = y.act => b = c /\ x = y
    BY <1>6 DEF ActOK, PackedOK
  <2>2. \A b \in Act : rerun'[b].cur \notin rerun'[b].left
    BY <1>5, NoneAssumption DEF ActOK, PackedOK, ActType
  <2>. QED BY <1>1, <2>1, <2>2 DEF PackedOK
<1>9. \A b \in Act : Packed(b)' <=> Packed(b)
  BY <1>1, <1>2, <1>6 DEF Packed
<1>10. RanOK'
  BY <1>1, <1>9 DEF ActOK, RanOK, Moved
<1>11. ActType'
  BY <1>1, <1>5 DEF ActOK, ActType, Moved
<1>. QED
  BY <1>7, <1>8, <1>10, <1>11 DEF ActOK

(* AddJob packs a for the first time, and what it drops stays dropped. *)
LEMMA PackJobKeeps ==
  ASSUME ActOK, NEW a \in Act, PackJob(a)
  PROVE  /\ ActOK'
         /\ \A b \in Act : Packed(b)' => Packed(b) \/ b = a
         /\ \E r \in recent' : r.act = a
<1>. DEFINE p == [act |-> a, name |-> act[a].name, t |-> clock]
<1>1. /\ act[a].at = "add" /\ UNCHANGED <<capacity, clock, ran, state, rerun, over>>
      /\ Moves(a, Allowed(a))
      /\ recent' = {r \in recent \cup {p} : r.t >= clock - Window}
  BY DEF PackJob, Progress
<1>2. PICK at \in {"exec", "done"} : Moved(a, at)
  BY <1>1, MovesMoves DEF Allowed, ActOK
<1>3. clock \in 0 .. MaxTime /\ recent \subseteq Recent
  BY DEF ActOK, ActType
<1>4. p \in Recent /\ p.act = a /\ p.t = clock
  BY <1>1, <1>3 DEF Recent, ActOK, NamedOK
<1>. HIDE DEF p
<1>5. recent' \subseteq Recent /\ p \in recent' /\ \A r \in recent' : r \in recent \/ r = p
  BY <1>1, <1>3, <1>4, DcronAssumption
<1>6. ~Packed(a) /\ ran[a] = 0
  BY <1>1 DEF ActOK, RanOK
<1>7. \A b \in Act : Pending(b)' = Pending(b)
  BY <1>1 DEF Pending
<1>8. \A b \in Act : Packed(b)' => Packed(b) \/ b = a
  BY <1>4, <1>5, <1>7 DEF Packed
<1>9. FreshOK' /\ NamedOK'
  BY <1>2, <1>7 DEF FreshOK, NamedOK, ActOK, Moved
<1>10. PackedOK'
  <2>1. \A r, q \in recent' : r.act = q.act => r = q
    BY <1>4, <1>5, <1>6 DEF ActOK, PackedOK, Packed
  <2>2. \A b \in Act : \A r \in Pending(b)', q \in recent' : r.act # q.act
    BY <1>4, <1>5, <1>6, <1>7 DEF ActOK, PackedOK, Packed
  <2>. QED BY <1>1, <1>7, <2>1, <2>2 DEF ActOK, PackedOK
<1>11. RanOK'
  BY <1>1, <1>2, <1>6, <1>8 DEF ActOK, RanOK, Moved
<1>12. ActType'
  BY <1>1, <1>2, <1>5 DEF ActOK, ActType, Moved
<1>. QED
  BY <1>4, <1>5, <1>8, <1>9, <1>10, <1>11, <1>12 DEF ActOK

LEMMA ExecuteKeeps ==
  ASSUME ActOK, NEW a \in Act, Execute(a)
  PROVE  ActOK'
<1>1. /\ act[a].at = "exec" /\ UNCHANGED <<capacity, clock, state, rerun, recent, over>>
      /\ Moved(a, "done") /\ ran' = [ran EXCEPT ![a] = @ + 1]
  BY MovesMoves DEF Execute, Progress, ActOK
<1>2. ran[a] \in 0 .. 1 /\ (Packed(a) => ran[a] = 0) /\ ran \in [Act -> 0 .. 2]
  BY <1>1, Acts DEF ActOK, RanOK, ActType
<1>3. \A b \in Act : Pending(b)' = Pending(b) /\ (Packed(b)' <=> Packed(b))
  BY <1>1 DEF Pending, Packed
<1>4. ran' \in [Act -> 0 .. 2]
  BY <1>1, <1>2
<1>5. FreshOK' /\ NamedOK'
  BY <1>1, <1>3 DEF FreshOK, NamedOK, ActOK, Moved
<1>6. PackedOK'
  BY <1>1, <1>3 DEF ActOK, PackedOK
<1>7. RanOK'
  BY <1>1, <1>2, <1>3 DEF ActOK, RanOK, Moved
<1>8. ActType'
  BY <1>1, <1>4 DEF ActOK, ActType, Moved
<1>. QED
  BY <1>5, <1>6, <1>7, <1>8 DEF ActOK

(* A rerun that has fewer jobs left: nothing else of the packer changes. *)
LEMMA RerunShrinks ==
  ASSUME ActOK, NEW a \in Act, UNCHANGED <<act, recent>>,
         \A b \in Act : b # a => rerun'[b] = rerun[b],
         Pending(a)' \subseteq Pending(a),
         rerun'[a].cur \notin rerun'[a].left
  PROVE  NamedOK' /\ FreshOK' /\ PackedOK' /\ \A b \in Act : Packed(b)' => Packed(b)
<1>1. \A b \in Act : Pending(b)' \subseteq Pending(b)
  BY DEF Pending
<1>2. FreshOK' /\ NamedOK'
  BY <1>1 DEF FreshOK, NamedOK, ActOK
<1>3. PackedOK'
  BY <1>1 DEF PackedOK, ActOK
<1>4. \A b \in Act : Packed(b)' => Packed(b)
  BY <1>1 DEF Packed
<1>. QED BY <1>2, <1>3, <1>4

LEMMA RerunLookupKeeps ==
  ASSUME ActOK, NEW a \in Act, RerunLookup(a)
  PROVE  ActOK'
<1>1. PICK r \in rerun[a].left :
        rerun' = [rerun EXCEPT ![a] = [left |-> rerun[a].left \ {r},
                                       cur |-> IF HasJob(r.name) THEN r ELSE None]]
  BY DEF RerunLookup
<1>2. rerun[a].left \subseteq Recent /\ r \in Recent
  BY Acts DEF ActOK
<1>. DEFINE n == IF HasJob(r.name) THEN r ELSE None
<1>3. n \in {r, None}
  OBVIOUS
<1>. HIDE DEF n
<1>4. /\ rerun' \in [Act -> Rerun] /\ rerun'[a].left = rerun[a].left \ {r} /\ rerun'[a].cur = n
      /\ \A b \in Act : b # a => rerun'[b] = rerun[b]
  <2>. DEFINE v == [left |-> rerun[a].left \ {r}, cur |-> n]
  <2>1. v \in Rerun /\ v.left = rerun[a].left \ {r} /\ v.cur = n
    BY <1>2, <1>3 DEF Rerun
  <2>2. rerun' = [rerun EXCEPT ![a] = v] /\ rerun \in [Act -> Rerun]
    BY <1>1 DEF ActOK, ActType, n
  <2>. HIDE DEF v
  <2>. QED BY <2>1, <2>2
<1>5. Pending(a)' \subseteq Pending(a)
  BY <1>3, <1>4 DEF Pending
<1>6. rerun'[a].cur \notin rerun'[a].left
  BY <1>2, <1>3, <1>4, NoneAssumption
<1>7. UNCHANGED <<capacity, clock, act, state, recent, ran, over>>
  BY DEF RerunLookup
<1>8. NamedOK' /\ FreshOK' /\ PackedOK' /\ \A b \in Act : Packed(b)' => Packed(b)
  BY <1>4, <1>5, <1>6, <1>7, RerunShrinks
<1>9. RanOK'
  BY <1>7, <1>8 DEF ActOK, RanOK
<1>10. ActType'
  BY <1>4, <1>7 DEF ActOK, ActType
<1>. QED
  BY <1>8, <1>9, <1>10 DEF ActOK

(* The job of a rerun leaves the packer for good, run or not. *)
LEMMA RerunJobKeeps ==
  ASSUME ActOK, NEW a \in Act, RerunJob(a)
  PROVE  /\ ActOK'
         /\ \E k \in Act :
              /\ Packed(k) /\ ~Packed(k)' /\ ran'[k] <= ran[k] + 1
              /\ \A b \in Act : b # k => ran'[b] = ran[b]
         /\ UNCHANGED act /\ \A b \in Act : Packed(b)' => Packed(b)
<1>0. PICK r \in Recent : r = rerun[a].cur
  BY Acts DEF RerunJob, ActOK
<1>1. PICK k \in Act : k = r.act /\ r # None /\ r \in Pending(a)
  BY <1>0, RecentActs DEF RerunJob, Pending
<1>2. /\ rerun' \in [Act -> Rerun] /\ rerun'[a].left = rerun[a].left /\ rerun'[a].cur = None
      /\ \A b \in Act : b # a => rerun'[b] = rerun[b]
  <2>. DEFINE v == [rerun[a] EXCEPT !.cur = None]
  <2>1. /\ rerun \in [Act -> Rerun] /\ rerun' = [rerun EXCEPT ![a] = v]
        /\ v \in Rerun /\ v.left = rerun[a].left /\ v.cur = None
    BY DEF RerunJob, ActOK, ActType, Rerun
  <2>. HIDE DEF v
  <2>. QED BY <2>1
<1>3. rerun[a].left \subseteq Recent /\ r \notin rerun[a].left
  BY <1>0, Acts DEF ActOK, PackedOK
<1>4. Pending(a)' \subseteq Pending(a) \ {r}
  BY <1>2, <1>3 DEF Pending
<1>5. UNCHANGED <<capacity, clock, act, state, recent, over>>
  BY DEF RerunJob
<1>6. NamedOK' /\ FreshOK' /\ PackedOK' /\ \A b \in Act : Packed(b)' => Packed(b)
  BY <1>2, <1>3, <1>4, <1>5, RerunShrinks, NoneAssumption
<1>7. Packed(k) /\ ~Packed(k)'
  <2>1. \A b \in Act : b # a => Pending(b)' = Pending(b)
    BY <1>2 DEF Pending
  <2>2. \A b \in Act : \A q \in Pending(b)' : q.act # k
    BY <1>1, <1>4, <2>1 DEF ActOK, PackedOK
  <2>3. \A q \in recent' : q.act # k
    BY <1>1, <1>5 DEF ActOK, PackedOK
  <2>. QED BY <1>1, <2>2, <2>3 DEF Packed
<1>8. ran \in [Act -> 0 .. 2] /\ ran[k] \in 0 .. 1 /\ act[k].at \in {"exec", "done"}
      /\ (act[k].at = "exec" => ran[k] = 0)
  BY <1>7, Acts DEF ActOK, ActType, RanOK
<1>9. ran' = [ran EXCEPT ![k] = @ + 1] \/ ran' = ran
  BY <1>0, <1>1 DEF RerunJob
<1>10. /\ ran' \in [Act -> 0 .. 2] /\ ran'[k] <= ran[k] + 1
       /\ \A b \in Act : b # k => ran'[b] = ran[b]
  BY <1>7, <1>8, <1>9
<1>11. RanOK'
  <2>. SUFFICES ASSUME NEW b \in Act
       PROVE  /\ act'[b].at \notin {"exec", "done"} => ~Packed(b)' /\ ran'[b] = 0
              /\ act'[b].at = "exec" => ran'[b] <= 1 /\ (Packed(b)' => ran'[b] = 0)
              /\ Packed(b)' => ran'[b] <= 1
    BY DEF RanOK
  <2>1. CASE b = k
    BY <1>5, <1>7, <1>8, <1>10, <2>1
  <2>2. CASE b # k
    BY <1>5, <1>6, <1>10, <2>2 DEF ActOK, RanOK
  <2>. QED BY <2>1, <2>2
<1>12. ActType'
  BY <1>2, <1>5, <1>10 DEF ActOK, ActType
<1>. QED
  BY <1>5, <1>6, <1>7, <1>10, <1>11, <1>12 DEF ActOK

-------------------------------------------------------------------------------
LEMMA InitIInv ==
  ASSUME Init
  PROVE  IInv
<1>. USE DcronAssumption
<1>1. TableOK
  <2>1. \A n \in Name : jobs[n] = 0
    BY DEF Init
  <2>2. TableType
    BY DEF Init, TableType
  <2>3. JobsMatchEntries
    BY <2>1 DEF Init, JobsMatchEntries, HasJob
  <2>. QED
    BY <2>1, <2>2, <2>3 DEF Init, TableOK, HasJob
<1>2. ControlOK
  <2>1. pc \in [Caller -> Where] /\ \A c \in Caller : pc[c].at = "idle"
    BY IdleIsWhere DEF Init
  <2>2. running = FALSE /\ crRunning = FALSE /\ crossed = FALSE /\ loops = 0 /\ token = 0
    BY DEF Init
  <2>3. drv \in {"new", "started", "stopped"}
    BY DEF Init
  <2>4. running \in BOOLEAN /\ crRunning \in BOOLEAN /\ crossed \in BOOLEAN
    BY <2>2, Zenon
  <2>5. loops \in Nat /\ token \in 0 .. 1
    BY <2>2
  <2>. QED
    BY <2>1, <2>3, <2>4, <2>5 DEF ControlOK, ControlType, Where
<1>3. PoolType
  BY DEF Init, PoolType
<1>4. \A a \in Act : Pending(a) = {} /\ act[a].at = "new" /\ ran[a] = 0
                     /\ rerun[a].cur \notin rerun[a].left
  BY DEF Init, Pending
<1>5. ActType
  <2>1. act \in [Act -> Activation]
    BY DEF Init, Activation
  <2>2. rerun \in [Act -> Rerun]
    BY DEF Init, Rerun
  <2>. QED
    BY <2>1, <2>2 DEF Init, ActType
<1>6. \A a \in Act : ~Packed(a)
  BY <1>4 DEF Packed, Init
<1>7. NamedOK /\ FreshOK /\ PackedOK /\ RanOK
  BY <1>4, <1>6 DEF NamedOK, FreshOK, PackedOK, RanOK, Init
<1>. QED
  BY <1>1, <1>2, <1>3, <1>5, <1>7 DEF IInv, ActOK

(* A call of a method, or a step of one, leaves the activations alone. *)
LEMMA CallFrame ==
  ASSUME IInv, UNCHANGED <<capacity, poolVars, actVars, clock>>
  PROVE  PoolType' /\ ActOK'
<1>1. clock' \in 0 .. MaxTime
  BY DEF IInv, ActOK, ActType
<1>. QED
  BY <1>1, ActFrame DEF IInv, PoolType, poolVars

LEMMA CallVarsFrame ==
  ASSUME IInv, UNCHANGED callVars
  PROVE  TableOK' /\ ControlOK'
  BY TableFrame, ControlFrame DEF IInv, callVars

LEMMA GoroutineKeeps ==
  ASSUME IInv, NEW a \in Act, Activate(a) \/ Goroutine(a)
  PROVE  IInv'
<1>1. UNCHANGED <<callVars, poolVars>>
  BY DEF Activate, Goroutine, Check, StoreState, PopAllJobs, LoadState, PackJob,
         Execute, RerunLookup, RerunJob, Progress
<1>2. TableOK' /\ ControlOK' /\ PoolType'
  BY <1>1, CallVarsFrame DEF IInv, PoolType, poolVars
<1>3. ActOK'
  BY ActivateKeeps, CheckKeeps, StoreStateKeeps, PopAllJobsKeeps, LoadStateKeeps,
     PackJobKeeps, ExecuteKeeps, RerunLookupKeeps, RerunJobKeeps DEF IInv, Goroutine
<1>. QED BY <1>2, <1>3 DEF IInv

LEMMA NextKeeps ==
  ASSUME IInv, [Next]_vars
  PROVE  IInv'
<1>1. ASSUME NEW c \in Caller \ Controller, CleanJobs(c) PROVE IInv'
  <2>1. UNCHANGED <<capacity, poolVars, actVars, clock>>
    BY <1>1 DEF CleanJobs
  <2>. QED BY <1>1, <2>1, CallFrame, CleanJobsKeeps, CleanJobsControl DEF IInv
<1>2. ASSUME NEW c \in Caller \ Controller, NEW n \in Name, AddJob(c, n) PROVE IInv'
  <2>1. UNCHANGED <<capacity, poolVars, actVars, clock, running, crRunning, pc, drv, token, loops,
                  crossed>>
    BY <1>2 DEF AddJob
  <2>. QED BY <1>2, <2>1, CallFrame, AddJobKeeps, ControlFrame DEF IInv
<1>3. ASSUME NEW c \in Caller \ Controller, NEW n \in Name, Remove(c, n) PROVE IInv'
  <2>1. UNCHANGED <<capacity, poolVars, actVars, clock, running, crRunning, pc, drv, token, loops,
                  crossed>>
    BY <1>3 DEF Remove
  <2>. QED BY <1>3, <2>1, CallFrame, RemoveKeeps, ControlFrame DEF IInv
<1>4. ASSUME NEW c \in Controller, Control(c) \/ Stop(c) \/ \E wait \in BOOLEAN : Start(c, wait)
      PROVE  IInv'
  <2>1. UNCHANGED <<capacity, poolVars, actVars, clock, jobs, jobsMu, entries, lastId>>
    BY <1>4 DEF Control, Stop, Start, PoolStart, PoolWait, CrStart, PoolStop, Spin, CrStop, Steps
  <2>2. calls' = calls \/ (calls < MaxCalls /\ calls' = calls + 1)
    BY <1>4 DEF Control, Stop, Start, PoolStart, PoolWait, CrStart, PoolStop, Spin, CrStop,
                Steps, Calls
  <2>3. TableOK'
    BY <2>1, <2>2, TableFrame DEF IInv
  <2>. QED BY <1>4, <2>1, <2>3, CallFrame, ControlKeeps DEF IInv
<1>5. CASE PoolLoopStop
  <2>1. UNCHANGED <<capacity, poolVars, actVars, clock, jobs, jobsMu, entries, lastId, calls>>
    BY <1>5 DEF PoolLoopStop
  <2>. QED BY <1>5, <2>1, CallFrame, TableFrame, PoolLoopStopKeeps DEF IInv
<1>6. CASE PoolChange
  <2>1. UNCHANGED <<capacity, callVars, actVars, clock>>
    BY <1>6 DEF PoolChange
  <2>2. clock' \in 0 .. MaxTime
    BY <2>1 DEF IInv, ActOK, ActType
  <2>3. PoolType'
    BY <1>6, DcronAssumption DEF PoolChange, IInv, PoolType
  <2>. QED BY <2>1, <2>2, <2>3, CallVarsFrame, ActFrame DEF IInv
<1>7. CASE Tick
  <2>1. UNCHANGED <<capacity, callVars, poolVars, actVars>> /\ clock' \in 0 .. MaxTime
    BY <1>7, DcronAssumption DEF Tick, IInv, ActOK, ActType
  <2>2. PoolType'
    BY <2>1 DEF IInv, PoolType, poolVars
  <2>. QED BY <2>1, <2>2, CallVarsFrame, ActFrame DEF IInv
<1>8. CASE UNCHANGED vars
  <2>1. UNCHANGED <<capacity, callVars, poolVars, actVars, clock>>
    BY <1>8 DEF vars
  <2>. QED BY <2>1, CallVarsFrame, CallFrame DEF IInv
<1>. QED
  BY <1>1, <1>2, <1>3, <1>4, <1>5, <1>6, <1>7, <1>8, GoroutineKeeps DEF Next

(* The invariant the theorems below rest on. *)
THEOREM Inductive == Spec => []IInv
  BY InitIInv, NextKeeps, PTL DEF Spec

(* The state of a Dcron keeps its type, with any number of callers and of  *)
(* overlapping activations; no activation runs its job more than twice.    *)
THEOREM TypeCorrect == Spec => []TypeOK
<1>1. IInv => TypeOK
  BY TypeGroups DEF IInv, TableOK, ControlOK, ActOK
<1>. QED BY <1>1, Inductive, PTL

(* AddJob, Remove and CleanJobs keep the table and the scheduler's entries *)
(* the same, whoever calls them and whether or not the scheduler runs.     *)
THEOREM TablesAgree == Spec => []JobsMatchEntries
<1>1. IInv => JobsMatchEntries
  BY DEF IInv, TableOK
<1>. QED BY <1>1, Inductive, PTL

-------------------------------------------------------------------------------
(* Goroutines that start and stop *)

(***************************************************************************)
(* Until a Stop crosses a Start, the Start in progress is the only one and *)
(* the Dcron runs meanwhile; and when it does not run, or a Start is still *)
(* on its way, the scheduler runs only if a Stop is about to stop it.      *)
(***************************************************************************)
QuietOK ==
    ~crossed =>
      /\ \A c, d \in Controller : Starting(c) /\ Starting(d) => c = d
      /\ \A c \in Controller : Starting(c) => running
      /\ \/ ~crRunning
         \/ \E c \in Controller : pc[c].at = "crStop"
         \/ running /\ \A c \in Controller : ~Starting(c)

(* A step of a controller c leaves the others where they are, unless it    *)
(* ends their Run.                                                         *)
LEMMA OthersStay ==
  ASSUME ControlOK, NEW c \in Controller,
         Control(c) \/ Stop(c) \/ \E wait \in BOOLEAN : Start(c, wait), ~CrStop(c)
  PROVE  \A d \in Controller : d # c => pc'[d] = pc[d]
<1>1. c \in Caller /\ Controller \subseteq Caller /\ pc \in [Caller -> Where]
  BY DcronAssumption DEF ControlOK, ControlType, Where
<1>2. ASSUME NEW at, Goes(c, at) PROVE \A d \in Controller : d # c => pc'[d] = pc[d]
  BY <1>1, <1>2 DEF Goes
<1>3. CASE Stop(c) \/ PoolWait(c) \/ PoolStop(c) \/ Spin(c)
  BY <1>2, <1>3 DEF Stop, PoolWait, PoolStop, Spin
<1>4. CASE PoolStart(c)
  BY <1>1, <1>2, <1>4 DEF PoolStart
<1>5. CASE CrStart(c)
  BY <1>1, <1>5 DEF CrStart
<1>6. CASE \E wait \in BOOLEAN : Start(c, wait)
  BY <1>1, <1>6 DEF Start
<1>. QED BY <1>3, <1>4, <1>5, <1>6 DEF Control

LEMMA QuietStep ==
  ASSUME ControlOK, QuietOK, NEW c \in Controller,
         Control(c) \/ Stop(c) \/ \E wait \in BOOLEAN : Start(c, wait)
  PROVE  QuietOK'
<1>0. c \in Caller /\ Controller \subseteq Caller
  BY DcronAssumption
<1>1. pc \in [Caller -> Where] /\ pc[c] \in Where
  BY <1>0 DEF ControlOK, ControlType, Where
<1>2. ASSUME NEW at \in At, Goes(c, at) PROVE pc'[c].at = at
  BY <1>0, <1>2, GoesPuts, PutKeeps
<1>3. ~CrStop(c) => \A d \in Controller : d # c => pc'[d] = pc[d]
  BY OthersStay
<1>4. ASSUME NEW wait \in BOOLEAN, Start(c, wait) PROVE QuietOK'
  <2>1. CASE running /\ UNCHANGED <<running, pc>>
    BY <1>4, <2>1 DEF Start, QuietOK, Starting
  <2>2. CASE ~running /\ running' = TRUE
             /\ pc' = [pc EXCEPT ![c] = [at |-> "poolStart", wait |-> wait]]
    <3>1. pc[c].at = "idle" /\ pc'[c].at = "poolStart" /\ UNCHANGED <<crRunning, crossed>>
      BY <1>0, <1>1, <1>4, <2>2 DEF Start, Calls, Idle
    <3>2. \A d \in Controller : d # c => pc'[d] = pc[d]
      BY <1>0, <1>1, <2>2
    <3>. QED BY <2>2, <3>1, <3>2 DEF QuietOK, Starting
  <2>. QED BY <1>4, <2>1, <2>2 DEF Start
<1>5. CASE Stop(c)
  <2>1. /\ pc'[c].at = "poolStop" /\ pc[c].at = "idle"
        /\ UNCHANGED <<running, crRunning, crossed>>
    BY <1>2, <1>5 DEF Stop, At, Calls, Idle
  <2>2. ~CrStop(c)
    BY <2>1 DEF CrStop, Steps
  <2>. QED BY <1>3, <2>1, <2>2 DEF QuietOK, Starting
<1>6. CASE PoolStart(c)
  <2>1. pc[c].at = "poolStart" /\ UNCHANGED <<crRunning, crossed>>
    BY <1>6 DEF PoolStart, Steps
  <2>2. pc'[c].at = "idle" \/ (pc'[c].at = "poolWait" /\ running' = running)
    BY <1>0, <1>1, <1>2, <1>6, IdleIsWhere DEF PoolStart, At
  <2>3. ~CrStop(c)
    BY <2>1 DEF CrStop, Steps
  <2>. QED BY <1>3, <2>1, <2>2, <2>3 DEF QuietOK, Starting
<1>7. CASE PoolWait(c)
  <2>1. /\ pc'[c].at = "crStart" /\ pc[c].at = "poolWait"
        /\ UNCHANGED <<running, crRunning, crossed>>
    BY <1>2, <1>7 DEF PoolWait, At, Steps
  <2>2. ~CrStop(c)
    BY <2>1 DEF CrStop, Steps
  <2>. QED BY <1>3, <2>1, <2>2 DEF QuietOK, Starting
<1>8. CASE CrStart(c)
  <2>1. pc[c].at = "crStart" /\ UNCHANGED <<running, crossed>>
    BY <1>8 DEF CrStart, Steps
  <2>2. pc'[c].at \in {"idle", "run"}
    <3>1. pc'[c] = IF pc[c].wait /\ ~crRunning THEN [pc[c] EXCEPT !.at = "run"] ELSE Idle
      BY <1>0, <1>1, <1>8 DEF CrStart
    <3>2. [pc[c] EXCEPT !.at = "run"].at = "run"
      BY <1>1 DEF Where
    <3>. QED BY <3>1, <3>2, IdleIsWhere
  <2>3. ~CrStop(c)
    BY <2>1 DEF CrStop, Steps
  <2>. QED BY <1>3, <2>1, <2>2, <2>3 DEF QuietOK, Starting
<1>9. CASE PoolStop(c)
  <2>1. /\ pc'[c].at = "spin" /\ pc[c].at = "poolStop"
        /\ UNCHANGED <<running, crRunning, crossed>>
    BY <1>2, <1>9 DEF PoolStop, At, Steps
  <2>2. ~CrStop(c)
    BY <2>1 DEF CrStop, Steps
  <2>. QED BY <1>3, <2>1, <2>2 DEF QuietOK, Starting
<1>10. CASE Spin(c)
  <2>1. /\ pc'[c].at = "crStop" /\ pc[c].at = "spin" /\ UNCHANGED crRunning
        /\ crossed' = (crossed \/ \E d \in Controller : Starting(d))
    BY <1>2, <1>10 DEF Spin, At, Steps
  <2>2. ~CrStop(c)
    BY <2>1 DEF CrStop, Steps
  <2>3. ~crossed' => \A d \in Controller : ~Starting(d)'
    BY <1>3, <2>1, <2>2 DEF Starting
  <2>. QED BY <2>1, <2>3 DEF QuietOK
<1>11. CASE CrStop(c)
  <2>1. crRunning' = FALSE /\ UNCHANGED <<running, crossed>>
    BY <1>11 DEF CrStop
  <2>2. \A d \in Controller : pc'[d] = pc[d] \/ pc'[d].at = "idle"
    BY <1>0, <1>11, IdleIsWhere DEF CrStop
  <2>3. \A d \in Controller : Starting(d)' => Starting(d)
    BY <2>2 DEF Starting
  <2>. QED BY <2>1, <2>3 DEF QuietOK
<1>. QED
  BY <1>4, <1>5, <1>6, <1>7, <1>8, <1>9, <1>10, <1>11 DEF Control

(***************************************************************************)
(* However many goroutines start and stop the Dcron and however its Starts *)
(* fail, no scheduler goes on behind a Dcron that does not run, until a    *)
(* Stop crosses a Start.                                                   *)
(***************************************************************************)
THEOREM QuietWhenStopped == Spec => []StoppedIsQuiet
<1>1. Init => QuietOK
  <2>. SUFFICES ASSUME Init PROVE QuietOK
    OBVIOUS
  <2>1. ~crRunning /\ \A c \in Controller : pc[c].at = "idle"
    BY DcronAssumption DEF Init, Idle
  <2>. QED BY <2>1 DEF QuietOK, Starting
<1>2. IInv /\ QuietOK /\ [Next]_vars => QuietOK'
  <2>. SUFFICES ASSUME IInv, QuietOK, [Next]_vars PROVE QuietOK'
    OBVIOUS
  <2>1. CASE UNCHANGED <<pc, running, crRunning, crossed>>
    BY <2>1 DEF QuietOK, Starting
  <2>2. ASSUME NEW c \in Caller \ Controller, CleanJobs(c) PROVE QuietOK'
    <3>1. UNCHANGED <<running, crRunning, crossed>> /\ \A d \in Controller : pc'[d] = pc[d]
      BY <2>2, DcronAssumption DEF CleanJobs, IInv, ControlOK, ControlType
    <3>. QED BY <3>1 DEF QuietOK, Starting
  <2>3. ASSUME NEW c \in Controller,
               Control(c) \/ Stop(c) \/ \E wait \in BOOLEAN : Start(c, wait)
        PROVE  QuietOK'
    BY <2>3, QuietStep DEF IInv
  <2>4. ASSUME NEW a \in Act, Activate(a) \/ Goroutine(a) PROVE QuietOK'
    <3>1. UNCHANGED callVars
      BY <2>4 DEF Activate, Goroutine, Check, StoreState, PopAllJobs, LoadState, PackJob,
                  Execute, RerunLookup, RerunJob, Progress
    <3>. QED BY <2>1, <3>1 DEF callVars
  <2>5. CASE PoolLoopStop \/ PoolChange \/ Tick \/ UNCHANGED vars
    BY <2>1, <2>5 DEF PoolLoopStop, PoolChange, Tick, vars, callVars
  <2>6. ASSUME NEW c \in Caller, NEW n \in Name, AddJob(c, n) \/ Remove(c, n) PROVE QuietOK'
    BY <2>1, <2>6 DEF AddJob, Remove
  <2>. QED
    BY <2>2, <2>3, <2>4, <2>5, <2>6 DEF Next
<1>3. QuietOK => StoppedIsQuiet
  BY DEF QuietOK, StoppedIsQuiet, NoStrayScheduler
<1>. QED
  BY <1>1, <1>2, <1>3, Inductive, PTL DEF Spec

-------------------------------------------------------------------------------
(* Reruns *)

(***************************************************************************)
(* Whatever else goes on, a job that PopAllJobs hands to a rerun is lost   *)
(* only to an upgrade, to another node or to Remove.                       *)
(***************************************************************************)
THEOREM RerunsAll == Spec => PoppedIsRun
<1>. DEFINE Lost == \A a \in Act : \A r \in Pending(a) \ Pending(a)' :
                       \/ ran'[r.act] = ran[r.act] + 1
                       \/ pool = "upgrading" \/ r.name \notin mine \/ ~HasJob(r.name)
<1>1. IInv /\ [Next]_vars => [Lost]_vars
  <2>. SUFFICES ASSUME IInv, Next, NEW a \in Act, NEW r \in Pending(a), r \notin Pending(a)'
       PROVE  \/ ran'[r.act] = ran[r.act] + 1
              \/ pool = "upgrading" \/ r.name \notin mine \/ ~HasJob(r.name)
    OBVIOUS
  <2>0. ActOK /\ ActType
    BY DEF IInv, ActOK
  <2>1. rerun \in [Act -> Rerun] /\ rerun' # rerun
    BY <2>0 DEF Pending, ActType
  <2>2. PICK b \in Act : PopAllJobs(b) \/ RerunLookup(b) \/ RerunJob(b)
    BY <2>1 DEF Next, Control, Goroutine, Activate, Check, StoreState, LoadState, PackJob,
                Execute, CleanJobs, AddJob, Remove, Stop, Start, PoolStart, PoolWait, CrStart,
                PoolStop, Spin, CrStop, Steps, PoolLoopStop, PoolChange, Tick, actVars
  <2>3. b = a
    <3>1. b # a => rerun'[a] = rerun[a]
      BY <2>1, <2>2 DEF PopAllJobs, RerunLookup, RerunJob
    <3>. QED BY <3>1 DEF Pending
  <2>4. r \in Recent /\ r # None /\ r.act \in Act
    BY <2>0, Acts, RecentActs, NoneAssumption
  <2>5. CASE PopAllJobs(a)
    BY <2>0, <2>5 DEF PopAllJobs, Progress, ActOK, FreshOK
  <2>6. CASE RerunLookup(a)
    <3>1. PICK q \in rerun[a].left :
            rerun' = [rerun EXCEPT ![a] = [left |-> rerun[a].left \ {q},
                                           cur |-> IF HasJob(q.name) THEN q ELSE None]]
      BY <2>6 DEF RerunLookup
    <3>2. /\ rerun'[a].left = rerun[a].left \ {q}
          /\ rerun'[a].cur = IF HasJob(q.name) THEN q ELSE None
      BY <2>1, <3>1
    <3>3. rerun[a].cur = None /\ r \in rerun[a].left
      BY <2>4, <2>6 DEF RerunLookup, Pending
    <3>4. r = q
      BY <3>2, <3>3 DEF Pending
    <3>. QED BY <2>4, <3>2, <3>4 DEF Pending
  <2>7. CASE RerunJob(a)
    <3>1. rerun'[a].left = rerun[a].left
      BY <2>1, <2>7 DEF RerunJob, Rerun
    <3>2. r = rerun[a].cur
      BY <3>1 DEF Pending
    <3>3. CASE IsEligible(r.name) = "yes"
      <4>1. ran' = [ran EXCEPT ![r.act] = @ + 1]
        BY <2>7, <3>2, <3>3 DEF RerunJob
      <4>. QED BY <2>0, <2>4, <4>1 DEF ActType
    <3>4. CASE IsEligible(r.name) # "yes"
      BY <3>4 DEF IsEligible
    <3>. QED BY <3>3, <3>4
  <2>. QED BY <2>2, <2>3, <2>5, <2>6, <2>7
<1>. QED
  BY <1>1, Inductive, PTL DEF Spec, PoppedIsRun

-------------------------------------------------------------------------------
(* Activations that overlap *)

(***************************************************************************)
(* As long as no other activation has stored another state between the     *)
(* store and the load of a, the load reads its own outcome: it packs the   *)
(* job only if the pool did not answer. Overwritten or not, an activation  *)
(* runs its job only if the pool allowed it or was not asked.              *)
(***************************************************************************)
AnswerOK(a) ==
    /\ act[a].at \in {"new", "check"} => act[a].answer = "none"
    /\ act[a].at = "pop" => act[a].answer # "error"
    /\ act[a].at \in {"pop", "load"} /\ a \notin over =>
          state = IF act[a].answer = "error" THEN "upgrade" ELSE "steady"
    /\ act[a].at = "add" /\ a \notin over => act[a].answer = "error"
    /\ act[a].at = "exec" => act[a].answer \in {"yes", "none"}

(* What is packed or being run again was not run before, unless it is the  *)
(* job of an allowed activation whose state was overwritten.               *)
Single(a) == a \notin over \/ act[a].answer # "yes"
OnceOK(a) ==
    Single(a) => /\ act[a].at = "exec" => ~Packed(a) /\ ran[a] = 0
                 /\ ran[a] <= 1
                 /\ Packed(a) => ran[a] = 0
OverOK == /\ \A a \in Act : AnswerOK(a)
          /\ \A a \in Act : OnceOK(a)

(* A step of a before it packs or runs its job. *)
LEMMA OnceStep ==
  ASSUME IInv, OverOK, NEW a \in Act, NEW at, Moved(a, at), over \subseteq over',
         UNCHANGED <<rerun, recent, ran>>, act[a].at \notin {"exec", "done"}
  PROVE  \A b \in Act : OnceOK(b)'
<1>1. \A b \in Act : Packed(b)' <=> Packed(b)
  BY DEF Packed, Pending
<1>2. ~Packed(a) /\ ran[a] = 0
  BY DEF IInv, ActOK, RanOK
<1>3. \A b \in Act : b # a => act'[b] = act[b] /\ (Single(b)' => Single(b))
  BY DEF Moved, Single
<1>. QED BY <1>1, <1>2, <1>3 DEF OverOK, OnceOK

(* A step of a that leaves d.state alone. *)
LEMMA AnswerStep ==
  ASSUME OverOK, NEW a \in Act, NEW at, Moved(a, at), UNCHANGED <<state, over>>, AnswerOK(a)'
  PROVE  \A b \in Act : AnswerOK(b)'
<1>1. \A b \in Act : b # a => act'[b] = act[b]
  BY DEF Moved
<1>. QED BY <1>1 DEF OverOK, AnswerOK

LEMMA ActivateOver ==
  ASSUME IInv, OverOK, NEW a \in Act, Activate(a)
  PROVE  OverOK'
<1>1. act[a].at = "new" /\ UNCHANGED <<rerun, recent, ran, state, over>>
  BY DEF Activate
<1>2. PICK e \in entries :
        act' = [act EXCEPT ![a] = [at |-> IF capacity THEN "exec" ELSE "check",
                                   name |-> e[2], answer |-> act[a].answer]]
  BY DEF Activate
<1>3. act \in [Act -> Activation] /\ act' \in [Act -> Activation] /\ NamedOK'
  BY ActivateKeeps DEF IInv, ActOK, ActType
<1>4. /\ act'[a].at \in {"exec", "check"} /\ act'[a].answer = act[a].answer
      /\ \A b \in Act : b # a => act'[b] = act[b]
  BY <1>2, <1>3
<1>5. Moved(a, act'[a].at)
  BY <1>3, <1>4 DEF Moved, NamedOK
<1>6. AnswerOK(a)'
  BY <1>1, <1>4 DEF OverOK, AnswerOK
<1>. QED
  BY <1>1, <1>5, <1>6, OnceStep, AnswerStep DEF OverOK

LEMMA StoreStateOver ==
  ASSUME IInv, OverOK, NEW a \in Act, StoreState(a)
  PROVE  OverOK'
<1>0. ActOK /\ ActType
  BY DEF IInv, ActOK
<1>1. act[a].at = "store" /\ UNCHANGED <<rerun, recent, ran>> /\ over' = over \cup Overwrites(a)
  BY DEF StoreState, Progress
<1>2. \/ act[a].answer = "error" /\ state' = "upgrade" /\ Moves(a, "load")
      \/ act[a].answer # "error" /\ state' = "steady" /\ Moves(a, "pop")
  BY DEF StoreState
<1>3. PICK at \in {"load", "pop"} : Moves(a, at)
  BY <1>2
<1>4. Moved(a, at) /\ act'[a].answer = act[a].answer
  BY <1>0, <1>1, <1>3, MovesMoves
<1>5. /\ act[a].answer = "error" => state' = "upgrade" /\ act'[a].at = "load"
      /\ act[a].answer # "error" => state' = "steady" /\ act'[a].at = "pop"
  BY <1>0, <1>1, <1>2, MovesMoves DEF Moved
<1>6. AnswerOK(a)'
  BY <1>4, <1>5 DEF AnswerOK
<1>7. ASSUME NEW b \in Act, b # a PROVE AnswerOK(b)'
  <2>1. act'[b] = act[b] /\ AnswerOK(b) /\ (b \notin over' => b \notin over)
    BY <1>1, <1>4, <1>7 DEF Moved, OverOK
  <2>2. act[b].at \in {"pop", "load"} /\ b \notin over' => state' = state
    BY <1>1, <1>7 DEF Overwrites
  <2>. QED BY <2>1, <2>2 DEF AnswerOK
<1>8. \A b \in Act : AnswerOK(b)'
  BY <1>6, <1>7
<1>9. \A b \in Act : OnceOK(b)'
  BY <1>1, <1>4, OnceStep
<1>. QED BY <1>8, <1>9 DEF OverOK

LEMMA GoroutineOver ==
  ASSUME IInv, OverOK, NEW a \in Act, Goroutine(a)
  PROVE  OverOK'
<1>0. ActOK /\ ActType
  BY DEF IInv, ActOK
<1>1. CASE Check(a)
  <2>. DEFINE r == [at |-> "store", name |-> act[a].name, answer |-> IsEligible(act[a].name)]
  <2>1. /\ act' = [act EXCEPT ![a] = r] /\ act[a].at = "check"
        /\ UNCHANGED <<rerun, recent, ran, state, over>>
    BY <1>1 DEF Check, Progress
  <2>2. r \in Activation /\ r.at = "store" /\ r.name \in Name
    BY <1>0, <2>1, Acts DEF Activation, ActOK, IsEligible, NamedOK
  <2>. HIDE DEF r
  <2>3. Moved(a, "store")
    BY <1>0, <2>1, <2>2 DEF Moved, ActType
  <2>4. AnswerOK(a)'
    BY <2>3 DEF AnswerOK, Moved
  <2>. QED BY <2>1, <2>3, <2>4, OnceStep, AnswerStep DEF OverOK
<1>2. CASE StoreState(a)
  BY <1>2, StoreStateOver
<1>3. CASE PopAllJobs(a)
  <2>1. /\ act[a].at = "pop" /\ UNCHANGED <<ran, state, over>> /\ recent' = {}
        /\ Moved(a, "load") /\ act'[a].answer = act[a].answer
    BY <1>0, <1>3, MovesMoves DEF PopAllJobs, Progress
  <2>2. AnswerOK(a)'
    BY <2>1 DEF OverOK, AnswerOK, Moved
  <2>3. \A b \in Act : Packed(b)' => Packed(b)
    <3>1. Pending(a) = {} /\ rerun[a].cur \in Recent \cup {None}
      BY <1>0, <2>1, Acts DEF ActOK, FreshOK
    <3>2. rerun'[a].left = recent /\ rerun'[a].cur = rerun[a].cur
          /\ \A b \in Act : b # a => rerun'[b] = rerun[b]
      BY <1>0, <1>3 DEF PopAllJobs, ActType, Rerun
    <3>3. Pending(a)' = recent /\ \A b \in Act : b # a => Pending(b)' = Pending(b)
      BY <3>1, <3>2 DEF Pending
    <3>. QED BY <2>1, <3>3 DEF Packed
  <2>4. \A b \in Act : /\ act'[b].at = "exec" => act[b].at = "exec"
                       /\ Single(b)' => Single(b)
    BY <2>1 DEF Moved, Single
  <2>5. \A b \in Act : OnceOK(b)'
    BY <2>1, <2>3, <2>4 DEF OverOK, OnceOK
  <2>. QED BY <2>1, <2>2, <2>5, AnswerStep DEF OverOK
<1>4. CASE LoadState(a)
  <2>1. act[a].at = "load" /\ UNCHANGED <<rerun, recent, ran, state, over>>
    BY <1>4 DEF LoadState, Progress
  <2>2. a \notin over => state = IF act[a].answer = "error" THEN "upgrade" ELSE "steady"
    BY <2>1 DEF OverOK, AnswerOK
  <2>3. \/ state = "upgrade" /\ Moves(a, "add")
        \/ act[a].answer = "yes" /\ Moves(a, "exec")
        \/ Moves(a, "done")
    BY <1>4 DEF LoadState, Allowed
  <2>4. PICK at \in {"add", "exec", "done"} : Moves(a, at)
    BY <2>3
  <2>5. Moved(a, at) /\ act'[a].answer = act[a].answer
    BY <1>0, <2>1, <2>4, MovesMoves
  <2>6. \/ state = "upgrade" /\ act'[a].at = "add"
        \/ act[a].answer = "yes" /\ act'[a].at = "exec"
        \/ act'[a].at = "done"
    BY <1>0, <2>1, <2>3, MovesMoves DEF Moved
  <2>7. AnswerOK(a)'
    BY <2>1, <2>2, <2>5, <2>6 DEF AnswerOK
  <2>. QED BY <2>1, <2>5, <2>7, OnceStep, AnswerStep DEF OverOK
<1>5. CASE PackJob(a)
  <2>1. act[a].at = "add" /\ UNCHANGED <<ran, state, rerun, over>>
    BY <1>5 DEF PackJob, Progress
  <2>2. PICK at \in {"exec", "done"} :
           Moved(a, at) /\ act'[a].answer = act[a].answer /\ (at = "exec" => act[a].answer = "yes")
    <3>1. act[a].answer = "yes" => Moves(a, "exec")
      BY <1>5 DEF PackJob, Allowed
    <3>2. act[a].answer # "yes" => Moves(a, "done")
      BY <1>5 DEF PackJob, Allowed
    <3>. QED BY <1>0, <2>1, <3>1, <3>2, MovesMoves
  <2>3. act[a].answer = "yes" => a \in over
    BY <2>1 DEF OverOK, AnswerOK
  <2>4. AnswerOK(a)'
    BY <2>2 DEF AnswerOK, Moved
  <2>5. ran[a] = 0 /\ \A b \in Act : Packed(b)' => Packed(b) \/ b = a
    BY <1>0, <1>5, <2>1, PackJobKeeps DEF ActOK, RanOK
  <2>6. ASSUME NEW b \in Act PROVE OnceOK(b)'
    <3>1. CASE b = a
      BY <2>1, <2>2, <2>3, <2>5, <3>1 DEF OnceOK, Single, Moved
    <3>2. CASE b # a
      <4>1. act'[b] = act[b] /\ (Single(b)' => Single(b)) /\ (Packed(b)' => Packed(b))
        BY <2>1, <2>2, <2>5, <3>2 DEF Moved, Single
      <4>. QED BY <2>1, <4>1 DEF OverOK, OnceOK
    <3>. QED BY <3>1, <3>2
  <2>7. \A b \in Act : AnswerOK(b)'
    BY <2>1, <2>2, <2>4, AnswerStep
  <2>. QED BY <2>6, <2>7 DEF OverOK
<1>6. CASE Execute(a)
  <2>1. act[a].at = "exec" /\ UNCHANGED <<state, rerun, recent, over>>
        /\ ran' = [ran EXCEPT ![a] = @ + 1]
    BY <1>6 DEF Execute, Progress
  <2>2. Moved(a, "done") /\ act'[a].answer = act[a].answer
    BY <1>0, <1>6, <2>1, MovesMoves DEF Execute
  <2>3. AnswerOK(a)'
    BY <2>2 DEF AnswerOK, Moved
  <2>4. ran'[a] = ran[a] + 1 /\ \A b \in Act : b # a => ran'[b] = ran[b]
    BY <1>0, <2>1 DEF ActType
  <2>5. \A b \in Act : (Packed(b)' <=> Packed(b)) /\ (Single(b)' <=> Single(b))
    BY <2>1, <2>2 DEF Packed, Pending, Single, Moved
  <2>6. ASSUME NEW b \in Act PROVE OnceOK(b)'
    <3>1. CASE b = a
      BY <2>1, <2>2, <2>4, <2>5, <3>1 DEF OverOK, OnceOK, Moved
    <3>2. CASE b # a
      BY <2>2, <2>4, <2>5, <3>2 DEF OverOK, OnceOK, Moved
    <3>. QED BY <3>1, <3>2
  <2>7. \A b \in Act : AnswerOK(b)'
    BY <2>1, <2>2, <2>3, AnswerStep
  <2>. QED BY <2>6, <2>7 DEF OverOK
<1>7. CASE RerunLookup(a)
  <2>1. UNCHANGED <<act, state, recent, ran, over>>
    BY <1>7 DEF RerunLookup
  <2>2. \A b \in Act : Packed(b)' => Packed(b)
    <3>1. PICK q \in rerun[a].left :
            rerun' = [rerun EXCEPT ![a] = [left |-> rerun[a].left \ {q},
                                           cur |-> IF HasJob(q.name) THEN q ELSE None]]
      BY <1>7 DEF RerunLookup
    <3>2. /\ rerun'[a].left = rerun[a].left \ {q} /\ rerun'[a].cur \in {q, None}
          /\ \A b \in Act : b # a => rerun'[b] = rerun[b]
      BY <1>0, <3>1 DEF ActType
    <3>3. \A b \in Act : Pending(b)' \subseteq Pending(b)
      BY <3>2 DEF Pending
    <3>. QED BY <2>1, <3>3 DEF Packed
  <2>. QED BY <2>1, <2>2 DEF OverOK, AnswerOK, OnceOK, Single
<1>8. CASE RerunJob(a)
  <2>1. UNCHANGED <<act, state, recent, over>>
    BY <1>8 DEF RerunJob
  <2>2. PICK k \in Act : /\ Packed(k) /\ ~Packed(k)' /\ ran'[k] <= ran[k] + 1
                         /\ \A b \in Act : b # k => ran'[b] = ran[b]
    BY <1>0, <1>8, RerunJobKeeps
  <2>3. \A b \in Act : Packed(b)' => Packed(b)
    BY <1>0, <1>8, RerunJobKeeps
  <2>4. Single(k) => ran[k] = 0 /\ act[k].at # "exec"
    BY <2>2 DEF OverOK, OnceOK
  <2>5. \A b \in Act : OnceOK(b)'
    <3>. SUFFICES ASSUME NEW b \in Act PROVE OnceOK(b)'
      OBVIOUS
    <3>1. CASE b = k
      <4>1. Single(b)' => ran'[b] <= 1 /\ act'[b].at # "exec" /\ ~Packed(b)'
        BY <2>1, <2>2, <2>4, <3>1 DEF Single
      <4>. QED BY <4>1 DEF OnceOK
    <3>2. CASE b # k
      BY <2>1, <2>2, <2>3, <3>2 DEF OverOK, OnceOK, Single
    <3>. QED BY <3>1, <3>2
  <2>. QED BY <2>1, <2>5 DEF OverOK, AnswerOK
<1>. QED
  BY <1>1, <1>2, <1>3, <1>4, <1>5, <1>6, <1>7, <1>8 DEF Goroutine

(***************************************************************************)
(* The inductive invariant of overlapping activations: an answer of the    *)
(* pool is still in d.state when the activation reads it back, or the      *)
(* activation is one of those whose state was overwritten.                 *)
(***************************************************************************)
THEOREM OverInductive == Spec => []OverOK
<1>1. Init => OverOK
  <2>. SUFFICES ASSUME Init PROVE OverOK
    OBVIOUS
  <2>1. \A a \in Act : /\ act[a].at = "new" /\ act[a].answer = "none" /\ ran[a] = 0
                       /\ Pending(a) = {}
    BY DEF Init, Pending
  <2>2. \A a \in Act : ~Packed(a)
    BY <2>1 DEF Packed, Init
  <2>. QED BY <2>1, <2>2 DEF OverOK, AnswerOK, OnceOK
<1>2. IInv /\ OverOK /\ [Next]_vars => OverOK'
  <2>. SUFFICES ASSUME IInv, OverOK, [Next]_vars PROVE OverOK'
    OBVIOUS
  <2>1. CASE UNCHANGED actVars
    BY <2>1 DEF OverOK, AnswerOK, OnceOK, Single, Packed, Pending, actVars
  <2>2. CASE \E a \in Act : Activate(a) \/ Goroutine(a)
    BY <2>2, ActivateOver, GoroutineOver
  <2>3. CASE UNCHANGED vars
    BY <2>1, <2>3 DEF vars
  <2>4. UNCHANGED vars \/ UNCHANGED actVars \/ \E a \in Act : Activate(a) \/ Goroutine(a)
    BY DEF Next, Control, CleanJobs, AddJob, Remove, Stop, Start, PoolStart, PoolWait, CrStart,
           PoolStop, Spin, CrStop, Steps, PoolLoopStop, PoolChange, Tick
  <2>. QED BY <2>1, <2>2, <2>3, <2>4
<1>. QED
  BY <1>1, <1>2, Inductive, PTL DEF Spec

(***************************************************************************)
(* However many activations are in progress, this node runs the job of an  *)
(* activation at most once, in the activation or in a rerun, unless the    *)
(* pool allowed it and another activation overwrote its state.             *)
(***************************************************************************)
THEOREM RunsOnce == Spec => []AtMostOnce
<1>1. OverOK => AtMostOnce
  BY DEF OverOK, OnceOK, Single, AtMostOnce
<1>. QED BY <1>1, OverInductive, PTL

(***************************************************************************)
(* However many activations are in progress, one that the pool could not   *)
(* answer is packed before allowThisNodeRun returns, unless another one    *)
(* has overwritten its state.                                              *)
(***************************************************************************)
THEOREM MissedArePacked == Spec => MissedUnlessOverwritten
<1>. DEFINE Packs == \A a \in Act \ over :
                act[a].at # "done" /\ act'[a].at = "done" /\ act[a].answer = "error" =>
                   \E r \in recent' : r.act = a
<1>1. IInv /\ OverOK /\ [Next]_vars => [Packs]_vars
  <2>. SUFFICES ASSUME IInv, OverOK, Next, NEW a \in Act, a \notin over,
                       act[a].at # "done", act'[a].at = "done", act[a].answer = "error"
       PROVE  \E r \in recent' : r.act = a
    OBVIOUS
  <2>0. ActOK /\ ActType
    BY DEF IInv, ActOK
  <2>1. act \in [Act -> Activation] /\ act' # act
    BY <2>0 DEF ActType
  <2>2. PICK b \in Act : Activate(b) \/ Goroutine(b)
    BY <2>1 DEF Next, Control, CleanJobs, AddJob, Remove, Stop, Start, PoolStart, PoolWait,
           CrStart, PoolStop, Spin, CrStop, Steps, PoolLoopStop, PoolChange, Tick, actVars
  <2>3. b = a
    BY <2>1, <2>2 DEF Activate, Goroutine, Check, StoreState, PopAllJobs, LoadState, PackJob,
           Execute, RerunLookup, RerunJob, Moves
  <2>4. PackJob(a)
    <3>1. AnswerOK(a)
      BY DEF OverOK
    <3>2. ~Activate(a)
      BY <2>1 DEF Activate
    <3>3. ~Check(a)
      BY <2>1 DEF Check
    <3>4. ~StoreState(a) /\ ~PopAllJobs(a)
      BY <2>0, MovesMoves DEF StoreState, PopAllJobs, Progress, Moved
    <3>5. ~LoadState(a)
      <4>. SUFFICES ASSUME LoadState(a) PROVE FALSE
        OBVIOUS
      <4>1. act[a].at = "load" /\ state = "upgrade"
        BY <3>1 DEF AnswerOK, LoadState, Progress
      <4>2. Moves(a, "add")
        BY <4>1 DEF LoadState
      <4>. QED BY <2>0, <4>1, <4>2, MovesMoves DEF Moved
    <3>6. ~Execute(a)
      BY <3>1 DEF Execute, Progress, AnswerOK
    <3>7. ~RerunLookup(a) /\ ~RerunJob(a)
      BY <2>1 DEF RerunLookup, RerunJob
    <3>. QED BY <2>2, <2>3, <3>2, <3>3, <3>4, <3>5, <3>6, <3>7 DEF Goroutine
  <2>. QED BY <2>0, <2>4, PackJobKeeps
<1>. QED
  BY <1>1, Inductive, OverInductive, PTL DEF Spec, MissedUnlessOverwritten
===============================================================================
