-------------------------------- MODULE Dcron ---------------------------------
(***************************************************************************)
(* Package dcron on one node: the table of jobs kept beside the entries of *)
(* the cron scheduler, Start, Run and Stop, which drive the scheduler and  *)
(* the node pool, the goroutine of an activation, which asks the pool      *)
(* whether the job belongs to this node, and the packer of recent jobs,    *)
(* which are run again once the pool is steady.                            *)
(*                                                                         *)
(* The scheduler is what module Cron shows of it: it starts jobs of its    *)
(* entries while it runs, and is stuck once ResetEntries is called on it   *)
(* running. The pool is what module NodePool shows of it: a stop channel   *)
(* of capacity one, goroutines that read it, and an answer to IsEligible.  *)
(***************************************************************************)
EXTENDS Integers, FiniteSets

CONSTANTS
    Caller,         \* goroutines that call the exported methods
    Controller,     \* the callers that call Start, Run and Stop
    Name,           \* job names
    None,           \* no job; no caller
    Window,         \* the packer's timeWindow
    MaxTime,        \* bound: the clock
    MaxCalls,       \* bound: calls of the exported methods
    MaxActs,        \* bound: activations
    MaxUpgrades,    \* bound: changes of the pool
    MaxEvents       \* bound: calls, activations and ticks together

ASSUME DcronAssumption ==
    /\ Controller \subseteq Caller /\ None \notin Caller \cup Name
    /\ Window \in Nat /\ MaxTime \in Nat /\ MaxCalls \in Nat
    /\ MaxActs \in Nat /\ MaxUpgrades \in Nat /\ MaxEvents \in Nat

Act == 1 .. MaxActs
Recent == [act : Act, name : Name, t : 0 .. MaxTime]
ASSUME NoneAssumption == None \notin Recent

VARIABLES
    capacity,   \* d.capacityLoad
    jobs,       \* d.jobs: the id of the entry of each job, 0 for none
    jobsMu,     \* a caller that keeps d.jobsRWMut for ever, or None
    running,    \* d.running
    entries,    \* the scheduler's entries, <<id, name>>
    lastId,     \* the scheduler's nextID
    crRunning,  \* the scheduler runs
    pc,         \* pc[c]: where caller c is
    drv,        \* the pool's driver: never started, started or stopped
    token,      \* values in the pool's stopChan
    loops,      \* the pool's update goroutines
    pool,       \* the pool's state
    mine,       \* the jobs that the pool gives to this node
    act,        \* act[a]: the goroutine of activation a
    rerun,      \* rerun[a]: the goroutine of reRunRecentJobs that a started
    state,      \* d.state
    recent,     \* d.recentJobs
    ran,        \* ran[a]: how often the job ran for activation a
    over,       \* history: activations whose state another one overwrote
    crossed,    \* history: a Stop took running from a Start in progress
    clock, calls, upgrades

callVars == <<jobs, jobsMu, running, entries, lastId, crRunning, pc, drv, token, loops, calls,
              crossed>>
poolVars == <<pool, mine, upgrades>>
actVars  == <<act, rerun, state, recent, ran, over>>
vars == <<capacity, callVars, poolVars, actVars, clock>>

At == {"idle", "poolStart", "poolWait", "crStart", "run",
       "poolStop", "spin", "crStop", "stuck"}
Activation == [at : {"new", "check", "store", "pop", "load", "add", "exec", "done"},
               name : Name \cup {None}, answer : {"none", "error", "yes", "no"}]
Rerun == [left : SUBSET Recent, cur : Recent \cup {None}]

(* Type invariant of a Dcron and its goroutines. *)
TypeOK ==
    /\ capacity \in BOOLEAN
    /\ jobs \in [Name -> 0 .. MaxCalls] /\ jobsMu \in Caller \cup {None}
    /\ running \in BOOLEAN /\ crRunning \in BOOLEAN
    /\ entries \subseteq (1 .. MaxCalls) \X Name /\ lastId \in 0 .. MaxCalls
    /\ pc \in [Caller -> [at : At, wait : BOOLEAN]]
    /\ drv \in {"new", "started", "stopped"}
    /\ token \in 0 .. 1 /\ loops \in Nat
    /\ pool \in {"steady", "upgrading"} /\ mine \subseteq Name
    /\ act \in [Act -> Activation] /\ rerun \in [Act -> Rerun]
    /\ state \in {"none", "steady", "upgrade"}
    /\ recent \subseteq Recent
    /\ ran \in [Act -> 0 .. 2] /\ over \subseteq Act /\ crossed \in BOOLEAN
    /\ clock \in 0 .. MaxTime /\ calls \in 0 .. MaxCalls
    /\ upgrades \in 0 .. MaxUpgrades

Idle == [at |-> "idle", wait |-> FALSE]

Init ==
    /\ capacity \in BOOLEAN
    /\ jobs = [n \in Name |-> 0] /\ jobsMu = None
    /\ running = FALSE /\ crRunning = FALSE
    /\ entries = {} /\ lastId = 0
    /\ pc = [c \in Caller |-> Idle]
    /\ drv = "new" /\ token = 0 /\ loops = 0
    /\ pool = "steady" /\ mine \in SUBSET Name
    /\ act = [a \in Act |-> [at |-> "new", name |-> None, answer |-> "none"]]
    /\ rerun = [a \in Act |-> [left |-> {}, cur |-> None]]
    /\ state = "none" /\ recent = {}
    /\ ran = [a \in Act |-> 0] /\ over = {} /\ crossed = FALSE
    /\ clock = 0 /\ calls = 0 /\ upgrades = 0

-------------------------------------------------------------------------------
(* Jobs. The methods hold jobsRWMut; only CleanJobs can fail to return. *)

Budget == calls + Cardinality({a \in Act : act[a].at # "new"}) + clock < MaxEvents
Calls(c) == pc[c] = Idle /\ Budget /\ calls < MaxCalls /\ calls' = calls + 1
HasJob(n) == jobs[n] # 0

(* Mutant: a second job takes the place of one with its name. *)
AddJobAgain(c, n) ==
    /\ Calls(c) /\ jobsMu = None
    /\ lastId' = lastId + 1
    /\ entries' = entries \cup {<<lastId', n>>}
    /\ jobs' = [jobs EXCEPT ![n] = lastId']
    /\ UNCHANGED <<jobsMu, running, crRunning, pc, drv, token, loops, crossed>>
    /\ UNCHANGED <<capacity, poolVars, actVars, clock>>

(* AddJob and AddFunc; a name in use, or a spec that does not parse, fails. *)
AddJob(c, n) ==
    /\ Calls(c) /\ jobsMu = None
    /\ \/ /\ ~HasJob(n)
          /\ lastId' = lastId + 1
          /\ entries' = entries \cup {<<lastId', n>>}
          /\ jobs' = [jobs EXCEPT ![n] = lastId']
       \/ UNCHANGED <<lastId, entries, jobs>>
    /\ UNCHANGED <<jobsMu, running, crRunning, pc, drv, token, loops, crossed>>
    /\ UNCHANGED <<capacity, poolVars, actVars, clock>>

Remove(c, n) ==
    /\ Calls(c) /\ jobsMu = None
    /\ jobs' = [jobs EXCEPT ![n] = 0]
    /\ entries' = {e \in entries : e[1] # jobs[n]}
    /\ UNCHANGED <<jobsMu, running, lastId, crRunning, pc, drv, token, loops, crossed>>
    /\ UNCHANGED <<capacity, poolVars, actVars, clock>>

(***************************************************************************)
(* ResetEntries of a running scheduler does not return: the caller keeps   *)
(* jobsRWMut, and in the scheduler runningMu, for ever.                    *)
(***************************************************************************)
CleanJobs(c) ==
    /\ Calls(c) /\ jobsMu = None
    /\ jobs' = [n \in Name |-> 0]
    /\ \/ ~crRunning /\ entries' = {} /\ UNCHANGED <<jobsMu, pc>>
       \/ /\ crRunning /\ UNCHANGED entries
          /\ jobsMu' = c /\ pc' = [pc EXCEPT ![c].at = "stuck"]
    /\ UNCHANGED <<running, lastId, crRunning, drv, token, loops, crossed>>
    /\ UNCHANGED <<capacity, poolVars, actVars, clock>>

-------------------------------------------------------------------------------
(* Start, Run and Stop *)

Starting(c) == pc[c].at \in {"poolStart", "poolWait", "crStart"}
Goes(c, at) == pc' = [pc EXCEPT ![c].at = at]
Steps(c, at) == pc[c].at = at /\ UNCHANGED <<jobs, jobsMu, entries, lastId, calls>>
                              /\ UNCHANGED <<capacity, poolVars, actVars, clock>>

(* Start, or Run when wait is true, after a RecoverFunc that adds jobs. *)
Start(c, wait) ==
    /\ Calls(c)
    /\ \/ running /\ UNCHANGED <<running, pc>>
       \/ /\ ~running /\ running' = TRUE
          /\ pc' = [pc EXCEPT ![c] = [at |-> "poolStart", wait |-> wait]]
    /\ UNCHANGED <<jobs, jobsMu, entries, lastId, crRunning, drv, token, loops, crossed>>
    /\ UNCHANGED <<capacity, poolVars, actVars, clock>>

(* Mutant: Start goes on although the pool did not start. *)
PoolStartGoesOn(c) ==
    /\ Steps(c, "poolStart") /\ drv' = "started"
    /\ \/ /\ drv # "started" /\ loops' = loops + 1
          /\ Goes(c, "poolWait") /\ UNCHANGED running
       \/ running' = FALSE /\ Goes(c, "crStart") /\ UNCHANGED loops
    /\ UNCHANGED <<crRunning, token, crossed>>

(***************************************************************************)
(* NodePool.Start starts its goroutine and waits to be steady, or fails:   *)
(* the driver cannot register the node or list the nodes, and stays        *)
(* started all the same, or it was started and refuses to start again.     *)
(***************************************************************************)
PoolStart(c) ==
    /\ Steps(c, "poolStart") /\ drv' = "started"
    /\ \/ /\ drv # "started" /\ loops' = loops + 1
          /\ Goes(c, "poolWait") /\ UNCHANGED running
       \/ running' = FALSE /\ pc' = [pc EXCEPT ![c] = Idle] /\ UNCHANGED loops
    /\ UNCHANGED <<crRunning, token, crossed>>

PoolWait(c) ==
    /\ Steps(c, "poolWait") /\ loops > 0 /\ pool = "steady"
    /\ Goes(c, "crStart")
    /\ UNCHANGED <<running, crRunning, drv, token, loops, crossed>>

(* The scheduler's runningMu is free, unless CleanJobs is stuck. *)
CrStart(c) ==
    /\ Steps(c, "crStart") /\ jobsMu = None
    /\ crRunning' = TRUE
    /\ pc' = [pc EXCEPT ![c] = IF @.wait /\ ~crRunning THEN [@ EXCEPT !.at = "run"]
                                                       ELSE Idle]
    /\ UNCHANGED <<running, drv, token, loops, crossed>>

(* Before the first Start the driver has no runtimeCancel to call: Stop panics. *)
Stop(c) ==
    /\ Calls(c) /\ drv # "new" /\ Goes(c, "poolStop")
    /\ UNCHANGED <<jobs, jobsMu, running, entries, lastId, crRunning, drv, token, loops,
                   crossed>>
    /\ UNCHANGED <<capacity, poolVars, actVars, clock>>

(* Mutant: a stopChan without a limit. *)
PoolStopNoWait(c) ==
    /\ Steps(c, "poolStop") /\ token' = token + 1 /\ Goes(c, "spin")
    /\ drv' = "stopped"
    /\ UNCHANGED <<running, crRunning, loops, crossed>>

PoolStop(c) ==
    /\ Steps(c, "poolStop") /\ token = 0 /\ token' = 1 /\ Goes(c, "spin")
    /\ drv' = "stopped"
    /\ UNCHANGED <<running, crRunning, loops, crossed>>

(* Mutant: the arguments of CompareAndSwap are exchanged. *)
SpinSwapped(c) ==
    /\ Steps(c, "spin") /\ ~running /\ running' = TRUE /\ Goes(c, "crStop")
    /\ crossed' = (crossed \/ \E d \in Controller : Starting(d))
    /\ UNCHANGED <<crRunning, drv, token, loops>>

(* The tick of a millisecond that finds the Dcron running. *)
Spin(c) ==
    /\ Steps(c, "spin") /\ running /\ running' = FALSE /\ Goes(c, "crStop")
    /\ crossed' = (crossed \/ \E d \in Controller : Starting(d))
    /\ UNCHANGED <<crRunning, drv, token, loops>>

(* The scheduler stops, and a call of Run returns with it. *)
CrStop(c) ==
    /\ Steps(c, "crStop") /\ jobsMu = None
    /\ crRunning' = FALSE
    /\ pc' = [d \in Caller |-> IF d = c \/ pc[d].at = "run" THEN Idle ELSE pc[d]]
    /\ UNCHANGED <<running, drv, token, loops, crossed>>

(* waitingForHashRing of the pool reads its stopChan and returns. *)
PoolLoopStop ==
    /\ token > 0 /\ loops > 0
    /\ token' = token - 1 /\ loops' = loops - 1
    /\ UNCHANGED <<jobs, jobsMu, running, entries, lastId, crRunning, pc, drv, calls,
                   crossed>>
    /\ UNCHANGED <<capacity, poolVars, actVars, clock>>

-------------------------------------------------------------------------------
(* Activations *)

(* The pool's view of the cluster changes, or is confirmed. *)
PoolChange ==
    /\ upgrades < MaxUpgrades /\ upgrades' = upgrades + 1
    /\ \/ pool = "steady" /\ pool' = "upgrading"
       \/ pool = "upgrading" /\ pool' = "steady"
    /\ mine' \in SUBSET Name
    /\ UNCHANGED <<capacity, callVars, actVars, clock>>

(* The end of allowThisNodeRun: the job runs or not. *)
Allowed(a) == IF act[a].answer = "yes" THEN "exec" ELSE "done"
Moves(a, at) == act' = [act EXCEPT ![a].at = at]
Progress(a, at) == act[a].at = at /\ UNCHANGED <<capacity, callVars, poolVars, clock>>

(* JobWarpper.Run, in a goroutine of the scheduler. *)
Activate(a) ==
    /\ Budget /\ crRunning
    /\ act[a].at = "new" /\ \A b \in 1 .. (a - 1) : act[b].at # "new"
    /\ \E e \in entries :
         act' = [act EXCEPT ![a] = [at |-> IF capacity THEN "exec" ELSE "check",
                                    name |-> e[2], answer |-> @.answer]]
    /\ UNCHANGED <<capacity, callVars, poolVars, clock, rerun, state, recent, ran, over>>

IsEligible(n) == IF pool = "upgrading" THEN "error"
                 ELSE IF n \in mine THEN "yes" ELSE "no"

Check(a) ==
    /\ Progress(a, "check")
    /\ act' = [act EXCEPT ![a] = [at |-> "store", name |-> @.name,
                                  answer |-> IsEligible(@.name)]]
    /\ UNCHANGED <<rerun, state, recent, ran, over>>

(* Activations that have stored a state which the store of a replaces before  *)
(* they read it back.                                                         *)
Overwrites(a) ==
    {b \in Act \ {a} : act[b].at \in {"pop", "load"} /\ state' # state}

(* Mutant: an error leaves the state as it was. *)
StoreStateOnlySteady(a) ==
    /\ Progress(a, "store")
    /\ \/ act[a].answer = "error" /\ UNCHANGED state /\ Moves(a, "load")
       \/ act[a].answer # "error" /\ state' = "steady" /\ Moves(a, "pop")
    /\ over' = over \cup Overwrites(a)
    /\ UNCHANGED <<rerun, recent, ran>>

StoreState(a) ==
    /\ Progress(a, "store")
    /\ \/ act[a].answer = "error" /\ state' = "upgrade" /\ Moves(a, "load")
       \/ act[a].answer # "error" /\ state' = "steady" /\ Moves(a, "pop")
    /\ over' = over \cup Overwrites(a)
    /\ UNCHANGED <<rerun, recent, ran>>

(* PopAllJobs, and a goroutine that runs them again. *)
PopAllJobs(a) ==
    /\ Progress(a, "pop") /\ Moves(a, "load")
    /\ rerun' = [rerun EXCEPT ![a].left = recent]
    /\ recent' = {}
    /\ UNCHANGED <<state, ran, over>>

(* Mutant: every job is packed. *)
LoadStateAny(a) ==
    /\ Progress(a, "load") /\ Moves(a, "add")
    /\ UNCHANGED <<rerun, state, recent, ran, over>>

(* The state is read again: another activation may have stored it since. *)
LoadState(a) ==
    /\ Progress(a, "load")
    /\ \/ state = "upgrade" /\ Moves(a, "add")
       \/ state # "upgrade" /\ Moves(a, Allowed(a))
    /\ UNCHANGED <<rerun, state, recent, ran, over>>

(* RecentJobPacker.AddJob, which drops what is older than the window. *)
PackJob(a) ==
    /\ Progress(a, "add") /\ Moves(a, Allowed(a))
    /\ recent' = {r \in recent \cup {[act |-> a, name |-> act[a].name, t |-> clock]} :
                    r.t >= clock - Window}
    /\ UNCHANGED <<rerun, state, ran, over>>

Execute(a) ==
    /\ Progress(a, "exec") /\ Moves(a, "done")
    /\ ran' = [ran EXCEPT ![a] = @ + 1]
    /\ UNCHANGED <<rerun, state, recent, over>>

(* Mutant: the rerun ends after its first job. *)
RerunLookupOnce(a) ==
    /\ rerun[a].cur = None
    /\ \E r \in rerun[a].left :
          /\ \A q \in rerun[a].left : r.t <= q.t
          /\ rerun' = [rerun EXCEPT ![a] = [left |-> {},
                          cur |-> IF HasJob(r.name) THEN r ELSE None]]
    /\ UNCHANGED <<capacity, callVars, poolVars, clock, act, state, recent, ran, over>>

(* reRunRecentJobs looks the next job up, without jobsRWMut, *)
RerunLookup(a) ==
    /\ rerun[a].cur = None
    /\ \E r \in rerun[a].left :
          /\ \A q \in rerun[a].left : r.t <= q.t
          /\ rerun' = [rerun EXCEPT ![a] = [left |-> @.left \ {r},
                          cur |-> IF HasJob(r.name) THEN r ELSE None]]
    /\ UNCHANGED <<capacity, callVars, poolVars, clock, act, state, recent, ran, over>>

(* and runs it when the pool says yes; an error of the pool is dropped. *)
RerunJob(a) ==
    /\ rerun[a].cur # None
    /\ \/ /\ IsEligible(rerun[a].cur.name) = "yes"
          /\ ran' = [ran EXCEPT ![rerun[a].cur.act] = @ + 1]
       \/ IsEligible(rerun[a].cur.name) # "yes" /\ UNCHANGED ran
    /\ rerun' = [rerun EXCEPT ![a].cur = None]
    /\ UNCHANGED <<capacity, callVars, poolVars, clock, act, state, recent, over>>

Tick ==
    /\ Budget /\ clock < MaxTime /\ clock' = clock + 1
    /\ UNCHANGED <<capacity, callVars, poolVars, actVars>>

-------------------------------------------------------------------------------
Control(c) == \/ PoolStart(c) \/ PoolWait(c) \/ CrStart(c)
              \/ PoolStop(c) \/ Spin(c) \/ CrStop(c)
Goroutine(a) == \/ Check(a) \/ StoreState(a) \/ PopAllJobs(a) \/ LoadState(a)
                \/ PackJob(a) \/ Execute(a) \/ RerunLookup(a) \/ RerunJob(a)

Next == \/ \E c \in Caller \ Controller : \/ CleanJobs(c)
                                          \/ \E n \in Name : AddJob(c, n) \/ Remove(c, n)
        \/ \E c \in Controller : \/ Stop(c) \/ Control(c)
                                 \/ \E wait \in BOOLEAN : Start(c, wait)
        \/ \E a \in Act : Activate(a) \/ Goroutine(a)
        \/ PoolLoopStop \/ PoolChange \/ Tick

Spec == Init /\ [][Next]_vars

(* Fairness: goroutines that can run do. *)
FairSpec == /\ Spec /\ WF_vars(PoolLoopStop)
            /\ \A c \in Controller : WF_vars(Control(c))
            /\ \A a \in Act : WF_vars(Goroutine(a))

-------------------------------------------------------------------------------
(***************************************************************************)
(* The jobs of the table and the scheduler's entries are the same, however *)
(* jobs are added, removed and cleaned: no entry is left that Remove       *)
(* cannot reach. A CleanJobs that is stuck has not finished.               *)
(***************************************************************************)
JobsMatchEntries ==
    jobsMu = None => entries = {<<jobs[n], n>> : n \in {m \in Name : HasJob(m)}}

(***************************************************************************)
(* A Dcron that does not run, with no Start or Stop in progress, has no    *)
(* scheduler that goes on starting jobs.                                   *)
(***************************************************************************)
NoStrayScheduler ==
    (\A c \in Controller : pc[c].at \in {"idle", "run"}) /\ ~running => ~crRunning

(***************************************************************************)
(* A Start that fails and a Stop that has returned leave no scheduler      *)
(* behind, whoever else starts and stops, as long as no Stop has reset     *)
(* running while a Start was on its way to cr.Start: that Start does not   *)
(* look at running again.                                                  *)
(***************************************************************************)
StoppedIsQuiet == ~crossed => NoStrayScheduler

(***************************************************************************)
(* A Stop of a Dcron that runs returns, during a Start and beside other    *)
(* Stops too, unless CleanJobs is stuck, or another Stop or a Start that   *)
(* fails resets running before the tick of this one, which then waits.     *)
(***************************************************************************)
Stopping(c) == pc[c].at \in {"poolStop", "spin", "crStop"}
StopReturns ==
    \A c \in Controller :
       Stopping(c) /\ running ~>
          \/ ~Stopping(c) \/ jobsMu # None
          \/ pc[c].at # "crStop" /\ ~running

(***************************************************************************)
(* This node runs a job at most once for an activation, in the activation  *)
(* or in a rerun, however many activations are in progress. The exception  *)
(* is an activation that the pool allowed and that reads back the state    *)
(* another one has stored over its own: it may be packed as well as run.   *)
(***************************************************************************)
AtMostOnce ==
    \A a \in Act : ran[a] <= 1 \/ (a \in over /\ act[a].answer = "yes")

(***************************************************************************)
(* An activation that the pool could not answer because it was upgrading   *)
(* is packed to be run again before allowThisNodeRun returns.              *)
(***************************************************************************)
MissedIsPacked ==
    [][\A a \in Act :
         act[a].at # "done" /\ act'[a].at = "done" /\ act[a].answer = "error" =>
            \E r \in recent' : r.act = a]_vars

(***************************************************************************)
(* The same of an activation in whose state no other one has stored        *)
(* between its own store and load, whatever they do before and after.      *)
(***************************************************************************)
MissedUnlessOverwritten ==
    [][\A a \in Act \ over :
         act[a].at # "done" /\ act'[a].at = "done" /\ act[a].answer = "error" =>
            \E r \in recent' : r.act = a]_vars

(***************************************************************************)
(* A job that PopAllJobs hands to a rerun leaves it only by running,       *)
(* however many others are rerun with it, unless at its turn the pool is   *)
(* upgrading again, the job belongs to another node, or it was removed.    *)
(***************************************************************************)
Pending(a) == rerun[a].left \cup ({rerun[a].cur} \ {None})
PoppedIsRun ==
    [][\A a \in Act : \A r \in Pending(a) \ Pending(a)' :
         \/ ran'[r.act] = ran[r.act] + 1
         \/ pool = "upgrading" \/ r.name \notin mine \/ ~HasJob(r.name)]_vars
===============================================================================
