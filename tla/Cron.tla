--------------------------------- MODULE Cron ---------------------------------
(***************************************************************************)
(* Package cron: the scheduler goroutine (run), the exported methods that  *)
(* talk to it over unbuffered channels while they hold runningMu, and the  *)
(* jobs it starts.                                                         *)
(*                                                                         *)
(* A channel operation is one step of both goroutines. A method that finds *)
(* the scheduler not running finishes in the step that takes the lock: no  *)
(* other goroutine touches what it changes. Time is discrete and starts at *)
(* 1; 0 is Go's zero time. The scheduler may be slow: time may pass while  *)
(* it is between two selects or its timer has fired, MaxLate times.        *)
(***************************************************************************)
EXTENDS Integers, Sequences, FiniteSets

CONSTANTS
    Caller,         \* goroutines that call the exported methods
    NoCaller,       \* runningMu is free
    Op,             \* the methods they call
    Sched,          \* schedules
    NextOf,         \* NextOf[s][t]: the activation of s after t, 0 when none
    MaxTime,        \* bound: the clock
    MaxLate,        \* bound: units of time the scheduler is late
    MaxCalls        \* bound: calls of the exported methods

Time == 1 .. MaxTime
Id == 1 .. MaxCalls

ASSUME CronAssumption ==
    /\ NoCaller \notin Caller
    /\ Op \subseteq {"Schedule", "Remove", "ResetEntries", "Entries",
                     "Start", "Run", "Stop"}
    /\ MaxTime \in Nat \ {0} /\ MaxLate \in Nat /\ MaxCalls \in Nat
    /\ NextOf \in [Sched -> [Time -> Time \cup {0}]]
    /\ \A s \in Sched, t \in Time : NextOf[s][t] > t \/ NextOf[s][t] = 0

VARIABLES
    clock,
    late,       \* units of time the scheduler has been late
    entries,    \* c.entries
    nextID,     \* c.nextID
    running,    \* c.running
    mu,         \* the holder of c.runningMu
    pc,         \* pc[c]: the call that c is in
    loop,       \* where the goroutine in run() is
    now,        \* its variable now
    deadline,   \* when its timer fires, 0 for the timer of 100000 hours
    jobs,       \* the count of c.jobWaiter: jobs that run
    waits,      \* contexts returned by Stop that are not done
    calls,      \* calls made so far
    gone        \* history: ids whose Remove or ResetEntries has returned

vars == <<clock, late, entries, nextID, running, mu, pc, loop, now, deadline,
          jobs, waits, calls, gone>>
loopVars == <<loop, now, deadline>>
jobVars  == <<jobs, waits>>
timeVars == <<clock, late>>

Entry == [id : Id, sched : Sched, next : Time \cup {0}, prev : Time \cup {0}]
Call  == [at : {"lock", "send", "run"}, op : Op, sched : Sched, id : Id]
Idle  == [at |-> "idle"]

(* Type invariant of the scheduler, its callers and its jobs. *)
TypeOK ==
    /\ clock \in Time /\ late \in 0 .. MaxLate
    /\ entries \in Seq(Entry) /\ nextID \in 0 .. MaxCalls
    /\ running \in BOOLEAN
    /\ mu \in Caller \cup {NoCaller}
    /\ pc \in [Caller -> Call \cup {Idle}]
    /\ loop \in {"none", "init", "arm", "select"}
    /\ now \in Time \cup {0} /\ deadline \in 0 .. MaxTime + MaxLate
    /\ jobs \in Nat /\ waits \in Nat /\ calls \in 0 .. MaxCalls
    /\ gone \subseteq Id

Init ==
    /\ clock = 1 /\ late = 0
    /\ entries = <<>> /\ nextID = 0
    /\ running = FALSE /\ mu = NoCaller
    /\ pc = [c \in Caller |-> Idle]
    /\ loop = "none" /\ now = 0 /\ deadline = 0
    /\ jobs = 0 /\ waits = 0 /\ calls = 0
    /\ gone = {}

-------------------------------------------------------------------------------
(* Entries *)

Elems(s) == {s[i] : i \in DOMAIN s}
Ids(s) == {e.id : e \in Elems(s)}

NewEntry(id, s) == [id |-> id, sched |-> s, next |-> 0, prev |-> 0]

(* Mutant: the loop starts at the second entry. *)
RemoveEntryFromSecond(s, id) ==
    LET kept[i \in 0 .. Len(s)] ==
          IF i = 0 THEN <<>>
          ELSE IF i = 1 \/ s[i].id # id THEN Append(kept[i - 1], s[i]) ELSE kept[i - 1]
    IN kept[Len(s)]

(* removeEntry: append the others, from the first to the last. *)
RemoveEntry(s, id) ==
    LET kept[i \in 0 .. Len(s)] ==
          IF i = 0 THEN <<>>
          ELSE IF s[i].id # id THEN Append(kept[i - 1], s[i]) ELSE kept[i - 1]
    IN kept[Len(s)]

(* Mutant: the zero time is the earliest of all. *)
LessZeroFirst(e, f) == e.next < f.next

(* byTime: entries that never run come last. *)
Less(e, f) == e.next # 0 /\ (f.next = 0 \/ e.next < f.next)

(* The sort is not stable: every order that byTime allows may come out. *)
SortedOrders(s) ==
    {p \in [DOMAIN s -> DOMAIN s] :
        /\ \A i, j \in DOMAIN s : p[i] = p[j] => i = j
        /\ \A i, j \in DOMAIN s : i < j => ~Less(s[p[j]], s[p[i]])}

-------------------------------------------------------------------------------
(* Calls *)

(***************************************************************************)
(* A goroutine calls a method and waits for runningMu. The id given to     *)
(* Remove is one that Schedule has returned.                               *)
(***************************************************************************)
Enter(c) ==
    /\ pc[c] = Idle /\ calls < MaxCalls
    /\ \E op \in Op, s \in Sched, id \in Id :
          /\ op = "Remove" => id <= nextID
          /\ op # "Remove" => id = 1
          /\ op # "Schedule" => s = CHOOSE x \in Sched : TRUE
          /\ pc' = [pc EXCEPT ![c] = [at |-> "lock", op |-> op, sched |-> s, id |-> id]]
    /\ calls' = calls + 1
    /\ UNCHANGED <<timeVars, entries, nextID, running, mu, loopVars, jobVars, gone>>

Locks(c, op) == pc[c] # Idle /\ pc[c].at = "lock" /\ pc[c].op = op /\ mu = NoCaller

Returns(c) == pc' = [pc EXCEPT ![c] = Idle] /\ mu' = NoCaller

(* The method sends to the scheduler, which keeps runningMu locked. *)
Blocks(c) == pc' = [pc EXCEPT ![c].at = "send"] /\ mu' = c

Schedule(c) ==
    /\ Locks(c, "Schedule")
    /\ nextID' = nextID + 1
    /\ \/ /\ ~running /\ Returns(c)
          /\ entries' = Append(entries, NewEntry(nextID', pc[c].sched))
       \/ running /\ Blocks(c) /\ UNCHANGED entries
    /\ UNCHANGED <<timeVars, running, loopVars, jobVars, calls, gone>>

Remove(c) ==
    /\ Locks(c, "Remove")
    /\ \/ /\ ~running /\ Returns(c)
          /\ entries' = RemoveEntry(entries, pc[c].id)
          /\ gone' = gone \cup {pc[c].id}
       \/ running /\ Blocks(c) /\ UNCHANGED <<entries, gone>>
    /\ UNCHANGED <<timeVars, nextID, running, loopVars, jobVars, calls>>

ResetEntries(c) ==
    /\ Locks(c, "ResetEntries")
    /\ \/ /\ ~running /\ Returns(c)
          /\ entries' = <<>>
          /\ gone' = gone \cup Ids(entries)
       \/ running /\ Blocks(c) /\ UNCHANGED <<entries, gone>>
    /\ UNCHANGED <<timeVars, nextID, running, loopVars, jobVars, calls>>

(* Entries and Entry: a snapshot, which changes nothing. *)
Entries(c) ==
    /\ Locks(c, "Entries")
    /\ (~running /\ Returns(c)) \/ (running /\ Blocks(c))
    /\ UNCHANGED <<timeVars, entries, nextID, running, loopVars, jobVars, calls, gone>>

Start(c) ==
    /\ Locks(c, "Start") /\ Returns(c)
    /\ \/ running /\ UNCHANGED <<running, loop>>
       \/ ~running /\ running' = TRUE /\ loop' = "init"
    /\ UNCHANGED <<timeVars, entries, nextID, now, deadline, jobVars, calls, gone>>

(* Mutant: Run of a running scheduler returns without Unlock. *)
RunKeepsLock(c) ==
    /\ Locks(c, "Run")
    /\ \/ /\ running /\ UNCHANGED <<running, loop>>
          /\ pc' = [pc EXCEPT ![c] = Idle] /\ mu' = c
       \/ /\ ~running /\ running' = TRUE /\ loop' = "init"
          /\ pc' = [pc EXCEPT ![c].at = "run"] /\ UNCHANGED mu
    /\ UNCHANGED <<timeVars, entries, nextID, now, deadline, jobVars, calls, gone>>

(* Run is Start in the caller's own goroutine: it returns with the loop. *)
Run(c) ==
    /\ Locks(c, "Run")
    /\ \/ running /\ Returns(c) /\ UNCHANGED <<running, loop>>
       \/ /\ ~running /\ running' = TRUE /\ loop' = "init"
          /\ pc' = [pc EXCEPT ![c].at = "run"] /\ UNCHANGED mu
    /\ UNCHANGED <<timeVars, entries, nextID, now, deadline, jobVars, calls, gone>>

(* Wait of a counter that is zero returns at once. *)
NewWait == IF jobs = 0 THEN waits ELSE waits + 1

Stop(c) ==
    /\ Locks(c, "Stop")
    /\ \/ ~running /\ Returns(c) /\ waits' = NewWait
       \/ running /\ Blocks(c) /\ UNCHANGED waits
    /\ UNCHANGED <<timeVars, entries, nextID, running, loopVars, jobs, calls, gone>>

-------------------------------------------------------------------------------
(* Scheduler *)

RunInit ==
    /\ loop = "init" /\ loop' = "arm"
    /\ now' = clock
    /\ entries' = [i \in DOMAIN entries |->
                     [entries[i] EXCEPT !.next = NextOf[entries[i].sched][clock]]]
    /\ UNCHANGED <<timeVars, nextID, running, mu, pc, deadline, jobVars, calls, gone>>

(* Mutant: the timer is set for the activation and not the time up to it. *)
ArmFromNow ==
    /\ loop = "arm" /\ loop' = "select"
    /\ \E p \in SortedOrders(entries) : entries' = [i \in DOMAIN entries |-> entries[p[i]]]
    /\ deadline' = IF entries = <<>> \/ entries'[1].next = 0 THEN 0
                   ELSE clock + entries'[1].next
    /\ UNCHANGED <<timeVars, nextID, running, mu, pc, now, jobVars, calls, gone>>

(***************************************************************************)
(* Sort the entries and set the timer: it fires after the time from now,   *)
(* which may be over, to the first entry's activation.                     *)
(***************************************************************************)
Arm ==
    /\ loop = "arm" /\ loop' = "select"
    /\ \E p \in SortedOrders(entries) : entries' = [i \in DOMAIN entries |-> entries[p[i]]]
    /\ deadline' = IF entries = <<>> \/ entries'[1].next = 0 THEN 0
                   ELSE IF entries'[1].next <= now THEN clock
                   ELSE clock + (entries'[1].next - now)
    /\ UNCHANGED <<timeVars, nextID, running, mu, pc, now, jobVars, calls, gone>>

Fired == loop = "select" /\ deadline # 0 /\ deadline <= clock

(* The entries up to the first one that is not due at t. *)
Due(t) == {i \in DOMAIN entries :
             \A j \in 1 .. i : entries[j].next # 0 /\ entries[j].next <= t}

(* The entry once its job has been started at t. *)
Ran(e, t) == [id |-> e.id, sched |-> e.sched, next |-> NextOf[e.sched][t], prev |-> e.next]

(* Mutant: the next activation is computed from the time of the wake-up before. *)
WakeStaleNow ==
    /\ Fired /\ loop' = "arm"
    /\ \E t \in deadline .. clock :
          /\ now' = t
          /\ entries' = [i \in DOMAIN entries |->
                IF i \in Due(t) THEN Ran(entries[i], now) ELSE entries[i]]
          /\ jobs' = jobs + Cardinality(Due(t))
    /\ UNCHANGED <<timeVars, nextID, running, mu, pc, deadline, waits, calls, gone>>

(***************************************************************************)
(* The timer's channel gives the time at which it fired, perhaps late, and *)
(* perhaps before the scheduler gets to receive it.                        *)
(***************************************************************************)
Wake ==
    /\ Fired /\ loop' = "arm"
    /\ \E t \in deadline .. clock :
          /\ now' = t
          /\ entries' = [i \in DOMAIN entries |->
                IF i \in Due(t) THEN Ran(entries[i], t) ELSE entries[i]]
          /\ jobs' = jobs + Cardinality(Due(t))
    /\ UNCHANGED <<timeVars, nextID, running, mu, pc, deadline, waits, calls, gone>>

(***************************************************************************)
(* The other cases of the select, with the goroutine that sends. There is  *)
(* none for ResetEntries: New makes no channel for reset, and a send to or *)
(* a receive from a nil channel is never ready.                            *)
(***************************************************************************)
Sends(c, op) == pc[c] # Idle /\ pc[c].at = "send" /\ pc[c].op = op /\ loop = "select"

AddCase(c) ==
    /\ Sends(c, "Schedule") /\ Returns(c)
    /\ loop' = "arm" /\ now' = clock
    /\ entries' = Append(entries, [NewEntry(nextID, pc[c].sched)
                                     EXCEPT !.next = NextOf[pc[c].sched][clock]])
    /\ UNCHANGED <<timeVars, nextID, running, deadline, jobVars, calls, gone>>

RemoveCase(c) ==
    /\ Sends(c, "Remove") /\ Returns(c)
    /\ loop' = "arm" /\ now' = clock
    /\ entries' = RemoveEntry(entries, pc[c].id)
    /\ gone' = gone \cup {pc[c].id}
    /\ UNCHANGED <<timeVars, nextID, running, deadline, jobVars, calls>>

(* The scheduler answers and selects again, with the same timer. *)
SnapshotCase(c) ==
    /\ Sends(c, "Entries") /\ Returns(c)
    /\ UNCHANGED <<timeVars, entries, nextID, running, loopVars, jobVars, calls, gone>>

(* Mutant: the case leaves the select and not the scheduler. *)
StopCaseBreak(c) ==
    /\ Sends(c, "Stop")
    /\ pc' = [d \in Caller |-> IF d = c THEN Idle ELSE pc[d]]
    /\ mu' = NoCaller
    /\ loop' = "arm" /\ running' = FALSE
    /\ waits' = NewWait
    /\ UNCHANGED <<timeVars, entries, nextID, now, deadline, jobs, calls, gone>>

(* The scheduler returns, and with it a call of Run; Stop is then done. *)
StopCase(c) ==
    /\ Sends(c, "Stop")
    /\ pc' = [d \in Caller |->
                IF d = c \/ (pc[d] # Idle /\ pc[d].at = "run") THEN Idle ELSE pc[d]]
    /\ mu' = NoCaller
    /\ loop' = "none" /\ running' = FALSE
    /\ waits' = NewWait
    /\ UNCHANGED <<timeVars, entries, nextID, now, deadline, jobs, calls, gone>>

(* A job ends; Done of the last one releases every Wait. *)
JobDone ==
    /\ jobs > 0 /\ jobs' = jobs - 1
    /\ waits' = IF jobs = 1 THEN 0 ELSE waits
    /\ UNCHANGED <<timeVars, entries, nextID, running, mu, pc, loopVars, calls, gone>>

Tick ==
    /\ clock < MaxTime /\ clock' = clock + 1
    /\ IF loop \in {"init", "arm"} \/ Fired THEN late < MaxLate /\ late' = late + 1
                                            ELSE UNCHANGED late
    /\ UNCHANGED <<entries, nextID, running, mu, pc, loopVars, jobVars, calls, gone>>

-------------------------------------------------------------------------------
Method(c) == \/ Schedule(c) \/ Remove(c) \/ ResetEntries(c) \/ Entries(c)
             \/ Start(c) \/ Run(c) \/ Stop(c)
Rendezvous(c) == AddCase(c) \/ RemoveCase(c) \/ SnapshotCase(c) \/ StopCase(c)
Scheduler == RunInit \/ Arm \/ Wake

Next == \/ \E c \in Caller : Enter(c) \/ Method(c) \/ Rendezvous(c)
        \/ Scheduler \/ JobDone \/ Tick

Spec == Init /\ [][Next]_vars

(***************************************************************************)
(* Fairness: goroutines run and time passes; runningMu and a select whose  *)
(* case stays ready do not starve a goroutine; jobs end.                   *)
(***************************************************************************)
FairSpec ==
    /\ Spec
    /\ WF_vars(Scheduler) /\ WF_vars(JobDone) /\ WF_vars(Tick)
    /\ \A c \in Caller : WF_vars(Method(c)) /\ WF_vars(Rendezvous(c))

-------------------------------------------------------------------------------
(* Ids that Schedule has taken and not handed to the scheduler yet. *)
Pending == {nextID : c \in {d \in Caller : pc[d] # Idle /\ pc[d].at = "send"
                                             /\ pc[d].op = "Schedule"}}

(***************************************************************************)
(* Whatever the callers do, the scheduler has each entry that was added    *)
(* and not removed exactly once, and none whose removal has returned.      *)
(***************************************************************************)
EntriesAccounted ==
    /\ Ids(entries) = (1 .. nextID) \ (gone \cup Pending)
    /\ Len(entries) = Cardinality(Ids(entries))

(***************************************************************************)
(* Every job that starts does so for an activation that is not in the      *)
(* future and comes after the one its entry ran for before: never early    *)
(* and never twice, also when the scheduler is late or restarted.          *)
(***************************************************************************)
RunsOncePerActivation ==
    [][jobs' > jobs =>
         jobs' - jobs = Cardinality({e \in Elems(entries) :
            /\ e.prev < e.next /\ e.next <= clock
            /\ \E f \in Elems(entries') : f.id = e.id /\ f.prev = e.next})]_vars

(* No job starts unless the scheduler runs: Stop leaves no loop behind. *)
NoJobWhenStopped == [][jobs' > jobs => running]_vars

(***************************************************************************)
(* The timer is set for the first activation of all: while the scheduler   *)
(* waits, it oversleeps no entry by more than it has been late.            *)
(***************************************************************************)
NeverOversleeps ==
    loop = "select" =>
        \A e \in Elems(entries) :
           e.next # 0 => deadline # 0 /\ deadline <= e.next + late

(***************************************************************************)
(* Every activation of a running scheduler comes, up to the last one that  *)
(* the schedules have within the bounds, unless its entry is removed.      *)
(***************************************************************************)
Planned == running /\ \E e \in Elems(entries) : e.next # 0
ActivationsCome == Planned ~> ~Planned

(***************************************************************************)
(* Every call returns (Run once the scheduler is stopped), unless some     *)
(* goroutine is in ResetEntries of a running scheduler.                    *)
(***************************************************************************)
InCall(c) == pc[c] # Idle /\ pc[c].at \in {"lock", "send"}
Resetting == \E c \in Caller : pc[c] # Idle /\ pc[c].at = "send"
                                 /\ pc[c].op = "ResetEntries"
CallsReturnUnlessReset == \A c \in Caller : InCall(c) ~> ~InCall(c) \/ Resetting
===============================================================================
