------------------------------ MODULE JobWrappers -----------------------------
(***************************************************************************)
(* cron.Chain: one job under a chain of wrappers, run by goroutines that   *)
(* the scheduler starts while earlier ones are still running. A goroutine  *)
(* enters the layers from the outermost to the job, and leaves them in     *)
(* the opposite order, by returning or by a panic of the job; what a       *)
(* wrapper defers happens either way.                                      *)
(***************************************************************************)
EXTENDS Integers, Sequences, FiniteSets

CONSTANTS
    Chains,     \* the chains to choose from, sequences of wrappers
    Inv,        \* invocations of the job
    None        \* a mutex is free

Wrapper == {"Recover", "DelayIfStillRunning", "SkipIfStillRunning"}
ASSUME WrapperAssumption == Chains \subseteq Seq(Wrapper) /\ None \notin Inv

VARIABLES
    wrappers,   \* c.wrappers
    layers,     \* the wrapped job: its layers, the outermost first
    inv,        \* inv[g]: the goroutine of invocation g
    mu,         \* mu[d]: who holds the mutex of layer d
    token,      \* token[d]: layer d has its token in the channel
    ran,        \* the invocations that have run the job
    crashed     \* a panic nobody recovered has ended the process

vars == <<wrappers, layers, inv, mu, token, ran, crashed>>

Depth == DOMAIN layers

(* Type invariant of the wrapped job and its goroutines. *)
TypeOK ==
    /\ wrappers \in Chains /\ layers \in Seq(Wrapper)
    /\ inv \in [Inv -> [at : {"new", "in", "job", "out", "done"},
                        d : 0 .. Len(layers) + 1, panic : BOOLEAN]]
    /\ mu \in [Depth -> Inv \cup {None}] /\ token \in [Depth -> BOOLEAN]
    /\ ran \subseteq Inv /\ crashed \in BOOLEAN

(* Mutant: the wrappers are applied from the first to the last. *)
ThenForward(ws) ==
    LET after[i \in 0 .. Len(ws)] ==
          IF i = 0 THEN <<>> ELSE <<ws[i]>> \o after[i - 1]
    IN after[Len(ws)]

(* Then: each wrapper is put around what the ones after it have made. *)
Then(ws) ==
    LET after[i \in 0 .. Len(ws)] ==
          IF i = 0 THEN <<>> ELSE <<ws[Len(ws) - i + 1]>> \o after[i - 1]
    IN after[Len(ws)]

Init ==
    /\ wrappers \in Chains /\ layers = Then(wrappers)
    /\ inv = [g \in Inv |-> [at |-> "new", d |-> 0, panic |-> FALSE]]
    /\ mu = [d \in Depth |-> None] /\ token = [d \in Depth |-> TRUE]
    /\ ran = {} /\ crashed = FALSE

At(g, at) == ~crashed /\ inv[g].at = at
Goes(g, at, d) == inv' = [inv EXCEPT ![g] = [at |-> at, d |-> d, panic |-> @.panic]]
Layer(g) == layers[inv[g].d]
Entering(g, w) == At(g, "in") /\ inv[g].d \in Depth /\ Layer(g) = w
Leaving(g, w) == At(g, "out") /\ inv[g].d \in Depth /\ Layer(g) = w
Inwards(g) == Goes(g, "in", inv[g].d + 1)
Outwards(g) == Goes(g, "out", inv[g].d - 1)
Same == UNCHANGED <<wrappers, layers>>

(* startJob of the scheduler. *)
Start(g) ==
    /\ At(g, "new") /\ Goes(g, "in", 1)
    /\ Same /\ UNCHANGED <<mu, token, ran, crashed>>

EnterRecover(g) ==
    /\ Entering(g, "Recover") /\ Inwards(g)
    /\ Same /\ UNCHANGED <<mu, token, ran, crashed>>

(* Mutant: the job runs whether the mutex was free or not. *)
EnterDelayTryLock(g) ==
    /\ Entering(g, "DelayIfStillRunning")
    /\ mu' = [mu EXCEPT ![inv[g].d] = g] /\ Inwards(g)
    /\ Same /\ UNCHANGED <<token, ran, crashed>>

(* mu.Lock() waits until the mutex is free. *)
EnterDelay(g) ==
    /\ Entering(g, "DelayIfStillRunning") /\ mu[inv[g].d] = None
    /\ mu' = [mu EXCEPT ![inv[g].d] = g] /\ Inwards(g)
    /\ Same /\ UNCHANGED <<token, ran, crashed>>

(* Mutant: a skipped invocation leaves the layer around this one as well. *)
EnterSkipTooFar(g) ==
    /\ Entering(g, "SkipIfStillRunning")
    /\ \/ /\ token[inv[g].d] /\ Inwards(g)
          /\ token' = [token EXCEPT ![inv[g].d] = FALSE]
       \/ ~token[inv[g].d] /\ Goes(g, "out", inv[g].d - 2) /\ UNCHANGED token
    /\ Same /\ UNCHANGED <<mu, ran, crashed>>

(* Take the token, or return at once. *)
EnterSkip(g) ==
    /\ Entering(g, "SkipIfStillRunning")
    /\ \/ /\ token[inv[g].d] /\ Inwards(g)
          /\ token' = [token EXCEPT ![inv[g].d] = FALSE]
       \/ ~token[inv[g].d] /\ Outwards(g) /\ UNCHANGED token
    /\ Same /\ UNCHANGED <<mu, ran, crashed>>

RunJob(g) ==
    /\ At(g, "in") /\ inv[g].d = Len(layers) + 1
    /\ Goes(g, "job", inv[g].d) /\ ran' = ran \cup {g}
    /\ Same /\ UNCHANGED <<mu, token, crashed>>

(* The job returns or panics. *)
EndJob(g) ==
    /\ At(g, "job")
    /\ \E p \in BOOLEAN :
          inv' = [inv EXCEPT ![g] = [at |-> "out", d |-> Len(layers), panic |-> p]]
    /\ Same /\ UNCHANGED <<mu, token, ran, crashed>>

LeaveRecover(g) ==
    /\ Leaving(g, "Recover")
    /\ inv' = [inv EXCEPT ![g] = [at |-> "out", d |-> @.d - 1, panic |-> FALSE]]
    /\ Same /\ UNCHANGED <<mu, token, ran, crashed>>

(* Mutant: Unlock is not deferred. *)
LeaveDelayNoDefer(g) ==
    /\ Leaving(g, "DelayIfStillRunning") /\ Outwards(g)
    /\ mu' = IF inv[g].panic THEN mu ELSE [mu EXCEPT ![inv[g].d] = None]
    /\ Same /\ UNCHANGED <<token, ran, crashed>>

LeaveDelay(g) ==
    /\ Leaving(g, "DelayIfStillRunning") /\ Outwards(g)
    /\ mu' = [mu EXCEPT ![inv[g].d] = None]
    /\ Same /\ UNCHANGED <<token, ran, crashed>>

(* Mutant: the token is not given back after a panic. *)
LeaveSkipNoDefer(g) ==
    /\ Leaving(g, "SkipIfStillRunning") /\ Outwards(g)
    /\ token' = IF inv[g].panic THEN token ELSE [token EXCEPT ![inv[g].d] = TRUE]
    /\ Same /\ UNCHANGED <<mu, ran, crashed>>

LeaveSkip(g) ==
    /\ Leaving(g, "SkipIfStillRunning") /\ Outwards(g)
    /\ token' = [token EXCEPT ![inv[g].d] = TRUE]
    /\ Same /\ UNCHANGED <<mu, ran, crashed>>

(* The goroutine ends; a panic that gets here ends the process. *)
Finish(g) ==
    /\ At(g, "out") /\ inv[g].d = 0 /\ Goes(g, "done", 0)
    /\ crashed' = inv[g].panic
    /\ Same /\ UNCHANGED <<mu, token, ran>>

Step(g) == \/ EnterRecover(g) \/ EnterDelay(g) \/ EnterSkip(g)
           \/ RunJob(g) \/ EndJob(g)
           \/ LeaveRecover(g) \/ LeaveDelay(g) \/ LeaveSkip(g) \/ Finish(g)

Next == \E g \in Inv : Start(g) \/ Step(g)

Spec == Init /\ [][Next]_vars

(* Fairness: goroutines run, jobs end, a mutex starves nobody. *)
FairSpec == Spec /\ \A g \in Inv : SF_vars(Step(g))

-------------------------------------------------------------------------------
Has(w) == w \in {wrappers[i] : i \in DOMAIN wrappers}
(* w is the first wrapper of the chain that keeps invocations apart. *)
Outermost(w) ==
    \E i \in DOMAIN wrappers : /\ wrappers[i] = w
                               /\ \A j \in 1 .. i - 1 : wrappers[j] = "Recover"

(***************************************************************************)
(* With DelayIfStillRunning or SkipIfStillRunning in the chain, no two     *)
(* invocations run the job at the same time.                               *)
(***************************************************************************)
OneAtATime ==
    Has("DelayIfStillRunning") \/ Has("SkipIfStillRunning") =>
        Cardinality({g \in Inv : inv[g].at = "job"}) <= 1

(***************************************************************************)
(* Once no invocation is in progress, every mutex is free and every token  *)
(* is back, whatever panics there were: the next one will not be skipped.  *)
(***************************************************************************)
Released ==
    (\A g \in Inv : inv[g].at \in {"new", "done"}) =>
        \A d \in Depth : mu[d] = None /\ token[d]

(***************************************************************************)
(* Every invocation ends, and without SkipIfStillRunning it has then run   *)
(* the job, unless a panic that no Recover stops has ended the process.    *)
(***************************************************************************)
EveryInvocationEnds ==
    \A g \in Inv : inv[g].at = "in" ~>
        \/ crashed /\ ~Has("Recover")
        \/ inv[g].at = "done" /\ (Has("SkipIfStillRunning") \/ g \in ran)

(***************************************************************************)
(* The first wrapper is the outermost. When SkipIfStillRunning comes       *)
(* first (but for Recover) nobody ever waits for a mutex; when             *)
(* DelayIfStillRunning does nobody is ever skipped, whatever follows.      *)
(***************************************************************************)
OrderDecides ==
    \A g \in Inv :
       /\ Outermost("SkipIfStillRunning") /\ Entering(g, "DelayIfStillRunning")
          => mu[inv[g].d] = None
       /\ Outermost("DelayIfStillRunning") /\ inv[g].at = "done"
          => g \in ran
===============================================================================
