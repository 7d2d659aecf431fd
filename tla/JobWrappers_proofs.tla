-------------------------- MODULE JobWrappers_proofs --------------------------
(***************************************************************************)
(* Proofs about JobWrappers: for every chain of wrappers, of any length    *)
(* and with repetitions, and any number of concurrent invocations.         *)
(***************************************************************************)
EXTENDS JobWrappers, Induction

(***************************************************************************)
(* Then puts the first wrapper outermost: the layers are the chain itself. *)
(* The recursive function is its closed form, by induction.                *)
(***************************************************************************)
LEMMA ThenIsTheChain ==
  ASSUME NEW ws \in Seq(Wrapper)
  PROVE Then(ws) = ws
<1>. DEFINE n == Len(ws)
            Eq(g) == g = [i \in 0 .. n |-> IF i = 0 THEN <<>> ELSE <<ws[n - i + 1]>> \o g[i - 1]]
            after == CHOOSE g : Eq(g)
            h == [i \in 0 .. n |-> SubSeq(ws, n - i + 1, n)]
<1>0. n \in Nat
  OBVIOUS
<1>1. Eq(h)
  <2>1. ASSUME NEW i \in 0 .. n
        PROVE  h[i] = IF i = 0 THEN <<>> ELSE <<ws[n - i + 1]>> \o h[i - 1]
    OBVIOUS
  <2>. QED BY <2>1
<1>2. Eq(after)
  <2>. HIDE DEF Eq
  <2>. QED BY <1>1
<1>3. Then(ws) = after[n]
  BY DEF Then
<1>4. \A i \in 0 .. n : after[i] = IF i = 0 THEN <<>> ELSE <<ws[n - i + 1]>> \o after[i - 1]
  <2>. HIDE DEF after, n
  <2>. QED BY <1>2
<1>5. \A i \in 0 .. n : h[i] = IF i = 0 THEN <<>> ELSE <<ws[n - i + 1]>> \o h[i - 1]
  <2>. HIDE DEF h, n
  <2>. QED BY <1>1
<1>6. h[n] = ws
  OBVIOUS
<1>. HIDE DEF after, h, n
<1>7. after[n] = h[n]
  <2>. DEFINE T == {i \in 0 .. n : after[i] = h[i]}
  <2>1. 0 \in T
    <3>1. 0 \in 0 .. n
      BY <1>0
    <3>2. after[0] = <<>>
      BY <3>1, <1>4
    <3>3. h[0] = <<>>
      BY <3>1, <1>5
    <3>. QED BY <3>1, <3>2, <3>3
  <2>2. ASSUME NEW i \in 0 .. n - 1, i \in T PROVE i + 1 \in T
    <3>1. /\ i + 1 \in 0 .. n /\ i + 1 # 0 /\ (i + 1) - 1 = i
          /\ after[i] = h[i]
      BY <1>0, <2>2
    <3>2. after[i + 1] = <<ws[n - (i + 1) + 1]>> \o after[i]
      BY <3>1, <1>4
    <3>3. h[i + 1] = <<ws[n - (i + 1) + 1]>> \o h[i]
      BY <3>1, <1>5
    <3>. QED BY <3>1, <3>2, <3>3
  <2>3. 0 .. n \subseteq T
    <3>. HIDE DEF T
    <3>. QED BY <1>0, <2>1, <2>2, UpTo
  <2>. QED BY <1>0, <2>3
<1>. QED
  BY <1>3, <1>6, <1>7

-------------------------------------------------------------------------------
Delay == "DelayIfStillRunning"
Skip == "SkipIfStillRunning"

(* g has entered layer d and has not left it. *)
Inside(g, d) ==
    \/ inv[g].at = "in" /\ d < inv[g].d
    \/ inv[g].at = "job"
    \/ inv[g].at = "out" /\ d <= inv[g].d

PlaceOK ==
    \A g \in Inv :
       /\ inv[g].at \in {"new", "done"} => inv[g].d = 0
       /\ inv[g].at = "in" => inv[g].d \in 1 .. Len(layers) + 1
       /\ inv[g].at = "out" => inv[g].d \in 0 .. Len(layers)

(* The mutex of a layer is held by the one invocation inside it. *)
LockOK ==
    \A d \in Depth :
       /\ layers[d] = Delay => \A g \in Inv : Inside(g, d) <=> mu[d] = g
       /\ layers[d] # Delay => mu[d] = None

(* The token of a layer is missing while one invocation is inside it. *)
TokenOK ==
    \A d \in Depth :
       /\ layers[d] = Skip /\ token[d] => \A g \in Inv : ~Inside(g, d)
       /\ layers[d] = Skip /\ ~token[d] =>
             \E g \in Inv : \A h \in Inv : Inside(h, d) <=> h = g
       /\ layers[d] # Skip => token[d]

(* Nobody has left, or is leaving, without having run the job. *)
NoneSkippedOK ==
    Outermost(Delay) =>
        \A g \in Inv : inv[g].at \in {"job", "out", "done"} => g \in ran

IInv == /\ TypeOK /\ layers = wrappers
        /\ PlaceOK /\ LockOK /\ TokenOK /\ NoneSkippedOK

-------------------------------------------------------------------------------
Stage == {"new", "in", "job", "out", "done"}
Place == [at : Stage, d : 0 .. Len(layers) + 1, panic : BOOLEAN]

(* What the step of g leaves of the goroutines. *)
Moved(g, at, d) ==
    /\ inv'[g].at = at /\ inv'[g].d = d
    /\ \A h \in Inv : h # g => inv'[h] = inv[h]

(* An invocation that moves keeps its panic, and the others are as before. *)
LEMMA GoesMoves ==
  ASSUME TypeOK, NEW g \in Inv, NEW at \in Stage, NEW d \in 0 .. Len(layers) + 1,
         Goes(g, at, d)
  PROVE  Moved(g, at, d) /\ inv' \in [Inv -> Place]
<1>. DEFINE r == [at |-> at, d |-> d, panic |-> inv[g].panic]
<1>1. inv \in [Inv -> Place] /\ inv[g] \in Place
  BY DEF TypeOK, Place, Stage
<1>2. inv' = [inv EXCEPT ![g] = r]
  BY <1>1 DEF Goes, Place
<1>3. r \in Place
  BY <1>1 DEF Place
<1>. HIDE DEF r
<1>4. inv' \in [Inv -> Place] /\ inv'[g] = r /\ \A h \in Inv : h # g => inv'[h] = inv[h]
  BY <1>1, <1>2, <1>3
<1>. QED
  BY <1>4 DEF Moved, r

LEMMA EndJobMoves ==
  ASSUME TypeOK, NEW g \in Inv, EndJob(g)
  PROVE  Moved(g, "out", Len(layers)) /\ inv' \in [Inv -> Place]
<1>1. PICK p \in BOOLEAN :
        inv' = [inv EXCEPT ![g] = [at |-> "out", d |-> Len(layers), panic |-> p]]
  BY DEF EndJob
<1>. DEFINE r == [at |-> "out", d |-> Len(layers), panic |-> p]
<1>2. inv \in [Inv -> Place] /\ inv[g] \in Place /\ Len(layers) \in Nat
  BY DEF TypeOK, Place, Stage
<1>3. inv' = [inv EXCEPT ![g] = r]
  BY <1>1, <1>2 DEF Place
<1>4. r \in Place
  BY <1>2 DEF Place, Stage
<1>. HIDE DEF r
<1>5. inv' \in [Inv -> Place] /\ inv'[g] = r /\ \A h \in Inv : h # g => inv'[h] = inv[h]
  BY <1>2, <1>3, <1>4
<1>. QED
  BY <1>5 DEF Moved, r

LEMMA LeaveRecoverMoves ==
  ASSUME TypeOK, NEW g \in Inv, LeaveRecover(g)
  PROVE  Moved(g, "out", inv[g].d - 1) /\ inv' \in [Inv -> Place]
<1>. DEFINE r == [at |-> "out", d |-> inv[g].d - 1, panic |-> FALSE]
<1>1. inv \in [Inv -> Place] /\ inv[g] \in Place /\ Len(layers) \in Nat
  BY DEF TypeOK, Place, Stage
<1>2. inv[g].at = "out" /\ inv[g].d \in 1 .. Len(layers)
  BY DEF LeaveRecover, Leaving, At, Depth, TypeOK
<1>3. inv' = [inv EXCEPT ![g] = r]
  BY <1>1, <1>2 DEF Place, LeaveRecover
<1>4. r \in Place
  BY <1>1, <1>2 DEF Place, Stage
<1>. HIDE DEF r
<1>5. inv' \in [Inv -> Place] /\ inv'[g] = r /\ \A h \in Inv : h # g => inv'[h] = inv[h]
  BY <1>1, <1>3, <1>4
<1>. QED
  BY <1>5 DEF Moved, r

-------------------------------------------------------------------------------
(* How a step of g changes who is inside which layer. *)
Stays == \A h \in Inv, d \in Depth : Inside(h, d)' <=> Inside(h, d)
Enters(g, e) ==
    \A h \in Inv, d \in Depth : Inside(h, d)' <=> Inside(h, d) \/ (h = g /\ d = e)
Leaves(g, e) ==
    \A h \in Inv, d \in Depth : Inside(h, d)' <=> Inside(h, d) /\ ~(h = g /\ d = e)

LEMMA Places ==
  ASSUME TypeOK, NEW g \in Inv
  PROVE  /\ inv[g].at \in Stage /\ inv[g].d \in Nat /\ inv[g].panic \in BOOLEAN
         /\ Len(layers) \in Nat /\ Depth = 1 .. Len(layers)
         /\ inv[g].d <= Len(layers) + 1
<1>1. inv \in [Inv -> Place] /\ inv[g] \in Place
  BY DEF TypeOK, Place, Stage
<1>2. Len(layers) \in Nat /\ Depth = 1 .. Len(layers)
  BY DEF TypeOK, Depth
<1>. QED
  BY <1>1, <1>2 DEF Place

LEMMA InwardsEnters ==
  ASSUME TypeOK, NEW g \in Inv, inv[g].at = "in", inv[g].d \in Depth, Inwards(g),
         layers' = layers
  PROVE  /\ Moved(g, "in", inv[g].d + 1) /\ inv' \in [Inv -> Place]
         /\ Enters(g, inv[g].d)
         /\ PlaceOK => PlaceOK'
<1>1. inv[g].d + 1 \in 2 .. Len(layers) + 1 /\ "in" \in Stage
  BY Places DEF Stage
<1>2. Moved(g, "in", inv[g].d + 1) /\ inv' \in [Inv -> Place]
  BY <1>1, GoesMoves, Places DEF Inwards
<1>3. Enters(g, inv[g].d)
  BY <1>2, Places DEF Moved, Enters, Inside
<1>4. PlaceOK => PlaceOK'
  BY <1>1, <1>2 DEF Moved, PlaceOK
<1>. QED BY <1>2, <1>3, <1>4

LEMMA OutwardsLeaves ==
  ASSUME TypeOK, NEW g \in Inv, inv[g].at = "out", inv[g].d \in Depth,
         Moved(g, "out", inv[g].d - 1), layers' = layers
  PROVE  Leaves(g, inv[g].d) /\ (PlaceOK => PlaceOK')
<1>1. inv[g].d - 1 \in 0 .. Len(layers)
  BY Places
<1>2. Leaves(g, inv[g].d)
  BY Places DEF Moved, Leaves, Inside
<1>3. PlaceOK => PlaceOK'
  BY <1>1 DEF Moved, PlaceOK
<1>. QED BY <1>2, <1>3

(* At most one invocation is inside a layer that keeps them apart. *)
LEMMA Exclusive ==
  ASSUME IInv, NEW d \in Depth, layers[d] \in {Delay, Skip},
         NEW g \in Inv, NEW h \in Inv, Inside(g, d), Inside(h, d)
  PROVE  g = h
<1>1. CASE layers[d] = Delay
  BY <1>1 DEF IInv, LockOK
<1>2. CASE layers[d] = Skip
  <2>1. token[d] \in BOOLEAN
    BY DEF IInv, TypeOK
  <2>2. CASE token[d]
    BY <1>2, <2>2 DEF IInv, TokenOK
  <2>3. CASE ~token[d]
    BY <1>2, <2>3 DEF IInv, TokenOK
  <2>. QED BY <2>1, <2>2, <2>3
<1>. QED BY <1>1, <1>2

(* With the same layers, mutexes and tokens, and nobody in or out of a      *)
(* layer that keeps invocations apart, LockOK and TokenOK stay.             *)
LEMMA NothingTaken ==
  ASSUME IInv, UNCHANGED <<layers, mu, token>>, NEW g \in Inv, NEW e,
         \/ Stays
         \/ layers[e] = "Recover" /\ (Enters(g, e) \/ Leaves(g, e))
  PROVE  LockOK' /\ TokenOK'
<1>1. \A h \in Inv, d \in Depth :
        layers[d] \in {Delay, Skip} => (Inside(h, d)' <=> Inside(h, d))
  BY DEF Stays, Enters, Leaves, Delay, Skip
<1>2. Depth' = Depth
  BY DEF Depth
<1>3. LockOK'
  BY <1>1, <1>2 DEF IInv, LockOK
<1>4. TokenOK'
  BY <1>1, <1>2 DEF IInv, TokenOK
<1>. QED BY <1>3, <1>4

LEMMA TypeFrame ==
  ASSUME TypeOK, Same, inv' \in [Inv -> Place],
         mu' \in [Depth -> Inv \cup {None}], token' \in [Depth -> BOOLEAN],
         ran' \subseteq Inv, crashed' \in BOOLEAN
  PROVE  TypeOK'
  BY DEF TypeOK, Place, Stage, Depth, Same

(* NoneSkippedOK, when what g has run allows the place it goes to. *)
LEMMA SkippedFrame ==
  ASSUME IInv, Same, ran \subseteq ran', NEW g \in Inv, NEW at, NEW d, Moved(g, at, d),
         Outermost(Delay) /\ at \in {"job", "out", "done"} => g \in ran'
  PROVE  NoneSkippedOK'
<1>1. Outermost(Delay)' <=> Outermost(Delay)
  BY DEF Outermost, Same
<1>. QED
  BY <1>1 DEF NoneSkippedOK, Moved, IInv

-------------------------------------------------------------------------------
(* Every action keeps the invariant. *)
LEMMA StartKeeps ==
  ASSUME IInv, NEW g \in Inv, Start(g)
  PROVE  IInv'
<1>1. Moved(g, "in", 1) /\ inv' \in [Inv -> Place] /\ inv[g].at = "new"
  BY GoesMoves, Places DEF Start, IInv, At, Stage
<1>2. TypeOK'
  BY <1>1, TypeFrame DEF IInv, Start, TypeOK
<1>3. PlaceOK'
  BY <1>1, Places DEF Moved, PlaceOK, Start, Same, IInv
<1>4. Stays
  BY <1>1, Places DEF Stays, Moved, Inside, IInv
<1>5. LockOK' /\ TokenOK'
  BY <1>4, NothingTaken DEF Start, Same
<1>6. NoneSkippedOK'
  BY <1>1, SkippedFrame DEF Start
<1>. QED
  BY <1>2, <1>3, <1>5, <1>6 DEF IInv, Start, Same

LEMMA EnterRecoverKeeps ==
  ASSUME IInv, NEW g \in Inv, EnterRecover(g)
  PROVE  IInv'
<1>1. /\ Moved(g, "in", inv[g].d + 1) /\ inv' \in [Inv -> Place] /\ PlaceOK'
      /\ Enters(g, inv[g].d)
  BY InwardsEnters DEF EnterRecover, IInv, Entering, At, Same
<1>2. TypeOK'
  BY <1>1, TypeFrame DEF IInv, EnterRecover, TypeOK
<1>3. LockOK' /\ TokenOK'
  BY <1>1, NothingTaken DEF EnterRecover, Same, Entering, Layer
<1>4. NoneSkippedOK'
  BY <1>1, SkippedFrame DEF EnterRecover
<1>. QED
  BY <1>1, <1>2, <1>3, <1>4 DEF IInv, EnterRecover, Same

LEMMA EnterDelayKeeps ==
  ASSUME IInv, NEW g \in Inv, EnterDelay(g)
  PROVE  IInv'
<1>. DEFINE e == inv[g].d
<1>0. /\ e \in Depth /\ layers[e] = Delay /\ mu[e] = None
      /\ mu' = [mu EXCEPT ![e] = g] /\ Depth' = Depth
  BY DEF EnterDelay, Entering, Layer, Delay, Depth, Same
<1>1. /\ Moved(g, "in", e + 1) /\ inv' \in [Inv -> Place] /\ PlaceOK'
      /\ Enters(g, e)
  BY InwardsEnters DEF EnterDelay, IInv, Entering, At, Same
<1>2. TypeOK'
  BY <1>0, <1>1, TypeFrame DEF IInv, EnterDelay, TypeOK
<1>. HIDE DEF e
<1>3. LockOK'
  <2>1. mu \in [Depth -> Inv \cup {None}]
    BY DEF IInv, TypeOK
  <2>. SUFFICES ASSUME NEW d \in Depth
       PROVE  /\ layers[d] = Delay => \A h \in Inv : Inside(h, d)' <=> mu'[d] = h
              /\ layers[d] # Delay => mu'[d] = None
    BY <1>0 DEF LockOK, EnterDelay, Same
  <2>2. CASE d = e
    BY <1>0, <1>1, <2>1, <2>2, WrapperAssumption DEF Enters, IInv, LockOK
  <2>3. CASE d # e
    BY <1>0, <1>1, <2>1, <2>3 DEF Enters, IInv, LockOK
  <2>. QED BY <2>2, <2>3
<1>4. TokenOK'
  <2>1. \A d \in Depth, h \in Inv : layers[d] = Skip => (Inside(h, d)' <=> Inside(h, d))
    BY <1>0, <1>1 DEF Enters, Delay, Skip
  <2>. QED
    BY <1>0, <2>1 DEF IInv, TokenOK, EnterDelay, Same
<1>5. NoneSkippedOK'
  BY <1>1, SkippedFrame DEF EnterDelay
<1>. QED
  BY <1>1, <1>2, <1>3, <1>4, <1>5 DEF IInv, EnterDelay, Same

(* When a Delay is the outermost, an invocation that another one would make *)
(* skip is inside that Delay together with it, so there is no such other.   *)
LEMMA NobodyToSkip ==
  ASSUME IInv, NEW g \in Inv, Entering(g, Skip), ~token[inv[g].d]
  PROVE  ~Outermost(Delay)
<1>. DEFINE e == inv[g].d
<1>. SUFFICES ASSUME Outermost(Delay) PROVE FALSE
  OBVIOUS
<1>1. e \in Depth /\ layers[e] = Skip /\ inv[g].at = "in" /\ Depth = 1 .. Len(layers)
  BY Places DEF Entering, Layer, At, IInv
<1>2. PICK i \in Depth : layers[i] = Delay /\ \A j \in 1 .. i - 1 : layers[j] = "Recover"
  BY DEF Outermost, IInv, Depth
<1>3. i < e
  BY <1>1, <1>2 DEF Delay, Skip
<1>4. PICK h \in Inv : Inside(h, e) /\ \A k \in Inv : Inside(k, e) => k = h
  BY <1>1 DEF IInv, TokenOK
<1>5. Inside(h, i) /\ Inside(g, i) /\ ~Inside(g, e)
  BY <1>1, <1>3, <1>4, Places DEF Inside, IInv
<1>6. g = h
  BY <1>2, <1>5, Exclusive
<1>. QED BY <1>4, <1>5, <1>6

LEMMA EnterSkipKeeps ==
  ASSUME IInv, NEW g \in Inv, EnterSkip(g)
  PROVE  IInv'
<1>. DEFINE e == inv[g].d
<1>0. /\ e \in Depth /\ layers[e] = Skip /\ inv[g].at = "in" /\ Depth' = Depth
      /\ token \in [Depth -> BOOLEAN]
  BY DEF EnterSkip, Entering, Layer, Skip, Depth, Same, At, IInv, TypeOK
<1>1. CASE token[e] /\ Inwards(g) /\ token' = [token EXCEPT ![e] = FALSE]
  <2>1. /\ Moved(g, "in", e + 1) /\ inv' \in [Inv -> Place] /\ PlaceOK'
        /\ Enters(g, e)
    BY <1>0, <1>1, InwardsEnters DEF EnterSkip, IInv, Same
  <2>2. TypeOK'
    BY <1>0, <1>1, <2>1, TypeFrame DEF IInv, EnterSkip, TypeOK
  <2>. HIDE DEF e
  <2>3. LockOK'
    <3>1. \A d \in Depth, h \in Inv : layers[d] = Delay => (Inside(h, d)' <=> Inside(h, d))
      BY <1>0, <2>1 DEF Enters, Delay, Skip
    <3>. QED
      BY <1>0, <3>1 DEF IInv, LockOK, EnterSkip, Same
  <2>4. TokenOK'
    <3>. SUFFICES ASSUME NEW d \in Depth
         PROVE  /\ layers[d] = Skip /\ token'[d] => \A h \in Inv : ~Inside(h, d)'
                /\ layers[d] = Skip /\ ~token'[d] =>
                      \E k \in Inv : \A h \in Inv : Inside(h, d)' <=> h = k
                /\ layers[d] # Skip => token'[d]
      BY <1>0 DEF TokenOK, EnterSkip, Same
    <3>1. CASE d = e
      <4>1. ~token'[d] /\ layers[d] = Skip
        BY <1>0, <1>1, <3>1
      <4>2. \A h \in Inv : Inside(h, d)' <=> h = g
        BY <1>0, <1>1, <2>1, <3>1 DEF Enters, IInv, TokenOK
      <4>. QED BY <4>1, <4>2
    <3>2. CASE d # e
      <4>1. token'[d] = token[d] /\ \A h \in Inv : Inside(h, d)' <=> Inside(h, d)
        BY <1>0, <1>1, <2>1, <3>2 DEF Enters
      <4>. QED BY <4>1 DEF IInv, TokenOK
    <3>. QED BY <3>1, <3>2
  <2>5. NoneSkippedOK'
    BY <2>1, SkippedFrame DEF EnterSkip
  <2>. QED
    BY <2>1, <2>2, <2>3, <2>4, <2>5 DEF IInv, EnterSkip, Same
<1>2. CASE ~token[e] /\ Outwards(g) /\ UNCHANGED token
  <2>1. Moved(g, "out", e - 1) /\ inv' \in [Inv -> Place] /\ e - 1 \in 0 .. Len(layers)
    BY <1>0, <1>2, GoesMoves, Places DEF IInv, Outwards, Stage
  <2>2. TypeOK'
    BY <1>2, <2>1, TypeFrame DEF IInv, EnterSkip, TypeOK
  <2>3. PlaceOK'
    BY <2>1 DEF Moved, PlaceOK, IInv, EnterSkip, Same
  <2>4. Stays
    BY <1>0, <2>1, Places DEF Stays, Moved, Inside, IInv
  <2>5. LockOK' /\ TokenOK'
    BY <1>2, <2>4, NothingTaken DEF EnterSkip, Same
  <2>6. NoneSkippedOK'
    BY <1>2, <2>1, SkippedFrame, NobodyToSkip DEF EnterSkip, Skip
  <2>. QED
    BY <2>2, <2>3, <2>5, <2>6 DEF IInv, EnterSkip, Same
<1>. QED
  BY <1>1, <1>2 DEF EnterSkip

LEMMA RunJobKeeps ==
  ASSUME IInv, NEW g \in Inv, RunJob(g)
  PROVE  IInv'
<1>1. /\ Moved(g, "job", inv[g].d) /\ inv' \in [Inv -> Place]
      /\ inv[g].at = "in" /\ inv[g].d = Len(layers) + 1
  BY GoesMoves, Places DEF RunJob, IInv, At, Stage
<1>2. TypeOK'
  BY <1>1, TypeFrame DEF IInv, RunJob, TypeOK
<1>3. PlaceOK'
  BY <1>1, Places DEF Moved, PlaceOK, RunJob, Same, IInv
<1>4. Stays
  BY <1>1, Places DEF Stays, Moved, Inside, IInv
<1>5. LockOK' /\ TokenOK'
  BY <1>4, NothingTaken DEF RunJob, Same
<1>6. NoneSkippedOK'
  BY <1>1, SkippedFrame DEF RunJob
<1>. QED
  BY <1>2, <1>3, <1>5, <1>6 DEF IInv, RunJob, Same

LEMMA EndJobKeeps ==
  ASSUME IInv, NEW g \in Inv, EndJob(g)
  PROVE  IInv'
<1>1. /\ Moved(g, "out", Len(layers)) /\ inv' \in [Inv -> Place]
      /\ inv[g].at = "job" /\ Len(layers) \in Nat
  BY EndJobMoves, Places DEF EndJob, IInv, At
<1>2. TypeOK'
  BY <1>1, TypeFrame DEF IInv, EndJob, TypeOK
<1>3. PlaceOK'
  BY <1>1, Places DEF Moved, PlaceOK, EndJob, Same, IInv
<1>4. Stays
  BY <1>1, Places DEF Stays, Moved, Inside, IInv
<1>5. LockOK' /\ TokenOK'
  BY <1>4, NothingTaken DEF EndJob, Same
<1>6. NoneSkippedOK'
  BY <1>1, SkippedFrame DEF EndJob, IInv, NoneSkippedOK
<1>. QED
  BY <1>2, <1>3, <1>5, <1>6 DEF IInv, EndJob, Same

LEMMA LeaveRecoverKeeps ==
  ASSUME IInv, NEW g \in Inv, LeaveRecover(g)
  PROVE  IInv'
<1>1. /\ Moved(g, "out", inv[g].d - 1) /\ inv' \in [Inv -> Place]
      /\ inv[g].at = "out" /\ inv[g].d \in Depth /\ layers[inv[g].d] = "Recover"
  BY LeaveRecoverMoves DEF LeaveRecover, IInv, Leaving, At, Layer
<1>2. Leaves(g, inv[g].d) /\ PlaceOK'
  BY <1>1, OutwardsLeaves DEF IInv, LeaveRecover, Same
<1>3. TypeOK'
  BY <1>1, TypeFrame DEF IInv, LeaveRecover, TypeOK
<1>4. LockOK' /\ TokenOK'
  BY <1>1, <1>2, NothingTaken DEF LeaveRecover, Same
<1>5. NoneSkippedOK'
  BY <1>1, SkippedFrame DEF LeaveRecover, IInv, NoneSkippedOK
<1>. QED
  BY <1>2, <1>3, <1>4, <1>5 DEF IInv, LeaveRecover, Same

LEMMA LeaveDelayKeeps ==
  ASSUME IInv, NEW g \in Inv, LeaveDelay(g)
  PROVE  IInv'
<1>. DEFINE e == inv[g].d
<1>0. /\ e \in Depth /\ layers[e] = Delay /\ inv[g].at = "out"
      /\ mu' = [mu EXCEPT ![e] = None] /\ Depth' = Depth
  BY DEF LeaveDelay, Leaving, Layer, Delay, Depth, Same, At
<1>1. Moved(g, "out", e - 1) /\ inv' \in [Inv -> Place]
  BY <1>0, GoesMoves, Places DEF LeaveDelay, IInv, Outwards, Stage
<1>2. Leaves(g, e) /\ PlaceOK' /\ Inside(g, e)
  BY <1>0, <1>1, OutwardsLeaves, Places DEF IInv, LeaveDelay, Same, Inside
<1>3. TypeOK'
  BY <1>0, <1>1, TypeFrame DEF IInv, LeaveDelay, TypeOK
<1>. HIDE DEF e
<1>4. LockOK'
  <2>1. mu \in [Depth -> Inv \cup {None}]
    BY DEF IInv, TypeOK
  <2>. SUFFICES ASSUME NEW d \in Depth
       PROVE  /\ layers[d] = Delay => \A h \in Inv : Inside(h, d)' <=> mu'[d] = h
              /\ layers[d] # Delay => mu'[d] = None
    BY <1>0 DEF LockOK, LeaveDelay, Same
  <2>2. CASE d = e
    BY <1>0, <1>2, <2>1, <2>2, WrapperAssumption DEF Leaves, IInv, LockOK
  <2>3. CASE d # e
    BY <1>0, <1>2, <2>1, <2>3 DEF Leaves, IInv, LockOK
  <2>. QED BY <2>2, <2>3
<1>5. TokenOK'
  <2>1. \A d \in Depth, h \in Inv : layers[d] = Skip => (Inside(h, d)' <=> Inside(h, d))
    BY <1>0, <1>2 DEF Leaves, Delay, Skip
  <2>. QED
    BY <1>0, <2>1 DEF IInv, TokenOK, LeaveDelay, Same
<1>6. NoneSkippedOK'
  BY <1>0, <1>1, SkippedFrame DEF LeaveDelay, IInv, NoneSkippedOK
<1>. QED
  BY <1>2, <1>3, <1>4, <1>5, <1>6 DEF IInv, LeaveDelay, Same

LEMMA LeaveSkipKeeps ==
  ASSUME IInv, NEW g \in Inv, LeaveSkip(g)
  PROVE  IInv'
<1>. DEFINE e == inv[g].d
<1>0. /\ e \in Depth /\ layers[e] = Skip /\ inv[g].at = "out" /\ Depth' = Depth
      /\ token \in [Depth -> BOOLEAN] /\ token' = [token EXCEPT ![e] = TRUE]
  BY DEF LeaveSkip, Leaving, Layer, Skip, Depth, Same, At, IInv, TypeOK
<1>1. Moved(g, "out", e - 1) /\ inv' \in [Inv -> Place]
  BY <1>0, GoesMoves, Places DEF LeaveSkip, IInv, Outwards, Stage
<1>2. Leaves(g, e) /\ PlaceOK' /\ Inside(g, e)
  BY <1>0, <1>1, OutwardsLeaves, Places DEF IInv, LeaveSkip, Same, Inside
<1>3. TypeOK'
  BY <1>0, <1>1, TypeFrame DEF IInv, LeaveSkip, TypeOK
<1>. HIDE DEF e
<1>4. LockOK'
  <2>1. \A d \in Depth, h \in Inv : layers[d] = Delay => (Inside(h, d)' <=> Inside(h, d))
    BY <1>0, <1>2 DEF Leaves, Delay, Skip
  <2>. QED
    BY <1>0, <2>1 DEF IInv, LockOK, LeaveSkip, Same
<1>5. TokenOK'
  <2>. SUFFICES ASSUME NEW d \in Depth
       PROVE  /\ layers[d] = Skip /\ token'[d] => \A h \in Inv : ~Inside(h, d)'
              /\ layers[d] = Skip /\ ~token'[d] =>
                    \E k \in Inv : \A h \in Inv : Inside(h, d)' <=> h = k
              /\ layers[d] # Skip => token'[d]
    BY <1>0 DEF TokenOK, LeaveSkip, Same
  <2>1. CASE d = e
    <3>1. token'[d]
      BY <1>0, <2>1
    <3>2. \A h \in Inv : Inside(h, e) => h = g
      BY <1>0, <1>2, Exclusive
    <3>. QED BY <1>2, <2>1, <3>1, <3>2 DEF Leaves
  <2>2. CASE d # e
    <3>1. token'[d] = token[d] /\ \A h \in Inv : Inside(h, d)' <=> Inside(h, d)
      BY <1>0, <1>2, <2>2 DEF Leaves
    <3>. QED BY <3>1 DEF IInv, TokenOK
  <2>. QED BY <2>1, <2>2
<1>6. NoneSkippedOK'
  BY <1>0, <1>1, SkippedFrame DEF LeaveSkip, IInv, NoneSkippedOK
<1>. QED
  BY <1>2, <1>3, <1>4, <1>5, <1>6 DEF IInv, LeaveSkip, Same

LEMMA FinishKeeps ==
  ASSUME IInv, NEW g \in Inv, Finish(g)
  PROVE  IInv'
<1>1. /\ Moved(g, "done", 0) /\ inv' \in [Inv -> Place]
      /\ inv[g].at = "out" /\ inv[g].d = 0 /\ crashed' \in BOOLEAN
  BY GoesMoves, Places DEF Finish, IInv, At, Stage
<1>2. TypeOK'
  BY <1>1, TypeFrame DEF IInv, Finish, TypeOK
<1>3. PlaceOK'
  BY <1>1, Places DEF Moved, PlaceOK, Finish, Same, IInv
<1>4. Stays
  BY <1>1, Places DEF Stays, Moved, Inside, IInv
<1>5. LockOK' /\ TokenOK'
  BY <1>4, NothingTaken DEF Finish, Same
<1>6. NoneSkippedOK'
  BY <1>1, SkippedFrame DEF Finish, IInv, NoneSkippedOK
<1>. QED
  BY <1>2, <1>3, <1>5, <1>6 DEF IInv, Finish, Same

-------------------------------------------------------------------------------
LEMMA InitIInv ==
  ASSUME Init
  PROVE  IInv
<1>1. wrappers \in Seq(Wrapper) /\ layers = wrappers
  BY ThenIsTheChain, WrapperAssumption DEF Init
<1>2. Len(layers) \in Nat /\ Depth = 1 .. Len(layers)
  BY <1>1 DEF Depth
<1>3. \A g \in Inv : inv[g] = [at |-> "new", d |-> 0, panic |-> FALSE]
  BY DEF Init
<1>4. TypeOK
  <2>1. inv \in [Inv -> Place]
    BY <1>2 DEF Init, Place, Stage
  <2>2. mu \in [Depth -> Inv \cup {None}] /\ token \in [Depth -> BOOLEAN]
    BY DEF Init
  <2>. QED
    BY <1>1, <2>1, <2>2 DEF Init, TypeOK, Place, Stage
<1>5. \A g \in Inv, d \in Depth : ~Inside(g, d)
  BY <1>3 DEF Inside
<1>6. PlaceOK
  BY <1>3 DEF PlaceOK
<1>7. LockOK /\ TokenOK
  BY <1>5, WrapperAssumption DEF Init, LockOK, TokenOK
<1>8. NoneSkippedOK
  BY <1>3 DEF NoneSkippedOK
<1>. QED
  BY <1>1, <1>4, <1>6, <1>7, <1>8 DEF IInv

LEMMA StutterKeeps ==
  ASSUME IInv, UNCHANGED vars
  PROVE  IInv'
  BY DEF IInv, vars, TypeOK, Depth, PlaceOK, LockOK, TokenOK, NoneSkippedOK,
         Outermost, Inside

(* The invariant the theorems rest on: who is inside which layer, and what  *)
(* the mutexes and the tokens say of it.                                    *)
THEOREM Inductive == Spec => []IInv
<1>1. Init => IInv
  BY InitIInv
<1>2. IInv /\ [Next]_vars => IInv'
  BY StutterKeeps, StartKeeps, EnterRecoverKeeps, EnterDelayKeeps, EnterSkipKeeps,
     RunJobKeeps, EndJobKeeps, LeaveRecoverKeeps, LeaveDelayKeeps, LeaveSkipKeeps,
     FinishKeeps DEF Next, Step
<1>. QED
  BY <1>1, <1>2, PTL DEF Spec

(* The state of the chain, its mutexes, tokens and goroutines keeps its     *)
(* type: no goroutine leaves more layers than it entered.                   *)
THEOREM TypeCorrect == Spec => []TypeOK
<1>1. IInv => TypeOK
  BY DEF IInv
<1>. QED BY <1>1, Inductive, PTL

(* DelayIfStillRunning or SkipIfStillRunning anywhere in a chain keeps the  *)
(* runs of the job apart, for every chain and any number of invocations.    *)
THEOREM RunsExclude == Spec => []OneAtATime
<1>1. IInv => OneAtATime
  <2>. SUFFICES ASSUME IInv, Has(Delay) \/ Has(Skip)
       PROVE  Cardinality({g \in Inv : inv[g].at = "job"}) <= 1
    BY DEF OneAtATime, Delay, Skip
  <2>. DEFINE J == {g \in Inv : inv[g].at = "job"}
  <2>1. PICK d \in Depth : layers[d] \in {Delay, Skip}
    BY DEF Has, IInv, Depth
  <2>2. \A g, h \in J : g = h
    BY <2>1, Exclusive DEF Inside
  <2>3. CASE J = {}
    BY <2>3, FS_EmptySet
  <2>4. CASE J # {}
    <3>1. PICK g : J = {g}
      BY <2>2, <2>4
    <3>2. Cardinality(J) = 1
      <4>. HIDE DEF J
      <4>. QED BY <3>1, FS_Singleton
    <3>. QED BY <3>2
  <2>. QED BY <2>3, <2>4
<1>. QED BY <1>1, Inductive, PTL

(* Whatever panics there were, a job that nobody runs has every mutex free  *)
(* and every token back: what a wrapper takes it always gives back.         *)
THEOREM AllReleased == Spec => []Released
<1>1. IInv => Released
  <2>. SUFFICES ASSUME IInv, \A g \in Inv : inv[g].at \in {"new", "done"}, NEW d \in Depth
       PROVE  mu[d] = None /\ token[d]
    BY DEF Released
  <2>1. \A g \in Inv : ~Inside(g, d)
    BY DEF Inside
  <2>2. mu[d] \in Inv \cup {None} /\ token[d] \in BOOLEAN
    BY DEF IInv, TypeOK
  <2>3. mu[d] = None
    BY <2>1, <2>2 DEF IInv, LockOK
  <2>4. token[d]
    BY <2>1, <2>2 DEF IInv, TokenOK
  <2>. QED BY <2>3, <2>4
<1>. QED BY <1>1, Inductive, PTL

(* The outermost of the two wrappers decides, whatever is inside it: under  *)
(* a Skip nobody waits for a mutex, under a Delay nobody is skipped.        *)
THEOREM OutermostDecides == Spec => []OrderDecides
<1>1. IInv => OrderDecides
  <2>. SUFFICES ASSUME IInv, NEW g \in Inv
       PROVE  /\ Outermost(Skip) /\ Entering(g, Delay) => mu[inv[g].d] = None
              /\ Outermost(Delay) /\ inv[g].at = "done" => g \in ran
    BY DEF OrderDecides, Delay, Skip
  <2>1. ASSUME Outermost(Skip), Entering(g, Delay) PROVE mu[inv[g].d] = None
    <3>. DEFINE e == inv[g].d
    <3>1. e \in Depth /\ layers[e] = Delay /\ inv[g].at = "in" /\ Depth = 1 .. Len(layers)
      BY <2>1, Places DEF Entering, Layer, At, IInv
    <3>2. PICK i \in Depth : layers[i] = Skip /\ \A j \in 1 .. i - 1 : layers[j] = "Recover"
      BY <2>1 DEF Outermost, IInv, Depth
    <3>3. i < e
      BY <3>1, <3>2 DEF Delay, Skip
    <3>4. mu[e] \in Inv \cup {None}
      BY <3>1 DEF IInv, TypeOK
    <3>. SUFFICES ASSUME mu[e] # None PROVE FALSE
      OBVIOUS
    <3>5. PICK h \in Inv : Inside(h, e)
      BY <3>1, <3>4 DEF IInv, LockOK
    <3>6. Inside(h, i) /\ Inside(g, i) /\ ~Inside(g, e)
      BY <3>1, <3>3, <3>5, Places DEF Inside, IInv
    <3>7. g = h
      BY <3>2, <3>6, Exclusive
    <3>. QED BY <3>5, <3>6, <3>7
  <2>2. ASSUME Outermost(Delay), inv[g].at = "done" PROVE g \in ran
    BY <2>2 DEF IInv, NoneSkippedOK
  <2>. QED BY <2>1, <2>2
<1>. QED BY <1>1, Inductive, PTL
===============================================================================
