------------------------------ MODULE StableView ------------------------------
(***************************************************************************)
(* What a node pool promises: the hosts it spreads keys over are those of  *)
(* the last list the driver gave, and it calls itself steady only when     *)
(* that list confirmed the one before. A stop makes it forget the list,    *)
(* not the hosts: the ones later lists do not name stay.                   *)
(***************************************************************************)
CONSTANTS Host

VARIABLES
    heard,      \* the last list of nodes taken from the driver since the last stop
    view,       \* the hosts keys are spread over
    steady      \* keys may be served

vars == <<heard, view, steady>>

Init == /\ heard = {} /\ view = {} /\ steady = FALSE

(* A start makes the pool unsteady until a list is confirmed. *)
Begin == steady' = FALSE /\ UNCHANGED <<heard, view>>

Observe(v) == /\ heard' = v
              /\ view' = (view \ heard) \cup v
              /\ steady' = (v = heard)

Forget == heard' = {} /\ UNCHANGED <<view, steady>>

Next == Begin \/ Forget \/ \E v \in SUBSET Host : Observe(v)

Spec == Init /\ [][Next]_vars
===============================================================================
