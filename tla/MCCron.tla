-------------------------------- MODULE MCCron --------------------------------
EXTENDS Cron, TLC

CONSTANTS c1, c2, none, each, once

(***************************************************************************)
(* A schedule that is due at every unit of time and one that is due at 2   *)
(* only; the last activation leaves the clock room for a late scheduler.   *)
(***************************************************************************)
Last(s) == IF s = once THEN 2 ELSE MaxTime - MaxLate
MCNextOf == [s \in Sched |-> [t \in Time |-> IF t < Last(s) THEN t + 1 ELSE 0]]
===============================================================================
