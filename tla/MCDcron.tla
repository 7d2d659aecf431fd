-------------------------------- MODULE MCDcron -------------------------------
(* Two goroutines c1 and c3 that start and stop, and c2 that changes jobs. *)
EXTENDS Dcron

CONSTANTS c1, c2, c3, none, j1
===============================================================================
