----------------------------- MODULE MCJobWrappers ----------------------------
EXTENDS JobWrappers

CONSTANTS g1, g2, g3, none

(* Every chain of up to three wrappers, the same one twice included. *)
MCChains == UNION {[1 .. n -> Wrapper] : n \in 0 .. 3}
===============================================================================
