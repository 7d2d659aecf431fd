------------------------------ MODULE MCNodePool ------------------------------
(* A pool on node a, with other nodes b and d that come and go. *)
EXTENDS NodePool, TLC

CONSTANTS a, b, d, k1, k2

(* k1 meets the hosts in the order a, b, d; k2 in the order b, d, a. *)
MCRank == (k1 :> (a :> 1 @@ b :> 2 @@ d :> 3)) @@ (k2 :> (a :> 3 @@ b :> 1 @@ d :> 2))
===============================================================================
