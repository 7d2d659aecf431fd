------------------------------ MODULE MCCluster -------------------------------
EXTENDS Cluster, TLC

CONSTANTS n1, n2, k1, k2

(* Two keys that meet the nodes in opposite orders, whatever their ids. *)
Pos == (n1 :> 1) @@ (n2 :> 2)
MCRank == [k \in Key |-> [h \in Host |->
             LET r == (MaxGen + 1) * Pos[h[1]] + h[2] IN IF k = k1 THEN r ELSE 3 * (MaxGen + 1) - r]]
===============================================================================
