--------------------------- MODULE MCConsistentHash ---------------------------
(* Three hosts whose virtual nodes are interleaved on the ring. *)
EXTENDS ConsistentHash, TLC

CONSTANTS a, b, d, k1, k2

MCHost == {a, b, d}
MCKey == {k1, k2}
MCPoint == 1 .. 11

(* Points 2 and 11 are the keys': k2 lies past every virtual node and wraps. *)
(* The third point of a host is used when Replicas = 3, and by Remove.       *)
MCVHash == (a :> <<1, 4, 7>>) @@ (b :> <<3, 5, 9>>) @@ (d :> <<6, 8, 10>>)
MCVHash0 == [h \in MCHost |-> [i \in 0 .. 2 |-> MCVHash[h][i + 1]]]
MCKHash == (k1 :> 2) @@ (k2 :> 11)
MCLoadValue == {0, 2}
===============================================================================
