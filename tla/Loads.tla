-------------------------------- MODULE Loads ---------------------------------
(***************************************************************************)
(* The load bookkeeping of consistenthash.Consistent, on any record with   *)
(* the fields members (the keys of loadMap), load (loadMap[h].Load, 0 for  *)
(* a non-member) and totalLoad.                                            *)
(***************************************************************************)
EXTENDS Integers, FiniteSets

(***************************************************************************)
(* loadOK: the host takes one more unit of load within                     *)
(* ceil(1.25 * max(1, (totalLoad + 1) / len(loadMap))). It first resets a  *)
(* negative totalLoad to 0, which ClampTotal keeps.                        *)
(***************************************************************************)
ClampTotal(r) == [r EXCEPT !.totalLoad = IF @ < 0 THEN 0 ELSE @]

CeilFiveQuarters(a) == (5 * a + 3) \div 4

(* Mutant of LoadBound: without raising an average of 0 to 1. *)
LoadBoundFromZero(r) ==
    CeilFiveQuarters((ClampTotal(r).totalLoad + 1) \div Cardinality(r.members))

LoadBound(r) ==
    LET avg == (ClampTotal(r).totalLoad + 1) \div Cardinality(r.members)
    IN  CeilFiveQuarters(IF avg = 0 THEN 1 ELSE avg)

LoadOK(r, h) == h \in r.members /\ r.load[h] + 1 <= LoadBound(r)

(* Inc, Done and UpdateLoad ignore a host that is not in loadMap. *)
SetLoad(r, h, l) ==
    IF h \notin r.members THEN r
    ELSE LET s == [r EXCEPT !.load = [@ EXCEPT ![h] = l]]
         IN  [s EXCEPT !.totalLoad = @ - r.load[h] + l]

IncLoad(r, h) == SetLoad(r, h, r.load[h] + 1)
DoneLoad(r, h) == SetLoad(r, h, r.load[h] - 1)
UpdateLoadOf(r, h, l) == SetLoad(r, h, l)

ResetAllLoads(r) ==
    LET s == [r EXCEPT !.load = [h \in DOMAIN @ |-> 0]]
    IN  [s EXCEPT !.totalLoad = 0]

(* MaxLoad turns a totalLoad of 0 into 1, for good. *)
MaxLoadEffect(r) == [r EXCEPT !.totalLoad = IF @ = 0 THEN 1 ELSE @]
===============================================================================
