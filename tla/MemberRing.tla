------------------------------ MODULE MemberRing ------------------------------
(***************************************************************************)
(* The ring as its users can tell it apart: the members, their loads, and  *)
(* for each key the order in which its walk meets the hosts. Rank[k][h] is *)
(* the clockwise distance from hash(k) to the nearest virtual node of h;   *)
(* it does not depend on which other hosts are members. That Get and       *)
(* GetLeast of the ring are Owner and LeastLoaded is property              *)
(* MemberRingAgrees of ConsistentHash, checked and proved there. The       *)
(* modules above the ring use this form.                                   *)
(***************************************************************************)
EXTENDS Loads

CONSTANTS
    Host, Key,
    Rank,               \* [Key -> [Host -> Nat]]
    NoHost,             \* Go's ""
    ErrNoHosts, Spin    \* outcomes of a lookup other than a host

MemberRings == [members : SUBSET Host, load : [Host -> Int], totalLoad : Int]

EmptyRing == [members |-> {}, load |-> [h \in Host |-> 0], totalLoad |-> 0]

(* Remove of every host in gone, then Add of every host in new. *)
Change(r, gone, new) ==
    [members   |-> (r.members \ gone) \cup new,
     load      |-> [h \in Host |-> IF h \in gone THEN 0 ELSE r.load[h]],
     totalLoad |-> r.totalLoad]

FirstOf(S, k) == CHOOSE h \in S : \A g \in S : Rank[k][h] <= Rank[k][g]

Owner(r, k) == IF r.members = {} THEN ErrNoHosts ELSE FirstOf(r.members, k)

LeastLoaded(r, k) ==
    LET fit == {h \in r.members : LoadOK(r, h)}
    IN  IF r.members = {} THEN ErrNoHosts
        ELSE IF fit = {} THEN Spin ELSE FirstOf(fit, k)
===============================================================================
