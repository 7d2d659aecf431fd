------------------------------ MODULE Assignment ------------------------------
(***************************************************************************)
(* What a consistent-hash ring promises its users: each key has one owner, *)
(* a member, as long as there are members; a host that joins only takes    *)
(* keys for itself; a host that leaves only gives up its own keys.         *)
(***************************************************************************)
CONSTANTS Host, Key,
          None          \* the owner of a key when there is no member

VARIABLES members, owner

vars == <<members, owner>>

Init == /\ members = {}
        /\ owner = [k \in Key |-> None]

Join(h) ==
    /\ members' = members \cup {h}
    /\ owner' \in [Key -> members \cup {h}]
    /\ \A k \in Key : owner'[k] \in {owner[k], h}

Leave(h) ==
    /\ members' = members \ {h}
    /\ owner' \in [Key -> IF members' = {} THEN {None} ELSE members']
    /\ \A k \in Key : owner[k] # h => owner'[k] = owner[k]

Next == \E h \in Host : Join(h) \/ Leave(h)

Spec == Init /\ [][Next]_vars
===============================================================================
