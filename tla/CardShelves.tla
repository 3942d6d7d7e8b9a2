---------------------------- MODULE CardShelves ----------------------------
(***************************************************************************)
(* What users who do one thing at a time see of their profile cards: a     *)
(* shelf that is never emptied, cards that show only what their owner puts *)
(* up, and nothing that changes or shows after the owner has left.         *)
(***************************************************************************)
CONSTANTS Users, Cards, Owner

VARIABLES
    shelf,          \* the cards of each user
    shown,          \* the cards everybody sees
    left            \* users who have withdrawn

Init ==
    /\ shelf = [u \in Users |-> {}]
    /\ shown = {}
    /\ left = {}

Add(x) ==
    /\ x \notin shelf[Owner[x]]
    /\ shelf' = [shelf EXCEPT ![Owner[x]] = @ \cup {x}]
    /\ UNCHANGED <<shown, left>>

PutUp(x) ==
    /\ x \in shelf[Owner[x]]
    /\ shown' = shown \cup {x}
    /\ UNCHANGED <<shelf, left>>

TakeDown(x) ==
    /\ x \in shelf[Owner[x]]
    /\ shown' = shown \ {x}
    /\ UNCHANGED <<shelf, left>>

Discard(x) ==
    /\ x \in shelf[Owner[x]]
    /\ \E y \in shelf[Owner[x]] : y # x
    /\ shelf' = [shelf EXCEPT ![Owner[x]] = @ \ {x}]
    /\ shown' = shown \ {x}
    /\ UNCHANGED left

Leave(u) ==
    /\ left' = left \cup {u}
    /\ shown' = {x \in shown : Owner[x] # u}
    /\ UNCHANGED shelf

Next ==
    \/ \E x \in Cards : Owner[x] \notin left /\ (Add(x) \/ PutUp(x) \/ TakeDown(x) \/ Discard(x))
    \/ \E u \in Users : u \notin left /\ Leave(u)

Spec == Init /\ [][Next]_<<shelf, shown, left>>
=============================================================================
