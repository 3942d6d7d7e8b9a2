-------------------------- MODULE AccountRegistry --------------------------
(***************************************************************************)
(* What the users table promises: every e-mail address has one account at  *)
(* most, and an account that was closed is never opened again.             *)
(***************************************************************************)
CONSTANTS Users, Emails

VARIABLES
    members,        \* live accounts, with the address each holds
    used            \* every account ever opened

Init == members = {} /\ used = {}

Open(u, e) ==
    /\ u \notin used
    /\ \A m \in members : m[2] # e
    /\ members' = members \cup {<<u, e>>}
    /\ used' = used \cup {u}

Close(u) ==
    /\ members' = {m \in members : m[1] # u}
    /\ UNCHANGED used

Next == \E u \in Users : Close(u) \/ \E e \in Emails : Open(u, e)

Spec == Init /\ [][Next]_<<members, used>>
=============================================================================
