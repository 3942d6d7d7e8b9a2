-------------------------- MODULE RequestLifecycle --------------------------
(***************************************************************************)
(* The life of a connection request when one call at a time runs: every    *)
(* operation takes effect at once, on the status it has checked, and a     *)
(* pair that has connected is never requested or answered again.           *)
(***************************************************************************)
CONSTANT Cards

VARIABLES
    status,         \* of the request from one card to another
    connected       \* pairs whose request was accepted

Pairs == Cards \X Cards

Init ==
    /\ status = [p \in Pairs |-> "absent"]
    /\ connected = {}

Move(p, from, to) ==
    /\ p \notin connected
    /\ status[p] \in from
    /\ status' = [status EXCEPT ![p] = to]

Send(p) == Move(p, {"absent", "REJECTED", "CANCELED"}, "PENDING") /\ UNCHANGED connected

Accept(p) == Move(p, {"PENDING"}, "ACCEPTED") /\ connected' = connected \cup {p}

Reject(p) == Move(p, {"PENDING"}, "REJECTED") /\ UNCHANGED connected

Cancel(p) == Move(p, {"PENDING"}, "CANCELED") /\ UNCHANGED connected

(* A deleted card takes its requests along. *)
Drop(x) ==
    /\ status' = [p \in Pairs |-> IF x \in {p[1], p[2]} THEN "absent" ELSE status[p]]
    /\ UNCHANGED connected

Next ==
    \/ \E p \in Pairs : Send(p) \/ Accept(p) \/ Reject(p) \/ Cancel(p)
    \/ \E x \in Cards : Drop(x)

Spec == Init /\ [][Next]_<<status, connected>>
=============================================================================
