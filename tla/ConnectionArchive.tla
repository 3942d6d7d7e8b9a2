------------------------- MODULE ConnectionArchive -------------------------
(***************************************************************************)
(* What the archive of established connections promises, whatever calls    *)
(* run at the same time: a row appears once, when the receiver of its      *)
(* request accepts, never changes and never goes away; and out of a        *)
(* party's view it is taken by that party alone.                           *)
(*                                                                         *)
(* Anybody may ask for anything.  A request is under way in its slot until *)
(* it takes effect, in one step, or is dropped.                            *)
(***************************************************************************)
CONSTANTS Users, Cards, Owner, Messages, Calls, None

VARIABLES
    archive,
    asked           \* what each slot has been asked for and has not answered

Pairs == Cards \X Cards

Request == [op : {"accept", "remove"}, user : Users, pair : Pairs]

Nothing == [op |-> "nothing", user |-> None, pair |-> None]

Init ==
    /\ archive = [p \in Pairs |->
                      [established |-> FALSE, message |-> None, removed |-> {}]]
    /\ asked = [c \in Calls |-> Nothing]

(* Whatever the reason, nothing comes of it. *)
Drop(c) ==
    /\ asked' = [asked EXCEPT ![c] = Nothing]
    /\ UNCHANGED archive

Ask(c) ==
    /\ asked[c] = Nothing
    /\ \E r \in Request : asked' = [asked EXCEPT ![c] = r]
    /\ UNCHANGED archive

IsAsked(c, op) == asked[c].op = op

Accept(c) ==
    LET p == asked[c].pair IN
    /\ IsAsked(c, "accept")
    /\ asked[c].user = Owner[p[2]]
    /\ ~archive[p].established
    /\ \E m \in Messages \cup {None} :
          archive' = [archive EXCEPT
              ![p] = [established |-> TRUE, message |-> m, removed |-> {}]]
    /\ asked' = [asked EXCEPT ![c] = Nothing]

(* The sides of a connection that a user is on. *)
SidesOf(u, p) ==
    {side \in {"requester", "receiver"} :
        u = IF side = "requester" THEN Owner[p[1]] ELSE Owner[p[2]]}

Remove(c) ==
    LET p == asked[c].pair IN
    /\ IsAsked(c, "remove")
    /\ archive[p].established
    /\ \E side \in SidesOf(asked[c].user, p) :
          archive' = [archive EXCEPT ![p].removed = @ \cup {side}]
    /\ asked' = [asked EXCEPT ![c] = Nothing]

Next == \E c \in Calls : Drop(c) \/ Ask(c) \/ Accept(c) \/ Remove(c)

Spec == Init /\ [][Next]_<<archive, asked>>
=============================================================================
