------------------------------ MODULE Scrapbook ------------------------------
(***************************************************************************)
(* What a collection of scraps promises its users, whatever calls run at   *)
(* the same time: a scrap appears, moves and goes in one step, at the      *)
(* request of its own user, with the card and in the group that were asked *)
(* for; otherwise it goes only with its group, at the request of the same  *)
(* user, or with the card it shows.                                        *)
(*                                                                         *)
(* Anybody may ask for anything.  A request is under way in its slot until *)
(* it takes effect, or is dropped.                                         *)
(***************************************************************************)
CONSTANTS
    Users,
    Groups,
    GroupOwner,     \* the user of each group
    Scraps,
    ScrapOwner,     \* the user of each scrap
    Cards,
    Calls,
    None

VARIABLES
    open,           \* groups that exist
    cards,          \* cards that exist
    scrap,          \* each scrap's card and group, None if it does not exist
    asked           \* what each slot has been asked for and has not answered

Request ==
    [op : {"close"}, user : Users, group : Groups, scrap : {None}, card : {None}]
        \cup [op : {"keep"}, user : Users, group : Groups, scrap : {None}, card : Cards]
        \cup [op : {"move"}, user : Users, group : Groups, scrap : Scraps, card : {None}]
        \cup [op : {"takeOut"}, user : Users, group : {None}, scrap : Scraps, card : {None}]

Nothing == [op |-> "nothing", user |-> None, group |-> None, scrap |-> None, card |-> None]

Init ==
    /\ open = {} /\ cards = {}
    /\ scrap = [s \in Scraps |-> None]
    /\ asked = [c \in Calls |-> Nothing]

kept == {s \in Scraps : scrap[s] # None}

IsAsked(c, op) == asked[c].op = op

Answer(c) == asked' = [asked EXCEPT ![c] = Nothing]

(* Whatever the reason, nothing comes of it. *)
Drop(c) == Answer(c) /\ UNCHANGED <<open, cards, scrap>>

Ask(c) ==
    /\ asked[c] = Nothing
    /\ \E r \in Request : asked' = [asked EXCEPT ![c] = r]
    /\ UNCHANGED <<open, cards, scrap>>

-----------------------------------------------------------------------------
OpenGroup(g) == open' = open \cup {g} /\ UNCHANGED <<cards, scrap, asked>>

(* The scraps of the group go with it. *)
Close(c) ==
    LET g == asked[c].group IN
    /\ IsAsked(c, "close")
    /\ GroupOwner[g] = asked[c].user
    /\ open' = open \ {g}
    /\ scrap' = [s \in Scraps |->
                    IF s \in kept /\ scrap[s].group = g THEN None ELSE scrap[s]]
    /\ Answer(c)
    /\ UNCHANGED cards

IsOpenTo(u, g) == g \in open /\ GroupOwner[g] = u

Keep(c) ==
    LET r == asked[c] IN
    /\ IsAsked(c, "keep")
    /\ r.card \in cards /\ IsOpenTo(r.user, r.group)
    /\ \A s \in kept : ~(ScrapOwner[s] = r.user /\ scrap[s].card = r.card)
    /\ \E s \in Scraps \ kept :
          /\ ScrapOwner[s] = r.user
          /\ scrap' = [scrap EXCEPT ![s] = [card |-> r.card, group |-> r.group]]
    /\ Answer(c)
    /\ UNCHANGED <<open, cards>>

Move(c) ==
    LET r == asked[c] IN
    /\ IsAsked(c, "move")
    /\ r.scrap \in kept /\ ScrapOwner[r.scrap] = r.user
    /\ IsOpenTo(r.user, r.group)
    /\ scrap' = [scrap EXCEPT ![r.scrap] = [card |-> @.card, group |-> r.group]]
    /\ Answer(c)
    /\ UNCHANGED <<open, cards>>

TakeOut(c) ==
    LET s == asked[c].scrap IN
    /\ IsAsked(c, "takeOut")
    /\ ScrapOwner[s] = asked[c].user
    /\ scrap' = [scrap EXCEPT ![s] = None]
    /\ Answer(c)
    /\ UNCHANGED <<open, cards>>

-----------------------------------------------------------------------------
(* Cards come and go whoever has scrapped them. *)
Show(x) == cards' = cards \cup {x} /\ UNCHANGED <<open, scrap, asked>>

Vanish(x) ==
    /\ cards' = cards \ {x}
    /\ scrap' = [s \in Scraps |->
                    IF s \in kept /\ scrap[s].card = x THEN None ELSE scrap[s]]
    /\ UNCHANGED <<open, asked>>

Next ==
    \/ \E c \in Calls :
          Drop(c) \/ Ask(c) \/ Close(c) \/ Keep(c) \/ Move(c) \/ TakeOut(c)
    \/ \E g \in Groups : OpenGroup(g)
    \/ \E x \in Cards : Show(x) \/ Vanish(x)

Spec == Init /\ [][Next]_<<open, cards, scrap, asked>>
=============================================================================
