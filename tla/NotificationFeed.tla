--------------------------- MODULE NotificationFeed ---------------------------
(***************************************************************************)
(* What the notification list and the open tabs promise: a notice, once    *)
(* posted, stays in its user's feed and, once read, stays read; a tab      *)
(* shows notices of the feed of the user it was opened for.                *)
(***************************************************************************)
CONSTANTS Users, Notices, To, Tabs, None

VARIABLES
    feed,           \* notices posted
    read,           \* those their users have read
    tab,            \* the user each tab is open for, or None
    shown           \* the notices on each tab

Init ==
    /\ feed = {}
    /\ read = {}
    /\ tab = [t \in Tabs |-> None]
    /\ shown = [t \in Tabs |-> {}]

Post(n) ==
    /\ n \notin feed
    /\ feed' = feed \cup {n}
    /\ UNCHANGED <<read, tab, shown>>

MarkRead(n) ==
    /\ n \in feed
    /\ read' = read \cup {n}
    /\ UNCHANGED <<feed, tab, shown>>

OpenTab(t) ==
    /\ tab[t] = None
    /\ \E u \in Users : tab' = [tab EXCEPT ![t] = u]
    /\ UNCHANGED <<feed, read, shown>>

CloseTabs(T) ==
    /\ tab' = [t \in Tabs |-> IF t \in T THEN None ELSE tab[t]]
    /\ shown' = [t \in Tabs |-> IF t \in T THEN {} ELSE shown[t]]
    /\ UNCHANGED <<feed, read>>

(* Tabs show more of the feeds of their users. *)
Show ==
    /\ shown' \in [Tabs -> SUBSET feed]
    /\ \A t \in Tabs :
          /\ shown[t] \subseteq shown'[t]
          /\ \A n \in shown'[t] \ shown[t] : To[n] = tab[t]
    /\ UNCHANGED <<feed, read, tab>>

Next ==
    \/ \E n \in Notices : Post(n) \/ MarkRead(n)
    \/ \E t \in Tabs : OpenTab(t)
    \/ \E T \in SUBSET Tabs : CloseTabs(T)
    \/ Show

Spec == Init /\ [][Next]_<<feed, read, tab, shown>>
=============================================================================
