----------------------------- MODULE Collections -----------------------------
(***************************************************************************)
(* The cards a user scraps, and the groups they are kept in                *)
(* (src/src/module/collections).                                           *)
(*                                                                         *)
(* A call is a running handler; each action is what it does between two    *)
(* awaits, and pc names the query it is about to await.  A find that is    *)
(* answered with 404 ends the call and changes nothing: it is left out.    *)
(* What the tables promise by themselves is in the statements below: the   *)
(* unique keys (userId, name) and (userId, cardId), the foreign keys of a  *)
(* scrap, and onDelete: Cascade (prisma/schema.prisma:268-291).            *)
(*                                                                         *)
(* An id is never given out twice.  An id that no running call holds is as *)
(* good as a fresh one, so an absent row that no call holds stands for the *)
(* ids to come.                                                            *)
(***************************************************************************)
CONSTANTS
    Users,
    Groups,         \* ids of groups
    GroupOwner,     \* the user a group's id is given out to
    Scraps,         \* ids of scraps
    ScrapOwner,     \* the user a scrap's id is given out to
    Cards,
    Names,          \* names of groups
    Calls,          \* slots for running handlers
    None            \* an absent row, or an unused field of a slot

CollectionsAssumption ==
    /\ GroupOwner \in [Groups -> Users]
    /\ ScrapOwner \in [Scraps -> Users]
    /\ None \notin UNION {Groups, Scraps, Names, Cards, [card : Cards, group : Groups]}

Idle == [pc |-> "idle", user |-> None, group |-> None, scrap |-> None, card |-> None]

Running ==
    [pc : {"updateGroup", "deleteGroup"},
     user : Users, group : Groups, scrap : {None}, card : {None}]
        \cup [pc : {"createCollection"},
              user : Users, group : Groups, scrap : {None}, card : Cards]
        \cup [pc : {"findUniqueGroup", "updateCollectionGroup"},
              user : Users, group : Groups, scrap : Scraps, card : {None}]
        \cup [pc : {"deleteCollection"},
              user : Users, group : {None}, scrap : Scraps, card : {None}]

VARIABLES
    name,           \* the name of each group, None if it does not exist
    scrap,          \* each scrap's card and group, None if it does not exist
    cards,          \* the profile cards that exist
    call            \* what each slot is running

vars == <<name, scrap, cards, call>>

Scrap == [card : Cards, group : Groups]

TypeOK ==
    /\ name \in [Groups -> Names \cup {None}]
    /\ scrap \in [Scraps -> Scrap \cup {None}]
    /\ cards \in SUBSET Cards
    /\ call \in [Calls -> Running \cup {Idle}]

Init ==
    /\ name = [g \in Groups |-> None]
    /\ scrap = [s \in Scraps |-> None]
    /\ cards = {}
    /\ call = [c \in Calls |-> Idle]

open == {g \in Groups : name[g] # None}
kept == {s \in Scraps : scrap[s] # None}

-----------------------------------------------------------------------------
At(c, pc) == call[c].pc = pc
Return(c) == call' = [call EXCEPT ![c] = Idle]

(* A call keeps what its path and body named. *)
Enter(c, pc, u, g, s, x) ==
    /\ At(c, "idle")
    /\ call' = [call EXCEPT ![c] =
                   [pc |-> pc, user |-> u, group |-> g, scrap |-> s, card |-> x]]
    /\ UNCHANGED <<name, scrap, cards>>

NameIsFree(g, m) == \A h \in open \ {g} : ~(GroupOwner[h] = GroupOwner[g] /\ name[h] = m)

(* getOwnedGroup and getOwnedCollection *)
IsMyGroup(u, g) == g \in open /\ GroupOwner[g] = u

(* Mutant: a scrap's user is not compared with the caller. *)
IsAnyonesScrap(u, s) == s \in kept

IsMyScrap(u, s) == s \in kept /\ ScrapOwner[s] = u

-----------------------------------------------------------------------------
(* Groups *)

(* create is one statement; a name already in use makes it fail. *)
CreateGroup(u) ==
    \E g \in Groups, m \in Names :
        /\ GroupOwner[g] = u
        /\ g \notin open /\ \A c \in Calls : call[c].group # g
        /\ NameIsFree(g, m)
        /\ name' = [name EXCEPT ![g] = m]
        /\ UNCHANGED <<scrap, cards, call>>

FindGroup(c, pc) ==
    \E u \in Users, g \in Groups :
        IsMyGroup(u, g) /\ Enter(c, pc, u, g, None, None)

UpdateGroup(c) ==
    LET g == call[c].group IN
    /\ At(c, "updateGroup")
    /\ g \in open
    /\ \E m \in Names : NameIsFree(g, m) /\ name' = [name EXCEPT ![g] = m]
    /\ Return(c)
    /\ UNCHANGED <<scrap, cards>>

(* The scraps of the group go with it. *)
DeleteGroup(c) ==
    LET g == call[c].group IN
    /\ At(c, "deleteGroup")
    /\ name' = [name EXCEPT ![g] = None]
    /\ scrap' = [s \in Scraps |->
                    IF s \in kept /\ scrap[s].group = g THEN None ELSE scrap[s]]
    /\ Return(c)
    /\ UNCHANGED cards

-----------------------------------------------------------------------------
(* Scraps *)

(* The key (userId, cardId) is unique. *)
IsUnscrapped(u, x) == \A s \in kept : ~(ScrapOwner[s] = u /\ scrap[s].card = x)

(* A card that does not exist yet has no id to scrap it by. *)
FindGroupForCard(c) ==
    \E u \in Users, g \in Groups, x \in cards :
        IsMyGroup(u, g) /\ Enter(c, "createCollection", u, g, None, x)

(* The insertion fails if the card or the group is gone by now, or if the   *)
(* user has scrapped the card before.                                       *)
CreateCollection(c) ==
    LET g == call[c].group
        x == call[c].card
    IN
    /\ At(c, "createCollection")
    /\ x \in cards /\ g \in open
    /\ IsUnscrapped(call[c].user, x)
    /\ \E s \in Scraps :
          /\ ScrapOwner[s] = call[c].user
          /\ s \notin kept /\ \A d \in Calls : call[d].scrap # s
          /\ scrap' = [scrap EXCEPT ![s] = [card |-> x, group |-> g]]
    /\ Return(c)
    /\ UNCHANGED <<name, cards>>

FindScrap(c) ==
    \E u \in Users, s \in Scraps :
        IsMyScrap(u, s) /\ Enter(c, "deleteCollection", u, None, s, None)

(* The group to move to may be anybody's: it is checked after the scrap. *)
FindScrapToMove(c) ==
    \E u \in Users, s \in Scraps, g \in open :
        IsMyScrap(u, s) /\ Enter(c, "findUniqueGroup", u, g, s, None)

FindTarget(c) ==
    /\ At(c, "findUniqueGroup")
    /\ IsMyGroup(call[c].user, call[c].group)
    /\ call' = [call EXCEPT ![c].pc = "updateCollectionGroup"]
    /\ UNCHANGED <<name, scrap, cards>>

(* Mutant: no foreign key keeps a scrap from moving to a deleted group. *)
MoveAnywhere(c) ==
    /\ At(c, "updateCollectionGroup")
    /\ call[c].scrap \in kept
    /\ scrap' = [scrap EXCEPT ![call[c].scrap].group = call[c].group]
    /\ Return(c)
    /\ UNCHANGED <<name, cards>>

(* An update by id, which fails if the scrap or the group is gone by now. *)
UpdateCollectionGroup(c) ==
    /\ At(c, "updateCollectionGroup")
    /\ call[c].scrap \in kept
    /\ call[c].group \in open
    /\ scrap' = [scrap EXCEPT ![call[c].scrap].group = call[c].group]
    /\ Return(c)
    /\ UNCHANGED <<name, cards>>

DeleteCollection(c) ==
    /\ At(c, "deleteCollection")
    /\ scrap' = [scrap EXCEPT ![call[c].scrap] = None]
    /\ Return(c)
    /\ UNCHANGED <<name, cards>>

-----------------------------------------------------------------------------
(* The owner of a profile card creates it, and may delete it: its scraps go *)
(* with it (ProfileCards).                                                  *)
CreateCard(x) ==
    /\ \A c \in Calls : call[c].card # x
    /\ cards' = cards \cup {x}
    /\ UNCHANGED <<name, scrap, call>>

DeleteCard(x) ==
    /\ cards' = cards \ {x}
    /\ scrap' = [s \in Scraps |->
                    IF s \in kept /\ scrap[s].card = x THEN None ELSE scrap[s]]
    /\ UNCHANGED <<name, call>>

(* Any query may fail, or the server stop; nothing is compensated. *)
Fail(c) ==
    /\ ~At(c, "idle")
    /\ Return(c)
    /\ UNCHANGED <<name, scrap, cards>>

CollectionGroupsController(c) ==
    \/ FindGroup(c, "updateGroup") \/ UpdateGroup(c)
    \/ FindGroup(c, "deleteGroup") \/ DeleteGroup(c)

CollectionsController(c) ==
    \/ FindGroupForCard(c) \/ CreateCollection(c)
    \/ FindScrapToMove(c) \/ FindTarget(c) \/ UpdateCollectionGroup(c)
    \/ FindScrap(c) \/ DeleteCollection(c)

Next ==
    \/ \E u \in Users : CreateGroup(u)
    \/ \E c \in Calls :
          CollectionGroupsController(c) \/ CollectionsController(c) \/ Fail(c)
    \/ \E x \in Cards : CreateCard(x) \/ DeleteCard(x)

Spec == Init /\ [][Next]_vars

-----------------------------------------------------------------------------
(* Every scrap is in an existing group of its own user and shows a card     *)
(* that exists, although groups and cards are deleted between the checks of *)
(* a call and its write (collections.service.ts:75, :100-103); and a user   *)
(* has a card once (collections.controller.ts:36).                          *)
ScrapsStayHome ==
    /\ \A s \in kept :
          /\ scrap[s].card \in cards
          /\ scrap[s].group \in open
          /\ GroupOwner[scrap[s].group] = ScrapOwner[s]
    /\ \A s, t \in kept :
          ScrapOwner[s] = ScrapOwner[t] /\ scrap[s].card = scrap[t].card => s = t

(* What a call was asked for and has yet to do.  A new name for a group is  *)
(* no concern of its scraps.                                                *)
RequestTo(op, c) ==
    [op |-> op, user |-> call[c].user, group |-> call[c].group,
     scrap |-> call[c].scrap, card |-> call[c].card]

Asked(c) ==
    CASE At(c, "deleteGroup") -> RequestTo("close", c)
      [] At(c, "createCollection") -> RequestTo("keep", c)
      [] At(c, "findUniqueGroup") \/ At(c, "updateCollectionGroup") -> RequestTo("move", c)
      [] At(c, "deleteCollection") -> RequestTo("takeOut", c)
      [] OTHER -> [op |-> "nothing", user |-> None, group |-> None,
                   scrap |-> None, card |-> None]

Book == INSTANCE Scrapbook WITH asked <- [c \in Calls |-> Asked(c)]

(* The two tables are a scrapbook: whatever calls overlap, a scrap appears  *)
(* once for a request of its user, as it was asked for, moves only to the   *)
(* group its user named, and goes only when its user takes it out, deletes  *)
(* its group, or the card it shows is deleted                               *)
(* (collections.service.ts:54-57, :70-109).                                 *)
IsAScrapbook == Book!Spec
=============================================================================
