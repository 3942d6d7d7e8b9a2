---------------------------- MODULE ProfileCards ----------------------------
(***************************************************************************)
(* A user's profile cards: creation, publication, deletion, and what a     *)
(* withdrawal does to them (src/src/module/profile-cards, and softDelete-  *)
(* User of src/src/module/users).                                          *)
(*                                                                         *)
(* As in Connections, a call is a running handler, each action is what it  *)
(* does between two awaits, and pc names the query it is about to await.   *)
(* Here a slot belongs to the user whose calls it runs, so that users who  *)
(* do one thing at a time can be told from users who do several.           *)
(*                                                                         *)
(* The contents of a card, replaced as a whole by an update, are left out; *)
(* so are the requests and scraps that a deleted card takes along.         *)
(***************************************************************************)
EXTENDS Naturals, FiniteSets

CONSTANTS
    Users,
    Cards,          \* ids of cards, those not yet given out included
    Owner,          \* the user a card's id is given out to
    Calls,          \* slots for running handlers
    Caller,         \* the user whose calls a slot runs
    None            \* a null, or an unused field of a slot

ProfileCardsAssumption ==
    /\ Owner \in [Cards -> Users]
    /\ Caller \in [Calls -> Users]
    /\ None \notin Cards
    /\ IsFiniteSet(Cards)

Idle == [pc |-> "idle", card |-> None, isActive |-> None]

Running ==
    [pc : {"createProfileCard", "softDeleteUser"}, card : {None}, isActive : {None}]
        \cup [pc : {"findCardToUpdate", "updateProfileCard"},
              card : Cards, isActive : {"private", "public", None}]
        \cup [pc : {"findCardToDelete", "countProfileCards", "deleteProfileCard"},
              card : Cards, isActive : {None}]

VARIABLES
    user,           \* [Users -> {"live", "withdrawn"}]
    card,           \* [Cards -> {"absent", "private", "public", "deleted"}]
    call            \* what each slot is running

vars == <<user, card, call>>

TypeOK ==
    /\ user \in [Users -> {"live", "withdrawn"}]
    /\ card \in [Cards -> {"absent", "private", "public", "deleted"}]
    /\ call \in [Calls -> Running \cup {Idle}]

Init ==
    /\ user = [u \in Users |-> "live"]
    /\ card = [x \in Cards |-> "absent"]
    /\ call = [c \in Calls |-> Idle]

Live(u) == user[u] = "live"
Exists(x) == card[x] \in {"private", "public"}
CardsOf(u) == {x \in Cards : Owner[x] = u /\ Exists(x)}

-----------------------------------------------------------------------------
At(c, pc) == call[c].pc = pc
Goto(c, pc) == call' = [call EXCEPT ![c].pc = pc]
Return(c) == call' = [call EXCEPT ![c] = Idle]

(* The authentication guard has just loaded the user, and not since.        *)
Enter(c, pc, x, isActive) ==
    /\ At(c, "idle")
    /\ Live(Caller[c])
    /\ call' = [call EXCEPT ![c] = [pc |-> pc, card |-> x, isActive |-> isActive]]
    /\ UNCHANGED <<user, card>>

BeginCreate(c) == Enter(c, "createProfileCard", None, None)

(* An id is known once its card exists; isActive is optional in the dto.    *)
BeginUpdate(c) ==
    \E x \in Cards, isActive \in {"private", "public", None} :
        card[x] # "absent" /\ Enter(c, "findCardToUpdate", x, isActive)

BeginDelete(c) ==
    \E x \in Cards : card[x] # "absent" /\ Enter(c, "findCardToDelete", x, None)

BeginWithdraw(c) == Enter(c, "softDeleteUser", None, None)

-----------------------------------------------------------------------------
(* A new card is private, and takes an id never used before. *)
CreateProfileCard(c) ==
    /\ At(c, "createProfileCard")
    /\ \/ \E x \in Cards :
              /\ Owner[x] = Caller[c] /\ card[x] = "absent"
              /\ card' = [card EXCEPT ![x] = "private"]
       \/ UNCHANGED card    \* no id left, in a finite instance
    /\ Return(c)
    /\ UNCHANGED user

(* Mutant: the card is not compared with the user. *)
IsAnyonesCard(c) == Exists(call[c].card)

IsMyCard(c) ==
    LET x == call[c].card IN Exists(x) /\ Owner[x] = Caller[c]

FindCardToUpdate(c) ==
    /\ At(c, "findCardToUpdate")
    /\ IF IsMyCard(c) THEN Goto(c, "updateProfileCard") ELSE Return(c)
    /\ UNCHANGED <<user, card>>

(* Mutant: the update creates the row it does not find. *)
UpsertProfileCard(c) ==
    LET x == call[c].card IN
    /\ At(c, "updateProfileCard")
    /\ card' = [card EXCEPT ![x] = call[c].isActive]
    /\ Return(c)
    /\ UNCHANGED user

(* An update by id: it fails if the card is gone.  An undefined field keeps *)
(* its value.                                                               *)
UpdateProfileCard(c) ==
    LET x == call[c].card IN
    /\ At(c, "updateProfileCard")
    /\ card' = IF Exists(x) /\ call[c].isActive # None
               THEN [card EXCEPT ![x] = call[c].isActive]
               ELSE card
    /\ Return(c)
    /\ UNCHANGED user

FindCardToDelete(c) ==
    /\ At(c, "findCardToDelete")
    /\ IF IsMyCard(c) THEN Goto(c, "countProfileCards") ELSE Return(c)
    /\ UNCHANGED <<user, card>>

(* Mutant: the deletion is refused only when no card is left. *)
CountNoCards(c) ==
    /\ At(c, "countProfileCards")
    /\ IF CardsOf(Caller[c]) = {} THEN Return(c) ELSE Goto(c, "deleteProfileCard")
    /\ UNCHANGED <<user, card>>

(* Mutant: the count forgets whose cards it counts. *)
CountEveryonesCards(c) ==
    /\ At(c, "countProfileCards")
    /\ IF Cardinality({x \in Cards : Exists(x)}) <= 1
       THEN Return(c)
       ELSE Goto(c, "deleteProfileCard")
    /\ UNCHANGED <<user, card>>

(* The last card is refused (409). *)
CountProfileCards(c) ==
    /\ At(c, "countProfileCards")
    /\ IF Cardinality(CardsOf(Caller[c])) <= 1
       THEN Return(c)
       ELSE Goto(c, "deleteProfileCard")
    /\ UNCHANGED <<user, card>>

DeleteProfileCard(c) ==
    LET x == call[c].card IN
    /\ At(c, "deleteProfileCard")
    /\ card' = IF Exists(x) THEN [card EXCEPT ![x] = "deleted"] ELSE card
    /\ Return(c)
    /\ UNCHANGED user

(* Mutant: the cards of a withdrawn user are left as they are. *)
WithdrawWithoutHiding(c) ==
    /\ At(c, "softDeleteUser")
    /\ user' = [user EXCEPT ![Caller[c]] = "withdrawn"]
    /\ Return(c)
    /\ UNCHANGED card

SoftDeleteUser(c) ==
    LET u == Caller[c] IN
    /\ At(c, "softDeleteUser")
    /\ user' = [user EXCEPT ![u] = "withdrawn"]
    /\ card' = [x \in Cards |->
          IF Owner[x] = u /\ card[x] = "public" THEN "private" ELSE card[x]]
    /\ Return(c)

(* A step that throws for any other reason, or a replica that stops. *)
Fail(c) ==
    /\ ~At(c, "idle")
    /\ Return(c)
    /\ UNCHANGED <<user, card>>

-----------------------------------------------------------------------------
Begin(c) == BeginCreate(c) \/ BeginUpdate(c) \/ BeginDelete(c) \/ BeginWithdraw(c)

Step(c) ==
    \/ CreateProfileCard(c)
    \/ FindCardToUpdate(c) \/ UpdateProfileCard(c)
    \/ FindCardToDelete(c) \/ CountProfileCards(c) \/ DeleteProfileCard(c)
    \/ SoftDeleteUser(c)

Next == \E c \in Calls : Begin(c) \/ Step(c) \/ Fail(c)

Spec == Init /\ [][Next]_vars

-----------------------------------------------------------------------------
(* Properties that hold however calls overlap. *)

(* A card is created, changed or deleted by a call of its owner alone, also *)
(* when the card, or the owner, is gone by the time the call writes.        *)
OnlyOwnersEdit ==
    [][\A x \in Cards :
          card'[x] # card[x] =>
              \E c \in Calls : Caller[c] = Owner[x] /\ call'[c] # call[c]]_vars

-----------------------------------------------------------------------------
(* Properties that need every user to do one thing at a time. *)

OneCallEach == \A c, d \in Calls : Caller[c] = Caller[d] => c = d

(* A user who has had a card has one: the last one is never deleted.        *)
KeepsACard ==
    \A x \in Cards : card[x] = "deleted" => CardsOf(Owner[x]) # {}

(* No card of a withdrawn user is public, so none is listed.                *)
WithdrawnIsHidden ==
    \A x \in Cards : card[x] = "public" => Live(Owner[x])

(* The handlers implement shelves of cards on which every operation is      *)
(* atomic, and which nobody touches any more once the user has left.        *)
Shelves == INSTANCE CardShelves
    WITH shelf <- [u \in Users |-> CardsOf(u)],
         shown <- {x \in Cards : card[x] = "public"},
         left <- {u \in Users : ~Live(u)}

CardsAreShelved == Shelves!Spec
=============================================================================
