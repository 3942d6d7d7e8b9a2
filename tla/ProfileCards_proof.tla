------------------------ MODULE ProfileCards_proof ------------------------
(***************************************************************************)
(* What holds of profile cards for any users and cards: first however      *)
(* calls overlap, then for users who do one thing at a time.               *)
(***************************************************************************)
EXTENDS ProfileCards, FiniteSetTheorems, TLAPS

Slots == [Calls -> Running \cup {Idle}]

(* How calls move through the slots. *)

LEMMA RunningCall ==
    ASSUME TypeOK, NEW c \in Calls, ~At(c, "idle")
    PROVE  /\ call[c] \in Running
           /\ call[c].pc # "idle"
BY DEF TypeOK, At, Idle

LEMMA CardOfCall ==
    ASSUME TypeOK, NEW c \in Calls,
           \/ At(c, "findCardToUpdate") \/ At(c, "updateProfileCard")
           \/ At(c, "findCardToDelete") \/ At(c, "countProfileCards")
           \/ At(c, "deleteProfileCard")
    PROVE  call[c] \in Running /\ call[c].card \in Cards
BY DEF TypeOK, At, Idle, Running

LEMMA ReturnMoves ==
    ASSUME TypeOK, NEW c \in Calls, Return(c)
    PROVE  /\ call' \in Slots
           /\ call'[c] = Idle /\ call'[c].pc = "idle"
           /\ \A d \in Calls \ {c} : call'[d] = call[d]
BY DEF Return, TypeOK, Slots, Idle

LEMMA GotoMoves ==
    ASSUME TypeOK, NEW c \in Calls,
           \/ At(c, "findCardToUpdate") /\ Goto(c, "updateProfileCard")
           \/ At(c, "findCardToDelete") /\ Goto(c, "countProfileCards")
           \/ At(c, "countProfileCards") /\ Goto(c, "deleteProfileCard")
    PROVE  /\ call' \in Slots
           /\ call'[c].pc = IF At(c, "findCardToUpdate") THEN "updateProfileCard"
                            ELSE IF At(c, "findCardToDelete") THEN "countProfileCards"
                            ELSE "deleteProfileCard"
           /\ call'[c].card = call[c].card
           /\ \A d \in Calls \ {c} : call'[d] = call[d]
<1>1. call[c] \in Running
  BY CardOfCall
<1>2. PICK pc \in {"updateProfileCard", "countProfileCards", "deleteProfileCard"} :
        /\ call' = [call EXCEPT ![c] = [call[c] EXCEPT !.pc = pc]]
        /\ pc = IF At(c, "findCardToUpdate") THEN "updateProfileCard"
                ELSE IF At(c, "findCardToDelete") THEN "countProfileCards"
                ELSE "deleteProfileCard"
        /\ pc = "updateProfileCard" <=> At(c, "findCardToUpdate")
  BY DEF Goto, At
<1>3. [call[c] EXCEPT !.pc = pc] \in Running
  BY <1>1, <1>2 DEF At, Running
<1>4. [call[c] EXCEPT !.pc = pc].pc = pc /\ [call[c] EXCEPT !.pc = pc].card = call[c].card
  BY <1>1 DEF Running
<1>5. QED
  BY <1>2, <1>3, <1>4 DEF TypeOK, Slots

LEMMA BeginMoves ==
    ASSUME TypeOK, NEW c \in Calls, Begin(c)
    PROVE  /\ call' \in Slots
           /\ At(c, "idle") /\ Live(Caller[c])
           /\ call'[c].pc \in {"createProfileCard", "findCardToUpdate", "findCardToDelete",
                               "softDeleteUser"}
           /\ \A d \in Calls \ {c} : call'[d] = call[d]
           /\ UNCHANGED <<user, card>>
<1>1. PICK r \in Running :
        /\ r.pc \in {"createProfileCard", "findCardToUpdate", "findCardToDelete", "softDeleteUser"}
        /\ At(c, "idle") /\ Live(Caller[c])
        /\ call' = [call EXCEPT ![c] = r]
        /\ UNCHANGED <<user, card>>
  BY DEF Begin, BeginCreate, BeginUpdate, BeginDelete, BeginWithdraw, Enter, Running
<1>2. QED
  BY <1>1 DEF TypeOK, Slots
-----------------------------------------------------------------------------
(* Any overlap of calls. *)

(* What a call found about a card's owner stays true. *)
OwnersFound ==
    \A c \in Calls :
        (At(c, "updateProfileCard") \/ At(c, "countProfileCards") \/ At(c, "deleteProfileCard"))
            => Owner[call[c].card] = Caller[c]

Inv == TypeOK /\ OwnersFound

(* What each step leaves behind in its slot and in the cards. *)
LEMMA StepMoves ==
    ASSUME TypeOK, NEW c \in Calls,
           Begin(c) \/ Step(c) \/ Fail(c)
    PROVE  /\ call' \in Slots
           /\ \A d \in Calls \ {c} : call'[d] = call[d]
           /\ \/ call'[c].pc \in {"idle", "createProfileCard", "findCardToUpdate",
                                  "findCardToDelete", "softDeleteUser"}
              \/ /\ At(c, "findCardToUpdate") /\ IsMyCard(c)
                 /\ call'[c].pc = "updateProfileCard" /\ call'[c].card = call[c].card
              \/ /\ At(c, "findCardToDelete") /\ IsMyCard(c)
                 /\ call'[c].pc = "countProfileCards" /\ call'[c].card = call[c].card
              \/ /\ At(c, "countProfileCards") /\ ~(Cardinality(CardsOf(Caller[c])) <= 1)
                 /\ call'[c].pc = "deleteProfileCard" /\ call'[c].card = call[c].card
<1>1. CASE Begin(c)
  BY <1>1, BeginMoves
<1>2. CASE FindCardToUpdate(c) \/ FindCardToDelete(c)
  BY <1>2, GotoMoves, ReturnMoves DEF FindCardToUpdate, FindCardToDelete, At
<1>3. CASE CountProfileCards(c)
  BY <1>3, GotoMoves, ReturnMoves DEF CountProfileCards, At
<1>4. CASE CreateProfileCard(c) \/ UpdateProfileCard(c) \/ DeleteProfileCard(c)
              \/ SoftDeleteUser(c) \/ Fail(c)
  <2>1. Return(c)
    BY <1>4 DEF CreateProfileCard, UpdateProfileCard, DeleteProfileCard, SoftDeleteUser, Fail
  <2>2. QED
    BY <2>1, ReturnMoves
<1>5. QED
  BY <1>1, <1>2, <1>3, <1>4 DEF Step

LEMMA TypeStep ==
    ASSUME TypeOK, [Next]_vars
    PROVE  TypeOK'
<1> SUFFICES ASSUME Next PROVE TypeOK'
  BY DEF vars, TypeOK
<1>1. PICK c \in Calls : Begin(c) \/ Step(c) \/ Fail(c)
  BY DEF Next
<1>2. call' \in Slots
  BY <1>1, StepMoves
<1>3. user' \in [Users -> {"live", "withdrawn"}] /\ card' \in [Cards -> {"absent", "private", "public", "deleted"}]
  <2>1. CASE UNCHANGED <<user, card>>
    BY <2>1 DEF TypeOK
  <2>2. CASE CreateProfileCard(c)
    BY <2>2 DEF CreateProfileCard, TypeOK
  <2>3. CASE UpdateProfileCard(c)
    <3>1. call[c] \in Running /\ call[c].isActive \in {"private", "public", None}
      BY <2>3, CardOfCall DEF UpdateProfileCard, At, Running
    <3>2. QED
      BY <2>3, <3>1 DEF UpdateProfileCard, TypeOK
  <2>4. CASE DeleteProfileCard(c)
    BY <2>4 DEF DeleteProfileCard, TypeOK
  <2>5. CASE SoftDeleteUser(c)
    BY <2>5 DEF SoftDeleteUser, TypeOK
  <2>6. QED
    BY <1>1, <2>1, <2>2, <2>3, <2>4, <2>5, BeginMoves
       DEF Step, FindCardToUpdate, FindCardToDelete, CountProfileCards, Fail
<1>4. QED
  BY <1>2, <1>3 DEF TypeOK, Slots

LEMMA InvStep ==
    ASSUME Inv, [Next]_vars
    PROVE  Inv'
<1>1. TypeOK'
  BY TypeStep DEF Inv
<1>2. OwnersFound'
  <2>1. CASE UNCHANGED vars
    BY <2>1 DEF Inv, OwnersFound, At, vars
  <2>2. CASE Next
    <3>1. PICK c \in Calls : Begin(c) \/ Step(c) \/ Fail(c)
      BY <2>2 DEF Next
    <3>2. QED
      BY <3>1, StepMoves DEF Inv, OwnersFound, IsMyCard, At
  <2>3. QED
    BY <2>1, <2>2
<1>3. QED
  BY <1>1, <1>2 DEF Inv

LEMMA InvInit ==
    ASSUME Init
    PROVE  Inv
BY DEF Init, Inv, TypeOK, OwnersFound, Idle, At

(* The write of an update or a deletion goes to a card of the caller's.     *)
THEOREM InvHolds == Spec => []Inv
BY InvInit, InvStep, PTL DEF Spec

(* Users, cards and calls keep their shape. *)
THEOREM TypeCorrect == Spec => []TypeOK
BY InvHolds, PTL DEF Inv

(* A card only ever changes in a call of its owner, although the check that *)
(* it is the owner's comes one or two awaits before the write.              *)
THEOREM OwnersEdit == Spec => OnlyOwnersEdit
<1>1. ASSUME Inv, [Next]_vars
      PROVE  [\A x \in Cards :
                card'[x] # card[x] =>
                    \E c \in Calls : Caller[c] = Owner[x] /\ call'[c] # call[c]]_vars
  <2> SUFFICES ASSUME Next, NEW x \in Cards, card'[x] # card[x]
               PROVE  \E c \in Calls : Caller[c] = Owner[x] /\ call'[c] # call[c]
    BY <1>1
  <2>1. PICK c \in Calls : Begin(c) \/ Step(c) \/ Fail(c)
    BY DEF Next
  <2>2. CreateProfileCard(c) \/ UpdateProfileCard(c) \/ DeleteProfileCard(c) \/ SoftDeleteUser(c)
    BY <1>1, <2>1, BeginMoves
       DEF Step, Inv, FindCardToUpdate, FindCardToDelete, CountProfileCards, Fail
  <2>3. Return(c) /\ ~At(c, "idle")
    BY <2>2 DEF CreateProfileCard, UpdateProfileCard, DeleteProfileCard, SoftDeleteUser, At
  <2>4. call'[c] # call[c]
    BY <1>1, <2>3, ReturnMoves DEF Inv, At
  <2>5. Owner[x] = Caller[c]
    <3>1. CASE CreateProfileCard(c)
      BY <1>1, <3>1 DEF CreateProfileCard, Inv, TypeOK
    <3>2. CASE UpdateProfileCard(c) \/ DeleteProfileCard(c)
      <4>1. x = call[c].card
        BY <1>1, <3>2 DEF UpdateProfileCard, DeleteProfileCard, Inv, TypeOK
      <4>2. QED
        BY <1>1, <3>2, <4>1 DEF UpdateProfileCard, DeleteProfileCard, Inv, OwnersFound
    <3>3. CASE SoftDeleteUser(c)
      BY <1>1, <3>3 DEF SoftDeleteUser
    <3>4. QED
      BY <2>2, <3>1, <3>2, <3>3
  <2>6. QED
    BY <2>4, <2>5
<1>2. QED
  BY <1>1, InvHolds, PTL DEF Spec, OnlyOwnersEdit
-----------------------------------------------------------------------------
(* Users who do one thing at a time. *)

(* What a call checked is still so when it acts. *)
ChecksHold ==
    \A c \in Calls :
        /\ ~At(c, "idle") => Live(Caller[c])
        /\ (At(c, "updateProfileCard") \/ At(c, "countProfileCards") \/ At(c, "deleteProfileCard"))
              => Exists(call[c].card)
        /\ At(c, "deleteProfileCard")
              => \E y \in CardsOf(Caller[c]) : y # call[c].card

SInv == Inv /\ ChecksHold /\ KeepsACard /\ WithdrawnIsHidden

LEMMA AnotherCard ==
    ASSUME NEW u \in Users, NEW x \in Cards, ~(Cardinality(CardsOf(u)) <= 1)
    PROVE  \E y \in CardsOf(u) : y # x
<1> SUFFICES ASSUME CardsOf(u) \subseteq {x} PROVE FALSE
  OBVIOUS
<1>1. CardsOf(u) = {} \/ CardsOf(u) = {x}
  OBVIOUS
<1>2. Cardinality(CardsOf(u)) \in {0, 1}
  BY <1>1, FS_EmptySet, FS_Singleton
<1>3. QED
  BY <1>2

(* A step of c changes only its caller's cards, and its caller alone. *)
LEMMA CardsMove ==
    ASSUME Inv, NEW c \in Calls,
           Begin(c) \/ Step(c) \/ Fail(c)
    PROVE  /\ \A x \in Cards : Owner[x] # Caller[c] => card'[x] = card[x]
           /\ \A u \in Users : u # Caller[c] => user'[u] = user[u]
           /\ UNCHANGED <<user, card>> \/ call'[c].pc = "idle"
<1>1. CASE UNCHANGED <<user, card>>
  BY <1>1
<1>2. CASE CreateProfileCard(c)
  BY <1>2, ReturnMoves DEF CreateProfileCard, Inv, TypeOK
<1>3. CASE UpdateProfileCard(c) \/ DeleteProfileCard(c)
  <2>1. Owner[call[c].card] = Caller[c]
    BY <1>3 DEF UpdateProfileCard, DeleteProfileCard, Inv, OwnersFound
  <2>2. QED
    BY <1>3, <2>1, ReturnMoves DEF UpdateProfileCard, DeleteProfileCard, Inv, TypeOK
<1>4. CASE SoftDeleteUser(c)
  BY <1>4, ReturnMoves DEF SoftDeleteUser, Inv, TypeOK
<1>5. QED
  BY <1>1, <1>2, <1>3, <1>4, BeginMoves
     DEF Step, Inv, FindCardToUpdate, FindCardToDelete, CountProfileCards, Fail

LEMMA ChecksStep ==
    ASSUME ProfileCardsAssumption, OneCallEach, SInv, NEW c \in Calls,
           Begin(c) \/ Step(c) \/ Fail(c)
    PROVE  ChecksHold'
<1> SUFFICES ASSUME NEW d \in Calls
             PROVE  /\ ~At(d, "idle")' => Live(Caller[d])'
                    /\ (At(d, "updateProfileCard") \/ At(d, "countProfileCards")
                            \/ At(d, "deleteProfileCard"))'
                          => Exists(call[d].card)'
                    /\ At(d, "deleteProfileCard")'
                          => \E y \in CardsOf(Caller[d])' : y # call'[d].card
  BY DEF ChecksHold
<1>1. CASE d # c
  <2>1. Caller[d] # Caller[c] /\ Caller[d] \in Users
    BY <1>1 DEF OneCallEach, ProfileCardsAssumption
  <2>2. call'[d] = call[d]
    BY <1>1, StepMoves DEF SInv, Inv
  <2>3. /\ \A x \in Cards : Owner[x] = Caller[d] => card'[x] = card[x]
        /\ user'[Caller[d]] = user[Caller[d]]
    BY <2>1, CardsMove DEF SInv
  <2>4. At(d, "updateProfileCard") \/ At(d, "countProfileCards") \/ At(d, "deleteProfileCard")
          => call[d].card \in Cards /\ Owner[call[d].card] = Caller[d]
    BY CardOfCall DEF SInv, Inv, OwnersFound
  <2>5. CardsOf(Caller[d])' = CardsOf(Caller[d])
    BY <2>3 DEF CardsOf, Exists
  <2>6. QED
    BY <2>2, <2>3, <2>4, <2>5 DEF SInv, ChecksHold, At, Live, Exists
<1>2. CASE d = c /\ call'[c].pc = "idle"
  BY <1>2 DEF At
<1>3. CASE d = c /\ call'[c].pc # "idle"
  <2>1. UNCHANGED <<user, card>> /\ Live(Caller[c])
    BY <1>3, CardsMove, BeginMoves
       DEF Step, SInv, Inv, ChecksHold, At, CreateProfileCard, FindCardToUpdate, UpdateProfileCard,
           FindCardToDelete, CountProfileCards, DeleteProfileCard, SoftDeleteUser, Fail
  <2>2. CASE call'[c].pc \in {"idle", "createProfileCard", "findCardToUpdate",
                             "findCardToDelete", "softDeleteUser"}
    BY <1>3, <2>1, <2>2 DEF At, Live
  <2>3. CASE IsMyCard(c) /\ call'[c].card = call[c].card
             /\ call'[c].pc \in {"updateProfileCard", "countProfileCards"}
    BY <1>3, <2>1, <2>3 DEF At, Live, IsMyCard, Exists
  <2>4. CASE /\ At(c, "countProfileCards") /\ ~(Cardinality(CardsOf(Caller[c])) <= 1)
             /\ call'[c].pc = "deleteProfileCard" /\ call'[c].card = call[c].card
    <3>1. call[c].card \in Cards /\ Exists(call[c].card) /\ Caller[c] \in Users
      BY <2>4, CardOfCall DEF SInv, Inv, ChecksHold, ProfileCardsAssumption
    <3>2. \E y \in CardsOf(Caller[c]) : y # call[c].card
      BY <2>4, <3>1, AnotherCard
    <3>3. QED
      BY <1>3, <2>1, <2>4, <3>1, <3>2 DEF At, Live, Exists, CardsOf
  <2>5. QED
    BY <1>3, <2>2, <2>3, <2>4, StepMoves DEF SInv, Inv
<1>4. QED
  BY <1>1, <1>2, <1>3

LEMMA KeepsStep ==
    ASSUME SInv, NEW c \in Calls,
           Begin(c) \/ Step(c) \/ Fail(c)
    PROVE  KeepsACard'
<1> SUFFICES ASSUME NEW x \in Cards, card'[x] = "deleted"
             PROVE  \E y \in Cards : Owner[y] = Owner[x] /\ Exists(y)'
  BY DEF KeepsACard, CardsOf
<1>1. CASE DeleteProfileCard(c)
  <2>1. PICK y \in CardsOf(Caller[c]) : y # call[c].card
    BY <1>1 DEF SInv, ChecksHold, DeleteProfileCard
  <2>2. card'[y] = card[y] /\ Exists(y)'
    BY <1>1, <2>1 DEF DeleteProfileCard, CardsOf, Exists, SInv, Inv, TypeOK
  <2>3. CASE card[x] = "deleted"
    <3>1. PICK z \in CardsOf(Owner[x]) : TRUE
      BY <2>3 DEF SInv, KeepsACard
    <3>2. CASE card'[z] = card[z]
      BY <3>1, <3>2 DEF CardsOf, Exists
    <3>3. CASE card'[z] # card[z]
      <4>1. Owner[z] = Caller[c]
        BY <3>1, <3>3, CardsMove, <1>1 DEF SInv, CardsOf
      <4>2. QED
        BY <2>1, <2>2, <3>1, <4>1 DEF CardsOf
    <3>4. QED
      BY <3>2, <3>3
  <2>4. CASE card[x] # "deleted"
    BY <1>1, <2>1, <2>2, <2>4, CardsMove DEF SInv, CardsOf
  <2>5. QED
    BY <2>3, <2>4
<1>2. CASE ~DeleteProfileCard(c)
  <2>1. /\ card[x] = "deleted"
        /\ \A y \in Cards : Exists(y) => Exists(y)'
    <3>1. CASE UNCHANGED card
      BY <3>1 DEF Exists
    <3>2. CASE CreateProfileCard(c)
      BY <3>2 DEF CreateProfileCard, Exists, SInv, Inv, TypeOK
    <3>3. CASE UpdateProfileCard(c)
      <4>1. call[c] \in Running /\ call[c].isActive \in {"private", "public", None}
        BY <3>3, CardOfCall DEF UpdateProfileCard, At, Running, SInv, Inv
      <4>2. QED
        BY <3>3, <4>1 DEF UpdateProfileCard, Exists, SInv, Inv, TypeOK
    <3>4. CASE SoftDeleteUser(c)
      BY <3>4 DEF SoftDeleteUser, Exists, SInv, Inv, TypeOK
    <3>5. QED
      BY <1>2, <3>1, <3>2, <3>3, <3>4, BeginMoves
         DEF Step, SInv, Inv, FindCardToUpdate, FindCardToDelete, CountProfileCards, Fail
  <2>2. QED
    BY <2>1 DEF SInv, KeepsACard, CardsOf
<1>3. QED
  BY <1>1, <1>2

LEMMA HiddenStep ==
    ASSUME ProfileCardsAssumption, SInv, NEW c \in Calls,
           Begin(c) \/ Step(c) \/ Fail(c)
    PROVE  WithdrawnIsHidden'
<1> SUFFICES ASSUME NEW x \in Cards, card'[x] = "public" PROVE Live(Owner[x])'
  BY DEF WithdrawnIsHidden
<1>1. CASE SoftDeleteUser(c)
  BY <1>1 DEF SoftDeleteUser, SInv, Inv, TypeOK, WithdrawnIsHidden, Live,
              ProfileCardsAssumption
<1>2. CASE UpdateProfileCard(c)
  <2>1. Live(Caller[c]) /\ Owner[call[c].card] = Caller[c]
    BY <1>2 DEF UpdateProfileCard, SInv, Inv, OwnersFound, ChecksHold, At
  <2>2. QED
    BY <1>2, <2>1 DEF UpdateProfileCard, SInv, Inv, TypeOK, WithdrawnIsHidden, Live
<1>3. CASE CreateProfileCard(c) \/ DeleteProfileCard(c)
  BY <1>3 DEF CreateProfileCard, DeleteProfileCard, SInv, Inv, TypeOK, WithdrawnIsHidden, Live
<1>4. CASE UNCHANGED <<user, card>>
  BY <1>4 DEF SInv, WithdrawnIsHidden, Live
<1>5. QED
  BY <1>1, <1>2, <1>3, <1>4, BeginMoves
     DEF Step, SInv, Inv, FindCardToUpdate, FindCardToDelete, CountProfileCards, Fail

LEMMA SInvStep ==
    ASSUME ProfileCardsAssumption, OneCallEach, SInv, [Next]_vars
    PROVE  SInv'
<1>1. Inv'
  BY InvStep DEF SInv
<1>2. CASE UNCHANGED vars
  BY <1>1, <1>2 DEF SInv, vars, ChecksHold, KeepsACard, WithdrawnIsHidden, At, Live, CardsOf, Exists
<1>3. CASE Next
  BY <1>1, <1>3, ChecksStep, KeepsStep, HiddenStep DEF SInv, Next
<1>4. QED
  BY <1>2, <1>3

LEMMA SInvInit ==
    ASSUME Init
    PROVE  SInv
<1>1. Inv
  BY InvInit
<1>2. QED
  BY <1>1 DEF Init, SInv, ChecksHold, KeepsACard, WithdrawnIsHidden, At, Idle

(* What a call read about the user and the card it works on, and about the  *)
(* user's other cards, is still so when the call writes.                    *)
THEOREM SInvHolds ==
    ASSUME ProfileCardsAssumption, OneCallEach
    PROVE  Spec => []SInv
<1>1. Init => SInv
  BY SInvInit
<1>2. SInv /\ [Next]_vars => SInv'
  BY SInvStep
<1>3. QED
  BY <1>1, <1>2, PTL DEF Spec

(* A user who has had a card has one: the last card is never deleted.       *)
THEOREM LastCardKept ==
    ASSUME ProfileCardsAssumption, OneCallEach
    PROVE  Spec => []KeepsACard
BY SInvHolds, PTL DEF SInv

(* The public list never shows a card of a user who has withdrawn.          *)
THEOREM WithdrawnAreHidden ==
    ASSUME ProfileCardsAssumption, OneCallEach
    PROVE  Spec => []WithdrawnIsHidden
BY SInvHolds, PTL DEF SInv
-----------------------------------------------------------------------------
(* The shelves are implemented. *)

Shelf == [u \in Users |-> CardsOf(u)]
Shown == {x \in Cards : card[x] = "public"}
Left == {u \in Users : ~Live(u)}

LEMMA ShelvesInit ==
    ASSUME Init
    PROVE  Shelves!Init
BY DEF Init, Shelves!Init, CardsOf, Exists, Live

(* How the mapped variables change when one card of Caller[c] does. *)
LEMMA ShelvesStep ==
    ASSUME ProfileCardsAssumption, SInv, NEW c \in Calls,
           Begin(c) \/ Step(c) \/ Fail(c)
    PROVE  Shelves!Next \/ UNCHANGED <<Shelf, Shown, Left>>
<1>1. CASE UNCHANGED <<user, card>>
  BY <1>1 DEF Shelf, Shown, Left, CardsOf, Exists, Live
<1>2. CASE CreateProfileCard(c) /\ card' # card
  <2>1. PICK x \in Cards : /\ Owner[x] = Caller[c] /\ card[x] = "absent"
                           /\ card' = [card EXCEPT ![x] = "private"]
                           /\ user' = user
    BY <1>2 DEF CreateProfileCard
  <2>2. Live(Owner[x]) /\ Owner[x] \in Users
    BY <1>2, <2>1 DEF CreateProfileCard, SInv, ChecksHold, At, ProfileCardsAssumption
  <2>3. \A y \in Cards : card'[y] = IF y = x THEN "private" ELSE card[y]
    BY <2>1 DEF SInv, Inv, TypeOK
  <2>4. Shown' = Shown /\ Left' = Left
    BY <2>1, <2>3 DEF Shown, Left, Live
  <2>5. \A u \in Users : CardsOf(u)' = IF u = Owner[x] THEN CardsOf(u) \cup {x} ELSE CardsOf(u)
    BY <2>1, <2>3 DEF CardsOf, Exists
  <2>6. x \notin Shelf[Owner[x]]
    BY <2>1, <2>2 DEF Shelf, CardsOf, Exists
  <2>7. Shelf' = [Shelf EXCEPT ![Owner[x]] = @ \cup {x}]
    BY <2>2, <2>5 DEF Shelf
  <2>8. Owner[x] \notin Left
    BY <2>2 DEF Left
  <2>9. QED
    BY <2>4, <2>6, <2>7, <2>8 DEF Shelves!Next, Shelves!Add, Shelf, Shown, Left
<1>3. CASE UpdateProfileCard(c) /\ card' # card
  <2> DEFINE x == call[c].card
  <2>1. /\ card' = [card EXCEPT ![x] = call[c].isActive]
        /\ user' = user /\ Exists(x) /\ x \in Cards
        /\ call[c].isActive \in {"private", "public"}
        /\ Owner[x] = Caller[c] /\ Live(Owner[x]) /\ Owner[x] \in Users
    BY <1>3, CardOfCall
       DEF UpdateProfileCard, SInv, Inv, OwnersFound, ChecksHold, At, Running,
           ProfileCardsAssumption
  <2>2. \A y \in Cards : card'[y] = IF y = x THEN call[c].isActive ELSE card[y]
    BY <2>1 DEF SInv, Inv, TypeOK
  <2>3. Shelf' = Shelf /\ Left' = Left
    BY <2>1, <2>2 DEF Shelf, CardsOf, Exists, Left, Live
  <2>4. x \in Shelf[Owner[x]] /\ Owner[x] \notin Left
    BY <2>1 DEF Shelf, CardsOf, Left
  <2>5. CASE call[c].isActive = "public"
    <3>1. Shown' = Shown \cup {x}
      BY <2>1, <2>2, <2>5 DEF Shown
    <3>2. QED
      BY <2>1, <2>3, <2>4, <3>1 DEF Shelves!Next, Shelves!PutUp, Shelf, Shown, Left
  <2>6. CASE call[c].isActive = "private"
    <3>1. Shown' = Shown \ {x}
      BY <2>1, <2>2, <2>6 DEF Shown
    <3>2. QED
      BY <2>1, <2>3, <2>4, <3>1 DEF Shelves!Next, Shelves!TakeDown, Shelf, Shown, Left
  <2>7. QED
    BY <2>1, <2>5, <2>6
<1>4. CASE DeleteProfileCard(c) /\ card' # card
  <2> DEFINE x == call[c].card
  <2>1. /\ card' = [card EXCEPT ![x] = "deleted"]
        /\ user' = user /\ Exists(x) /\ x \in Cards
        /\ Owner[x] = Caller[c] /\ Live(Owner[x]) /\ Owner[x] \in Users
        /\ \E y \in CardsOf(Owner[x]) : y # x
    BY <1>4, CardOfCall
       DEF DeleteProfileCard, SInv, Inv, OwnersFound, ChecksHold, At,
           ProfileCardsAssumption
  <2>2. \A y \in Cards : card'[y] = IF y = x THEN "deleted" ELSE card[y]
    BY <2>1 DEF SInv, Inv, TypeOK
  <2>3. Shown' = Shown \ {x} /\ Left' = Left
    BY <2>1, <2>2 DEF Shown, Left, Live
  <2>4. \A u \in Users : CardsOf(u)' = IF u = Owner[x] THEN CardsOf(u) \ {x} ELSE CardsOf(u)
    BY <2>1, <2>2 DEF CardsOf, Exists
  <2>5. Shelf' = [Shelf EXCEPT ![Owner[x]] = @ \ {x}]
    BY <2>1, <2>4 DEF Shelf
  <2>6. x \in Shelf[Owner[x]] /\ (\E y \in Shelf[Owner[x]] : y # x) /\ Owner[x] \notin Left
    BY <2>1 DEF Shelf, CardsOf, Left
  <2>7. QED
    BY <2>1, <2>3, <2>5, <2>6 DEF Shelves!Next, Shelves!Discard, Shelf, Shown, Left
<1>5. CASE SoftDeleteUser(c)
  <2> DEFINE u == Caller[c]
  <2>1. u \in Users /\ Live(u)
    BY <1>5 DEF SoftDeleteUser, SInv, ChecksHold, At, ProfileCardsAssumption
  <2>2. user' = [user EXCEPT ![u] = "withdrawn"]
    BY <1>5 DEF SoftDeleteUser
  <2>3. Left' = Left \cup {u} /\ u \notin Left
    BY <2>1, <2>2 DEF Left, Live, SInv, Inv, TypeOK
  <2>4. \A x \in Cards : card'[x] = IF Owner[x] = u /\ card[x] = "public" THEN "private" ELSE card[x]
    BY <1>5 DEF SoftDeleteUser
  <2>5. Shown' = {x \in Shown : Owner[x] # u}
    BY <2>4 DEF Shown
  <2>6. Shelf' = Shelf
    BY <2>4 DEF Shelf, CardsOf, Exists
  <2>7. QED
    BY <2>1, <2>3, <2>5, <2>6 DEF Shelves!Next, Shelves!Leave, Shelf, Shown, Left
<1>6. QED
  BY <1>1, <1>2, <1>3, <1>4, <1>5, BeginMoves
     DEF Step, SInv, Inv, CreateProfileCard, UpdateProfileCard, DeleteProfileCard,
         FindCardToUpdate, FindCardToDelete, CountProfileCards, Fail

(* Users who do one thing at a time see shelves: the handlers implement the *)
(* abstract specification, in which nothing happens to a user's cards after *)
(* the user has left.                                                       *)
THEOREM ShelvesRefinement ==
    ASSUME ProfileCardsAssumption, OneCallEach
    PROVE  Spec => CardsAreShelved
<1>1. Init => Shelves!Init
  BY ShelvesInit
<1>2. SInv /\ [Next]_vars => [Shelves!Next]_<<Shelf, Shown, Left>>
  <2>1. ASSUME SInv, UNCHANGED vars PROVE UNCHANGED <<Shelf, Shown, Left>>
    BY <2>1 DEF vars, Shelf, Shown, Left, CardsOf, Exists, Live
  <2>2. QED
    BY <2>1, ShelvesStep DEF Next
<1>3. QED
  BY <1>1, <1>2, SInvHolds, PTL DEF Spec, CardsAreShelved, Shelves!Spec, Shelf, Shown, Left
=============================================================================
