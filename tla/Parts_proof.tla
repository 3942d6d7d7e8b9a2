----------------------------- MODULE Parts_proof -----------------------------
(***************************************************************************)
(* Theorems about the parts of the system that share no state.  Three of   *)
(* them are proved about here: the scraps, the deployment and uploads.     *)
(* The others have modules of their own; at the end what all of them       *)
(* promise is put together for the specification that TLC checks.          *)
(***************************************************************************)
EXTENDS MCParts, Naturals, TLAPS

-----------------------------------------------------------------------------
(* Scraps.  A scrap stays in an existing group of its user, and the two     *)
(* tables are a scrapbook.  What makes both inductive is that a call, once  *)
(* it has checked them, holds a group and a scrap of its own user, which no *)
(* other user's call can change or delete.                                  *)

(* What a call found was its user's, and ids do not change hands.           *)
CallsHoldTheirOwn ==
    \A c \in Calls :
        /\ call[c].group # None /\ ~At(c, "findUniqueGroup") =>
              GroupOwner[call[c].group] = call[c].user
        /\ call[c].scrap # None => ScrapOwner[call[c].scrap] = call[c].user

Inv ==
    /\ TypeOK
    /\ CallsHoldTheirOwn
    /\ ScrapsStayHome

(* The constants as the proofs use them.                                    *)
LEMMA Nones ==
    ASSUME CollectionsAssumption
    PROVE  /\ None \notin Groups /\ None \notin Scraps /\ None \notin Names
           /\ None \notin Cards /\ None \notin Scrap
           /\ \A g \in Groups : GroupOwner[g] \in Users
           /\ \A s \in Scraps : ScrapOwner[s] \in Users
  BY DEF CollectionsAssumption, Scrap

LEMMA InitInv ==
    ASSUME CollectionsAssumption, Init
    PROVE  Inv
  <1>1. TypeOK
    BY DEF Init, TypeOK, Idle
  <1>2. kept = {}
    BY DEF Init, kept
  <1>3. CallsHoldTheirOwn
    BY DEF Init, CallsHoldTheirOwn, Idle
  <1> QED
    BY <1>1, <1>2, <1>3 DEF Inv, ScrapsStayHome

(* A row that exists has its columns.                                       *)
LEMMA KeptTyped ==
    ASSUME TypeOK, NEW s \in kept
    PROVE  /\ s \in Scraps /\ scrap[s] \in Scrap
           /\ scrap[s].card \in Cards /\ scrap[s].group \in Groups
  BY DEF TypeOK, kept, Scrap

(* What a call holds at each of its queries.                                *)
LEMMA CallTyped ==
    ASSUME TypeOK, NEW c \in Calls
    PROVE  /\ call[c] \in Running \cup {Idle}
           /\ At(c, "updateGroup") \/ At(c, "deleteGroup") =>
                 /\ call[c].user \in Users /\ call[c].group \in Groups
                 /\ call[c].scrap = None /\ call[c].card = None
           /\ At(c, "createCollection") =>
                 /\ call[c].user \in Users /\ call[c].group \in Groups
                 /\ call[c].scrap = None /\ call[c].card \in Cards
           /\ At(c, "findUniqueGroup") \/ At(c, "updateCollectionGroup") =>
                 /\ call[c].user \in Users /\ call[c].group \in Groups
                 /\ call[c].scrap \in Scraps /\ call[c].card = None
           /\ At(c, "deleteCollection") =>
                 /\ call[c].user \in Users /\ call[c].group = None
                 /\ call[c].scrap \in Scraps /\ call[c].card = None
  BY DEF TypeOK, At, Running, Idle

-----------------------------------------------------------------------------
(* Calls *)

(* A slot that returns is idle, and the others go on as before.             *)
LEMMA ReturnKeepsCalls ==
    ASSUME TypeOK, CallsHoldTheirOwn, NEW c \in Calls, Return(c)
    PROVE  call' \in [Calls -> Running \cup {Idle}] /\ CallsHoldTheirOwn'
  <1>1. \A d \in Calls : call'[d] = IF d = c THEN Idle ELSE call[d]
    BY DEF TypeOK, Return
  <1>2. call' \in [Calls -> Running \cup {Idle}]
    BY DEF TypeOK, Return
  <1> QED
    BY <1>1, <1>2 DEF CallsHoldTheirOwn, Idle, At

(* A call begins with a group or a scrap that was found to be its user's.   *)
Finds(c) ==
    \/ \E pc \in {"updateGroup", "deleteGroup"} : FindGroup(c, pc)
    \/ FindGroupForCard(c) \/ FindScrapToMove(c) \/ FindScrap(c)

LEMMA FindEnters ==
    ASSUME CollectionsAssumption, TypeOK, NEW c \in Calls, Finds(c)
    PROVE  \E r \in Running :
               /\ call[c] = Idle
               /\ call' = [call EXCEPT ![c] = r]
               /\ r.group # None /\ r.pc # "findUniqueGroup" => GroupOwner[r.group] = r.user
               /\ r.scrap # None => ScrapOwner[r.scrap] = r.user
  <1>0. At(c, "idle") => call[c] = Idle
    BY DEF TypeOK, Running, At
  <1>1. ASSUME NEW pc \in {"updateGroup", "deleteGroup"}, FindGroup(c, pc)
        PROVE  \E r \in Running :
                   /\ call[c] = Idle
                   /\ call' = [call EXCEPT ![c] = r]
                   /\ r.group # None => GroupOwner[r.group] = r.user
                   /\ r.scrap = None
    <2>1. PICK u \in Users, g \in Groups :
              IsMyGroup(u, g) /\ Enter(c, pc, u, g, None, None)
      BY <1>1 DEF FindGroup
    <2>2. [pc |-> pc, user |-> u, group |-> g, scrap |-> None, card |-> None] \in Running
      BY DEF Running
    <2> QED
      BY <1>0, <2>1, <2>2 DEF Enter, IsMyGroup
  <1>2. ASSUME FindGroupForCard(c)
        PROVE  \E r \in Running :
                   /\ call[c] = Idle
                   /\ call' = [call EXCEPT ![c] = r]
                   /\ r.group # None => GroupOwner[r.group] = r.user
                   /\ r.scrap = None
    <2>1. PICK u \in Users, g \in Groups, x \in cards :
              IsMyGroup(u, g) /\ Enter(c, "createCollection", u, g, None, x)
      BY <1>2 DEF FindGroupForCard
    <2>2. [pc |-> "createCollection", user |-> u, group |-> g, scrap |-> None, card |-> x]
              \in Running
      BY DEF Running, TypeOK
    <2> QED
      BY <1>0, <2>1, <2>2 DEF Enter, IsMyGroup
  <1>3. ASSUME FindScrapToMove(c)
        PROVE  \E r \in Running :
                   /\ call[c] = Idle
                   /\ call' = [call EXCEPT ![c] = r]
                   /\ r.pc = "findUniqueGroup"
                   /\ ScrapOwner[r.scrap] = r.user
    <2>1. PICK u \in Users, s \in Scraps, g \in open :
              IsMyScrap(u, s) /\ Enter(c, "findUniqueGroup", u, g, s, None)
      BY <1>3 DEF FindScrapToMove
    <2>2. [pc |-> "findUniqueGroup", user |-> u, group |-> g, scrap |-> s, card |-> None]
              \in Running
      BY DEF Running, open
    <2> QED
      BY <1>0, <2>1, <2>2 DEF Enter, IsMyScrap
  <1>4. ASSUME FindScrap(c)
        PROVE  \E r \in Running :
                   /\ call[c] = Idle
                   /\ call' = [call EXCEPT ![c] = r]
                   /\ r.group = None
                   /\ ScrapOwner[r.scrap] = r.user
    <2>1. PICK u \in Users, s \in Scraps :
              IsMyScrap(u, s) /\ Enter(c, "deleteCollection", u, None, s, None)
      BY <1>4 DEF FindScrap
    <2>2. [pc |-> "deleteCollection", user |-> u, group |-> None, scrap |-> s, card |-> None]
              \in Running
      BY DEF Running
    <2> QED
      BY <1>0, <2>1, <2>2 DEF Enter, IsMyScrap
  <1> QED
    BY <1>1, <1>2, <1>3, <1>4 DEF Finds

LEMMA FindKeepsCalls ==
    ASSUME CollectionsAssumption, TypeOK, CallsHoldTheirOwn, NEW c \in Calls, Finds(c)
    PROVE  call' \in [Calls -> Running \cup {Idle}] /\ CallsHoldTheirOwn'
  <1>1. PICK r \in Running :
            /\ call' = [call EXCEPT ![c] = r]
            /\ r.group # None /\ r.pc # "findUniqueGroup" => GroupOwner[r.group] = r.user
            /\ r.scrap # None => ScrapOwner[r.scrap] = r.user
    BY FindEnters
  <1>2. \A d \in Calls : call'[d] = IF d = c THEN r ELSE call[d]
    BY <1>1 DEF TypeOK
  <1>3. call' \in [Calls -> Running \cup {Idle}]
    BY <1>1 DEF TypeOK
  <1> QED
    BY <1>1, <1>2, <1>3 DEF CallsHoldTheirOwn, At

(* The group to move to is the mover's, as the scrap is.                    *)
LEMMA FindTargetKeepsCalls ==
    ASSUME CollectionsAssumption, TypeOK, CallsHoldTheirOwn, NEW c \in Calls, FindTarget(c)
    PROVE  call' \in [Calls -> Running \cup {Idle}] /\ CallsHoldTheirOwn'
  <1> DEFINE r == [pc |-> "updateCollectionGroup", user |-> call[c].user,
                   group |-> call[c].group, scrap |-> call[c].scrap, card |-> None]
  <1>1. IsMyGroup(call[c].user, call[c].group)
    BY DEF FindTarget
  <1>2. /\ call[c].user \in Users /\ call[c].group \in Groups
        /\ call[c].scrap \in Scraps /\ call[c].card = None
    BY CallTyped DEF FindTarget
  <1>3. r \in Running
    BY <1>2 DEF Running
  <1>4. call' = [call EXCEPT ![c] = r]
    <2>1. call[c] \in Running
      BY DEF FindTarget, TypeOK, At, Idle
    <2>2. [call[c] EXCEPT !.pc = "updateCollectionGroup"] = r
      BY <1>2, <2>1 DEF Running
    <2>3. call' = [call EXCEPT ![c] = [call[c] EXCEPT !.pc = "updateCollectionGroup"]]
      BY DEF FindTarget
    <2> QED
      BY <2>2, <2>3
  <1>5. \A d \in Calls : call'[d] = IF d = c THEN r ELSE call[d]
    BY <1>4 DEF TypeOK
  <1>6. call' \in [Calls -> Running \cup {Idle}]
    BY <1>3, <1>4 DEF TypeOK
  <1> QED
    BY <1>1, <1>5, <1>6 DEF CallsHoldTheirOwn, IsMyGroup, At

-----------------------------------------------------------------------------
(* Scraps *)

(* A name that is written never is None: no group goes by being renamed.    *)
LEMMA NamingKeepsInv ==
    ASSUME CollectionsAssumption, Inv, NEW g \in Groups, NEW m \in Names,
           name' = [name EXCEPT ![g] = m], UNCHANGED <<scrap, cards>>,
           call' \in [Calls -> Running \cup {Idle}], CallsHoldTheirOwn'
    PROVE  Inv' /\ open' = open \cup {g}
  <1>1. TypeOK'
    BY DEF Inv, TypeOK
  <1>2. open' = open \cup {g}
    BY Nones DEF Inv, TypeOK, open
  <1>3. kept' = kept
    BY DEF kept
  <1> QED
    BY <1>1, <1>2, <1>3 DEF Inv, ScrapsStayHome

(* With a group go exactly the scraps in it.                                *)
LEMMA DeleteGroupKeepsInv ==
    ASSUME CollectionsAssumption, Inv, NEW c \in Calls, DeleteGroup(c)
    PROVE  /\ Inv'
           /\ open' = open \ {call[c].group}
           /\ kept' = {s \in kept : scrap[s].group # call[c].group}
           /\ \A s \in kept' : scrap'[s] = scrap[s]
  <1> DEFINE g == call[c].group
  <1>0. TypeOK /\ g \in Groups
    BY CallTyped DEF Inv, DeleteGroup
  <1>1. open' = open \ {g}
    BY <1>0 DEF DeleteGroup, TypeOK, open
  <1>2. \A s \in Scraps :
            scrap'[s] = IF s \in kept /\ scrap[s].group = g THEN None ELSE scrap[s]
    BY DEF DeleteGroup
  <1>3. kept' = {s \in kept : scrap[s].group # g}
    BY <1>2 DEF kept
  <1>4. \A s \in kept' : scrap'[s] = scrap[s]
    BY <1>2, <1>3 DEF kept
  <1>5. TypeOK'
    <2>1. name' \in [Groups -> Names \cup {None}]
      BY <1>0 DEF DeleteGroup, TypeOK
    <2>2. scrap' \in [Scraps -> Scrap \cup {None}]
      BY <1>0 DEF DeleteGroup, TypeOK
    <2>3. call' \in [Calls -> Running \cup {Idle}]
      BY ReturnKeepsCalls DEF DeleteGroup, Inv
    <2> QED
      BY <1>0, <2>1, <2>2, <2>3 DEF DeleteGroup, TypeOK
  <1>6. CallsHoldTheirOwn'
    BY ReturnKeepsCalls DEF DeleteGroup, Inv
  <1>7. ScrapsStayHome'
    BY <1>1, <1>3, <1>4 DEF Inv, ScrapsStayHome, DeleteGroup
  <1> QED
    BY <1>1, <1>3, <1>4, <1>5, <1>6, <1>7 DEF Inv

(* A new scrap is its user's, in a group of the same user that exists.      *)
LEMMA CreateCollectionKeepsInv ==
    ASSUME CollectionsAssumption, Inv, NEW c \in Calls, CreateCollection(c)
    PROVE  Inv' /\ open' = open
  <1> DEFINE g == call[c].group
             x == call[c].card
  <1>0. TypeOK /\ g \in Groups /\ x \in Cards /\ GroupOwner[g] = call[c].user
    BY CallTyped, Nones DEF Inv, CreateCollection, CallsHoldTheirOwn, At
  <1>1. PICK s \in Scraps :
            /\ ScrapOwner[s] = call[c].user
            /\ s \notin kept /\ g \in open /\ x \in cards
            /\ IsUnscrapped(call[c].user, x)
            /\ scrap' = [scrap EXCEPT ![s] = [card |-> x, group |-> g]]
    BY DEF CreateCollection
  <1>2. [card |-> x, group |-> g] \in Scrap
    BY <1>0 DEF Scrap
  <1>3. \A t \in Scraps :
            scrap'[t] = IF t = s THEN [card |-> x, group |-> g] ELSE scrap[t]
    BY <1>0, <1>1 DEF TypeOK
  <1>4. kept' = kept \cup {s}
    BY <1>2, <1>3, Nones DEF kept
  <1>5. \A t \in kept : t \in Scraps /\ t # s /\ scrap'[t] = scrap[t]
    BY <1>1, <1>3 DEF kept
  <1>6. scrap'[s] = [card |-> x, group |-> g]
    BY <1>3
  <1>7. open' = open
    BY DEF CreateCollection, open
  <1>8. TypeOK'
    <2>1. call' \in [Calls -> Running \cup {Idle}]
      BY ReturnKeepsCalls DEF CreateCollection, Inv
    <2> QED
      BY <1>0, <1>1, <1>2, <2>1 DEF CreateCollection, TypeOK
  <1>9. CallsHoldTheirOwn'
    BY ReturnKeepsCalls DEF CreateCollection, Inv
  <1>10. ScrapsStayHome'
    <2>1. ASSUME NEW t \in kept'
          PROVE  /\ scrap'[t].card \in cards' /\ scrap'[t].group \in open'
                 /\ GroupOwner[scrap'[t].group] = ScrapOwner[t]
      BY <1>0, <1>1, <1>4, <1>5, <1>6, <1>7, <2>1 DEF Inv, ScrapsStayHome, CreateCollection
    <2>2. ASSUME NEW t \in kept', NEW v \in kept',
                 ScrapOwner[t] = ScrapOwner[v], scrap'[t].card = scrap'[v].card
          PROVE  t = v
      BY <1>1, <1>4, <1>5, <1>6, <2>2 DEF Inv, ScrapsStayHome, IsUnscrapped
    <2> QED
      BY <2>1, <2>2 DEF ScrapsStayHome
  <1> QED
    BY <1>7, <1>8, <1>9, <1>10 DEF Inv

(* A move changes the group of one scrap, to one of the same user.          *)
LEMMA UpdateCollectionGroupKeepsInv ==
    ASSUME CollectionsAssumption, Inv, NEW c \in Calls, UpdateCollectionGroup(c)
    PROVE  /\ Inv' /\ open' = open
           /\ GroupOwner[call[c].group] = ScrapOwner[call[c].scrap]
           /\ scrap' = [scrap EXCEPT ![call[c].scrap] =
                           [card |-> scrap[call[c].scrap].card, group |-> call[c].group]]
  <1> DEFINE s == call[c].scrap
             g == call[c].group
  <1>0. TypeOK /\ g \in Groups /\ s \in Scraps /\ s \in kept /\ g \in open
    BY CallTyped DEF Inv, UpdateCollectionGroup
  <1>1. GroupOwner[g] = ScrapOwner[s]
    BY <1>0, Nones DEF Inv, CallsHoldTheirOwn, UpdateCollectionGroup, At
  <1>2. scrap[s] \in Scrap /\ [card |-> scrap[s].card, group |-> g] \in Scrap
    BY <1>0, KeptTyped DEF Scrap
  <1>3. scrap' = [scrap EXCEPT ![s] = [card |-> scrap[s].card, group |-> g]]
    <2>1. [scrap[s] EXCEPT !.group = g] = [card |-> scrap[s].card, group |-> g]
      BY <1>2 DEF Scrap
    <2>2. scrap' = [scrap EXCEPT ![s] = [scrap[s] EXCEPT !.group = g]]
      BY DEF UpdateCollectionGroup
    <2> QED
      BY <2>1, <2>2
  <1>4. \A t \in Scraps :
            scrap'[t] = IF t = s THEN [card |-> scrap[s].card, group |-> g] ELSE scrap[t]
    BY <1>0, <1>3 DEF TypeOK
  <1>5. kept' = kept
    BY <1>0, <1>2, <1>4, Nones DEF kept
  <1>6. open' = open
    BY DEF UpdateCollectionGroup, open
  <1>7. TypeOK'
    <2>1. call' \in [Calls -> Running \cup {Idle}]
      BY ReturnKeepsCalls DEF UpdateCollectionGroup, Inv
    <2> QED
      BY <1>0, <1>2, <1>3, <2>1 DEF UpdateCollectionGroup, TypeOK
  <1>8. CallsHoldTheirOwn'
    BY ReturnKeepsCalls DEF UpdateCollectionGroup, Inv
  <1>9. \A t \in kept : t \in Scraps /\ scrap'[t].card = scrap[t].card
    BY <1>4 DEF kept
  <1>10. ScrapsStayHome'
    <2>1. ASSUME NEW t \in kept
          PROVE  /\ scrap'[t].card \in cards' /\ scrap'[t].group \in open
                 /\ GroupOwner[scrap'[t].group] = ScrapOwner[t]
      BY <1>0, <1>1, <1>4, <1>9, <2>1 DEF Inv, ScrapsStayHome, UpdateCollectionGroup
    <2> QED
      BY <1>5, <1>6, <1>9, <2>1 DEF Inv, ScrapsStayHome
  <1> QED
    BY <1>1, <1>3, <1>6, <1>7, <1>8, <1>10 DEF Inv

(* A scrap that is deleted takes nothing along.                             *)
LEMMA DeleteCollectionKeepsInv ==
    ASSUME CollectionsAssumption, Inv, NEW c \in Calls, DeleteCollection(c)
    PROVE  /\ Inv' /\ open' = open
           /\ kept' = kept \ {call[c].scrap}
           /\ \A t \in kept' : scrap'[t] = scrap[t]
  <1> DEFINE s == call[c].scrap
  <1>0. TypeOK /\ s \in Scraps
    BY CallTyped DEF Inv, DeleteCollection
  <1>1. \A t \in Scraps : scrap'[t] = IF t = s THEN None ELSE scrap[t]
    BY <1>0 DEF DeleteCollection, TypeOK
  <1>2. kept' = kept \ {s} /\ \A t \in kept' : scrap'[t] = scrap[t]
    BY <1>1 DEF kept
  <1>3. open' = open
    BY DEF DeleteCollection, open
  <1>4. TypeOK'
    <2>1. call' \in [Calls -> Running \cup {Idle}]
      BY ReturnKeepsCalls DEF DeleteCollection, Inv
    <2> QED
      BY <1>0, <2>1 DEF DeleteCollection, TypeOK
  <1>5. CallsHoldTheirOwn'
    BY ReturnKeepsCalls DEF DeleteCollection, Inv
  <1>6. ScrapsStayHome'
    BY <1>2, <1>3 DEF Inv, ScrapsStayHome, DeleteCollection
  <1> QED
    BY <1>2, <1>3, <1>4, <1>5, <1>6 DEF Inv

(* With a card go exactly the scraps that show it.                          *)
LEMMA DeleteCardKeepsInv ==
    ASSUME CollectionsAssumption, Inv, NEW x \in Cards, DeleteCard(x)
    PROVE  /\ Inv' /\ open' = open
           /\ kept' = {s \in kept : scrap[s].card # x}
           /\ \A s \in kept' : scrap'[s] = scrap[s]
  <1>0. TypeOK
    BY DEF Inv
  <1>1. \A s \in Scraps :
            scrap'[s] = IF s \in kept /\ scrap[s].card = x THEN None ELSE scrap[s]
    BY DEF DeleteCard
  <1>2. kept' = {s \in kept : scrap[s].card # x} /\ \A s \in kept' : scrap'[s] = scrap[s]
    BY <1>1 DEF kept
  <1>3. open' = open
    BY DEF DeleteCard, open
  <1>4. TypeOK' /\ CallsHoldTheirOwn'
    BY <1>0 DEF DeleteCard, TypeOK, Inv, CallsHoldTheirOwn, At
  <1>5. ScrapsStayHome'
    BY <1>2, <1>3 DEF Inv, ScrapsStayHome, DeleteCard
  <1> QED
    BY <1>2, <1>3, <1>4, <1>5 DEF Inv

(* What only changes the calls, or the cards that nobody has scrapped yet.  *)
LEMMA OthersKeepInv ==
    ASSUME CollectionsAssumption, Inv, UNCHANGED <<name, scrap>>,
           cards' \in SUBSET Cards, cards \subseteq cards',
           call' \in [Calls -> Running \cup {Idle}], CallsHoldTheirOwn'
    PROVE  Inv' /\ open' = open /\ kept' = kept
  BY DEF Inv, TypeOK, ScrapsStayHome, open, kept

-----------------------------------------------------------------------------
(* The invariant *)

LEMMA NextInv ==
    ASSUME CollectionsAssumption, Inv, [Next]_vars
    PROVE  Inv'
  <1>1. ASSUME NEW u \in Users, CreateGroup(u)
        PROVE  Inv'
    <2>1. PICK g \in Groups, m \in Names : name' = [name EXCEPT ![g] = m]
      BY <1>1 DEF CreateGroup
    <2>2. UNCHANGED <<scrap, cards, call>>
      BY <1>1 DEF CreateGroup
    <2>3. call' \in [Calls -> Running \cup {Idle}] /\ CallsHoldTheirOwn'
      BY <2>2 DEF Inv, TypeOK, CallsHoldTheirOwn, At
    <2> QED
      BY <2>1, <2>2, <2>3, NamingKeepsInv
  <1>2. ASSUME NEW c \in Calls, UpdateGroup(c)
        PROVE  Inv'
    <2>1. PICK m \in Names : name' = [name EXCEPT ![call[c].group] = m]
      BY <1>2 DEF UpdateGroup
    <2>2. call[c].group \in Groups
      BY <1>2 DEF UpdateGroup, open
    <2>3. call' \in [Calls -> Running \cup {Idle}] /\ CallsHoldTheirOwn'
      BY <1>2, ReturnKeepsCalls DEF UpdateGroup, Inv
    <2> QED
      BY <1>2, <2>1, <2>2, <2>3, NamingKeepsInv DEF UpdateGroup
  <1>3. ASSUME NEW c \in Calls, Finds(c)
        PROVE  Inv'
    <2>1. UNCHANGED <<name, scrap, cards>>
      BY <1>3 DEF Finds, FindGroup, FindGroupForCard, FindScrapToMove, FindScrap, Enter
    <2>2. call' \in [Calls -> Running \cup {Idle}] /\ CallsHoldTheirOwn'
      BY <1>3, FindKeepsCalls DEF Inv
    <2> QED
      BY <2>1, <2>2, OthersKeepInv DEF Inv, TypeOK
  <1>4. ASSUME NEW c \in Calls, FindTarget(c) \/ Fail(c)
        PROVE  Inv'
    <2>1. UNCHANGED <<name, scrap, cards>>
      BY <1>4 DEF FindTarget, Fail
    <2>2. call' \in [Calls -> Running \cup {Idle}] /\ CallsHoldTheirOwn'
      BY <1>4, FindTargetKeepsCalls, ReturnKeepsCalls DEF Inv, Fail
    <2> QED
      BY <2>1, <2>2, OthersKeepInv DEF Inv, TypeOK
  <1>5. ASSUME NEW x \in Cards, CreateCard(x)
        PROVE  Inv'
    <2>1. UNCHANGED <<name, scrap, call>> /\ cards' = cards \cup {x}
      BY <1>5 DEF CreateCard
    <2>2. call' \in [Calls -> Running \cup {Idle}] /\ CallsHoldTheirOwn'
      BY <2>1 DEF Inv, TypeOK, CallsHoldTheirOwn, At
    <2> QED
      BY <2>1, <2>2, OthersKeepInv DEF Inv, TypeOK
  <1>6. CASE UNCHANGED vars
    <2>1. CallsHoldTheirOwn' /\ call' \in [Calls -> Running \cup {Idle}]
      BY <1>6 DEF vars, Inv, TypeOK, CallsHoldTheirOwn, At
    <2> QED
      BY <1>6, <2>1, OthersKeepInv DEF vars, Inv, TypeOK
  <1> QED
    BY <1>1, <1>2, <1>3, <1>4, <1>5, <1>6, DeleteGroupKeepsInv, CreateCollectionKeepsInv,
       UpdateCollectionGroupKeepsInv, DeleteCollectionKeepsInv, DeleteCardKeepsInv
    DEF Next, CollectionGroupsController, CollectionsController, Finds

LEMMA InvHolds ==
    ASSUME CollectionsAssumption
    PROVE  Spec => []Inv
  <1>1. Init => Inv
    BY InitInv
  <1>2. Inv /\ [Next]_vars => Inv'
    BY NextInv
  <1> QED
    BY <1>1, <1>2, PTL DEF Spec

(* In every reachable state the tables hold rows of their columns' types,   *)
(* and a handler what its query needs.                                      *)
THEOREM TypeCorrect ==
    ASSUME CollectionsAssumption
    PROVE  Spec => []TypeOK
  BY InvHolds, PTL DEF Inv

(* For any number of users, groups, scraps and overlapping calls, every     *)
(* scrap is in an existing group of its own user and shows an existing      *)
(* card, and no user has a card twice (collections.service.ts:75, :103).    *)
THEOREM StayHomeHolds ==
    ASSUME CollectionsAssumption
    PROVE  Spec => []ScrapsStayHome
  BY InvHolds, PTL DEF Inv

-----------------------------------------------------------------------------
(* The refinement *)

(* What the scrapbook sees of the calls.                                    *)
Nothing == [op |-> "nothing", user |-> None, group |-> None, scrap |-> None, card |-> None]

askedBar == [c \in Calls |-> Asked(c)]

LEMMA AskedMoves ==
    ASSUME NEW c \in Calls, \A d \in Calls \ {c} : call'[d] = call[d]
    PROVE  /\ askedBar' = [askedBar EXCEPT ![c] = Asked(c)']
           /\ Asked(c)' = Nothing => askedBar' = [askedBar EXCEPT ![c] = Nothing]
           /\ Asked(c)' = Asked(c) => askedBar' = askedBar
  <1>1. \A d \in Calls \ {c} : Asked(d)' = Asked(d)
    BY DEF Asked, RequestTo, At
  <1> QED
    BY <1>1 DEF askedBar, Nothing

(* A call that returns has answered.                                        *)
LEMMA ReturnAnswers ==
    ASSUME TypeOK, NEW c \in Calls, Return(c)
    PROVE  Book!Answer(c)
  <1>1. call'[c] = Idle /\ \A d \in Calls \ {c} : call'[d] = call[d]
    BY DEF TypeOK, Return
  <1>2. Asked(c)' = Nothing
    BY <1>1 DEF Asked, At, Idle, Nothing
  <1> QED
    BY <1>1, <1>2, AskedMoves DEF Book!Answer, Book!Nothing, Nothing, askedBar

(* A call that begins asks, unless it is about the name of a group.         *)
LEMMA FindAsks ==
    ASSUME CollectionsAssumption, TypeOK, NEW c \in Calls, Finds(c)
    PROVE  /\ UNCHANGED <<open, cards, scrap>>
           /\ UNCHANGED askedBar \/ Book!Ask(c)
  <1>1. UNCHANGED <<open, cards, scrap>>
    BY DEF Finds, FindGroup, FindGroupForCard, FindScrapToMove, FindScrap, Enter, open
  <1>2. PICK r \in Running : call[c] = Idle /\ call' = [call EXCEPT ![c] = r]
    BY FindEnters
  <1>3. /\ call'[c] = r
        /\ \A d \in Calls \ {c} : call'[d] = call[d]
        /\ Asked(c) = Nothing
    BY <1>2 DEF TypeOK, Asked, At, Idle, Nothing
  <1>4. CASE Asked(c)' = Nothing
    BY <1>1, <1>3, <1>4, AskedMoves
  <1>5. CASE Asked(c)' # Nothing
    <2>1. Asked(c)' \in Book!Request
      BY <1>3, <1>5 DEF Asked, RequestTo, At, Nothing, Running, Book!Request
    <2> QED
      BY <1>1, <1>3, <2>1, AskedMoves DEF Book!Ask, Book!Nothing, Nothing, askedBar
  <1> QED
    BY <1>4, <1>5

(* The group to move to is looked up for the request that named it.         *)
LEMMA FindTargetStands ==
    ASSUME TypeOK, NEW c \in Calls, FindTarget(c)
    PROVE  UNCHANGED askedBar
  <1>1. /\ At(c, "findUniqueGroup")
        /\ call' = [call EXCEPT ![c].pc = "updateCollectionGroup"]
    BY DEF FindTarget
  <1>2. call[c] \in Running
    BY <1>1 DEF TypeOK, At, Idle
  <1>3. /\ call'[c].pc = "updateCollectionGroup"
        /\ call'[c].user = call[c].user /\ call'[c].group = call[c].group
        /\ call'[c].scrap = call[c].scrap /\ call'[c].card = call[c].card
        /\ \A d \in Calls \ {c} : call'[d] = call[d]
    BY <1>1, <1>2 DEF TypeOK, Running
  <1>4. Asked(c)' = Asked(c)
    BY <1>1, <1>3 DEF Asked, RequestTo, At
  <1> QED
    BY <1>3, <1>4, AskedMoves

LEMMA DeleteGroupCloses ==
    ASSUME CollectionsAssumption, Inv, NEW c \in Calls, DeleteGroup(c)
    PROVE  Book!Close(c)
  <1>1. call[c].group \in Groups /\ GroupOwner[call[c].group] = call[c].user
    BY CallTyped, Nones DEF Inv, CallsHoldTheirOwn, DeleteGroup, At
  <1>2. Book!Answer(c)
    BY ReturnAnswers DEF Inv, DeleteGroup
  <1>3. /\ Book!IsAsked(c, "close")
        /\ askedBar[c].user = call[c].user /\ askedBar[c].group = call[c].group
    BY DEF Asked, RequestTo, DeleteGroup, At, askedBar, Book!IsAsked
  <1> QED
    BY <1>1, <1>2, <1>3, DeleteGroupKeepsInv
    DEF DeleteGroup, kept, askedBar, Book!Close, Book!kept

LEMMA CreateCollectionKeeps ==
    ASSUME CollectionsAssumption, Inv, NEW c \in Calls, CreateCollection(c)
    PROVE  Book!Keep(c)
  <1>1. call[c].group \in Groups /\ GroupOwner[call[c].group] = call[c].user
    BY CallTyped, Nones DEF Inv, CallsHoldTheirOwn, CreateCollection, At
  <1>2. Book!Answer(c)
    BY ReturnAnswers DEF Inv, CreateCollection
  <1>3. /\ Book!IsAsked(c, "keep")
        /\ askedBar[c].user = call[c].user /\ askedBar[c].group = call[c].group /\ askedBar[c].card = call[c].card
    BY DEF Asked, RequestTo, CreateCollection, At, askedBar, Book!IsAsked
  <1> QED
    BY <1>1, <1>2, <1>3, CreateCollectionKeepsInv
    DEF CreateCollection, IsUnscrapped, kept, askedBar, Book!Keep, Book!IsOpenTo, Book!kept

LEMMA UpdateCollectionGroupMoves ==
    ASSUME CollectionsAssumption, Inv, NEW c \in Calls, UpdateCollectionGroup(c)
    PROVE  Book!Move(c)
  <1>1. ScrapOwner[call[c].scrap] = call[c].user
    BY CallTyped, Nones DEF Inv, CallsHoldTheirOwn, UpdateCollectionGroup
  <1>2. Book!Answer(c)
    BY ReturnAnswers DEF Inv, UpdateCollectionGroup
  <1>3. /\ Book!IsAsked(c, "move")
        /\ askedBar[c].user = call[c].user /\ askedBar[c].group = call[c].group /\ askedBar[c].scrap = call[c].scrap
    BY DEF Asked, RequestTo, UpdateCollectionGroup, At, askedBar, Book!IsAsked
  <1> QED
    BY <1>1, <1>2, <1>3, UpdateCollectionGroupKeepsInv
    DEF UpdateCollectionGroup, kept, askedBar, Book!Move, Book!IsOpenTo, Book!kept

LEMMA DeleteCollectionTakesOut ==
    ASSUME CollectionsAssumption, Inv, NEW c \in Calls, DeleteCollection(c)
    PROVE  Book!TakeOut(c)
  <1>1. ScrapOwner[call[c].scrap] = call[c].user
    BY CallTyped, Nones DEF Inv, CallsHoldTheirOwn, DeleteCollection
  <1>2. Book!Answer(c)
    BY ReturnAnswers DEF Inv, DeleteCollection
  <1>3. /\ Book!IsAsked(c, "takeOut")
        /\ askedBar[c].user = call[c].user /\ askedBar[c].scrap = call[c].scrap
    BY DEF Asked, RequestTo, DeleteCollection, At, askedBar, Book!IsAsked
  <1> QED
    BY <1>1, <1>2, <1>3, DeleteCollectionKeepsInv
    DEF DeleteCollection, askedBar, Book!TakeOut

LEMMA DeleteCardVanishes ==
    ASSUME CollectionsAssumption, Inv, NEW x \in Cards, DeleteCard(x)
    PROVE  Book!Vanish(x)
  <1>1. UNCHANGED askedBar
    BY DEF DeleteCard, askedBar, Asked, RequestTo, At
  <1> QED
    BY <1>1, DeleteCardKeepsInv DEF DeleteCard, kept, askedBar, Book!Vanish, Book!kept

LEMMA StepRefines ==
    ASSUME CollectionsAssumption, Inv, [Next]_vars
    PROVE  UNCHANGED <<open, cards, scrap, askedBar>> \/ Book!Next
  <1> USE DEF Inv
  <1>1. ASSUME NEW u \in Users, CreateGroup(u)
        PROVE  Book!Next
    <2>1. PICK g \in Groups, m \in Names : name' = [name EXCEPT ![g] = m]
      BY <1>1 DEF CreateGroup
    <2>2. UNCHANGED <<scrap, cards, call>>
      BY <1>1 DEF CreateGroup
    <2>3. open' = open \cup {g}
      BY <2>1, Nones DEF TypeOK, open
    <2>4. UNCHANGED askedBar
      BY <2>2 DEF askedBar, Asked, RequestTo, At
    <2> QED
      BY <2>2, <2>3, <2>4 DEF askedBar, Book!Next, Book!OpenGroup
  <1>2. ASSUME NEW c \in Calls, UpdateGroup(c)
        PROVE  Book!Next
    <2>1. PICK m \in Names : name' = [name EXCEPT ![call[c].group] = m]
      BY <1>2 DEF UpdateGroup
    <2>2. call[c].group \in open /\ UNCHANGED <<scrap, cards>> /\ Return(c)
      BY <1>2 DEF UpdateGroup
    <2>3. open' = open
      BY <2>1, <2>2, Nones DEF TypeOK, open
    <2>4. Book!Answer(c)
      BY <2>2, ReturnAnswers
    <2> QED
      BY <2>2, <2>3, <2>4 DEF Book!Next, Book!Drop
  <1>3. ASSUME NEW c \in Calls, Fail(c)
        PROVE  Book!Next
    <2>1. UNCHANGED <<open, cards, scrap>> /\ Book!Answer(c)
      BY <1>3, ReturnAnswers DEF Fail, open
    <2> QED
      BY <2>1 DEF Book!Next, Book!Drop
  <1>4. ASSUME NEW c \in Calls, Finds(c)
        PROVE  UNCHANGED <<open, cards, scrap, askedBar>> \/ Book!Next
    BY <1>4, FindAsks DEF Book!Next
  <1>5. ASSUME NEW c \in Calls, FindTarget(c)
        PROVE  UNCHANGED <<open, cards, scrap, askedBar>>
    BY <1>5, FindTargetStands DEF FindTarget, open
  <1>6. ASSUME NEW c \in Calls,
               \/ DeleteGroup(c) \/ CreateCollection(c)
               \/ UpdateCollectionGroup(c) \/ DeleteCollection(c)
        PROVE  Book!Next
    BY <1>6, DeleteGroupCloses, CreateCollectionKeeps, UpdateCollectionGroupMoves,
       DeleteCollectionTakesOut DEF Book!Next
  <1>7. ASSUME NEW x \in Cards, CreateCard(x)
        PROVE  Book!Next
    <2>1. UNCHANGED <<open, scrap, askedBar>> /\ cards' = cards \cup {x}
      BY <1>7 DEF CreateCard, open, askedBar, Asked, RequestTo, At
    <2> QED
      BY <2>1 DEF askedBar, Book!Next, Book!Show
  <1>8. ASSUME NEW x \in Cards, DeleteCard(x)
        PROVE  Book!Next
    BY <1>8, DeleteCardVanishes DEF Book!Next
  <1>9. CASE UNCHANGED vars
    BY <1>9 DEF vars, open, askedBar, Asked, RequestTo, At
  <1> QED
    BY <1>1, <1>2, <1>3, <1>4, <1>5, <1>6, <1>7, <1>8, <1>9
    DEF Next, CollectionGroupsController, CollectionsController, Finds

(* For any number of users, groups, scraps and overlapping calls, the two   *)
(* tables implement the scrapbook: nothing happens to a scrap but what its  *)
(* user asked for (collections.service.ts:41-109).                          *)
THEOREM ImplementsScrapbook ==
    ASSUME CollectionsAssumption
    PROVE  Spec => IsAScrapbook
  <1>1. Init => Book!Init
    BY DEF Init, Book!Init, open, Asked, At, Idle, Book!Nothing
  <1>2. Inv /\ [Next]_vars => [Book!Next]_<<open, cards, scrap, askedBar>>
    BY StepRefines
  <1> QED
    BY <1>1, <1>2, InvHolds, PTL DEF Spec, IsAScrapbook, Book!Spec, askedBar

-----------------------------------------------------------------------------
(* The deployment.  What keeps the service going is that the script always  *)
(* knows, by where it is, which colour the file names and which colour must *)
(* be healthy: the one it came from for as long as it may still go back,    *)
(* and the one it goes to from the moment it has waited for it.             *)

stage == script.pc

(* In the first deployment everything is blue.                              *)
BootIsBlue ==
    /\ stage \in {"bootUp", "bootWait", "bootSmoke"} => ~settled /\ file = "blue"
    /\ stage \in {"bootWait", "bootSmoke"} => loaded = "blue"
    /\ stage = "bootSmoke" => container["blue"] = "healthy"

(* Which colour the file names, and when nginx must have loaded it.         *)
FileFollowsScript ==
    /\ stage \in {"up", "wait", "cancel", "switch", "rollbackReload", "rollbackRemove"} =>
          file = Dep!current
    /\ stage \in {"reload", "smoke", "rollback", "removeCurrent"} => file = Dep!next
    /\ loaded = None => stage \in {"idle", "bootUp"} /\ ~settled
    /\ stage \in {"smoke", "rollback", "removeCurrent", "rollbackRemove"} => loaded = file
    /\ settled /\ stage \in {"idle", "up", "wait", "cancel", "switch"} => loaded = file

(* Which colours are healthy.                                               *)
ColoursAreHealthy ==
    /\ stage \in {"switch", "reload", "smoke", "rollback", "rollbackReload", "removeCurrent"} =>
          container[Dep!next] = "healthy"
    /\ settled /\ stage = "idle" => container[file] = "healthy"
    /\ settled /\ stage \notin {"idle", "removeCurrent"} => container[Dep!current] = "healthy"

DeploymentInv ==
    /\ Dep!TypeOK
    /\ BootIsBlue
    /\ FileFollowsScript
    /\ ColoursAreHealthy

(* There are two colours, and the other one is the other one.               *)
LEMMA TwoColours ==
    ASSUME NEW x \in Dep!Colours
    PROVE  /\ Dep!Other(x) \in Dep!Colours
           /\ Dep!Other(x) # x
           /\ \A y \in Dep!Colours : y = x \/ y = Dep!Other(x)
  <1>1. \E y \in Dep!Colours : y # x
    BY DEF Dep!Colours
  <1>2. Dep!Other(x) \in Dep!Colours /\ Dep!Other(x) # x
    BY <1>1 DEF Dep!Other
  <1> QED
    BY <1>2 DEF Dep!Colours

(* The script as the proofs use it.                                         *)
LEMMA ScriptTyped ==
    ASSUME Dep!TypeOK
    PROVE  /\ stage \in Dep!Steps
           /\ Dep!current \in Dep!Colours /\ Dep!next \in Dep!Colours
           /\ Dep!next # Dep!current
           /\ \A y \in Dep!Colours : y = Dep!current \/ y = Dep!next
           /\ container["blue"] \in {"absent", "starting", "healthy", "unhealthy"}
  BY TwoColours DEF Dep!TypeOK, stage, Dep!current, Dep!next, Dep!Colours

LEMMA GotoMoves ==
    ASSUME Dep!TypeOK, NEW step \in Dep!Steps, Dep!Goto(step)
    PROVE  /\ script' \in [pc : Dep!Steps, current : Dep!Colours]
           /\ stage' = step
           /\ Dep!current' = Dep!current /\ Dep!next' = Dep!next
  <1>1. script' = [script EXCEPT !.pc = step] /\ script \in [pc : Dep!Steps, current : Dep!Colours]
    BY DEF Dep!Goto, Dep!TypeOK
  <1>2. script' = [pc |-> step, current |-> script.current]
    BY <1>1
  <1>3. script'.current = script.current /\ script'.pc = step
    BY <1>2
  <1> QED
    BY <1>1, <1>2, <1>3 DEF stage, Dep!current, Dep!next

(* A colour that docker starts or removes; the other one stays as it is.    *)
LEMMA OtherColourStays ==
    ASSUME Dep!TypeOK, NEW x \in Dep!Colours, Dep!Up(x) \/ Dep!Remove(x)
    PROVE  /\ container' \in [Dep!Colours -> {"absent", "starting", "healthy", "unhealthy"}]
           /\ \A y \in Dep!Colours \ {x} : container'[y] = container[y]
  BY DEF Dep!Up, Dep!Remove, Dep!TypeOK

LEMMA InitDeployment ==
    ASSUME Dep!Init, Dep!DeploymentAssumption
    PROVE  DeploymentInv
  BY DEF Dep!DeploymentAssumption, Dep!Init, DeploymentInv, Dep!TypeOK, Dep!Colours,
         Dep!Steps, BootIsBlue, FileFollowsScript, ColoursAreHealthy, stage

LEMMA BootKeepsInv ==
    ASSUME Dep!DeploymentAssumption, DeploymentInv, Dep!Boot
    PROVE  DeploymentInv'
  <1> USE DEF DeploymentInv, Dep!DeploymentAssumption
  <1>1. CASE Dep!BeginBoot
    <2>1. /\ script' = [pc |-> "bootUp", current |-> "blue"] /\ file' = "blue"
          /\ ~settled /\ UNCHANGED <<loaded, container, settled>>
      BY <1>1 DEF Dep!BeginBoot, FileFollowsScript
    <2>2. stage' = "bootUp"
      BY <2>1 DEF stage
    <2>3. Dep!TypeOK'
      BY <2>1 DEF Dep!TypeOK, Dep!Colours, Dep!Steps
    <2> QED
      BY <2>1, <2>2, <2>3 DEF BootIsBlue, FileFollowsScript, ColoursAreHealthy
  <1>2. CASE Dep!BootUp
    <2>1. stage = "bootUp" /\ Dep!Goto("bootWait") /\ loaded' = file /\ UNCHANGED <<file, settled>>
      BY <1>2 DEF Dep!BootUp, Dep!At, stage
    <2>2. stage' = "bootWait" /\ script' \in [pc : Dep!Steps, current : Dep!Colours]
      BY <2>1, GotoMoves DEF Dep!Steps
    <2>3. container' \in [Dep!Colours -> {"absent", "starting", "healthy", "unhealthy"}]
      BY <1>2, OtherColourStays DEF Dep!BootUp, Dep!Colours
    <2>4. ~settled /\ file = "blue"
      BY <2>1 DEF BootIsBlue
    <2> QED
      BY <2>1, <2>2, <2>3, <2>4
      DEF Dep!TypeOK, Dep!Colours, BootIsBlue, FileFollowsScript, ColoursAreHealthy
  <1>3. CASE Dep!BootWait
    <2>1. /\ stage = "bootWait" /\ Dep!Goto("bootSmoke") /\ container["blue"] = "healthy"
          /\ UNCHANGED <<file, loaded, container, settled>>
      BY <1>3 DEF Dep!BootWait, Dep!At, stage
    <2>2. stage' = "bootSmoke" /\ script' \in [pc : Dep!Steps, current : Dep!Colours]
      BY <2>1, GotoMoves DEF Dep!Steps
    <2> QED
      BY <2>1, <2>2
      DEF Dep!TypeOK, BootIsBlue, FileFollowsScript, ColoursAreHealthy
  <1>4. CASE Dep!BootSmoke
    <2>1. /\ stage = "bootSmoke" /\ Dep!Goto("idle") /\ settled' = TRUE
          /\ UNCHANGED <<file, loaded, container>>
      BY <1>4 DEF Dep!BootSmoke, Dep!At, stage
    <2>2. stage' = "idle" /\ script' \in [pc : Dep!Steps, current : Dep!Colours]
      BY <2>1, GotoMoves DEF Dep!Steps
    <2> QED
      BY <2>1, <2>2
      DEF Dep!TypeOK, BootIsBlue, FileFollowsScript, ColoursAreHealthy
  <1> QED
    BY <1>1, <1>2, <1>3, <1>4 DEF Dep!Boot

(* Up to the switch, nginx and the file stay with the colour that serves.   *)
LEMMA BeforeSwitchKeepsInv ==
    ASSUME Dep!DeploymentAssumption, DeploymentInv,
           Dep!Begin \/ Dep!UpNext \/ Dep!WaitForHealth \/ Dep!Cancel \/ Dep!Switch
    PROVE  DeploymentInv'
  <1> USE DEF DeploymentInv, Dep!DeploymentAssumption
  <1>1. CASE Dep!Begin
    <2>1. /\ stage = "idle" /\ loaded # None /\ script' = [pc |-> "up", current |-> file]
          /\ UNCHANGED <<file, loaded, container, settled>>
      BY <1>1 DEF Dep!Begin, Dep!At, stage
    <2>2. stage' = "up" /\ Dep!current' = file
      BY <2>1 DEF stage, Dep!current
    <2>3. Dep!TypeOK'
      BY <2>1 DEF Dep!TypeOK, Dep!Steps
    <2> QED
      BY <2>1, <2>2, <2>3 DEF BootIsBlue, FileFollowsScript, ColoursAreHealthy
  <1>2. CASE Dep!UpNext
    <2>1. stage = "up" /\ Dep!Goto("wait") /\ UNCHANGED <<file, loaded, settled>>
      BY <1>2 DEF Dep!UpNext, Dep!At, stage
    <2>2. /\ stage' = "wait" /\ script' \in [pc : Dep!Steps, current : Dep!Colours]
          /\ Dep!current' = Dep!current /\ Dep!next' = Dep!next
      BY <2>1, GotoMoves DEF Dep!Steps
    <2>3. /\ container' \in [Dep!Colours -> {"absent", "starting", "healthy", "unhealthy"}]
          /\ container'[Dep!current] = container[Dep!current]
      BY <1>2, OtherColourStays, ScriptTyped DEF Dep!UpNext
    <2> QED
      BY <2>1, <2>2, <2>3
      DEF Dep!TypeOK, BootIsBlue, FileFollowsScript, ColoursAreHealthy
  <1>3. CASE Dep!WaitForHealth
    <2>1. PICK step \in {"switch", "cancel"} :
              /\ Dep!Goto(step)
              /\ step = "switch" => container[Dep!next] = "healthy"
      BY <1>3 DEF Dep!WaitForHealth
    <2>2. stage = "wait" /\ UNCHANGED <<file, loaded, container, settled>>
      BY <1>3 DEF Dep!WaitForHealth, Dep!At, stage
    <2>3. /\ stage' = step /\ script' \in [pc : Dep!Steps, current : Dep!Colours]
          /\ Dep!current' = Dep!current /\ Dep!next' = Dep!next
      BY <2>1, GotoMoves DEF Dep!Steps
    <2> QED
      BY <2>1, <2>2, <2>3
      DEF Dep!TypeOK, BootIsBlue, FileFollowsScript, ColoursAreHealthy
  <1>4. CASE Dep!Cancel
    <2>1. stage = "cancel" /\ Dep!Goto("idle") /\ UNCHANGED <<file, loaded, settled>>
      BY <1>4 DEF Dep!Cancel, Dep!At, stage
    <2>2. stage' = "idle" /\ script' \in [pc : Dep!Steps, current : Dep!Colours]
      BY <2>1, GotoMoves DEF Dep!Steps
    <2>3. /\ container' \in [Dep!Colours -> {"absent", "starting", "healthy", "unhealthy"}]
          /\ container'[Dep!current] = container[Dep!current]
      BY <1>4, OtherColourStays, ScriptTyped DEF Dep!Cancel
    <2> QED
      BY <2>1, <2>2, <2>3
      DEF Dep!TypeOK, BootIsBlue, FileFollowsScript, ColoursAreHealthy
  <1>5. CASE Dep!Switch
    <2>1. /\ stage = "switch" /\ Dep!Goto("reload") /\ file' = Dep!next
          /\ UNCHANGED <<loaded, container, settled>>
      BY <1>5 DEF Dep!Switch, Dep!At, stage
    <2>2. /\ stage' = "reload" /\ script' \in [pc : Dep!Steps, current : Dep!Colours]
          /\ Dep!current' = Dep!current /\ Dep!next' = Dep!next
      BY <2>1, GotoMoves DEF Dep!Steps
    <2> QED
      BY <2>1, <2>2, ScriptTyped
      DEF Dep!TypeOK, BootIsBlue, FileFollowsScript, ColoursAreHealthy
  <1> QED
    BY <1>1, <1>2, <1>3, <1>4, <1>5

(* From then on both colours are healthy, until one of them is removed.     *)
LEMMA AfterSwitchKeepsInv ==
    ASSUME Dep!DeploymentAssumption, DeploymentInv,
           \/ Dep!Reload \/ Dep!SmokeTest \/ Dep!Rollback \/ Dep!RollbackReload
           \/ Dep!RollbackRemove \/ Dep!RemoveCurrent
    PROVE  DeploymentInv'
  <1> USE DEF DeploymentInv, Dep!DeploymentAssumption
  <1>1. CASE Dep!Reload
    <2>1. /\ stage = "reload" /\ Dep!Goto("smoke") /\ loaded' = file
          /\ UNCHANGED <<file, container, settled>>
      BY <1>1 DEF Dep!Reload, Dep!At, stage
    <2>2. /\ stage' = "smoke" /\ script' \in [pc : Dep!Steps, current : Dep!Colours]
          /\ Dep!current' = Dep!current /\ Dep!next' = Dep!next
      BY <2>1, GotoMoves DEF Dep!Steps
    <2> QED
      BY <2>1, <2>2
      DEF Dep!TypeOK, BootIsBlue, FileFollowsScript, ColoursAreHealthy
  <1>2. CASE Dep!SmokeTest
    <2>1. PICK step \in {"removeCurrent", "rollback"} : Dep!Goto(step)
      BY <1>2 DEF Dep!SmokeTest
    <2>2. stage = "smoke" /\ UNCHANGED <<file, loaded, container, settled>>
      BY <1>2 DEF Dep!SmokeTest, Dep!At, stage
    <2>3. /\ stage' = step /\ script' \in [pc : Dep!Steps, current : Dep!Colours]
          /\ Dep!current' = Dep!current /\ Dep!next' = Dep!next
      BY <2>1, GotoMoves DEF Dep!Steps
    <2> QED
      BY <2>1, <2>2, <2>3
      DEF Dep!TypeOK, BootIsBlue, FileFollowsScript, ColoursAreHealthy
  <1>3. CASE Dep!Rollback
    <2>1. /\ stage = "rollback" /\ Dep!Goto("rollbackReload") /\ file' = Dep!current
          /\ UNCHANGED <<loaded, container, settled>>
      BY <1>3 DEF Dep!Rollback, Dep!At, stage
    <2>2. /\ stage' = "rollbackReload" /\ script' \in [pc : Dep!Steps, current : Dep!Colours]
          /\ Dep!current' = Dep!current /\ Dep!next' = Dep!next
      BY <2>1, GotoMoves DEF Dep!Steps
    <2> QED
      BY <2>1, <2>2, ScriptTyped
      DEF Dep!TypeOK, BootIsBlue, FileFollowsScript, ColoursAreHealthy
  <1>4. CASE Dep!RollbackReload
    <2>1. /\ stage = "rollbackReload" /\ Dep!Goto("rollbackRemove") /\ loaded' = file
          /\ UNCHANGED <<file, container, settled>>
      BY <1>4 DEF Dep!RollbackReload, Dep!At, stage
    <2>2. /\ stage' = "rollbackRemove" /\ script' \in [pc : Dep!Steps, current : Dep!Colours]
          /\ Dep!current' = Dep!current /\ Dep!next' = Dep!next
      BY <2>1, GotoMoves DEF Dep!Steps
    <2> QED
      BY <2>1, <2>2
      DEF Dep!TypeOK, BootIsBlue, FileFollowsScript, ColoursAreHealthy
  <1>5. CASE Dep!RollbackRemove
    <2>1. stage = "rollbackRemove" /\ Dep!Goto("idle") /\ UNCHANGED <<file, loaded, settled>>
      BY <1>5 DEF Dep!RollbackRemove, Dep!At, stage
    <2>2. stage' = "idle" /\ script' \in [pc : Dep!Steps, current : Dep!Colours]
      BY <2>1, GotoMoves DEF Dep!Steps
    <2>3. /\ container' \in [Dep!Colours -> {"absent", "starting", "healthy", "unhealthy"}]
          /\ container'[Dep!current] = container[Dep!current]
      BY <1>5, OtherColourStays, ScriptTyped DEF Dep!RollbackRemove
    <2> QED
      BY <2>1, <2>2, <2>3
      DEF Dep!TypeOK, BootIsBlue, FileFollowsScript, ColoursAreHealthy
  <1>6. CASE Dep!RemoveCurrent
    <2>1. /\ stage = "removeCurrent" /\ Dep!Goto("idle") /\ settled' = TRUE
          /\ UNCHANGED <<file, loaded>>
      BY <1>6 DEF Dep!RemoveCurrent, Dep!At, stage
    <2>2. stage' = "idle" /\ script' \in [pc : Dep!Steps, current : Dep!Colours]
      BY <2>1, GotoMoves DEF Dep!Steps
    <2>3. /\ container' \in [Dep!Colours -> {"absent", "starting", "healthy", "unhealthy"}]
          /\ container'[Dep!next] = container[Dep!next]
      BY <1>6, OtherColourStays, ScriptTyped DEF Dep!RemoveCurrent
    <2> QED
      BY <2>1, <2>2, <2>3
      DEF Dep!TypeOK, BootIsBlue, FileFollowsScript, ColoursAreHealthy
  <1> QED
    BY <1>1, <1>2, <1>3, <1>4, <1>5, <1>6

(* Wherever the script stops, whatever gets ready and whenever nginx is     *)
(* restarted.                                                               *)
LEMMA AccidentsKeepInv ==
    ASSUME Dep!DeploymentAssumption, DeploymentInv,
           \/ Dep!Stop \/ Dep!RestartNginx
           \/ \E colour \in Dep!Colours : Dep!GetReady(colour)
    PROVE  DeploymentInv'
  <1> USE DEF DeploymentInv, Dep!DeploymentAssumption
  <1>1. CASE Dep!Stop
    <2>1. /\ stage # "idle" /\ Dep!Goto("idle") /\ settled' = (settled /\ file = loaded)
          /\ UNCHANGED <<file, loaded, container>>
      BY <1>1 DEF Dep!Stop, Dep!At, stage
    <2>2. stage' = "idle" /\ script' \in [pc : Dep!Steps, current : Dep!Colours]
      BY <2>1, GotoMoves DEF Dep!Steps
    <2>3. settled' \in BOOLEAN
      BY <2>1, Zenon
    <2>4. settled' => settled /\ file = loaded
      BY <2>1
    <2>5. ASSUME settled'
          PROVE  container[file] = "healthy"
      <3>1. settled /\ file = loaded
        BY <2>4, <2>5
      <3>2. file = Dep!current \/ file = Dep!next
        BY ScriptTyped DEF Dep!TypeOK
      <3>3. CASE file = Dep!current
        BY <2>1, <3>1, <3>3, ScriptTyped DEF FileFollowsScript, ColoursAreHealthy
      <3>4. CASE file = Dep!next
        BY <2>1, <3>1, <3>4, ScriptTyped
        DEF BootIsBlue, FileFollowsScript, ColoursAreHealthy, Dep!Steps
      <3> QED
        BY <3>2, <3>3, <3>4
    <2>6. loaded = None => ~settled'
      BY <2>4 DEF FileFollowsScript
    <2>7. Dep!TypeOK'
      BY <2>1, <2>2, <2>3 DEF Dep!TypeOK
    <2> QED
      BY <2>1, <2>2, <2>4, <2>5, <2>6, <2>7 DEF BootIsBlue, FileFollowsScript, ColoursAreHealthy
  <1>2. CASE Dep!RestartNginx
    <2>1. /\ loaded # None /\ loaded' = file
          /\ UNCHANGED <<file, container, script, settled>>
      BY <1>2 DEF Dep!RestartNginx
    <2>2. stage' = stage /\ Dep!current' = Dep!current /\ Dep!next' = Dep!next
      BY <2>1 DEF stage, Dep!current, Dep!next
    <2> QED
      BY <2>1, <2>2
      DEF Dep!TypeOK, BootIsBlue, FileFollowsScript, ColoursAreHealthy
  <1>3. ASSUME NEW colour \in Dep!Colours, Dep!GetReady(colour)
        PROVE  DeploymentInv'
    <2>1. /\ UNCHANGED <<file, loaded, script, settled>>
          /\ container' \in [Dep!Colours -> {"absent", "starting", "healthy", "unhealthy"}]
          /\ \A y \in Dep!Colours : container[y] = "healthy" => container'[y] = "healthy"
      BY <1>3 DEF Dep!GetReady, Dep!TypeOK
    <2>2. stage' = stage /\ Dep!current' = Dep!current /\ Dep!next' = Dep!next
      BY <2>1 DEF stage, Dep!current, Dep!next
    <2>3. "blue" \in Dep!Colours /\ file \in Dep!Colours
      BY DEF Dep!Colours, Dep!TypeOK
    <2> QED
      BY <2>1, <2>2, <2>3, ScriptTyped
      DEF Dep!TypeOK, BootIsBlue, FileFollowsScript, ColoursAreHealthy
  <1> QED
    BY <1>1, <1>2, <1>3

LEMMA NextKeepsDeployment ==
    ASSUME Dep!DeploymentAssumption, DeploymentInv, [Dep!Next]_(Dep!vars)
    PROVE  DeploymentInv'
  <1>1. CASE Dep!Next
    BY <1>1, BootKeepsInv, BeforeSwitchKeepsInv, AfterSwitchKeepsInv, AccidentsKeepInv
    DEF Dep!Next, Dep!Deploy
  <1>2. CASE UNCHANGED Dep!vars
    BY <1>2 DEF Dep!vars, DeploymentInv, Dep!TypeOK, BootIsBlue, FileFollowsScript,
                ColoursAreHealthy, stage, Dep!current, Dep!next
  <1> QED
    BY <1>1, <1>2

(* However the script, nginx and docker interleave, the script's position   *)
(* tells which colour is named, loaded and healthy (deploy.sh:95-163).      *)
THEOREM DeploymentHolds ==
    ASSUME Dep!DeploymentAssumption
    PROVE  Dep!Spec => []DeploymentInv
  <1> QED
    BY InitDeployment, NextKeepsDeployment, PTL DEF Dep!Spec

(* Wherever a script stops and whenever nginx is restarted, requests go to  *)
(* healthy containers until a script is stopped between the file and the    *)
(* reload (deploy.sh:132-139).                                              *)
THEOREM ServiceHolds ==
    ASSUME Dep!DeploymentAssumption
    PROVE  Dep!Spec => []ServiceGoesOn
  <1>1. DeploymentInv => ServiceGoesOn
    <2> SUFFICES ASSUME DeploymentInv, settled
                 PROVE  loaded # None /\ container[loaded] = "healthy"
      BY DEF ServiceGoesOn, Dep!ServiceGoesOn
    <2>1. loaded # None
      BY DEF DeploymentInv, FileFollowsScript
    <2>2. loaded = Dep!current \/ loaded = Dep!next
      BY <2>1, ScriptTyped DEF DeploymentInv, Dep!TypeOK
    <2>3. stage \in Dep!Steps
      BY ScriptTyped DEF DeploymentInv
    <2>4. CASE stage \in {"idle", "up", "wait", "cancel", "switch"}
      BY <2>4 DEF DeploymentInv, FileFollowsScript, ColoursAreHealthy
    <2>5. CASE stage \in {"reload", "rollbackReload", "smoke", "rollback", "rollbackRemove",
                       "removeCurrent"}
      BY <2>2, <2>5, ScriptTyped DEF DeploymentInv, FileFollowsScript, ColoursAreHealthy
    <2>6. stage \notin {"bootUp", "bootWait", "bootSmoke"}
      BY DEF DeploymentInv, BootIsBlue
    <2> QED
      BY <2>3, <2>4, <2>5, <2>6 DEF Dep!Steps
  <1> QED
    BY <1>1, DeploymentHolds, PTL

-----------------------------------------------------------------------------
(* Uploads.  An answer is final for its request, and what is stored stays   *)
(* stored until the slot is used again.                                     *)

FilesInv ==
    /\ Fil!TypeOK
    /\ AnsweredImagesAreComplete

UploadState == {"none", "running", "stored", "rejected"}

LEMMA InitFiles ==
    ASSUME Fil!Init
    PROVE  FilesInv
  BY DEF Fil!Init, FilesInv, Fil!TypeOK, Fil!Request, Fil!Variants,
         AnsweredImagesAreComplete, Fil!AnsweredImagesAreComplete, Fil!At

LEMMA RequestTyped ==
    ASSUME Fil!TypeOK, NEW c \in Calls
    PROVE  /\ filesCall[c].pc \in {"idle", "convert", "await", "answered", "failed"}
           /\ filesCall[c].variants \in SUBSET Fil!Variants
           /\ filesCall[c] = [pc |-> filesCall[c].pc, variants |-> filesCall[c].variants]
  BY DEF Fil!TypeOK, Fil!Request

LEMMA RequestMoves ==
    ASSUME Fil!TypeOK, NEW c \in Calls,
           NEW to \in {"convert", "await", "answered", "failed"}, Fil!Goto(c, to)
    PROVE  /\ filesCall' \in [Calls -> Fil!Request]
           /\ filesCall'[c].pc = to /\ filesCall'[c].variants = filesCall[c].variants
           /\ \A d \in Calls \ {c} : filesCall'[d] = filesCall[d]
  <1>1. [filesCall[c] EXCEPT !.pc = to] = [pc |-> to, variants |-> filesCall[c].variants]
    BY DEF Fil!TypeOK, Fil!Request
  <1>2. filesCall' = [filesCall EXCEPT ![c] = [pc |-> to, variants |-> filesCall[c].variants]]
    BY <1>1 DEF Fil!Goto
  <1>3. [pc |-> to, variants |-> filesCall[c].variants] \in Fil!Request
    BY RequestTyped DEF Fil!Request
  <1> QED
    BY <1>2, <1>3 DEF Fil!TypeOK

LEMMA UploadMoves ==
    ASSUME Fil!TypeOK, NEW c \in Calls, NEW v \in Fil!Variants, NEW to \in UploadState,
           upload' = [upload EXCEPT ![c][v] = to]
    PROVE  /\ upload' \in [Calls -> [Fil!Variants -> UploadState]]
           /\ \A d \in Calls, w \in Fil!Variants :
                 upload'[d][w] = IF d = c /\ w = v THEN to ELSE upload[d][w]
  BY DEF Fil!TypeOK, UploadState

(* A call whose uploads stay stored keeps its answer.                       *)
LEMMA StoredStays ==
    ASSUME FilesInv, Fil!TypeOK',
           \A c \in Calls : Fil!At(c, "answered")' =>
               \/ \A v \in filesCall'[c].variants : upload'[c][v] = "stored"
               \/ /\ Fil!At(c, "answered")
                  /\ filesCall'[c].variants = filesCall[c].variants
                  /\ \A v \in Fil!Variants :
                        upload[c][v] = "stored" => upload'[c][v] = "stored"
    PROVE  FilesInv'
  <1> SUFFICES ASSUME NEW c \in Calls, Fil!At(c, "answered")', NEW v \in filesCall'[c].variants
               PROVE  upload'[c][v] = "stored"
    BY DEF FilesInv, AnsweredImagesAreComplete, Fil!AnsweredImagesAreComplete
  <1>1. v \in Fil!Variants
    BY RequestTyped DEF Fil!TypeOK, Fil!Request
  <1> QED
    BY <1>1 DEF FilesInv, AnsweredImagesAreComplete, Fil!AnsweredImagesAreComplete

LEMMA UploadImageKeepsInv ==
    ASSUME FilesInv, NEW c \in Calls, NEW sizes \in {1, 3}, Fil!UploadImage(c, sizes)
    PROVE  FilesInv'
  <1> DEFINE new == [pc |-> "convert", variants |-> 0 .. sizes]
             none == [v \in Fil!Variants |-> "none"]
  <1>1. /\ filesCall' = [filesCall EXCEPT ![c] = new]
        /\ upload' = [upload EXCEPT ![c] = none]
    BY DEF Fil!UploadImage
  <1>2. new \in Fil!Request /\ new.pc = "convert" /\ none \in [Fil!Variants -> UploadState]
    BY DEF Fil!Request, Fil!Variants, UploadState
  <1> HIDE DEF new, none
  <1>3. /\ filesCall'[c] = new /\ \A d \in Calls \ {c} : filesCall'[d] = filesCall[d]
        /\ \A d \in Calls \ {c} : upload'[d] = upload[d]
    BY <1>1 DEF FilesInv, Fil!TypeOK
  <1>4. Fil!TypeOK'
    BY <1>1, <1>2 DEF FilesInv, Fil!TypeOK, UploadState
  <1> QED
    BY <1>2, <1>3, <1>4, StoredStays DEF Fil!At

LEMMA ConvertKeepsInv ==
    ASSUME FilesInv, NEW c \in Calls, Fil!Convert(c)
    PROVE  FilesInv'
  <1>1. PICK to \in {"convert", "await", "failed"} : Fil!Goto(c, to)
    BY DEF Fil!Convert
  <1>2. /\ filesCall' \in [Calls -> Fil!Request]
        /\ filesCall'[c].pc = to /\ filesCall'[c].variants = filesCall[c].variants
        /\ \A d \in Calls \ {c} : filesCall'[d] = filesCall[d]
    BY <1>1, RequestMoves DEF FilesInv
  <1>3. \/ UNCHANGED upload
        \/ \E v \in Fil!Variants :
              upload[c][v] = "none" /\ upload' = [upload EXCEPT ![c][v] = "running"]
    BY RequestTyped DEF Fil!Convert, FilesInv
  <1>4. /\ upload' \in [Calls -> [Fil!Variants -> UploadState]]
        /\ \A d \in Calls \ {c}, w \in Fil!Variants : upload'[d][w] = upload[d][w]
    <2>1. CASE UNCHANGED upload
      BY <2>1 DEF FilesInv, Fil!TypeOK, UploadState
    <2>2. ASSUME NEW v \in Fil!Variants, upload' = [upload EXCEPT ![c][v] = "running"]
          PROVE  <1>4
      BY <2>2, UploadMoves DEF FilesInv, UploadState
    <2> QED
      BY <1>3, <2>1, <2>2
  <1>5. Fil!TypeOK'
    BY <1>2, <1>4 DEF Fil!TypeOK, UploadState
  <1> QED
    BY <1>2, <1>4, <1>5, StoredStays DEF Fil!At

LEMMA AnswerKeepsInv ==
    ASSUME FilesInv, NEW c \in Calls, Fil!Answer(c)
    PROVE  FilesInv'
  <1>1. /\ \A v \in filesCall[c].variants : upload[c][v] = "stored"
        /\ Fil!Goto(c, "answered") /\ UNCHANGED upload
    BY DEF Fil!Answer
  <1>2. /\ filesCall' \in [Calls -> Fil!Request]
        /\ filesCall'[c].variants = filesCall[c].variants
        /\ \A d \in Calls \ {c} : filesCall'[d] = filesCall[d]
    BY <1>1, RequestMoves DEF FilesInv
  <1>3. Fil!TypeOK'
    BY <1>1, <1>2 DEF FilesInv, Fil!TypeOK
  <1> QED
    BY <1>1, <1>2, <1>3, StoredStays DEF Fil!At

LEMMA StoreKeepsInv ==
    ASSUME FilesInv, NEW c \in Calls, Fil!Store(c)
    PROVE  FilesInv'
  <1>1. PICK v \in Fil!Variants : upload' = [upload EXCEPT ![c][v] = "stored"]
    BY DEF Fil!Store
  <1>2. UNCHANGED filesCall
    BY DEF Fil!Store
  <1>3. /\ upload' \in [Calls -> [Fil!Variants -> UploadState]]
        /\ \A d \in Calls, w \in Fil!Variants :
              upload[d][w] = "stored" => upload'[d][w] = "stored"
    <2>1. Fil!TypeOK /\ "stored" \in UploadState
      BY DEF FilesInv, UploadState
    <2>2. /\ upload' \in [Calls -> [Fil!Variants -> UploadState]]
          /\ \A d \in Calls, w \in Fil!Variants :
                upload'[d][w] = IF d = c /\ w = v THEN "stored" ELSE upload[d][w]
      BY <1>1, <2>1, UploadMoves
    <2> QED
      BY <2>2
  <1>4. Fil!TypeOK'
    BY <1>2, <1>3 DEF FilesInv, Fil!TypeOK, UploadState
  <1> QED
    BY <1>2, <1>3, <1>4, StoredStays DEF Fil!At

(* The process ends: who was answered is answered, and what was stored is.  *)
LEMMA EndProcessKeepsInv ==
    ASSUME FilesInv, Fil!EndProcess
    PROVE  FilesInv'
  <1>1. ASSUME NEW d \in Calls
        PROVE  /\ filesCall'[d] \in Fil!Request
               /\ filesCall'[d].variants = filesCall[d].variants
               /\ filesCall'[d].pc = "answered" => filesCall[d].pc = "answered"
    <2>1. filesCall'[d] = IF filesCall[d].pc \in {"convert", "await"}
                          THEN [filesCall[d] EXCEPT !.pc = "failed"] ELSE filesCall[d]
      BY DEF Fil!EndProcess
    <2>2. [filesCall[d] EXCEPT !.pc = "failed"] = [pc |-> "failed", variants |-> filesCall[d].variants]
      BY DEF FilesInv, Fil!TypeOK, Fil!Request
    <2>3. filesCall[d] \in Fil!Request /\ filesCall[d].variants \in SUBSET Fil!Variants
      BY RequestTyped DEF FilesInv, Fil!TypeOK
    <2> QED
      BY <2>1, <2>2, <2>3 DEF Fil!Request
  <1>2. ASSUME NEW d \in Calls, NEW v \in Fil!Variants
        PROVE  /\ upload'[d][v] \in UploadState
               /\ upload[d][v] = "stored" => upload'[d][v] = "stored"
    BY DEF Fil!EndProcess, FilesInv, Fil!TypeOK, UploadState
  <1>3. /\ filesCall' = [d \in Calls |-> filesCall'[d]]
        /\ upload' = [d \in Calls |-> [v \in Fil!Variants |-> upload'[d][v]]]
    BY DEF Fil!EndProcess
  <1>4. Fil!TypeOK'
    <2>1. filesCall' \in [Calls -> Fil!Request]
      BY <1>1, <1>3
    <2>2. upload' \in [Calls -> [Fil!Variants -> UploadState]]
      BY <1>2, <1>3
    <2> QED
      BY <2>1, <2>2 DEF Fil!TypeOK, UploadState
  <1> QED
    BY <1>1, <1>2, <1>4, StoredStays DEF Fil!At

LEMMA RejectKeepsInv ==
    ASSUME FilesInv, NEW c \in Calls, Fil!Reject(c)
    PROVE  FilesInv'
  <1>1. CASE Fil!EndProcess
    BY <1>1, EndProcessKeepsInv
  <1>2. CASE ~Fil!EndProcess
    <2>1. PICK v \in Fil!Variants :
              /\ upload[c][v] = "running"
              /\ upload' = [upload EXCEPT ![c][v] = "rejected"]
              /\ Fil!Goto(c, "failed")
      BY <1>2 DEF Fil!Reject
    <2>2. /\ filesCall' \in [Calls -> Fil!Request] /\ filesCall'[c].pc = "failed"
          /\ \A d \in Calls \ {c} : filesCall'[d] = filesCall[d]
      BY <2>1, RequestMoves DEF FilesInv
    <2>3. /\ upload' \in [Calls -> [Fil!Variants -> UploadState]]
          /\ \A d \in Calls \ {c}, w \in Fil!Variants : upload'[d][w] = upload[d][w]
      BY <2>1, UploadMoves DEF FilesInv, UploadState
    <2>4. Fil!TypeOK'
      BY <2>2, <2>3 DEF Fil!TypeOK, UploadState
    <2> QED
      BY <2>2, <2>3, <2>4, StoredStays DEF Fil!At
  <1> QED
    BY <1>1, <1>2

LEMMA NextKeepsFiles ==
    ASSUME FilesInv, [Fil!Next]_(Fil!vars)
    PROVE  FilesInv'
  <1>1. ASSUME NEW c \in Calls, Fil!FilesController(c)
        PROVE  FilesInv'
    BY <1>1, UploadImageKeepsInv, ConvertKeepsInv, AnswerKeepsInv
    DEF Fil!FilesController, Fil!UploadProfileImage, Fil!UploadPersonalityImage,
        Fil!UploadJobTypeImage, Fil!UploadCardBackgroundImage
  <1>2. CASE UNCHANGED Fil!vars
    BY <1>2 DEF Fil!vars, FilesInv, Fil!TypeOK, AnsweredImagesAreComplete,
                Fil!AnsweredImagesAreComplete, Fil!At
  <1> QED
    BY <1>1, <1>2, StoreKeepsInv, RejectKeepsInv, EndProcessKeepsInv DEF Fil!Next

(* However conversions, uploads, rejections and ends of the process follow  *)
(* each other, requests and uploads are what the code knows of them, and    *)
(* answers stay good (files.service.ts:84-98).                              *)
THEOREM FilesHold == Fil!Spec => []FilesInv
  <1> QED
    BY InitFiles, NextKeepsFiles, PTL DEF Fil!Spec

(* For any number of requests, an address that was answered names images    *)
(* that are all stored, whatever fails in the meantime                      *)
(* (files.service.ts:84-98).                                                *)
THEOREM AnswersHold == Fil!Spec => []AnsweredImagesAreComplete
  <1>1. FilesInv => AnsweredImagesAreComplete
    BY DEF FilesInv
  <1> QED
    BY <1>1, FilesHold, PTL

-----------------------------------------------------------------------------
(* All parts together.  The modules with the other parts' theorems are      *)
(* instantiated like the parts themselves; that the two instances of a part *)
(* take the same steps is seen by expanding both.                           *)

ProP == INSTANCE ProfileCards_proof
            WITH Users <- {alice, bob}, Cards <- {i1, i2, i3, i4, i7},
                 Owner <- MCCardOwner, Calls <- {alice, bob},
                 Caller <- MCCaller, call <- cardsCall

PurP == INSTANCE Purposes_proof
            WITH Purposes <- {i7, i1, i2}, First <- i7,
                 SeedSize <- 2, PositionLimit <- 3, call <- purposesCall

SkiP == INSTANCE Catalogue_proof
            WITH JobTypes <- {i1, i2}, Categories <- {i7}, Skills <- {i8},
                 Personalities <- {}, Interests <- {}, Statuses <- {},
                 Backgrounds <- {}, Cards <- {i9}, call <- catalogueCall

CatP == INSTANCE Catalogue_proof
            WITH JobTypes <- {i7}, Categories <- {}, Skills <- {},
                 Personalities <- {i10}, Interests <- {i11}, Statuses <- {i12},
                 Backgrounds <- {i8}, Cards <- {i9}, call <- catalogueCall

LogP == INSTANCE SocialLogin_proof
            WITH Origins <- {i1, i2}, States <- {i3, i4}, Codes <- {i5, i6},
                 call <- loginCall

(* The parts run at the same time: a step may be one of each of them, and   *)
(* nothing else.  What TLC runs, one part and then nothing of the others,   *)
(* is a special case.                                                       *)
Together ==
    /\ [Next]_vars
    /\ [Pro!Next]_(Pro!vars)
    /\ [Pur!Next]_(Pur!vars)
    /\ IF part = "skills" THEN [Ski!Next]_(Ski!vars) ELSE [Cat!Next]_(Cat!vars)
    /\ [Log!Next]_(Log!vars)
    /\ [Dep!Next]_(Dep!vars)
    /\ [Fil!Next]_(Fil!vars)
    /\ part' = part

TogetherSpec == PartsInit /\ [][Together]_partsVars

PartsInv ==
    /\ Inv
    /\ ProP!SInv
    /\ PurP!Inv
    /\ IF part = "skills" THEN SkiP!Inv ELSE CatP!Inv
    /\ LogP!Inv
    /\ DeploymentInv
    /\ FilesInv

(* The instances of a part in MCParts and of its theorems here begin and    *)
(* step alike; the five lemmas say so of the cards, the purposes, the two   *)
(* catalogues and the logins.                                               *)
LEMMA CardsSteps ==
    /\ Pro!Init <=> ProP!Init
    /\ Pro!Next <=> ProP!Next
  <1>1. Pro!Init <=> ProP!Init
    BY DEF Pro!Init, ProP!Init, Pro!Idle, ProP!Idle
  <1>2. Pro!Next <=> ProP!Next
    BY DEF Pro!Next, ProP!Next, Pro!Begin, ProP!Begin, Pro!Step, ProP!Step, Pro!Fail,
           ProP!Fail, Pro!BeginCreate, ProP!BeginCreate, Pro!BeginUpdate,
           ProP!BeginUpdate, Pro!BeginDelete, ProP!BeginDelete, Pro!BeginWithdraw,
           ProP!BeginWithdraw, Pro!Enter, ProP!Enter, Pro!CreateProfileCard,
           ProP!CreateProfileCard, Pro!FindCardToUpdate, ProP!FindCardToUpdate,
           Pro!UpdateProfileCard, ProP!UpdateProfileCard, Pro!FindCardToDelete,
           ProP!FindCardToDelete, Pro!CountProfileCards, ProP!CountProfileCards,
           Pro!DeleteProfileCard, ProP!DeleteProfileCard, Pro!SoftDeleteUser,
           ProP!SoftDeleteUser, Pro!IsMyCard, ProP!IsMyCard, Pro!CardsOf, ProP!CardsOf,
           Pro!Exists, ProP!Exists, Pro!Live, ProP!Live, Pro!At, ProP!At, Pro!Goto,
           ProP!Goto, Pro!Return, ProP!Return, Pro!Idle, ProP!Idle, Pro!Cardinality,
           ProP!Cardinality
  <1> QED
    BY <1>1, <1>2

LEMMA PurposesSteps ==
    /\ Pur!Init <=> PurP!Init
    /\ Pur!Next <=> PurP!Next
  <1>1. Pur!Init <=> PurP!Init
    BY DEF Pur!Init, PurP!Init, Pur!Idle, PurP!Idle
  <1>2. Pur!Next <=> PurP!Next
    BY DEF Pur!Next, PurP!Next, Pur!PurposesController, PurP!PurposesController, Pur!Fail,
           PurP!Fail, Pur!BeginSeed, PurP!BeginSeed, Pur!SeedPurpose, PurP!SeedPurpose,
           Pur!EndSeed, PurP!EndSeed, Pur!Position, PurP!Position, Pur!CreatePurpose,
           PurP!CreatePurpose, Pur!FindToUpdate, PurP!FindToUpdate, Pur!UpdatePurpose,
           PurP!UpdatePurpose, Pur!FindToDelete, PurP!FindToDelete, Pur!DeletePurpose,
           PurP!DeletePurpose, Pur!At, PurP!At, Pur!Return, PurP!Return, Pur!listed,
           PurP!listed, Pur!Record, PurP!Record, Pur!Taken, PurP!Taken, Pur!ShiftedFrom,
           PurP!ShiftedFrom, Pur!Bounded, PurP!Bounded, Pur!Find, PurP!Find, Pur!Moved,
           PurP!Moved, Pur!ClosedUp, PurP!ClosedUp, Pur!Idle, PurP!Idle
  <1> QED
    BY <1>1, <1>2

LEMMA SkillsSteps ==
    /\ Ski!Init <=> SkiP!Init
    /\ Ski!Next <=> SkiP!Next
  <1>1. Ski!Init <=> SkiP!Init
    BY DEF Ski!Init, SkiP!Init, Ski!Rows, SkiP!Rows, Ski!Idle, SkiP!Idle
  <1>2. Ski!Next <=> SkiP!Next
    BY DEF Ski!Next, SkiP!Next, Ski!Controllers, SkiP!Controllers, Ski!Fail, SkiP!Fail,
           Ski!Seed, SkiP!Seed, Ski!JobTypesController, SkiP!JobTypesController,
           Ski!SkillCategoriesController, SkiP!SkillCategoriesController,
           Ski!SkillsController, SkiP!SkillsController, Ski!PersonalitiesController,
           SkiP!PersonalitiesController, Ski!InterestsController,
           SkiP!InterestsController, Ski!AffiliationStatusesController,
           SkiP!AffiliationStatusesController, Ski!CardBackgroundImagesController,
           SkiP!CardBackgroundImagesController, Ski!ProfileCardsController,
           SkiP!ProfileCardsController, Ski!At, SkiP!At, Ski!Return, SkiP!Return,
           Ski!BeginSeed, SkiP!BeginSeed, Ski!SeedJobType, SkiP!SeedJobType,
           Ski!SeedCategory, SkiP!SeedCategory, Ski!SeedSkill, SkiP!SeedSkill,
           Ski!SeedDeleteMany, SkiP!SeedDeleteMany, Ski!SeedCreateMany,
           SkiP!SeedCreateMany, Ski!SeedInterest, SkiP!SeedInterest,
           Ski!SeedAffiliationStatus, SkiP!SeedAffiliationStatus, Ski!SeedPersonality,
           SkiP!SeedPersonality, Ski!EndSeed, SkiP!EndSeed, Ski!CreateJobType,
           SkiP!CreateJobType, Ski!FindJobType, SkiP!FindJobType, Ski!UpdateJobType,
           SkiP!UpdateJobType, Ski!DeleteJobType, SkiP!DeleteJobType, Ski!CreateCategory,
           SkiP!CreateCategory, Ski!FindCategory, SkiP!FindCategory, Ski!UpdateCategory,
           SkiP!UpdateCategory, Ski!DeleteCategory, SkiP!DeleteCategory, Ski!CreateSkill,
           SkiP!CreateSkill, Ski!FindSkill, SkiP!FindSkill, Ski!UpdateSkill,
           SkiP!UpdateSkill, Ski!DeleteSkill, SkiP!DeleteSkill, Ski!CreatePersonality,
           SkiP!CreatePersonality, Ski!FindPersonality, SkiP!FindPersonality,
           Ski!UpdatePersonality, SkiP!UpdatePersonality, Ski!DeletePersonality,
           SkiP!DeletePersonality, Ski!CreateInterest, SkiP!CreateInterest,
           Ski!FindInterest, SkiP!FindInterest, Ski!UpdateInterest, SkiP!UpdateInterest,
           Ski!DeleteInterest, SkiP!DeleteInterest, Ski!CreateAffiliationStatus,
           SkiP!CreateAffiliationStatus, Ski!FindAffiliationStatus,
           SkiP!FindAffiliationStatus, Ski!UpdateAffiliationStatus,
           SkiP!UpdateAffiliationStatus, Ski!DeleteAffiliationStatus,
           SkiP!DeleteAffiliationStatus, Ski!CreateBackground, SkiP!CreateBackground,
           Ski!FindBackground, SkiP!FindBackground, Ski!DeleteBackground,
           SkiP!DeleteBackground, Ski!CreateCard, SkiP!CreateCard, Ski!FindCard,
           SkiP!FindCard, Ski!UpdateCard, SkiP!UpdateCard, Ski!DeleteCard,
           SkiP!DeleteCard, Ski!Idle, SkiP!Idle, Ski!SeedRow, SkiP!SeedRow, Ski!rows,
           SkiP!rows, Ski!Unused, SkiP!Unused, Ski!jobTypesOf, SkiP!jobTypesOf,
           Ski!Mappings, SkiP!Mappings, Ski!Insert, SkiP!Insert, Ski!Edit, SkiP!Edit,
           Ski!Rename, SkiP!Rename, Ski!Remove, SkiP!Remove, Ski!Holds, SkiP!Holds,
           Ski!Rewrite, SkiP!Rewrite, Ski!Find, SkiP!Find, Ski!Choices, SkiP!Choices,
           Ski!Rows, SkiP!Rows
  <1> QED
    BY <1>1, <1>2

LEMMA CatalogueSteps ==
    /\ Cat!Init <=> CatP!Init
    /\ Cat!Next <=> CatP!Next
  <1>1. Cat!Init <=> CatP!Init
    BY DEF Cat!Init, CatP!Init, Cat!Rows, CatP!Rows, Cat!Idle, CatP!Idle
  <1>2. Cat!Next <=> CatP!Next
    BY DEF Cat!Next, CatP!Next, Cat!Controllers, CatP!Controllers, Cat!Fail, CatP!Fail,
           Cat!Seed, CatP!Seed, Cat!JobTypesController, CatP!JobTypesController,
           Cat!SkillCategoriesController, CatP!SkillCategoriesController,
           Cat!SkillsController, CatP!SkillsController, Cat!PersonalitiesController,
           CatP!PersonalitiesController, Cat!InterestsController,
           CatP!InterestsController, Cat!AffiliationStatusesController,
           CatP!AffiliationStatusesController, Cat!CardBackgroundImagesController,
           CatP!CardBackgroundImagesController, Cat!ProfileCardsController,
           CatP!ProfileCardsController, Cat!At, CatP!At, Cat!Return, CatP!Return,
           Cat!BeginSeed, CatP!BeginSeed, Cat!SeedJobType, CatP!SeedJobType,
           Cat!SeedCategory, CatP!SeedCategory, Cat!SeedSkill, CatP!SeedSkill,
           Cat!SeedDeleteMany, CatP!SeedDeleteMany, Cat!SeedCreateMany,
           CatP!SeedCreateMany, Cat!SeedInterest, CatP!SeedInterest,
           Cat!SeedAffiliationStatus, CatP!SeedAffiliationStatus, Cat!SeedPersonality,
           CatP!SeedPersonality, Cat!EndSeed, CatP!EndSeed, Cat!CreateJobType,
           CatP!CreateJobType, Cat!FindJobType, CatP!FindJobType, Cat!UpdateJobType,
           CatP!UpdateJobType, Cat!DeleteJobType, CatP!DeleteJobType, Cat!CreateCategory,
           CatP!CreateCategory, Cat!FindCategory, CatP!FindCategory, Cat!UpdateCategory,
           CatP!UpdateCategory, Cat!DeleteCategory, CatP!DeleteCategory, Cat!CreateSkill,
           CatP!CreateSkill, Cat!FindSkill, CatP!FindSkill, Cat!UpdateSkill,
           CatP!UpdateSkill, Cat!DeleteSkill, CatP!DeleteSkill, Cat!CreatePersonality,
           CatP!CreatePersonality, Cat!FindPersonality, CatP!FindPersonality,
           Cat!UpdatePersonality, CatP!UpdatePersonality, Cat!DeletePersonality,
           CatP!DeletePersonality, Cat!CreateInterest, CatP!CreateInterest,
           Cat!FindInterest, CatP!FindInterest, Cat!UpdateInterest, CatP!UpdateInterest,
           Cat!DeleteInterest, CatP!DeleteInterest, Cat!CreateAffiliationStatus,
           CatP!CreateAffiliationStatus, Cat!FindAffiliationStatus,
           CatP!FindAffiliationStatus, Cat!UpdateAffiliationStatus,
           CatP!UpdateAffiliationStatus, Cat!DeleteAffiliationStatus,
           CatP!DeleteAffiliationStatus, Cat!CreateBackground, CatP!CreateBackground,
           Cat!FindBackground, CatP!FindBackground, Cat!DeleteBackground,
           CatP!DeleteBackground, Cat!CreateCard, CatP!CreateCard, Cat!FindCard,
           CatP!FindCard, Cat!UpdateCard, CatP!UpdateCard, Cat!DeleteCard,
           CatP!DeleteCard, Cat!Idle, CatP!Idle, Cat!SeedRow, CatP!SeedRow, Cat!rows,
           CatP!rows, Cat!Unused, CatP!Unused, Cat!jobTypesOf, CatP!jobTypesOf,
           Cat!Mappings, CatP!Mappings, Cat!Insert, CatP!Insert, Cat!Edit, CatP!Edit,
           Cat!Rename, CatP!Rename, Cat!Remove, CatP!Remove, Cat!Holds, CatP!Holds,
           Cat!Rewrite, CatP!Rewrite, Cat!Find, CatP!Find, Cat!Choices, CatP!Choices,
           Cat!Rows, CatP!Rows
  <1> QED
    BY <1>1, <1>2

LEMMA LoginSteps ==
    /\ Log!Init <=> LogP!Init
    /\ Log!Next <=> LogP!Next
  <1>1. Log!Init <=> LogP!Init
    BY DEF Log!Init, LogP!Init, Log!Idle, LogP!Idle
  <1>2. Log!Next <=> LogP!Next
    BY DEF Log!Next, LogP!Next, Log!IssueAuthUrl, LogP!IssueAuthUrl, Log!Expire,
           LogP!Expire, Log!Approve, LogP!Approve, Log!HandleLogin, LogP!HandleLogin,
           Log!Request, LogP!Request, Log!GetState, LogP!GetState, Log!GetTokenAtGoogle,
           LogP!GetTokenAtGoogle, Log!GetTokenAtKakao, LogP!GetTokenAtKakao,
           Log!GetTokenAtNaver, LogP!GetTokenAtNaver, Log!GetProfile, LogP!GetProfile,
           Log!Login, LogP!Login, Log!DelState, LogP!DelState, Log!Fail, LogP!Fail,
           Log!Providers, LogP!Providers, Log!At, LogP!At, Log!IsGood, LogP!IsGood,
           Log!Exchange, LogP!Exchange, Log!Goto, LogP!Goto, Log!Return, LogP!Return,
           Log!Idle, LogP!Idle
  <1> QED
    BY <1>1, <1>2

(* What is assumed of the constants of each part.                           *)
LEMMA Assumptions ==
    /\ CollectionsAssumption
    /\ ProP!ProfileCardsAssumption /\ ProP!OneCallEach
    /\ PurP!PurposesAssumption
    /\ SkiP!CatalogueAssumption /\ CatP!CatalogueAssumption
    /\ LogP!SocialLoginAssumption
    /\ Dep!DeploymentAssumption
  BY PartsAssumption DEF Pro!ProfileCardsAssumption, ProP!ProfileCardsAssumption,
         Pro!IsFiniteSet, ProP!IsFiniteSet,
         ProP!OneCallEach, MCCaller, Pur!PurposesAssumption, PurP!PurposesAssumption,
         Ski!CatalogueAssumption, SkiP!CatalogueAssumption, Ski!Kinds, SkiP!Kinds,
         Ski!Rows, SkiP!Rows, Cat!CatalogueAssumption, CatP!CatalogueAssumption,
         Cat!Kinds, CatP!Kinds, Cat!Rows, CatP!Rows, Log!SocialLoginAssumption,
         LogP!SocialLoginAssumption, Log!Request, LogP!Request, Log!Code, LogP!Code,
         Log!Providers, LogP!Providers

(* In the beginning every part has its invariant, and every step keeps it.  *)
LEMMA PartsInitInv ==
    ASSUME PartsInit
    PROVE  PartsInv
  <1>1. Inv
    BY Assumptions, InitInv DEF PartsInit
  <1>2. PurP!Inv
    BY Assumptions, PurposesSteps, PurP!InitInv DEF PartsInit
  <1>3. IF part = "skills" THEN SkiP!Inv ELSE CatP!Inv
    BY Assumptions, SkillsSteps, CatalogueSteps, SkiP!InitInv, CatP!InitInv DEF PartsInit
  <1>4. LogP!Inv
    BY LoginSteps, LogP!InitInv DEF PartsInit
  <1>5. DeploymentInv /\ FilesInv
    BY Assumptions, InitDeployment, InitFiles DEF PartsInit
  <1>6. ProP!SInv
    BY CardsSteps, ProP!SInvInit DEF PartsInit
  <1> QED
    BY <1>1, <1>2, <1>3, <1>4, <1>5, <1>6 DEF PartsInv

(* A step of one part is a step of it, and leaves the others as they are.   *)
LEMMA OneIsTogether ==
    ASSUME [PartsNext]_partsVars
    PROVE  Together
  BY DEF Together, PartsNext, InScraps, InCards, InPurposes, InSkills, InCatalogues,
         InLogin, InDeployment, InFiles, partsVars, cardVars, purposeVars, catalogueVars, loginVars,
         deploymentVars, fileVars, Pro!vars, Pur!vars, Ski!vars, Cat!vars, Log!vars,
         Dep!vars, Fil!vars

(* The same steps as the other modules' theorems know them.                 *)
LEMMA StepsOfParts ==
    ASSUME [Together]_partsVars
    PROVE  /\ [Next]_vars
           /\ [ProP!Next]_(ProP!vars)
           /\ [PurP!Next]_(PurP!vars)
           /\ part = "skills" => [SkiP!Next]_(SkiP!vars)
           /\ part # "skills" => [CatP!Next]_(CatP!vars)
           /\ [LogP!Next]_(LogP!vars)
           /\ [Dep!Next]_(Dep!vars)
           /\ [Fil!Next]_(Fil!vars)
           /\ part' = part
  BY CardsSteps, PurposesSteps, SkillsSteps, CatalogueSteps, LoginSteps
  DEF Together, partsVars, cardVars, purposeVars, catalogueVars, loginVars,
      deploymentVars, fileVars, Pro!vars, ProP!vars, Pur!vars, PurP!vars, Ski!vars,
      SkiP!vars, Cat!vars, CatP!vars, Log!vars, LogP!vars, Dep!vars, Fil!vars

LEMMA PartsNextInv ==
    ASSUME PartsInv, [Together]_partsVars
    PROVE  PartsInv'
  <1>1. Inv'
    BY Assumptions, StepsOfParts, NextInv DEF PartsInv
  <1>2. PurP!Inv'
    BY Assumptions, StepsOfParts, PurP!NextInv DEF PartsInv
  <1>3. ASSUME part = "skills"
        PROVE  SkiP!Inv'
    BY <1>3, Assumptions, StepsOfParts, SkiP!NextKeepsInv DEF PartsInv
  <1>4. ASSUME part # "skills"
        PROVE  CatP!Inv'
    BY <1>4, Assumptions, StepsOfParts, CatP!NextKeepsInv DEF PartsInv
  <1>5. LogP!Inv'
    BY Assumptions, StepsOfParts, LogP!NextKeepsInv DEF PartsInv
  <1>6. DeploymentInv' /\ FilesInv'
    BY Assumptions, StepsOfParts, NextKeepsDeployment, NextKeepsFiles DEF PartsInv
  <1>7. ProP!SInv'
    BY Assumptions, StepsOfParts, ProP!SInvStep DEF PartsInv
  <1> QED
    BY <1>1, <1>2, <1>3, <1>4, <1>5, <1>6, <1>7, StepsOfParts DEF PartsInv

(* However handlers of collections, cards, purposes, catalogues, logins and *)
(* uploads, the seed and a deployment overlap, each part keeps its          *)
(* invariant.  What two of them know of a card, each knows for itself, and  *)
(* a step that tells both is a step of both.                                *)
THEOREM TogetherHold == TogetherSpec => []PartsInv
  <1> QED
    BY PartsInitInv, PartsNextInv, PTL DEF TogetherSpec

(* A part that runs alone is the special case TLC checks.                   *)
THEOREM AloneIsTogether == PartsSpec => TogetherSpec
  <1>1. [PartsNext]_partsVars => [Together]_partsVars
    BY OneIsTogether
  <1> QED
    BY <1>1, PTL DEF PartsSpec, TogetherSpec

(* So each part keeps its invariant in what TLC checks.                     *)
THEOREM PartsHold == PartsSpec => []PartsInv
  <1> QED
    BY TogetherHold, AloneIsTogether, PTL

(* Every variable of every part has its type.                               *)
THEOREM PartsTyped == PartsSpec => []PartsTypeOK
  <1>1. PurP!TypeOK <=> Pur!TypeOK
    BY DEF Pur!TypeOK, PurP!TypeOK, Pur!Running, PurP!Running, Pur!Idle, PurP!Idle
  <1>2. SkiP!TypeOK <=> Ski!TypeOK
    BY DEF Ski!TypeOK, SkiP!TypeOK, Ski!Rows, SkiP!Rows, Ski!Idle, SkiP!Idle
  <1>3. CatP!TypeOK <=> Cat!TypeOK
    BY DEF Cat!TypeOK, CatP!TypeOK, Cat!Rows, CatP!Rows, Cat!Idle, CatP!Idle
  <1>4. LogP!TypeOK <=> Log!TypeOK
    BY DEF Log!TypeOK, LogP!TypeOK, Log!Request, LogP!Request, Log!Code, LogP!Code,
           Log!Running, LogP!Running, Log!Idle, LogP!Idle, Log!Providers, LogP!Providers
  <1>0. ProP!TypeOK <=> Pro!TypeOK
    BY DEF Pro!TypeOK, ProP!TypeOK, Pro!Running, ProP!Running, Pro!Idle, ProP!Idle
  <1>5. PartsInv => PartsTypeOK
    BY <1>0, <1>1, <1>2, <1>3, <1>4
    DEF PartsInv, PartsTypeOK, Inv, ProP!SInv, ProP!Inv, PurP!Inv, SkiP!Inv, CatP!Inv,
        LogP!Inv, DeploymentInv, FilesInv
  <1> QED
    BY <1>5, PartsHold, PTL

(* A user who does one thing at a time and has had a card has one           *)
(* (profile-cards.service.ts:131-137).                                      *)
THEOREM PartsKeepACard == PartsSpec => []KeepsACard
  <1>1. PartsInv => KeepsACard
    BY DEF PartsInv, KeepsACard, ProP!SInv, Pro!KeepsACard, ProP!KeepsACard,
           Pro!CardsOf, ProP!CardsOf, Pro!Exists, ProP!Exists
  <1> QED
    BY <1>1, PartsHold, PTL

(* No card of such a user is public after a withdrawal                      *)
(* (users.repository.ts:91-94).                                             *)
THEOREM PartsHideWithdrawn == PartsSpec => []WithdrawnIsHidden
  <1>1. PartsInv => WithdrawnIsHidden
    BY DEF PartsInv, WithdrawnIsHidden, ProP!SInv, Pro!WithdrawnIsHidden,
           ProP!WithdrawnIsHidden, Pro!Live, ProP!Live
  <1> QED
    BY <1>1, PartsHold, PTL

(* The cards in this composition are run as alone, so that what was proved  *)
(* about them holds of it.                                                  *)
LEMMA PartsRunCards == PartsSpec => ProP!Spec
  <1>1. PartsInit => ProP!Init
    BY CardsSteps DEF PartsInit
  <1>2. [PartsNext]_partsVars => [ProP!Next]_(ProP!vars)
    BY OneIsTogether, StepsOfParts
  <1> QED
    BY <1>1, <1>2, PTL DEF PartsSpec, ProP!Spec

(* Cards are written in calls of their owners alone                         *)
(* (profile-cards.service.ts:87-98, :128-137).                              *)
THEOREM PartsOwnersEdit == PartsSpec => OnlyOwnersEdit
  <1>1. ProP!Spec => ProP!OnlyOwnersEdit
    BY ProP!OwnersEdit
  <1>2. ProP!OnlyOwnersEdit => OnlyOwnersEdit
    BY DEF ProP!OnlyOwnersEdit, OnlyOwnersEdit, Pro!OnlyOwnersEdit, ProP!vars, Pro!vars
  <1> QED
    BY PartsRunCards, <1>1, <1>2

(* What a user does one at a time with cards is atomic                      *)
(* (profile-cards.service.ts:73-138).                                       *)
THEOREM PartsShelve == PartsSpec => CardsAreShelved
  <1>1. ProP!Spec => ProP!CardsAreShelved
    BY Assumptions, ProP!ShelvesRefinement
  <1>2. ProP!CardsAreShelved => CardsAreShelved
    BY DEF ProP!CardsAreShelved, CardsAreShelved, Pro!CardsAreShelved,
           ProP!Shelves!Spec, Pro!Shelves!Spec, ProP!Shelves!Init, Pro!Shelves!Init,
           ProP!Shelves!Next, Pro!Shelves!Next, ProP!Shelves!Add, Pro!Shelves!Add,
           ProP!Shelves!PutUp, Pro!Shelves!PutUp, ProP!Shelves!TakeDown,
           Pro!Shelves!TakeDown, ProP!Shelves!Discard, Pro!Shelves!Discard,
           ProP!Shelves!Leave, Pro!Shelves!Leave, ProP!CardsOf, Pro!CardsOf,
           ProP!Exists, Pro!Exists, ProP!Live, Pro!Live
  <1> QED
    BY PartsRunCards, <1>1, <1>2

(* No two purposes share a position, unless the history says why            *)
(* (purposes.service.ts:22-23).                                             *)
THEOREM PartsDistinct == PartsSpec => []PositionsAreDistinct
  <1>1. PartsInv => PositionsAreDistinct
    BY DEF PartsInv, PositionsAreDistinct, PurP!Inv, Pur!PositionsAreDistinct,
           PurP!PositionsAreDistinct, Pur!listed, PurP!listed
  <1> QED
    BY <1>1, PartsHold, PTL

(* No purpose leaves an empty position behind (purposes.repository.ts:45).  *)
THEOREM PartsDense == PartsSpec => []PositionsAreDense
  <1>1. PartsInv => PositionsAreDense
    BY DEF PartsInv, PositionsAreDense, PurP!Inv, Pur!PositionsAreDense,
           PurP!PositionsAreDense, Pur!listed, PurP!listed, Pur!Taken, PurP!Taken
  <1> QED
    BY <1>1, PartsHold, PTL

(* In both catalogues nothing refers to a row that is gone                  *)
(* (skills.service.ts:57).                                                  *)
THEOREM PartsResolve == PartsSpec => []ReferencesResolve
  <1>1. PartsInv => ReferencesResolve
    BY DEF PartsInv, ReferencesResolve, SkiP!Inv, CatP!Inv, Ski!ReferencesResolve,
           SkiP!ReferencesResolve, Ski!rows, SkiP!rows, Cat!ReferencesResolve,
           CatP!ReferencesResolve, Cat!rows, CatP!rows, Ski!Rows, SkiP!Rows, Cat!Rows,
           CatP!Rows
  <1> QED
    BY <1>1, PartsHold, PTL

(* In both, only an interrupted seed leaves a skill without job types       *)
(* (seed.ts:353-354).                                                       *)
THEOREM PartsJobTypes == PartsSpec => []SkillsKeepAJobType
  <1>1. PartsInv => SkillsKeepAJobType
    BY DEF PartsInv, SkillsKeepAJobType, SkiP!Inv, CatP!Inv, Ski!SkillsKeepAJobType,
           SkiP!SkillsKeepAJobType, Ski!rows, SkiP!rows, Ski!jobTypesOf,
           SkiP!jobTypesOf, Ski!Rows, SkiP!Rows, Cat!SkillsKeepAJobType,
           CatP!SkillsKeepAJobType, Cat!rows, CatP!rows, Cat!jobTypesOf,
           CatP!jobTypesOf, Cat!Rows, CatP!Rows
  <1> QED
    BY <1>1, PartsHold, PTL

(* An approval opens one session at most, where its state says              *)
(* (auth.service.ts:89-123).                                                *)
THEOREM PartsOneSession == PartsSpec => []ApprovalsOpenOneSession
  <1>1. PartsInv => ApprovalsOpenOneSession
    BY DEF PartsInv, ApprovalsOpenOneSession, LogP!Inv, Log!ApprovalsOpenOneSession,
           LogP!ApprovalsOpenOneSession
  <1> QED
    BY <1>1, PartsHold, PTL

(* Requests go to healthy containers, unless a script was stopped between   *)
(* the file and the reload (deploy.sh:132-139).                             *)
THEOREM PartsServe == PartsSpec => []ServiceGoesOn
  <1>1. PartsInit => Dep!Init
    BY DEF PartsInit
  <1>2. [PartsNext]_partsVars => [Dep!Next]_(Dep!vars)
    BY OneIsTogether, StepsOfParts
  <1>3. Dep!Spec => []ServiceGoesOn
    BY Assumptions, ServiceHolds
  <1> QED
    BY <1>1, <1>2, <1>3, PTL DEF PartsSpec, Dep!Spec

(* An answered address names a complete set of images                       *)
(* (files.service.ts:84-98).                                                *)
THEOREM PartsAnswer == PartsSpec => []AnsweredImagesAreComplete
  <1>1. PartsInv => AnsweredImagesAreComplete
    BY DEF PartsInv, FilesInv
  <1> QED
    BY <1>1, PartsHold, PTL

(* The scraps in this composition behave as alone, so that what was proved  *)
(* about them holds of it.                                                  *)
THEOREM PartsKeepScraps == PartsSpec => []ScrapsStayHome /\ IsAScrapbook
  <1>1. PartsInit => Init
    BY DEF PartsInit
  <1>2. [PartsNext]_partsVars => [Next]_vars
    BY OneIsTogether, StepsOfParts
  <1>3. Spec => []ScrapsStayHome
    BY Assumptions, StayHomeHolds
  <1>4. Spec => IsAScrapbook
    BY Assumptions, ImplementsScrapbook
  <1> QED
    BY <1>1, <1>2, <1>3, <1>4, PTL DEF PartsSpec, Spec

(* No login begins with the state of one that has returned                  *)
(* (auth.service.ts:122-123).                                               *)
THEOREM PartsStatesAreGone == PartsSpec => ReturnedStatesAreGone
  <1>1. PartsInit => LogP!Init
    BY LoginSteps DEF PartsInit
  <1>2. [PartsNext]_partsVars => [LogP!Next]_(LogP!vars)
    BY OneIsTogether, StepsOfParts
  <1>3. LogP!Spec => LogP!ReturnedStatesAreGone
    BY Assumptions, LogP!StatesAreGone
  <1>4. LogP!Init /\ [][LogP!Next]_(LogP!vars) => LogP!ReturnedStatesAreGone
    BY <1>3 DEF LogP!Spec
  <1>5. LogP!ReturnedStatesAreGone => ReturnedStatesAreGone
    BY DEF LogP!ReturnedStatesAreGone, ReturnedStatesAreGone, Log!ReturnedStatesAreGone,
           LogP!At, Log!At, LogP!vars, Log!vars
  <1> QED
    BY <1>1, <1>2, <1>4, <1>5, PTL DEF PartsSpec
=============================================================================
