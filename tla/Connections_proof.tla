------------------------- MODULE Connections_proof -------------------------
(***************************************************************************)
(* What holds of the connection module for any users, cards and messages,  *)
(* and any number of overlapping calls.                                    *)
(***************************************************************************)
EXTENDS Connections, TLAPS

(* How the two ways of moving a call change the slots. *)

LEMMA RunningCall ==
    ASSUME TypeOK, NEW c \in Calls, ~At(c, "idle")
    PROVE  call[c] \in Running
BY DEF TypeOK, At, Idle

LEMMA GotoMoves ==
    ASSUME TypeOK, NEW c \in Calls, ~At(c, "idle"), NEW pc \in PC, Goto(c, pc)
    PROVE  /\ call' \in [Calls -> Running \cup {Idle}]
           /\ call'[c].pc = pc
           /\ call'[c].pair = call[c].pair
           /\ call'[c].user = call[c].user
           /\ call'[c].message = call[c].message
           /\ \A d \in Calls \ {c} : call'[d] = call[d]
<1>1. call[c] \in Running
  BY RunningCall
<1>2. [call[c] EXCEPT !.pc = pc] \in Running
  BY <1>1 DEF Running
<1>3. call' = [call EXCEPT ![c] = [call[c] EXCEPT !.pc = pc]]
  BY DEF Goto
<1>4. QED
  BY <1>1, <1>2, <1>3 DEF TypeOK, Running

LEMMA ReturnMoves ==
    ASSUME TypeOK, NEW c \in Calls, Return(c)
    PROVE  /\ call' \in [Calls -> Running \cup {Idle}]
           /\ call'[c] = Idle
           /\ \A d \in Calls \ {c} : call'[d] = call[d]
BY DEF Return, TypeOK

LEMMA EnterMoves ==
    ASSUME TypeOK, NEW c \in Calls, NEW u \in Users, NEW p \in Pairs,
           NEW m \in Messages \cup {None}, NEW pc \in PC, Enter(c, u, p, m, pc)
    PROVE  /\ call' \in [Calls -> Running \cup {Idle}]
           /\ call'[c] = [pc |-> pc, user |-> u, pair |-> p, message |-> m]
           /\ \A d \in Calls \ {c} : call'[d] = call[d]
BY DEF Enter, TypeOK, Running

LEMMA ReadToAcceptMoves ==
    ASSUME TypeOK, NEW c \in Calls, ReadToAccept(c), IsMyPending(c)
    PROVE  /\ call' \in [Calls -> Running \cup {Idle}]
           /\ call'[c].pc = "acceptRequest"
           /\ call'[c].pair = call[c].pair
           /\ call'[c].user = call[c].user
           /\ \A d \in Calls \ {c} : call'[d] = call[d]
<1> DEFINE m == request[call[c].pair].message
<1>1. call[c] \in Running
  BY RunningCall DEF ReadToAccept, At
<1>2. m \in Messages \cup {None}
  BY <1>1 DEF TypeOK, Running, Request
<1>3. call' = [call EXCEPT ![c] = [call[c] EXCEPT !.pc = "acceptRequest", !.message = m]]
  BY DEF ReadToAccept
<1>4. [call[c] EXCEPT !.pc = "acceptRequest", !.message = m] \in Running
  BY <1>1, <1>2 DEF Running, PC
<1>5. QED
  BY <1>1, <1>3, <1>4 DEF TypeOK, Running

-----------------------------------------------------------------------------
(* Type correctness: every row and every slot keeps its shape, whatever     *)
(* calls overlap and wherever they fail.                                    *)
THEOREM TypeCorrect == Spec => []TypeOK
<1>1. Init => TypeOK
  BY DEF Init, TypeOK, NoRequest, NoConnection, Request, Connection
<1>2. TypeOK /\ [Next]_vars => TypeOK'
  <2> SUFFICES ASSUME TypeOK, [Next]_vars PROVE TypeOK'
    OBVIOUS
  <2> DEFINE Slots == call' \in [Calls -> Running \cup {Idle}]
  <2>1. ASSUME NEW c \in Calls, Begin(c) PROVE TypeOK'
    <3>1. Slots /\ UNCHANGED <<card, request, connection, notices>>
      <4>1. CASE BeginCreate(c)
        BY <4>1, EnterMoves DEF BeginCreate, Enter, PC
      <4>2. CASE BeginAnswer(c)
        <5>1. PICK u \in Users, p \in Pairs, pc \in {"readToAccept", "readToReject", "readToCancel"} :
                 Enter(c, u, p, None, pc)
          BY <4>2 DEF BeginAnswer
        <5>2. pc \in PC
          BY DEF PC
        <5>3. QED
          BY <5>1, <5>2, EnterMoves DEF Enter
      <4>3. CASE BeginRemove(c)
        BY <4>3, EnterMoves DEF BeginRemove, Enter, PC
      <4>4. QED
        BY <2>1, <4>1, <4>2, <4>3 DEF Begin
    <3>2. QED
      BY <3>1 DEF TypeOK
  <2>2. ASSUME NEW c \in Calls, Step(c) PROVE TypeOK'
    <3>1. call[c] \in Running
      BY <2>2, RunningCall
      DEF Step, At, FindRequesterCard, FindReceiverCard, FindRequestByCardPair,
          CreateRequest, ReviveRequest, ReadToAccept, AcceptRequest, ReadToReject,
          RejectRequest, ReadToCancel, CancelRequest, FindConnectionById,
          SoftRemoveByUser, Notify
    <3>2. ASSUME UNCHANGED <<card, request, connection, notices>>, Slots
          PROVE  TypeOK'
      BY <3>2 DEF TypeOK
    <3>3. CASE FindRequesterCard(c)
      BY <3>2, <3>3, GotoMoves, ReturnMoves DEF FindRequesterCard, At, PC
    <3>4. CASE FindReceiverCard(c)
      BY <3>2, <3>4, GotoMoves, ReturnMoves DEF FindReceiverCard, At, PC
    <3>5. CASE FindRequestByCardPair(c)
      BY <3>2, <3>5, GotoMoves, ReturnMoves DEF FindRequestByCardPair, At, PC
    <3>6. CASE CreateRequest(c)
      <4>1. Slots
        BY <3>6, GotoMoves, ReturnMoves DEF CreateRequest, At, PC
      <4>2. request' \in [Pairs -> Request]
        BY <3>1, <3>6 DEF CreateRequest, TypeOK, Request, Running
      <4>3. QED
        BY <3>6, <4>1, <4>2 DEF CreateRequest, TypeOK
    <3>7. CASE ReviveRequest(c)
      <4>1. Slots
        BY <3>7, GotoMoves, ReturnMoves DEF ReviveRequest, At, PC
      <4>2. request' \in [Pairs -> Request]
        BY <3>1, <3>7 DEF ReviveRequest, TypeOK, Request, Running
      <4>3. QED
        BY <3>7, <4>1, <4>2 DEF ReviveRequest, TypeOK
    <3>8. CASE ReadToAccept(c)
      BY <3>2, <3>8, ReadToAcceptMoves, ReturnMoves DEF ReadToAccept
    <3>9. CASE AcceptRequest(c)
      <4>1. Slots
        BY <3>9, GotoMoves, ReturnMoves DEF AcceptRequest, At, PC
      <4>2. request' \in [Pairs -> Request]
        BY <3>1, <3>9 DEF AcceptRequest, TypeOK, Request, Answers, Running
      <4>3. connection' \in [Pairs -> Connection]
        <5>1. [established |-> TRUE, message |-> call[c].message, removed |-> {}] \in Connection
          BY <3>1 DEF Connection, Running
        <5>2. QED
          BY <3>9, <5>1 DEF AcceptRequest, TypeOK
      <4>4. QED
        BY <3>9, <4>1, <4>2, <4>3 DEF AcceptRequest, TypeOK
    <3>10. CASE ReadToReject(c)
      BY <3>2, <3>10, GotoMoves, ReturnMoves DEF ReadToReject, At, PC
    <3>11. CASE RejectRequest(c)
      <4>1. Slots
        BY <3>11, GotoMoves, ReturnMoves DEF RejectRequest, At, PC
      <4>2. request' \in [Pairs -> Request]
        BY <3>1, <3>11 DEF RejectRequest, TypeOK, Request, Answers, Running
      <4>3. QED
        BY <3>11, <4>1, <4>2 DEF RejectRequest, TypeOK
    <3>12. CASE ReadToCancel(c)
      BY <3>2, <3>12, GotoMoves, ReturnMoves DEF ReadToCancel, At, PC
    <3>13. CASE CancelRequest(c)
      <4>1. Slots
        BY <3>13, ReturnMoves DEF CancelRequest
      <4>2. request' \in [Pairs -> Request]
        BY <3>1, <3>13 DEF CancelRequest, TypeOK, Request, Answers, Running
      <4>3. QED
        BY <3>13, <4>1, <4>2 DEF CancelRequest, TypeOK
    <3>14. CASE FindConnectionById(c)
      BY <3>2, <3>14, GotoMoves, ReturnMoves DEF FindConnectionById, At, PC
    <3>15. CASE SoftRemoveByUser(c)
      <4>1. Slots
        BY <3>15, ReturnMoves DEF SoftRemoveByUser
      <4>2. connection' \in [Pairs -> Connection]
        BY <3>1, <3>15 DEF SoftRemoveByUser, TypeOK, Connection, SideOf, Sides, Running
      <4>3. QED
        BY <3>15, <4>1, <4>2 DEF SoftRemoveByUser, TypeOK
    <3>16. CASE Notify(c)
      <4>1. Slots
        BY <3>16, ReturnMoves DEF Notify
      <4>2. Requester(call[c].pair) \in Users /\ Receiver(call[c].pair) \in Users
        BY <3>1, ConnectionsAssumption DEF Running, Pairs, Requester, Receiver
      <4>3. NoticeOf(c) \in Notice
        BY <3>1, <4>2 DEF NoticeOf, Notice, Running
      <4>4. QED
        BY <3>16, <4>1, <4>3 DEF Notify, TypeOK
    <3>17. QED
      BY <2>2, <3>3, <3>4, <3>5, <3>6, <3>7, <3>8, <3>9, <3>10, <3>11, <3>12, <3>13,
         <3>14, <3>15, <3>16 DEF Step
  <2>3. ASSUME NEW c \in Calls, Fail(c) PROVE TypeOK'
    BY <2>3, ReturnMoves DEF Fail, TypeOK
  <2>4. ASSUME NEW x \in Cards, PublishCard(x) \/ HideCard(x) PROVE TypeOK'
    BY <2>4 DEF PublishCard, HideCard, TypeOK
  <2>5. ASSUME NEW x \in Cards, DeleteCard(x) PROVE TypeOK'
    BY <2>5 DEF DeleteCard, TypeOK, Request, NoRequest
  <2>6. CASE UNCHANGED vars
    BY <2>6 DEF vars, TypeOK
  <2>7. QED
    BY <2>1, <2>2, <2>3, <2>4, <2>5, <2>6 DEF Next, Environment
<1>3. QED
  BY <1>1, <1>2, PTL DEF Spec

-----------------------------------------------------------------------------
(* The inductive invariant: what the calls have checked is what makes their *)
(* later, unchecked writes keep the rows consistent.                        *)
Inv ==
    /\ AcceptedIsArchived
    /\ RequestsAreGrounded
    /\ AcceptedNoticeIsTrue
    /\ CallsStayChecked

(* No step takes a connection out of the archive. *)
LEMMA ArchiveGrows ==
    ASSUME TypeOK, [Next]_vars
    PROVE  \A p \in Pairs : Connected(p) => Connected(p)'
<1> SUFFICES ASSUME NEW p \in Pairs, Connected(p) PROVE Connected(p)'
  OBVIOUS
<1>1. ASSUME NEW c \in Calls, Step(c), ~UNCHANGED connection PROVE Connected(p)'
  <2>1. AcceptRequest(c) \/ SoftRemoveByUser(c)
    BY <1>1
    DEF Step, FindRequesterCard, FindReceiverCard, FindRequestByCardPair, CreateRequest,
        ReviveRequest, ReadToAccept, ReadToReject, RejectRequest, ReadToCancel,
        CancelRequest, FindConnectionById, Notify
  <2>2. CASE AcceptRequest(c)
    BY <2>2 DEF AcceptRequest, TypeOK, Connected, Connection
  <2>3. CASE SoftRemoveByUser(c)
    BY <2>3 DEF SoftRemoveByUser, TypeOK, Connected, Connection
  <2>4. QED
    BY <2>1, <2>2, <2>3
<1>2. CASE UNCHANGED connection
  BY <1>2 DEF Connected
<1>3. QED
  BY <1>1, <1>2
  DEF Next, vars, Environment, Begin, BeginCreate, BeginAnswer, BeginRemove, Enter, Fail,
      PublishCard, HideCard, DeleteCard

(* A step of one call leaves the others as checked as they were. *)
LEMMA OthersStayChecked ==
    ASSUME TypeOK, CallsStayChecked, [Next]_vars,
           NEW c \in Calls, \A d \in Calls \ {c} : call'[d] = call[d], Checked(c)'
    PROVE  CallsStayChecked'
<1> SUFFICES ASSUME NEW d \in Calls \ {c} PROVE Checked(d)'
  BY DEF CallsStayChecked
<1>1. Checked(d) /\ call'[d] = call[d]
  BY DEF CallsStayChecked
<1>2. call[d].pc \in {"findConnectionById", "softRemoveByUser", "notifyAccepted"}
        => call[d].pair \in Pairs
  BY DEF TypeOK, Running, Idle
<1>3. QED
  BY <1>1, <1>2, ArchiveGrows DEF Checked, Requester, Receiver

(* Steps that leave the rows alone keep the invariants about rows. *)
LEMMA RowsStay ==
    ASSUME TypeOK, Inv, UNCHANGED <<card, request, connection, notices>>
    PROVE  AcceptedIsArchived' /\ RequestsAreGrounded' /\ AcceptedNoticeIsTrue'
BY DEF Inv, AcceptedIsArchived, RequestsAreGrounded, AcceptedNoticeIsTrue, Connected,
       HasRequest, Exists, Requester, Receiver

LEMMA IdleIsChecked ==
    ASSUME NEW c \in Calls, call'[c] = Idle
    PROVE  Checked(c)'
BY DEF Checked, Idle

LEMMA BeginKeepsInv ==
    ASSUME TypeOK, Inv, [Next]_vars, NEW c \in Calls, Begin(c)
    PROVE  Inv'
<1>1. PICK u \in Users, p \in Pairs, m \in Messages \cup {None},
           pc \in {"findRequesterCard", "readToAccept", "readToReject", "readToCancel",
                   "findConnectionById"} :
         /\ Enter(c, u, p, m, pc)
         /\ pc = "findConnectionById" => Connected(p)
  <2>1. CASE BeginCreate(c)
    BY <2>1 DEF BeginCreate
  <2>2. CASE BeginAnswer(c)
    <3>1. PICK u \in Users, p \in Pairs, pc \in {"readToAccept", "readToReject", "readToCancel"} :
             Enter(c, u, p, None, pc)
      BY <2>2 DEF BeginAnswer
    <3>2. QED
      BY <3>1
  <2>3. CASE BeginRemove(c)
    BY <2>3 DEF BeginRemove
  <2>4. QED
    BY <2>1, <2>2, <2>3 DEF Begin
<1>2. pc \in PC
  BY DEF PC
<1>3. Checked(c)'
  BY <1>1, <1>2, EnterMoves DEF Checked, Connected, Enter
<1>4. UNCHANGED <<card, request, connection, notices>>
  BY <1>1 DEF Enter
<1>5. CallsStayChecked'
  BY <1>1, <1>2, <1>3, EnterMoves, OthersStayChecked DEF Inv
<1>6. QED
  BY <1>4, <1>5, RowsStay DEF Inv

(* The awaits that only read: what they let through is what they checked. *)
LEMMA ReadKeepsInv ==
    ASSUME TypeOK, Inv, [Next]_vars, NEW c \in Calls,
           \/ FindRequesterCard(c) \/ FindReceiverCard(c) \/ FindRequestByCardPair(c)
           \/ ReadToAccept(c) \/ ReadToReject(c) \/ ReadToCancel(c)
           \/ FindConnectionById(c) \/ Fail(c)
    PROVE  Inv'
<1>1. UNCHANGED <<card, request, connection, notices>>
  BY DEF FindRequesterCard, FindReceiverCard, FindRequestByCardPair, ReadToAccept,
         ReadToReject, ReadToCancel, FindConnectionById, Fail
<1>2. Checked(c)
  BY DEF Inv, CallsStayChecked
<1>3. Checked(c)' /\ \A d \in Calls \ {c} : call'[d] = call[d]
  <2>1. CASE Return(c)
    BY <2>1, ReturnMoves, IdleIsChecked
  <2>2. CASE FindRequesterCard(c) /\ ~Return(c)
    BY <2>2, GotoMoves DEF FindRequesterCard, At, PC, Checked, Requester, Receiver
  <2>3. CASE FindReceiverCard(c) /\ ~Return(c)
    BY <1>2, <2>3, GotoMoves DEF FindReceiverCard, At, PC, Checked, Requester, Receiver
  <2>4. CASE FindRequestByCardPair(c) /\ ~Return(c)
    <3>1. \E pc \in {"createRequest", "reviveRequest"} : Goto(c, pc)
      BY <2>4 DEF FindRequestByCardPair
    <3>2. QED
      BY <1>2, <2>4, <3>1, GotoMoves
      DEF FindRequestByCardPair, At, PC, Checked, Requester, Receiver
  <2>5. CASE ReadToAccept(c) /\ ~Return(c)
    <3>1. IsMyPending(c)
      BY <2>5 DEF ReadToAccept
    <3>2. QED
      BY <2>5, <3>1, ReadToAcceptMoves DEF IsMyPending, Checked, Requester, Receiver
  <2>6. CASE ReadToReject(c) /\ ~Return(c)
    BY <2>6, GotoMoves DEF ReadToReject, IsMyPending, At, PC, Checked, Requester, Receiver
  <2>7. CASE ReadToCancel(c) /\ ~Return(c)
    BY <2>7, GotoMoves DEF ReadToCancel, At, PC, Checked, Requester, Receiver
  <2>8. CASE FindConnectionById(c) /\ ~Return(c)
    BY <1>1, <1>2, <2>8, GotoMoves
    DEF FindConnectionById, At, PC, Checked, Connected, Requester, Receiver
  <2>9. QED
    BY <2>1, <2>2, <2>3, <2>4, <2>5, <2>6, <2>7, <2>8 DEF Fail
<1>4. QED
  BY <1>1, <1>3, RowsStay, OthersStayChecked DEF Inv

(* A slot whose call moved on to a step that presupposes nothing. *)
LEMMA LastStepsAreChecked ==
    ASSUME NEW c \in Calls,
           call'[c] = Idle \/ call'[c].pc \in {"notifyRequested", "notifyRejected"}
    PROVE  Checked(c)'
BY DEF Checked, Idle

LEMMA CreateKeepsInv ==
    ASSUME TypeOK, Inv, [Next]_vars, NEW c \in Calls, CreateRequest(c) \/ ReviveRequest(c)
    PROVE  Inv'
<1> DEFINE p == call[c].pair
<1>1. call[c] \in Running /\ Checked(c)
  BY RunningCall DEF CreateRequest, ReviveRequest, At, Inv, CallsStayChecked
<1>2. /\ call'[c] = Idle \/ call'[c].pc = "notifyRequested"
      /\ \A d \in Calls \ {c} : call'[d] = call[d]
  BY GotoMoves, ReturnMoves DEF CreateRequest, ReviveRequest, At, PC
<1>3. CallsStayChecked'
  BY <1>2, LastStepsAreChecked, OthersStayChecked DEF Inv
<1>4. CASE UNCHANGED request
  BY <1>3, <1>4, RowsStay DEF Inv, CreateRequest, ReviveRequest
<1>5. CASE ~UNCHANGED request
  <2>1. /\ request' = [request EXCEPT ![p] = [status |-> "PENDING", message |-> call[c].message]]
        /\ UNCHANGED <<card, connection, notices>>
    BY <1>5 DEF CreateRequest, ReviveRequest
  <2>2. Exists(p[1]) /\ Exists(p[2]) /\ Requester(p) # Receiver(p)
    BY <1>1, <1>5 DEF CreateRequest, ReviveRequest, CanInsert, At, Checked, Inv,
       RequestsAreGrounded, Running
  <2>3. \A q \in Pairs : request'[q] = request[q] \/ (q = p /\ request'[q].status = "PENDING")
    BY <2>1 DEF TypeOK
  <2>4. AcceptedIsArchived'
    BY <2>1, <2>3 DEF Inv, AcceptedIsArchived, Connected
  <2>5. RequestsAreGrounded'
    BY <2>1, <2>2, <2>3 DEF Inv, RequestsAreGrounded, HasRequest, Exists, Requester, Receiver
  <2>6. AcceptedNoticeIsTrue'
    BY <2>1 DEF Inv, AcceptedNoticeIsTrue, Connected
  <2>7. QED
    BY <1>3, <2>4, <2>5, <2>6 DEF Inv
<1>6. QED
  BY <1>4, <1>5

LEMMA AcceptKeepsInv ==
    ASSUME TypeOK, Inv, [Next]_vars, NEW c \in Calls, AcceptRequest(c)
    PROVE  Inv'
<1>1. call[c] \in Running
  BY RunningCall DEF AcceptRequest, At
<1> PICK p \in Pairs : p = call[c].pair
  BY <1>1 DEF Running
<1>2. CASE Return(c)
  <2>1. CallsStayChecked'
    BY <1>2, ReturnMoves, IdleIsChecked, OthersStayChecked DEF Inv
  <2>2. UNCHANGED <<card, request, connection, notices>>
    BY <1>1, <1>2, GotoMoves, ReturnMoves DEF AcceptRequest, At, Idle, PC
  <2>3. QED
    BY <2>1, <2>2, RowsStay DEF Inv
<1>3. CASE ~Return(c)
  <2>1. /\ CanAccept(c)
        /\ request' = [request EXCEPT ![p].status = "ACCEPTED"]
        /\ connection' = [connection EXCEPT
              ![p] = [established |-> TRUE, message |-> call[c].message, removed |-> {}]]
        /\ Goto(c, "notifyAccepted")
        /\ UNCHANGED <<card, notices>>
    BY <1>3 DEF AcceptRequest
  <2>2. Connected(p)'
    BY <1>1, <2>1 DEF Connected, TypeOK, Running
  <2>3. /\ call'[c].pc = "notifyAccepted" /\ call'[c].pair = p
        /\ \A d \in Calls \ {c} : call'[d] = call[d]
    BY <2>1, GotoMoves DEF AcceptRequest, At, PC
  <2>4. CallsStayChecked'
    <3>1. Checked(c)'
      BY <2>2, <2>3 DEF Checked, Connected
    <3>2. QED
      BY <2>3, <3>1, OthersStayChecked DEF Inv
  <2>5. \A q \in Pairs \ {p} : request'[q] = request[q]
    BY <2>1 DEF TypeOK
  <2>6. AcceptedIsArchived'
    BY <2>2, <2>5, ArchiveGrows DEF Inv, AcceptedIsArchived
  <2>7. RequestsAreGrounded'
    BY <1>1, <2>1, <2>5 DEF Inv, RequestsAreGrounded, CanAccept, HasRequest, Exists,
       Requester, Receiver, Running
  <2>8. AcceptedNoticeIsTrue'
    BY <2>1, ArchiveGrows DEF Inv, AcceptedNoticeIsTrue, TypeOK, Notice
  <2>9. QED
    BY <2>4, <2>6, <2>7, <2>8 DEF Inv
<1>4. QED
  BY <1>2, <1>3

LEMMA OverwriteKeepsInv ==
    ASSUME TypeOK, Inv, [Next]_vars, NEW c \in Calls, RejectRequest(c) \/ CancelRequest(c)
    PROVE  Inv'
<1> DEFINE p == call[c].pair
<1>1. /\ call'[c] = Idle \/ call'[c].pc = "notifyRejected"
      /\ \A d \in Calls \ {c} : call'[d] = call[d]
  BY GotoMoves, ReturnMoves DEF RejectRequest, CancelRequest, At, PC
<1>2. CallsStayChecked'
  BY <1>1, LastStepsAreChecked, OthersStayChecked DEF Inv
<1>3. CASE UNCHANGED request
  BY <1>2, <1>3, RowsStay DEF Inv, RejectRequest, CancelRequest
<1>4. CASE ~UNCHANGED request
  <2>1. /\ HasRequest(p)
        /\ \E s \in {"REJECTED", "CANCELED"} : request' = [request EXCEPT ![p].status = s]
        /\ UNCHANGED <<card, connection, notices>>
    BY <1>4 DEF RejectRequest, CancelRequest
  <2>2. \A q \in Pairs : \/ request'[q] = request[q]
                         \/ HasRequest(q) /\ request'[q].status \in {"REJECTED", "CANCELED"}
    BY <2>1 DEF TypeOK, Request
  <2>3. AcceptedIsArchived'
    BY <2>1, <2>2 DEF Inv, AcceptedIsArchived, Connected
  <2>4. RequestsAreGrounded'
    BY <2>1, <2>2 DEF Inv, RequestsAreGrounded, HasRequest, Exists, Requester, Receiver
  <2>5. AcceptedNoticeIsTrue'
    BY <2>1 DEF Inv, AcceptedNoticeIsTrue, Connected
  <2>6. QED
    BY <1>2, <2>3, <2>4, <2>5 DEF Inv
<1>5. QED
  BY <1>3, <1>4

LEMMA RemoveKeepsInv ==
    ASSUME TypeOK, Inv, [Next]_vars, NEW c \in Calls, SoftRemoveByUser(c)
    PROVE  Inv'
<1>1. CallsStayChecked'
  BY ReturnMoves, IdleIsChecked, OthersStayChecked DEF Inv, SoftRemoveByUser
<1>2. AcceptedIsArchived' /\ AcceptedNoticeIsTrue'
  BY ArchiveGrows DEF Inv, SoftRemoveByUser, AcceptedIsArchived, AcceptedNoticeIsTrue,
     TypeOK, Notice
<1>3. RequestsAreGrounded'
  BY DEF Inv, SoftRemoveByUser, RequestsAreGrounded, HasRequest, Exists, Requester, Receiver
<1>4. QED
  BY <1>1, <1>2, <1>3 DEF Inv

LEMMA NotifyKeepsInv ==
    ASSUME TypeOK, Inv, [Next]_vars, NEW c \in Calls, Notify(c)
    PROVE  Inv'
<1>1. CallsStayChecked'
  BY ReturnMoves, IdleIsChecked, OthersStayChecked DEF Inv, Notify
<1>2. AcceptedIsArchived' /\ RequestsAreGrounded'
  BY DEF Inv, Notify, AcceptedIsArchived, RequestsAreGrounded, Connected, HasRequest,
     Exists, Requester, Receiver
<1>3. NoticeOf(c).type = "ACCEPTED" => Connected(NoticeOf(c).about)
  BY DEF Notify, NoticeOf, At, Inv, CallsStayChecked, Checked
<1>4. AcceptedNoticeIsTrue'
  BY <1>3 DEF Inv, Notify, AcceptedNoticeIsTrue, Connected
<1>5. QED
  BY <1>1, <1>2, <1>4 DEF Inv

LEMMA CardStepKeepsInv ==
    ASSUME TypeOK, Inv, [Next]_vars, NEW x \in Cards,
           PublishCard(x) \/ HideCard(x) \/ DeleteCard(x)
    PROVE  Inv'
<1>1. UNCHANGED <<connection, notices, call>>
  BY DEF PublishCard, HideCard, DeleteCard
<1>2. AcceptedNoticeIsTrue' /\ CallsStayChecked'
  BY <1>1 DEF Inv, AcceptedNoticeIsTrue, CallsStayChecked, Checked, Connected, Requester, Receiver
<1>3. AcceptedIsArchived'
  BY <1>1 DEF Inv, AcceptedIsArchived, Connected, PublishCard, HideCard, DeleteCard, NoRequest
<1>4. RequestsAreGrounded'
  <2>1. CASE PublishCard(x) \/ HideCard(x)
    <3>1. \A y \in Cards : Exists(y) => Exists(y)'
      BY <2>1 DEF PublishCard, HideCard, Exists, TypeOK
    <3>2. UNCHANGED request
      BY <2>1 DEF PublishCard, HideCard
    <3>3. QED
      BY <3>1, <3>2 DEF Inv, RequestsAreGrounded, HasRequest, Requester, Receiver, Pairs
  <2>2. CASE DeleteCard(x)
    <3>1. \A y \in Cards \ {x} : Exists(y) => Exists(y)'
      BY <2>2 DEF DeleteCard, Exists, TypeOK
    <3>2. \A p \in Pairs : HasRequest(p)' => HasRequest(p) /\ x \notin {p[1], p[2]}
      BY <2>2 DEF DeleteCard, HasRequest, NoRequest
    <3>3. QED
      BY <3>1, <3>2 DEF Inv, RequestsAreGrounded, Requester, Receiver, Pairs
  <2>3. QED
    BY <2>1, <2>2
<1>5. QED
  BY <1>2, <1>3, <1>4 DEF Inv

(* For any users, cards and number of overlapping calls: an ACCEPTED        *)
(* request has its archived connection, a request joins existing cards of   *)
(* two users, an acceptance notice is true, and a call's checks still hold  *)
(* when it writes.                                                          *)
THEOREM InvHolds == Spec => []Inv
<1>1. Init => Inv
  BY DEF Init, Inv, AcceptedIsArchived, RequestsAreGrounded, AcceptedNoticeIsTrue,
     CallsStayChecked, Checked, NoRequest, HasRequest, Idle
<1>2. TypeOK /\ Inv /\ [Next]_vars => Inv'
  <2> SUFFICES ASSUME TypeOK, Inv, [Next]_vars PROVE Inv'
    OBVIOUS
  <2>1. ASSUME NEW c \in Calls, Begin(c) \/ Step(c) \/ Fail(c) PROVE Inv'
    BY <2>1, BeginKeepsInv, ReadKeepsInv, CreateKeepsInv, AcceptKeepsInv,
       OverwriteKeepsInv, RemoveKeepsInv, NotifyKeepsInv DEF Step
  <2>2. ASSUME NEW x \in Cards, PublishCard(x) \/ HideCard(x) \/ DeleteCard(x) PROVE Inv'
    BY <2>2, CardStepKeepsInv
  <2>3. CASE UNCHANGED vars
    <3>1. CallsStayChecked'
      BY <2>3 DEF vars, Inv, CallsStayChecked, Checked, Connected, Requester, Receiver
    <3>2. QED
      BY <2>3, <3>1, RowsStay DEF vars, Inv
  <2>4. QED
    BY <2>1, <2>2, <2>3 DEF Next, Environment
<1>3. QED
  BY <1>1, <1>2, TypeCorrect, PTL DEF Spec

THEOREM AcceptedIsAlwaysArchived == Spec => []AcceptedIsArchived
BY InvHolds, PTL DEF Inv

(* Every request joins existing cards of two different users, although the  *)
(* cards are checked in separate reads before the insertion.                *)
THEOREM RequestsStayGrounded == Spec => []RequestsAreGrounded
BY InvHolds, PTL DEF Inv

(* What a call has checked before an await still holds after it, whatever   *)
(* the other calls did in between.                                          *)
THEOREM ChecksStayTrue == Spec => []CallsStayChecked
BY InvHolds, PTL DEF Inv

(* A notification of an acceptance is about a connection in the archive.    *)
THEOREM AcceptedNoticesAreTrue == Spec => []AcceptedNoticeIsTrue
BY InvHolds, PTL DEF Inv

-----------------------------------------------------------------------------
(* Which step writes which table. *)

LEMMA RequestWriters ==
    ASSUME [Next]_vars, ~UNCHANGED request
    PROVE  \/ \E c \in Calls : \/ CreateRequest(c) \/ ReviveRequest(c) \/ AcceptRequest(c)
                               \/ RejectRequest(c) \/ CancelRequest(c)
           \/ \E x \in Cards : DeleteCard(x)
BY DEF Next, vars, Environment, Begin, BeginCreate, BeginAnswer, BeginRemove, Enter, Fail,
       Step, FindRequesterCard, FindReceiverCard, FindRequestByCardPair, ReadToAccept,
       ReadToReject, ReadToCancel, FindConnectionById, SoftRemoveByUser, Notify,
       PublishCard, HideCard

LEMMA ConnectionWriters ==
    ASSUME [Next]_vars, ~UNCHANGED connection
    PROVE  \E c \in Calls : AcceptRequest(c) \/ SoftRemoveByUser(c)
BY DEF Next, vars, Environment, Begin, BeginCreate, BeginAnswer, BeginRemove, Enter, Fail,
       Step, FindRequesterCard, FindReceiverCard, FindRequestByCardPair, CreateRequest,
       ReviveRequest, ReadToAccept, ReadToReject, RejectRequest, ReadToCancel,
       CancelRequest, FindConnectionById, Notify, PublishCard, HideCard, DeleteCard

(* A late write that overwrote the status of a connected pair is final: no  *)
(* number of further requests and acceptances brings ACCEPTED back.         *)
THEOREM OverwrittenForever == Spec => OverwrittenStaysOverwritten
<1>1. ASSUME TypeOK, [Next]_vars, NEW p \in Pairs, Connected(p), request[p].status # "ACCEPTED"
      PROVE  request'[p].status # "ACCEPTED"
  <2>1. CASE UNCHANGED request
    BY <1>1, <2>1
  <2>2. ASSUME NEW c \in Calls, CreateRequest(c) \/ ReviveRequest(c)
        PROVE  request'[p].status # "ACCEPTED"
    BY <1>1, <2>2 DEF CreateRequest, ReviveRequest, TypeOK
  <2>3. ASSUME NEW c \in Calls, RejectRequest(c) \/ CancelRequest(c)
        PROVE  request'[p].status # "ACCEPTED"
    BY <1>1, <2>3 DEF RejectRequest, CancelRequest, TypeOK, Request
  <2>4. ASSUME NEW c \in Calls, AcceptRequest(c)
        PROVE  request'[p].status # "ACCEPTED"
    <3>1. CanAccept(c) => call[c].pair # p
      BY <1>1 DEF CanAccept
    <3>2. request'[p] = request[p]
      BY <1>1, <2>4, <3>1 DEF AcceptRequest, TypeOK
    <3>3. QED
      BY <1>1, <3>2
  <2>5. ASSUME NEW x \in Cards, DeleteCard(x)
        PROVE  request'[p].status # "ACCEPTED"
    BY <1>1, <2>5 DEF DeleteCard, NoRequest
  <2>6. QED
    BY <1>1, <2>1, <2>2, <2>3, <2>4, <2>5, RequestWriters
<1>2. TypeOK /\ [Next]_vars =>
        [\A p \in Pairs : Connected(p) /\ request[p].status # "ACCEPTED" =>
             request'[p].status # "ACCEPTED"]_vars
  BY <1>1
<1>3. QED
  BY <1>2, TypeCorrect, PTL DEF Spec, OverwrittenStaysOverwritten

(* Whoever changes a request is its party entitled to that change, although *)
(* the write is separated from the check.                                   *)
THEOREM PartiesOnly == Spec => OnlyPartiesAct
<1> DEFINE Acted(p) == \E c \in Calls : /\ call[c].pair = p
                                        /\ call[c].user = Author(p, request'[p].status)
                                        /\ call'[c] # call[c]
<1>1. ASSUME TypeOK, Inv, [Next]_vars, NEW p \in Pairs, request'[p] # request[p],
             HasRequest(p)'
      PROVE  Acted(p)
  <2>1. ASSUME NEW c \in Calls, CreateRequest(c) \/ ReviveRequest(c) PROVE Acted(p)
    <3>1. call[c].pair = p /\ request'[p].status = "PENDING"
      BY <1>1, <2>1 DEF CreateRequest, ReviveRequest, TypeOK
    <3>2. call[c].user = Requester(p)
      BY <1>1, <2>1, <3>1 DEF CreateRequest, ReviveRequest, At, Inv, CallsStayChecked, Checked
    <3>3. call'[c] # call[c]
      BY <1>1, <2>1, GotoMoves, ReturnMoves DEF CreateRequest, ReviveRequest, At, PC, Idle
    <3>4. QED
      BY <3>1, <3>2, <3>3 DEF Author
  <2>2. ASSUME NEW c \in Calls, AcceptRequest(c) \/ RejectRequest(c) PROVE Acted(p)
    <3>1. call[c].pair = p /\ request'[p].status \in {"ACCEPTED", "REJECTED"}
      BY <1>1, <2>2 DEF AcceptRequest, RejectRequest, TypeOK, Request
    <3>2. call[c].user = Receiver(p)
      BY <1>1, <2>2, <3>1 DEF AcceptRequest, RejectRequest, At, Inv, CallsStayChecked, Checked
    <3>3. call'[c] # call[c]
      BY <1>1, <2>2, GotoMoves, ReturnMoves DEF AcceptRequest, RejectRequest, At, PC, Idle
    <3>4. QED
      BY <3>1, <3>2, <3>3 DEF Author
  <2>3. ASSUME NEW c \in Calls, CancelRequest(c) PROVE Acted(p)
    <3>1. call[c].pair = p /\ request'[p].status = "CANCELED"
      BY <1>1, <2>3 DEF CancelRequest, TypeOK, Request
    <3>2. call[c].user = Requester(p)
      BY <1>1, <2>3, <3>1 DEF CancelRequest, At, Inv, CallsStayChecked, Checked
    <3>3. call'[c] # call[c]
      BY <1>1, <2>3, ReturnMoves DEF CancelRequest, At, Idle
    <3>4. QED
      BY <3>1, <3>2, <3>3 DEF Author
  <2>4. ASSUME NEW x \in Cards, DeleteCard(x) PROVE FALSE
    BY <1>1, <2>4 DEF DeleteCard, HasRequest, NoRequest
  <2>5. QED
    BY <1>1, <2>1, <2>2, <2>3, <2>4, RequestWriters
<1>2. TypeOK /\ Inv /\ [Next]_vars =>
        [\A p \in Pairs : request'[p] # request[p] /\ HasRequest(p)' => Acted(p)]_vars
  BY <1>1
<1>3. QED
  BY <1>2, TypeCorrect, InvHolds, PTL DEF Spec, OnlyPartiesAct

(* What the archive's specification sees of the calls.                      *)
Nothing == [op |-> "nothing", user |-> None, pair |-> None]

askedBar == [c \in Calls |-> Asked(c)]

LEMMA AskedMoves ==
    ASSUME NEW c \in Calls, \A d \in Calls \ {c} : call'[d] = call[d]
    PROVE  /\ askedBar' = [askedBar EXCEPT ![c] = Asked(c)']
           /\ Asked(c)' = Nothing => askedBar' = [askedBar EXCEPT ![c] = Nothing]
           /\ Asked(c)' = Asked(c) => askedBar' = askedBar
<1>1. \A d \in Calls \ {c} : Asked(d)' = Asked(d)
  BY DEF Asked, RequestTo
<1>2. QED
  BY <1>1 DEF askedBar, Nothing

(* A query that is answered either leaves a request standing or ends it.    *)
LEMMA RequestStandsOrEnds ==
    ASSUME TypeOK, NEW c \in Calls, Step(c) \/ Fail(c)
    PROVE  /\ \A d \in Calls \ {c} : call'[d] = call[d]
           /\ Asked(c)' \in {Nothing, Asked(c)}
           /\ AcceptRequest(c) \/ SoftRemoveByUser(c) => Asked(c)' = Nothing
<1> DEFINE Others == \A d \in Calls \ {c} : call'[d] = call[d]
<1>1. ASSUME Return(c) PROVE Others /\ Asked(c)' = Nothing
  BY <1>1, ReturnMoves DEF Asked, Idle, Nothing
<1>2. ASSUME NEW pc \in PC, Goto(c, pc), ~At(c, "idle")
      PROVE  /\ Others /\ call'[c].pc = pc
             /\ call'[c].user = call[c].user /\ call'[c].pair = call[c].pair
  BY <1>2, GotoMoves
<1>3. CASE FindRequesterCard(c) \/ FindReceiverCard(c) \/ FindRequestByCardPair(c)
           \/ CreateRequest(c) \/ ReviveRequest(c) \/ AcceptRequest(c)
           \/ ReadToReject(c) \/ RejectRequest(c) \/ ReadToCancel(c) \/ CancelRequest(c)
           \/ SoftRemoveByUser(c) \/ Notify(c) \/ Fail(c)
  <2>1. \/ Return(c)
        \/ /\ ~At(c, "idle")
           /\ \E pc \in PC \ {"readToAccept", "acceptRequest", "findConnectionById",
                             "softRemoveByUser"} : Goto(c, pc)
    BY <1>3 DEF FindRequesterCard, FindReceiverCard, FindRequestByCardPair, CreateRequest,
       ReviveRequest, AcceptRequest, ReadToReject, RejectRequest, ReadToCancel,
       CancelRequest, SoftRemoveByUser, Notify, Fail, At, PC
  <2>2. QED
    BY <1>1, <1>2, <2>1 DEF Asked, Nothing
<1>4. CASE ReadToAccept(c)
  <2>1. At(c, "readToAccept") /\ ~AcceptRequest(c) /\ ~SoftRemoveByUser(c)
    BY <1>4 DEF ReadToAccept, AcceptRequest, SoftRemoveByUser, At
  <2>2. CASE IsMyPending(c)
    BY <1>4, <2>1, <2>2, ReadToAcceptMoves DEF Asked, RequestTo, At
  <2>3. CASE ~IsMyPending(c)
    BY <1>1, <1>4, <2>1, <2>3 DEF ReadToAccept
  <2>4. QED
    BY <2>2, <2>3
<1>5. CASE FindConnectionById(c)
  <2>1. At(c, "findConnectionById") /\ ~AcceptRequest(c) /\ ~SoftRemoveByUser(c)
    BY <1>5 DEF FindConnectionById, AcceptRequest, SoftRemoveByUser, At
  <2>2. CASE Goto(c, "softRemoveByUser")
    BY <1>2, <2>1, <2>2 DEF Asked, RequestTo, At, PC
  <2>3. QED
    BY <1>1, <1>5, <2>1, <2>2 DEF FindConnectionById
<1>6. QED
  BY <1>3, <1>4, <1>5 DEF Step

LEMMA BeginAsks ==
    ASSUME TypeOK, NEW c \in Calls, Begin(c)
    PROVE  UNCHANGED askedBar \/ Archive!Ask(c)
<1>1. PICK u \in Users, p \in Pairs, m \in Messages \cup {None}, pc \in PC :
         Enter(c, u, p, m, pc)
  BY DEF Begin, BeginCreate, BeginAnswer, BeginRemove, PC
<1>2. /\ call'[c] = [pc |-> pc, user |-> u, pair |-> p, message |-> m]
      /\ \A d \in Calls \ {c} : call'[d] = call[d]
      /\ UNCHANGED connection
      /\ Asked(c) = Nothing
  BY <1>1, EnterMoves DEF Enter, At, Asked, Nothing
<1>3. CASE Asked(c)' = Nothing
  BY <1>2, <1>3, AskedMoves
<1>4. CASE Asked(c)' # Nothing
  <2>1. Asked(c)' \in Archive!Request
    BY <1>2, <1>4 DEF Asked, Nothing, RequestTo, Archive!Request, Archive!Pairs, Pairs
  <2>2. QED
    BY <1>2, <2>1, AskedMoves DEF Archive!Ask, Archive!Nothing, Nothing, askedBar
<1>5. QED
  BY <1>3, <1>4

(* An acceptance is the receiver's, who asked for it.                       *)
LEMMA AcceptIsArchived ==
    ASSUME TypeOK, Inv, NEW c \in Calls, AcceptRequest(c)
    PROVE  Archive!Drop(c) \/ Archive!Accept(c)
<1> DEFINE p == call[c].pair
<1>1. call[c] \in Running /\ Checked(c)
  BY RunningCall DEF AcceptRequest, At, Inv, CallsStayChecked
<1>2. askedBar' = [askedBar EXCEPT ![c] = Nothing]
  BY RequestStandsOrEnds, AskedMoves DEF Step
<1>3. CASE ~CanAccept(c)
  BY <1>2, <1>3 DEF AcceptRequest, Archive!Drop, Archive!Nothing, Nothing, askedBar
<1>4. CASE CanAccept(c)
  <2>1. /\ ~connection[p].established
        /\ connection' = [connection EXCEPT
              ![p] = [established |-> TRUE, message |-> call[c].message, removed |-> {}]]
    BY <1>4 DEF AcceptRequest, CanAccept, Connected
  <2>2. Asked(c).op = "accept" /\ Asked(c).user = call[c].user /\ Asked(c).pair = p
    BY DEF Asked, RequestTo, AcceptRequest, At
  <2>3. call[c].user = Owner[p[2]] /\ call[c].message \in Messages \cup {None}
    BY <1>1 DEF Checked, Receiver, AcceptRequest, At, Running
  <2>4. QED
    BY <1>2, <2>1, <2>2, <2>3
    DEF Archive!Accept, Archive!IsAsked, Archive!Nothing, Nothing, askedBar
<1>5. QED
  BY <1>3, <1>4

(* A removal hides the connection on the side of the user who asked for it. *)
LEMMA RemoveIsOnesOwn ==
    ASSUME TypeOK, Inv, NEW c \in Calls, SoftRemoveByUser(c)
    PROVE  Archive!Remove(c)
<1> DEFINE p == call[c].pair
           u == call[c].user
<1>1. call[c] \in Running /\ Checked(c)
  BY RunningCall DEF SoftRemoveByUser, At, Inv, CallsStayChecked
<1>2. askedBar' = [askedBar EXCEPT ![c] = Nothing]
  BY RequestStandsOrEnds, AskedMoves DEF Step
<1>3. Asked(c).op = "remove" /\ Asked(c).user = u /\ Asked(c).pair = p
  BY DEF Asked, RequestTo, SoftRemoveByUser, At
<1>4. connection[p].established /\ u \in {Requester(p), Receiver(p)}
  BY <1>1 DEF Checked, Connected, SoftRemoveByUser, At
<1>5. SideOf(u, p) \in Archive!SidesOf(u, p)
  BY <1>4 DEF SideOf, Archive!SidesOf, Requester, Receiver
<1>6. connection' = [connection EXCEPT ![p].removed = @ \cup {SideOf(u, p)}]
  BY DEF SoftRemoveByUser
<1>7. QED
  BY <1>2, <1>3, <1>4, <1>5, <1>6
  DEF Archive!Remove, Archive!IsAsked, Archive!Nothing, Nothing, askedBar

(* The archive implements its abstract specification under any overlap: a   *)
(* row appears at its receiver's request, stays, and is hidden on one side  *)
(* at the request of the user on that side (connections.service.ts:41-64).  *)
THEOREM ArchiveRefinement == Spec => ArchiveIsAppendOnly
<1>1. Init => Archive!Init
  BY DEF Init, Archive!Init, Archive!Pairs, Pairs, NoConnection, Asked, Idle, Archive!Nothing
<1>2. TypeOK /\ Inv /\ [Next]_vars => [Archive!Next]_<<connection, askedBar>>
  <2> SUFFICES ASSUME TypeOK, Inv, [Next]_vars
               PROVE  UNCHANGED <<connection, askedBar>> \/ Archive!Next
    OBVIOUS
  <2>1. ASSUME NEW c \in Calls, Begin(c)
        PROVE  UNCHANGED <<connection, askedBar>> \/ Archive!Next
    BY <2>1, BeginAsks DEF Archive!Next, Begin, BeginCreate, BeginAnswer, BeginRemove, Enter
  <2>2. ASSUME NEW c \in Calls, AcceptRequest(c) \/ SoftRemoveByUser(c)
        PROVE  Archive!Next
    BY <2>2, AcceptIsArchived, RemoveIsOnesOwn DEF Archive!Next
  <2>3. ASSUME NEW c \in Calls, Step(c) \/ Fail(c), UNCHANGED connection
        PROVE  UNCHANGED <<connection, askedBar>> \/ Archive!Next
    <3>1. UNCHANGED askedBar \/ askedBar' = [askedBar EXCEPT ![c] = Nothing]
      BY <2>3, RequestStandsOrEnds, AskedMoves
    <3>2. QED
      BY <2>3, <3>1 DEF Archive!Next, Archive!Drop, Archive!Nothing, Nothing, askedBar
  <2>4. CASE UNCHANGED <<connection, call>>
    BY <2>4 DEF askedBar, Asked, RequestTo
  <2>5. QED
    BY <2>1, <2>2, <2>3, <2>4, ConnectionWriters
    DEF Next, vars, Environment, PublishCard, HideCard, DeleteCard
<1>3. QED
  BY <1>1, <1>2, TypeCorrect, InvHolds, PTL
  DEF Spec, ArchiveIsAppendOnly, Archive!Spec, askedBar

-----------------------------------------------------------------------------
(* Why calls return, as far as no fairness is needed. *)

(* The most queries a handler awaits from here on.                          *)
QueriesLeft(pc) ==
    CASE pc = "findRequesterCard" -> 5
      [] pc = "findReceiverCard" -> 4
      [] pc \in {"findRequestByCardPair", "readToAccept", "readToReject"} -> 3
      [] pc \in {"createRequest", "reviveRequest", "acceptRequest", "rejectRequest",
                 "readToCancel", "findConnectionById"} -> 2
      [] pc \in {"cancelRequest", "softRemoveByUser", "notifyRequested",
                 "notifyAccepted", "notifyRejected"} -> 1
      [] OTHER -> 0

Advances(c) == QueriesLeft(call'[c].pc) < QueriesLeft(call[c].pc)

(* A query that is answered leaves fewer to come, and nothing else moves a  *)
(* handler, except to its end.                                              *)
CallsAdvance ==
    [][\A c \in Calls : /\ Step(c) => Advances(c)
                        /\ At(c, "idle") \/ UNCHANGED call[c] \/ Advances(c)]_vars

(* The call has moved, and it alone.                                        *)
MovesOn(c) == Advances(c) /\ \A d \in Calls \ {c} : call'[d] = call[d]

LEMMA ReturnAdvances ==
    ASSUME TypeOK, NEW c \in Calls, ~At(c, "idle"), Return(c)
    PROVE  MovesOn(c)
<1>1. QueriesLeft(call[c].pc) > 0
  BY RunningCall DEF QueriesLeft, Running, PC
<1>2. QueriesLeft(Idle.pc) = 0
  BY DEF QueriesLeft, Idle
<1>3. QED
  BY <1>1, <1>2, ReturnMoves DEF Advances, MovesOn

LEMMA GotoAdvances ==
    ASSUME TypeOK, NEW c \in Calls, ~At(c, "idle"), NEW pc \in PC, Goto(c, pc),
           QueriesLeft(pc) < QueriesLeft(call[c].pc)
    PROVE  MovesOn(c)
BY GotoMoves DEF Advances, MovesOn

LEMMA StepAdvances ==
    ASSUME TypeOK, NEW c \in Calls, Step(c)
    PROVE  MovesOn(c)
<1>1. ASSUME ~At(c, "idle"), Return(c)
      PROVE  MovesOn(c)
  BY <1>1, ReturnAdvances
<1>2. ASSUME ~At(c, "idle"), NEW pc \in PC, Goto(c, pc),
             QueriesLeft(pc) < QueriesLeft(call[c].pc)
      PROVE  MovesOn(c)
  BY <1>2, GotoAdvances
<1>3. CASE FindRequesterCard(c)
  BY <1>1, <1>2, <1>3 DEF FindRequesterCard, At, PC, QueriesLeft
<1>4. CASE FindReceiverCard(c)
  BY <1>1, <1>2, <1>4 DEF FindReceiverCard, At, PC, QueriesLeft
<1>5. CASE FindRequestByCardPair(c)
  BY <1>1, <1>2, <1>5 DEF FindRequestByCardPair, At, PC, QueriesLeft
<1>6. CASE CreateRequest(c) \/ ReviveRequest(c)
  BY <1>1, <1>2, <1>6 DEF CreateRequest, ReviveRequest, At, PC, QueriesLeft
<1>7. CASE ReadToAccept(c)
  <2>1. CASE IsMyPending(c)
    BY <1>7, <2>1, ReadToAcceptMoves DEF ReadToAccept, At, QueriesLeft, Advances, MovesOn
  <2>2. CASE ~IsMyPending(c)
    BY <1>1, <1>7, <2>2 DEF ReadToAccept, At
  <2>3. QED
    BY <2>1, <2>2
<1>8. CASE AcceptRequest(c)
  BY <1>1, <1>2, <1>8 DEF AcceptRequest, At, PC, QueriesLeft
<1>9. CASE ReadToReject(c) \/ RejectRequest(c)
  BY <1>1, <1>2, <1>9 DEF ReadToReject, RejectRequest, At, PC, QueriesLeft
<1>10. CASE ReadToCancel(c)
  BY <1>1, <1>2, <1>10 DEF ReadToCancel, At, PC, QueriesLeft
<1>11. CASE FindConnectionById(c)
  BY <1>1, <1>2, <1>11 DEF FindConnectionById, At, PC, QueriesLeft
<1>12. CASE CancelRequest(c) \/ SoftRemoveByUser(c) \/ Notify(c)
  BY <1>1, <1>12 DEF CancelRequest, SoftRemoveByUser, Notify, At
<1>13. QED
  BY <1>3, <1>4, <1>5, <1>6, <1>7, <1>8, <1>9, <1>10, <1>11, <1>12 DEF Step

(* However calls overlap and cards come and go between its awaits, no       *)
(* handler of connection-requests.service.ts or connections.service.ts goes *)
(* back to a query: a request takes five at most.  What is left of          *)
(* CallsReturn is that every query is answered.                             *)
THEOREM HandlersAdvance == Spec => CallsAdvance
<1>1. ASSUME TypeOK, [Next]_vars, NEW c \in Calls
      PROVE  /\ Step(c) => Advances(c)
             /\ At(c, "idle") \/ UNCHANGED call[c] \/ Advances(c)
  <2>1. Step(c) => Advances(c)
    BY <1>1, StepAdvances DEF MovesOn
  <2>2. ASSUME ~At(c, "idle")
        PROVE  UNCHANGED call[c] \/ Advances(c)
    <3>1. CASE UNCHANGED vars \/ Environment
      BY <3>1 DEF vars, Environment, PublishCard, HideCard, DeleteCard
    <3>2. ASSUME NEW d \in Calls, Begin(d)
          PROVE  UNCHANGED call[c]
      BY <1>1, <2>2, <3>2 DEF Begin, BeginCreate, BeginAnswer, BeginRemove, Enter, At, TypeOK
    <3>3. ASSUME NEW d \in Calls, Step(d)
          PROVE  UNCHANGED call[c] \/ Advances(c)
      BY <1>1, <3>3, StepAdvances DEF MovesOn
    <3>4. ASSUME NEW d \in Calls, Fail(d)
          PROVE  UNCHANGED call[c] \/ Advances(c)
      BY <1>1, <3>4, ReturnAdvances DEF Fail, MovesOn
    <3>5. QED
      BY <1>1, <3>1, <3>2, <3>3, <3>4 DEF Next
  <2>3. QED
    BY <2>1, <2>2
<1>2. TypeOK /\ [Next]_vars =>
        [\A c \in Calls : /\ Step(c) => Advances(c)
                          /\ At(c, "idle") \/ UNCHANGED call[c] \/ Advances(c)]_vars
  BY <1>1
<1>3. QED
  BY <1>2, TypeCorrect, PTL DEF Spec, CallsAdvance

-----------------------------------------------------------------------------
(* One call at a time: what the check-then-act handlers guarantee when      *)
(* calls never overlap.  A request then follows its lifecycle, while cards  *)
(* still come and go between two awaits of the one running call.            *)

OneCall == \A c, d \in Calls : c = d

(* What the running call read is still so, unless a card was deleted.       *)
Fresh(c) ==
    LET p == call[c].pair
        pc == call[c].pc IN
    /\ pc \in {"acceptRequest", "rejectRequest", "cancelRequest"} =>
          request[p].status \in {"PENDING", "absent"}
    /\ pc = "reviveRequest" => request[p].status \in {"REJECTED", "CANCELED", "absent"}
    /\ pc = "acceptRequest" /\ HasRequest(p) => call[c].message = request[p].message

(* A connected pair keeps its ACCEPTED request until a card is deleted. *)
AnswerIsFinal ==
    \A p \in Pairs : Connected(p) =>
        \/ request[p].status = "ACCEPTED"
        \/ ~HasRequest(p) /\ ~(Exists(p[1]) /\ Exists(p[2]))

SequentialInv ==
    /\ AnswerIsFinal
    /\ ArchivedMessageIsTheRequests
    /\ \A c \in Calls : Fresh(c)

LEMMA RowsStayFinal ==
    ASSUME SequentialInv, UNCHANGED <<card, request, connection>>
    PROVE  AnswerIsFinal' /\ ArchivedMessageIsTheRequests'
BY DEF SequentialInv, AnswerIsFinal, ArchivedMessageIsTheRequests, Connected, HasRequest, Exists

(* A step of the only call sets the only slot. *)
LEMMA OnlyCallIsFresh ==
    ASSUME OneCall, NEW c \in Calls, Fresh(c)'
    PROVE  \A d \in Calls : Fresh(d)'
BY DEF OneCall

LEMMA ElsewhereIsFresh ==
    ASSUME NEW c \in Calls,
           call'[c].pc \notin {"acceptRequest", "rejectRequest", "cancelRequest", "reviveRequest"}
    PROVE  Fresh(c)'
BY DEF Fresh

LEMMA ReadKeepsSequentialInv ==
    ASSUME OneCall, TypeOK, SequentialInv, NEW c \in Calls,
           \/ Begin(c) \/ FindRequesterCard(c) \/ FindReceiverCard(c)
           \/ FindRequestByCardPair(c) \/ ReadToAccept(c) \/ ReadToReject(c)
           \/ ReadToCancel(c) \/ FindConnectionById(c) \/ Notify(c) \/ Fail(c)
    PROVE  SequentialInv'
<1>1. UNCHANGED <<card, request, connection>>
  BY DEF Begin, BeginCreate, BeginAnswer, BeginRemove, Enter, FindRequesterCard,
         FindReceiverCard, FindRequestByCardPair, ReadToAccept, ReadToReject,
         ReadToCancel, FindConnectionById, Notify, Fail
<1>2. Fresh(c)'
  <2>1. CASE Return(c)
    BY <2>1, ReturnMoves, ElsewhereIsFresh DEF Idle
  <2>2. CASE Begin(c)
    <3>1. PICK u \in Users, p \in Pairs, m \in Messages \cup {None},
               pc \in {"findRequesterCard", "readToAccept", "readToReject",
                       "readToCancel", "findConnectionById"} : Enter(c, u, p, m, pc)
      <4>1. CASE BeginCreate(c)
        BY <4>1 DEF BeginCreate
      <4>2. CASE BeginAnswer(c)
        <5>1. PICK u \in Users, p \in Pairs,
                   pc \in {"readToAccept", "readToReject", "readToCancel"} :
                 Enter(c, u, p, None, pc)
          BY <4>2 DEF BeginAnswer
        <5>2. QED
          BY <5>1
      <4>3. CASE BeginRemove(c)
        BY <4>3 DEF BeginRemove
      <4>4. QED
        BY <2>2, <4>1, <4>2, <4>3 DEF Begin
    <3>2. call'[c].pc = pc
      BY <3>1 DEF Enter, TypeOK
    <3>3. QED
      BY <3>2, ElsewhereIsFresh
  <2>3. CASE (FindRequesterCard(c) \/ FindReceiverCard(c) \/ FindConnectionById(c)) /\ ~Return(c)
    BY <2>3, GotoMoves, ElsewhereIsFresh
    DEF FindRequesterCard, FindReceiverCard, FindConnectionById, At, PC
  <2>4. CASE FindRequestByCardPair(c) /\ ~Return(c)
    <3>1. call[c] \in Running
      BY <2>4, RunningCall DEF FindRequestByCardPair, At
    <3>2. request[call[c].pair] \in Request
      BY <3>1 DEF Running, TypeOK
    <3>3. \/ Goto(c, "createRequest")
          \/ Goto(c, "reviveRequest") /\ request[call[c].pair].status \in {"REJECTED", "CANCELED"}
      BY <2>4, <3>2 DEF FindRequestByCardPair, Request, Answers
    <3>4. QED
      BY <1>1, <2>4, <3>3, GotoMoves DEF FindRequestByCardPair, At, PC, Fresh
  <2>5. CASE ReadToAccept(c) /\ ~Return(c)
    <3>1. IsMyPending(c)
      BY <2>5 DEF ReadToAccept
    <3>2. call'[c].message = request[call[c].pair].message
      BY <2>5, <3>1, RunningCall DEF ReadToAccept, TypeOK, At, Running
    <3>3. QED
      BY <1>1, <2>5, <3>1, <3>2, ReadToAcceptMoves DEF IsMyPending, Fresh
  <2>6. CASE (ReadToReject(c) \/ ReadToCancel(c)) /\ ~Return(c)
    BY <1>1, <2>6, GotoMoves DEF ReadToReject, ReadToCancel, IsMyPending, At, PC, Fresh
  <2>7. QED
    BY <2>1, <2>2, <2>3, <2>4, <2>5, <2>6 DEF Notify, Fail
<1>3. QED
  BY <1>1, <1>2, RowsStayFinal, OnlyCallIsFresh DEF SequentialInv

LEMMA WriteKeepsSequentialInv ==
    ASSUME OneCall, TypeOK, SequentialInv, NEW c \in Calls,
           \/ CreateRequest(c) \/ ReviveRequest(c) \/ AcceptRequest(c)
           \/ RejectRequest(c) \/ CancelRequest(c)
    PROVE  SequentialInv'
<1>1. call[c] \in Running /\ Fresh(c)
  BY RunningCall DEF CreateRequest, ReviveRequest, AcceptRequest, RejectRequest,
     CancelRequest, At, SequentialInv
<1> PICK p \in Pairs : p = call[c].pair
  BY <1>1 DEF Running
<1>2. call'[c] = Idle \/ call'[c].pc \in {"notifyRequested", "notifyAccepted", "notifyRejected"}
  BY GotoMoves, ReturnMoves
  DEF CreateRequest, ReviveRequest, AcceptRequest, RejectRequest, CancelRequest, At, PC
<1>3. \A d \in Calls : Fresh(d)'
  BY <1>2, ElsewhereIsFresh, OnlyCallIsFresh DEF Idle
<1>4. CASE UNCHANGED <<request, connection>>
  BY <1>3, <1>4, RowsStayFinal
  DEF SequentialInv, CreateRequest, ReviveRequest, AcceptRequest, RejectRequest, CancelRequest
<1>5. CASE AcceptRequest(c) /\ ~UNCHANGED <<request, connection>>
  <2>1. /\ CanAccept(c)
        /\ request' = [request EXCEPT ![p].status = "ACCEPTED"]
        /\ connection' = [connection EXCEPT
              ![p] = [established |-> TRUE, message |-> call[c].message, removed |-> {}]]
        /\ UNCHANGED card
    BY <1>5 DEF AcceptRequest
  <2>2. /\ request'[p].status = "ACCEPTED"
        /\ request'[p].message = request[p].message
        /\ connection'[p].message = call[c].message
        /\ \A q \in Pairs \ {p} : request'[q] = request[q] /\ connection'[q] = connection[q]
    BY <2>1 DEF TypeOK, Request
  <2>3. call[c].message = request[p].message
    BY <1>1, <1>5, <2>1 DEF AcceptRequest, At, Fresh, CanAccept
  <2>4. AnswerIsFinal'
    BY <2>1, <2>2 DEF SequentialInv, AnswerIsFinal, Connected, HasRequest, Exists
  <2>5. ArchivedMessageIsTheRequests'
    BY <2>1, <2>2, <2>3 DEF SequentialInv, ArchivedMessageIsTheRequests, Connected, HasRequest
  <2>6. QED
    BY <1>3, <2>4, <2>5 DEF SequentialInv
<1>6. CASE ~AcceptRequest(c) /\ ~UNCHANGED <<request, connection>>
  <2>1. /\ UNCHANGED <<card, connection>>
        /\ \A q \in Pairs \ {p} : request'[q] = request[q]
    BY <1>6 DEF CreateRequest, ReviveRequest, RejectRequest, CancelRequest, TypeOK
  <2>2. ~Connected(p)
    <3>1. CASE CreateRequest(c)
      BY <1>6, <3>1 DEF CreateRequest, CanInsert, SequentialInv, AnswerIsFinal, HasRequest
    <3>2. CASE ReviveRequest(c) \/ RejectRequest(c) \/ CancelRequest(c)
      BY <1>1, <1>6, <3>2
      DEF ReviveRequest, RejectRequest, CancelRequest, At, Fresh, SequentialInv,
          AnswerIsFinal, HasRequest
    <3>3. QED
      BY <1>6, <3>1, <3>2
  <2>3. AnswerIsFinal' /\ ArchivedMessageIsTheRequests'
    BY <2>1, <2>2 DEF SequentialInv, AnswerIsFinal, ArchivedMessageIsTheRequests,
       Connected, HasRequest, Exists
  <2>4. QED
    BY <1>3, <2>3 DEF SequentialInv
<1>7. QED
  BY <1>4, <1>5, <1>6

LEMMA RemoveKeepsSequentialInv ==
    ASSUME OneCall, TypeOK, SequentialInv, NEW c \in Calls, SoftRemoveByUser(c)
    PROVE  SequentialInv'
<1>1. \A d \in Calls : Fresh(d)'
  BY ReturnMoves, ElsewhereIsFresh, OnlyCallIsFresh DEF SoftRemoveByUser, Idle
<1>2. \A q \in Pairs : /\ Connected(q)' = Connected(q)
                       /\ connection'[q].message = connection[q].message
  BY DEF SoftRemoveByUser, TypeOK, Connected, Connection
<1>3. AnswerIsFinal' /\ ArchivedMessageIsTheRequests'
  BY <1>2 DEF SoftRemoveByUser, SequentialInv, AnswerIsFinal, ArchivedMessageIsTheRequests,
     HasRequest, Exists
<1>4. QED
  BY <1>1, <1>3 DEF SequentialInv

LEMMA CardStepKeepsSequentialInv ==
    ASSUME TypeOK, Inv, SequentialInv, NEW x \in Cards,
           PublishCard(x) \/ HideCard(x) \/ DeleteCard(x)
    PROVE  SequentialInv'
<1>1. UNCHANGED <<connection, call>>
  BY DEF PublishCard, HideCard, DeleteCard
<1>2. CASE PublishCard(x) \/ HideCard(x)
  <2>1. UNCHANGED request /\ \A y \in Cards : Exists(y)' = Exists(y)
    BY <1>2 DEF PublishCard, HideCard, Exists, TypeOK
  <2>2. QED
    BY <1>1, <2>1 DEF SequentialInv, AnswerIsFinal, ArchivedMessageIsTheRequests, Fresh,
       Connected, HasRequest, Pairs
<1>3. CASE DeleteCard(x)
  <2>1. \A p \in Pairs : \/ ~HasRequest(p)' /\ x \in {p[1], p[2]}
                         \/ request'[p] = request[p] /\ x \notin {p[1], p[2]}
    BY <1>3 DEF DeleteCard, HasRequest, NoRequest
  <2>2. ~Exists(x)' /\ \A y \in Cards \ {x} : Exists(y)' = Exists(y)
    BY <1>3 DEF DeleteCard, Exists, TypeOK
  <2>3. AnswerIsFinal'
    BY <1>1, <2>1, <2>2 DEF SequentialInv, AnswerIsFinal, Connected, HasRequest, Pairs
  <2>4. ArchivedMessageIsTheRequests'
    BY <1>1, <2>1 DEF SequentialInv, ArchivedMessageIsTheRequests, Connected, HasRequest
  <2>5. ASSUME NEW c \in Calls PROVE Fresh(c)'
    <3>1. CASE call[c].pc \in {"acceptRequest", "rejectRequest", "cancelRequest", "reviveRequest"}
      <4>1. call[c].pair \in Pairs /\ Fresh(c)
        BY <3>1 DEF TypeOK, Running, Idle, SequentialInv
      <4>2. QED
        BY <1>1, <2>1, <4>1 DEF Fresh, HasRequest
    <3>2. CASE call[c].pc \notin {"acceptRequest", "rejectRequest", "cancelRequest", "reviveRequest"}
      BY <1>1, <3>2 DEF Fresh
    <3>3. QED
      BY <3>1, <3>2
  <2>6. QED
    BY <2>3, <2>4, <2>5 DEF SequentialInv
<1>4. QED
  BY <1>2, <1>3

(* While calls never overlap, an accepted request stays accepted and the    *)
(* archive keeps the message it carries.                                    *)
THEOREM SequentialInvHolds == ASSUME OneCall PROVE Spec => []SequentialInv
<1>1. Init => SequentialInv
  BY DEF Init, SequentialInv, AnswerIsFinal, ArchivedMessageIsTheRequests, Fresh, Connected,
     NoConnection, Idle
<1>2. TypeOK /\ Inv /\ SequentialInv /\ [Next]_vars => SequentialInv'
  <2> SUFFICES ASSUME TypeOK, Inv, SequentialInv, [Next]_vars PROVE SequentialInv'
    OBVIOUS
  <2>1. ASSUME NEW c \in Calls, Begin(c) \/ Step(c) \/ Fail(c) PROVE SequentialInv'
    BY <2>1, ReadKeepsSequentialInv, WriteKeepsSequentialInv, RemoveKeepsSequentialInv DEF Step
  <2>2. ASSUME NEW x \in Cards, PublishCard(x) \/ HideCard(x) \/ DeleteCard(x)
        PROVE  SequentialInv'
    BY <2>2, CardStepKeepsSequentialInv
  <2>3. CASE UNCHANGED vars
    BY <2>3 DEF vars, SequentialInv, AnswerIsFinal, ArchivedMessageIsTheRequests, Fresh,
       Connected, HasRequest, Exists
  <2>4. QED
    BY <2>1, <2>2, <2>3 DEF Next, Environment
<1>3. QED
  BY <1>1, <1>2, TypeCorrect, InvHolds, PTL DEF Spec

(* While calls never overlap, the archive and the request agree on the      *)
(* message of the connection.                                               *)
THEOREM ArchivedMessageKept == ASSUME OneCall PROVE Spec => []ArchivedMessageIsTheRequests
BY SequentialInvHolds, PTL DEF SequentialInv

-----------------------------------------------------------------------------
(* Refinement of the request lifecycle. *)

statusBar == [p \in Pairs |-> request[p].status]
connectedBar == {p \in Pairs : Connected(p)}

LEMMA StatusMoves ==
    ASSUME TypeOK, NEW p \in Pairs, NEW s, UNCHANGED <<card, connection>>,
           request' \in [Pairs -> Request], request'[p].status = s,
           \A q \in Pairs \ {p} : request'[q] = request[q]
    PROVE  /\ statusBar' = [statusBar EXCEPT ![p] = s]
           /\ connectedBar' = connectedBar
BY DEF statusBar, connectedBar, Connected, TypeOK

(* A call's write is the lifecycle operation of the handler it belongs to.  *)
LEMMA WriteIsLifecycleStep ==
    ASSUME OneCall, TypeOK, TypeOK', SequentialInv, NEW c \in Calls,
           \/ CreateRequest(c) \/ ReviveRequest(c) \/ RejectRequest(c) \/ CancelRequest(c),
           ~UNCHANGED request
    PROVE  Lifecycle!Next
<1>1. call[c] \in Running /\ Fresh(c)
  BY RunningCall DEF CreateRequest, ReviveRequest, RejectRequest, CancelRequest, At, SequentialInv
<1> PICK p \in Pairs : p = call[c].pair
  BY <1>1 DEF Running
<1>2. /\ UNCHANGED <<card, connection>>
      /\ request' \in [Pairs -> Request]
      /\ \A q \in Pairs \ {p} : request'[q] = request[q]
  BY DEF CreateRequest, ReviveRequest, RejectRequest, CancelRequest, TypeOK
<1>3. ~Connected(p) => p \notin connectedBar
  BY DEF connectedBar
<1>4. CASE CreateRequest(c) \/ ReviveRequest(c)
  <2>1. request'[p].status = "PENDING"
    BY <1>4 DEF CreateRequest, ReviveRequest, TypeOK
  <2>2. request[p].status \in {"absent", "REJECTED", "CANCELED"} /\ ~Connected(p)
    BY <1>1, <1>4 DEF CreateRequest, ReviveRequest, CanInsert, At, Fresh, SequentialInv,
       AnswerIsFinal, HasRequest
  <2>3. statusBar' = [statusBar EXCEPT ![p] = "PENDING"] /\ connectedBar' = connectedBar
    BY <1>2, <2>1, StatusMoves
  <2>4. Lifecycle!Send(p)
    BY <1>3, <2>2, <2>3 DEF Lifecycle!Send, Lifecycle!Move, statusBar, connectedBar
  <2>5. QED
    BY <2>4 DEF Lifecycle!Next, Lifecycle!Pairs, Pairs
<1>5. CASE RejectRequest(c) \/ CancelRequest(c)
  <2>1. PICK s \in {"REJECTED", "CANCELED"} :
          /\ request'[p].status = s
          /\ s = "REJECTED" <=> RejectRequest(c)
    BY <1>5 DEF RejectRequest, CancelRequest, At, TypeOK, Request
  <2>2. request[p].status = "PENDING" /\ ~Connected(p)
    BY <1>1, <1>5 DEF RejectRequest, CancelRequest, At, Fresh, SequentialInv, AnswerIsFinal,
       HasRequest
  <2>3. statusBar' = [statusBar EXCEPT ![p] = s] /\ connectedBar' = connectedBar
    BY <1>2, <2>1, StatusMoves
  <2>4. Lifecycle!Reject(p) \/ Lifecycle!Cancel(p)
    BY <1>3, <2>2, <2>3
    DEF Lifecycle!Reject, Lifecycle!Cancel, Lifecycle!Move, statusBar, connectedBar
  <2>5. QED
    BY <2>4 DEF Lifecycle!Next, Lifecycle!Pairs, Pairs
<1>6. QED
  BY <1>4, <1>5

LEMMA AcceptIsLifecycleStep ==
    ASSUME OneCall, TypeOK, SequentialInv, NEW c \in Calls, AcceptRequest(c),
           ~UNCHANGED <<request, connection>>
    PROVE  Lifecycle!Next
<1>1. call[c] \in Running /\ Fresh(c)
  BY RunningCall DEF AcceptRequest, At, SequentialInv
<1> PICK p \in Pairs : p = call[c].pair
  BY <1>1 DEF Running
<1>2. /\ CanAccept(c)
      /\ request' = [request EXCEPT ![p].status = "ACCEPTED"]
      /\ connection' = [connection EXCEPT
            ![p] = [established |-> TRUE, message |-> call[c].message, removed |-> {}]]
  BY DEF AcceptRequest
<1>3. request[p].status = "PENDING" /\ ~Connected(p)
  BY <1>1, <1>2 DEF AcceptRequest, At, Fresh, CanAccept, HasRequest
<1>4. statusBar' = [statusBar EXCEPT ![p] = "ACCEPTED"]
  BY <1>2 DEF statusBar, TypeOK, Request
<1>5. connectedBar' = connectedBar \cup {p}
  BY <1>2 DEF connectedBar, Connected, TypeOK
<1>6. Lifecycle!Accept(p)
  BY <1>3, <1>4, <1>5 DEF Lifecycle!Accept, Lifecycle!Move, statusBar, connectedBar
<1>7. QED
  BY <1>6 DEF Lifecycle!Next, Lifecycle!Pairs, Pairs

(* One call at a time, and with cards changing between its awaits, the      *)
(* handlers implement the lifecycle in which every operation is atomic.     *)
THEOREM LifecycleRefinement == ASSUME OneCall PROVE Spec => RequestsFollowLifecycle
<1>1. Init => Lifecycle!Init
  BY DEF Init, Lifecycle!Init, Lifecycle!Pairs, Pairs, NoRequest, NoConnection, Connected
<1>2. TypeOK /\ TypeOK' /\ SequentialInv /\ [Next]_vars =>
        [Lifecycle!Next]_<<statusBar, connectedBar>>
  <2> SUFFICES ASSUME TypeOK, TypeOK', SequentialInv, [Next]_vars,
                      ~UNCHANGED <<statusBar, connectedBar>>
               PROVE  Lifecycle!Next
    OBVIOUS
  <2>1. CASE \E c \in Calls : SoftRemoveByUser(c)
    BY <2>1 DEF SoftRemoveByUser, TypeOK, statusBar, connectedBar, Connected, Connection
  <2>2. CASE \E c \in Calls : AcceptRequest(c)
    BY <2>2, AcceptIsLifecycleStep DEF statusBar, connectedBar, Connected
  <2>3. CASE \E c \in Calls : CreateRequest(c) \/ ReviveRequest(c) \/ RejectRequest(c)
                              \/ CancelRequest(c)
    <3>1. ~UNCHANGED request
      BY <2>3 DEF CreateRequest, ReviveRequest, RejectRequest, CancelRequest, statusBar,
         connectedBar, Connected
    <3>2. QED
      BY <2>3, <3>1, WriteIsLifecycleStep
  <2>4. CASE \E x \in Cards : DeleteCard(x)
    <3>1. PICK x \in Cards : DeleteCard(x)
      BY <2>4
    <3>2. Lifecycle!Drop(x)
      BY <3>1 DEF DeleteCard, Lifecycle!Drop, Lifecycle!Pairs, Pairs, NoRequest, Connected
    <3>3. QED
      BY <3>2 DEF Lifecycle!Next
  <2>5. ~UNCHANGED <<request, connection>>
    BY DEF statusBar, connectedBar, Connected
  <2>6. QED
    BY <2>1, <2>2, <2>3, <2>4, <2>5, RequestWriters, ConnectionWriters
<1>3. QED
  BY <1>1, <1>2, TypeCorrect, SequentialInvHolds, PTL
  DEF Spec, RequestsFollowLifecycle, Lifecycle!Spec, statusBar, connectedBar
=============================================================================
