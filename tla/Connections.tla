---------------------------- MODULE Connections ----------------------------
(***************************************************************************)
(* Card-to-card connection requests and the archive of established         *)
(* connections (src/src/module/connections).                               *)
(*                                                                         *)
(* A handler is an async function: every `await` on the database is a      *)
(* point where another call, on this replica or another one, may run.      *)
(* A call occupies a slot of `call`; each action below is what one call    *)
(* does between two awaits, and its `pc` names the repository method it    *)
(* is about to await.  The database executes one statement, or one         *)
(* interactive transaction, atomically.                                    *)
(*                                                                         *)
(* A request row is unique per (requester card, receiver card), and it     *)
(* disappears for good with either card (ON DELETE CASCADE, and a card id  *)
(* is never reused), so the pair stands for the row's id; likewise for an  *)
(* archived connection.  Pagination, card contents and the snapshots       *)
(* copied into the archive are abstracted away.                            *)
(***************************************************************************)
EXTENDS Naturals, FiniteSets

CONSTANTS
    Users,          \* rows of users
    Cards,          \* rows of user_profile_cards, deleted ones included
    Owner,          \* user_profile_cards.user_id, which no handler updates
    Calls,          \* slots for concurrently running handlers
    Messages,       \* texts a requester may attach
    LongMessages,   \* the texts longer than card_connections.message
    NoticeLimit,    \* bound on the notices kept, for TLC
    None            \* a null, or an unused field of an idle slot

ASSUME ConnectionsAssumption ==
    /\ Owner \in [Cards -> Users]
    /\ LongMessages \subseteq Messages
    /\ None \notin Users \cup Messages \cup (Cards \X Cards)

Pairs == Cards \X Cards
Requester(p) == Owner[p[1]]
Receiver(p) == Owner[p[2]]

Sides == {"requester", "receiver"}

Answers == {"ACCEPTED", "REJECTED", "CANCELED"}

Request == [status : {"absent", "PENDING"} \cup Answers,
            message : Messages \cup {None}]

NoRequest == [status |-> "absent", message |-> None]

Connection == [established : BOOLEAN,
               message : Messages \cup {None},
               removed : SUBSET Sides]

NoConnection == [established |-> FALSE, message |-> None, removed |-> {}]

Notice == [to : Users, type : {"REQUESTED", "ACCEPTED", "REJECTED"}, about : Pairs]

PC == {"findRequesterCard", "findReceiverCard", "findRequestByCardPair",
       "createRequest", "reviveRequest", "readToAccept", "acceptRequest",
       "readToReject", "rejectRequest", "readToCancel", "cancelRequest",
       "findConnectionById", "softRemoveByUser",
       "notifyRequested", "notifyAccepted", "notifyRejected"}

Idle == [pc |-> "idle", user |-> None, pair |-> None, message |-> None]

Running == [pc : PC, user : Users, pair : Pairs, message : Messages \cup {None}]

VARIABLES
    card,           \* [Cards -> {"private", "public", "deleted"}]
    request,        \* card_connection_requests
    connection,     \* card_connections
    notices,        \* notifications written for users
    call            \* what each slot is running

vars == <<card, request, connection, notices, call>>

TypeOK ==
    /\ card \in [Cards -> {"private", "public", "deleted"}]
    /\ request \in [Pairs -> Request]
    /\ connection \in [Pairs -> Connection]
    /\ notices \in SUBSET Notice
    /\ call \in [Calls -> Running \cup {Idle}]

Init ==
    /\ card = [x \in Cards |-> "private"]
    /\ request = [p \in Pairs |-> NoRequest]
    /\ connection = [p \in Pairs |-> NoConnection]
    /\ notices = {}
    /\ call = [c \in Calls |-> Idle]

Exists(x) == card[x] # "deleted"
HasRequest(p) == request[p].status # "absent"
Connected(p) == connection[p].established

-----------------------------------------------------------------------------
(* Moving a call along, and ending it with a response of any status. *)

At(c, pc) == call[c].pc = pc
Goto(c, pc) == call' = [call EXCEPT ![c].pc = pc]
Return(c) == call' = [call EXCEPT ![c] = Idle]

(* The authentication guard loaded the user before the handler started.     *)
(* The handler never looks at the user again, so which users may still      *)
(* start one makes no difference here.                                      *)
Enter(c, u, p, m, pc) ==
    /\ At(c, "idle")
    /\ call' = [call EXCEPT ![c] = [pc |-> pc, user |-> u, pair |-> p, message |-> m]]
    /\ UNCHANGED <<card, request, connection, notices>>

BeginCreate(c) ==
    \E u \in Users, p \in Pairs, m \in Messages \cup {None} :
        p[1] # p[2] /\ Enter(c, u, p, m, "findRequesterCard")

(* The id of a request or a connection exists once its row does. *)
BeginAnswer(c) ==
    \E u \in Users, p \in Pairs, pc \in {"readToAccept", "readToReject", "readToCancel"} :
        HasRequest(p) /\ Enter(c, u, p, None, pc)

BeginRemove(c) ==
    \E u \in Users, p \in Pairs :
        Connected(p) /\ Enter(c, u, p, None, "findConnectionById")

-----------------------------------------------------------------------------
(* createRequest *)

(* Mutant: the requesting card's owner is not compared with the user. *)
FindAnyRequesterCard(c) ==
    /\ At(c, "findRequesterCard")
    /\ IF Exists(call[c].pair[1]) THEN Goto(c, "findReceiverCard") ELSE Return(c)
    /\ UNCHANGED <<card, request, connection, notices>>

FindRequesterCard(c) ==
    LET p == call[c].pair IN
    /\ At(c, "findRequesterCard")
    /\ IF Exists(p[1]) /\ Requester(p) = call[c].user
       THEN Goto(c, "findReceiverCard")
       ELSE Return(c)
    /\ UNCHANGED <<card, request, connection, notices>>

FindReceiverCard(c) ==
    LET p == call[c].pair IN
    /\ At(c, "findReceiverCard")
    /\ IF card[p[2]] = "public" /\ Receiver(p) # call[c].user
       THEN Goto(c, "findRequestByCardPair")
       ELSE Return(c)
    /\ UNCHANGED <<card, request, connection, notices>>

(* Mutant: an ACCEPTED request is revived like a closed one. *)
FindRequestToReviveEvenAccepted(c) ==
    LET p == call[c].pair IN
    /\ At(c, "findRequestByCardPair")
    /\ CASE request[p].status = "absent" -> Goto(c, "createRequest")
         [] request[p].status = "PENDING" -> Return(c)
         [] OTHER -> Goto(c, "reviveRequest")
    /\ UNCHANGED <<card, request, connection, notices>>

FindRequestByCardPair(c) ==
    LET p == call[c].pair IN
    /\ At(c, "findRequestByCardPair")
    /\ CASE request[p].status = "absent" -> Goto(c, "createRequest")
         [] request[p].status \in {"PENDING", "ACCEPTED"} -> Return(c)
         [] OTHER -> Goto(c, "reviveRequest")
    /\ UNCHANGED <<card, request, connection, notices>>

(* Mutant: the table has no foreign keys to the cards. *)
CanInsertUnreferenced(p) == ~HasRequest(p)

(* The insert fails on the unique pair (409) and on a missing card (400). *)
CanInsert(p) == ~HasRequest(p) /\ Exists(p[1]) /\ Exists(p[2])

CreateRequest(c) ==
    LET p == call[c].pair IN
    /\ At(c, "createRequest")
    /\ IF CanInsert(p)
       THEN /\ request' = [request EXCEPT
                  ![p] = [status |-> "PENDING", message |-> call[c].message]]
            /\ Goto(c, "notifyRequested")
       ELSE Return(c) /\ UNCHANGED request
    /\ UNCHANGED <<card, connection, notices>>

(* An update by id: it fails only if the row is gone (404). *)
ReviveRequest(c) ==
    LET p == call[c].pair IN
    /\ At(c, "reviveRequest")
    /\ IF HasRequest(p)
       THEN /\ request' = [request EXCEPT
                  ![p] = [status |-> "PENDING", message |-> call[c].message]]
            /\ Goto(c, "notifyRequested")
       ELSE Return(c) /\ UNCHANGED request
    /\ UNCHANGED <<card, connection, notices>>

-----------------------------------------------------------------------------
(* acceptRequest, rejectRequest *)

(* Mutant: either party may answer a pending request. *)
IsAnyonesPending(c) == request[call[c].pair].status = "PENDING"

(* The PENDING row the receiver is about to answer; its message is kept. *)
IsMyPending(c) ==
    LET p == call[c].pair IN
    Receiver(p) = call[c].user /\ request[p].status = "PENDING"

(* Mutant: the message is not carried over to the archive. *)
ReadToAcceptWithoutMessage(c) ==
    /\ At(c, "readToAccept")
    /\ IF IsMyPending(c) THEN Goto(c, "acceptRequest") ELSE Return(c)
    /\ UNCHANGED <<card, request, connection, notices>>

ReadToAccept(c) ==
    LET p == call[c].pair IN
    /\ At(c, "readToAccept")
    /\ IF IsMyPending(c)
       THEN call' = [call EXCEPT ![c].pc = "acceptRequest",
                                 ![c].message = request[p].message]
       ELSE Return(c)
    /\ UNCHANGED <<card, request, connection, notices>>

(* Mutant: the archive row is upserted, so an archived pair is no obstacle. *)
CanAcceptAgain(c) ==
    LET p == call[c].pair IN
    HasRequest(p) /\ Exists(p[1]) /\ Exists(p[2]) /\ call[c].message \notin LongMessages

(* The transaction reads both cards, sets the status whatever it is by now, *)
(* and inserts the archive row; a missing card, an archived pair or a       *)
(* message the column cannot hold rolls all of it back.                     *)
CanAccept(c) ==
    LET p == call[c].pair IN
    /\ HasRequest(p) /\ Exists(p[1]) /\ Exists(p[2])
    /\ ~Connected(p)
    /\ call[c].message \notin LongMessages

(* Mutant: status and archive row are written outside of a transaction, and *)
(* the second write may be lost.                                            *)
AcceptWithoutTransaction(c) ==
    LET p == call[c].pair IN
    /\ At(c, "acceptRequest")
    /\ CanAccept(c)
    /\ request' = [request EXCEPT ![p].status = "ACCEPTED"]
    /\ \/ UNCHANGED connection
       \/ connection' = [connection EXCEPT
              ![p] = [established |-> TRUE, message |-> call[c].message, removed |-> {}]]
    /\ Goto(c, "notifyAccepted")
    /\ UNCHANGED <<card, notices>>

(* Mutant: the requester is told of the acceptance even if it failed. *)
AcceptAndAlwaysNotify(c) ==
    LET p == call[c].pair IN
    /\ At(c, "acceptRequest")
    /\ IF CanAccept(c)
       THEN /\ request' = [request EXCEPT ![p].status = "ACCEPTED"]
            /\ connection' = [connection EXCEPT
                  ![p] = [established |-> TRUE, message |-> call[c].message, removed |-> {}]]
       ELSE UNCHANGED <<request, connection>>
    /\ Goto(c, "notifyAccepted")
    /\ UNCHANGED <<card, notices>>

AcceptRequest(c) ==
    LET p == call[c].pair IN
    /\ At(c, "acceptRequest")
    /\ IF CanAccept(c)
       THEN /\ request' = [request EXCEPT ![p].status = "ACCEPTED"]
            /\ connection' = [connection EXCEPT
                  ![p] = [established |-> TRUE, message |-> call[c].message, removed |-> {}]]
            /\ Goto(c, "notifyAccepted")
       ELSE Return(c) /\ UNCHANGED <<request, connection>>
    /\ UNCHANGED <<card, notices>>

ReadToReject(c) ==
    /\ At(c, "readToReject")
    /\ IF IsMyPending(c) THEN Goto(c, "rejectRequest") ELSE Return(c)
    /\ UNCHANGED <<card, request, connection, notices>>

(* Mutant: the handler waits for a row that a deleted card took along. *)
RejectExistingRequest(c) ==
    LET p == call[c].pair IN
    /\ At(c, "rejectRequest")
    /\ HasRequest(p)
    /\ request' = [request EXCEPT ![p].status = "REJECTED"]
    /\ Goto(c, "notifyRejected")
    /\ UNCHANGED <<card, connection, notices>>

RejectRequest(c) ==
    LET p == call[c].pair IN
    /\ At(c, "rejectRequest")
    /\ IF HasRequest(p)
       THEN /\ request' = [request EXCEPT ![p].status = "REJECTED"]
            /\ Goto(c, "notifyRejected")
       ELSE Return(c) /\ UNCHANGED request
    /\ UNCHANGED <<card, connection, notices>>

(* cancelRequest *)

ReadToCancel(c) ==
    LET p == call[c].pair IN
    /\ At(c, "readToCancel")
    /\ IF Requester(p) = call[c].user /\ request[p].status = "PENDING"
       THEN Goto(c, "cancelRequest")
       ELSE Return(c)
    /\ UNCHANGED <<card, request, connection, notices>>

CancelRequest(c) ==
    LET p == call[c].pair IN
    /\ At(c, "cancelRequest")
    /\ IF HasRequest(p)
       THEN request' = [request EXCEPT ![p].status = "CANCELED"]
       ELSE UNCHANGED request
    /\ Return(c)
    /\ UNCHANGED <<card, connection, notices>>

-----------------------------------------------------------------------------
(* removeConnection *)

(* Mutant: the removal is recorded for the user instead of the side. *)
SideIsUser(u, p) == u

(* Mutant: each party hides the connection from the other one. *)
SideOfOther(u, p) ==
    IF Requester(p) = u THEN "receiver" ELSE "requester"

SideOf(u, p) ==
    IF Requester(p) = u THEN "requester" ELSE "receiver"

FindConnectionById(c) ==
    LET p == call[c].pair
        u == call[c].user IN
    /\ At(c, "findConnectionById")
    /\ IF u \in {Requester(p), Receiver(p)} /\ SideOf(u, p) \notin connection[p].removed
       THEN Goto(c, "softRemoveByUser")
       ELSE Return(c)
    /\ UNCHANGED <<card, request, connection, notices>>

SoftRemoveByUser(c) ==
    LET p == call[c].pair IN
    /\ At(c, "softRemoveByUser")
    /\ connection' = [connection EXCEPT
          ![p].removed = @ \cup {SideOf(call[c].user, p)}]
    /\ Return(c)
    /\ UNCHANGED <<card, request, notices>>

-----------------------------------------------------------------------------
(* createNotificationSafely: the row is written, or the error is swallowed. *)

NoticeOf(c) ==
    LET p == call[c].pair IN
    CASE At(c, "notifyRequested") -> [to |-> Receiver(p), type |-> "REQUESTED", about |-> p]
      [] At(c, "notifyAccepted") -> [to |-> Requester(p), type |-> "ACCEPTED", about |-> p]
      [] OTHER -> [to |-> Requester(p), type |-> "REJECTED", about |-> p]

Notify(c) ==
    /\ call[c].pc \in {"notifyRequested", "notifyAccepted", "notifyRejected"}
    /\ \/ UNCHANGED notices
       \/ /\ Cardinality(notices \cup {NoticeOf(c)}) <= NoticeLimit
          /\ notices' = notices \cup {NoticeOf(c)}
    /\ Return(c)
    /\ UNCHANGED <<card, request, connection>>

(* A step that throws for any other reason, or a replica that stops, ends   *)
(* the call where it stands; what it already wrote stays written.           *)
Fail(c) ==
    /\ ~At(c, "idle")
    /\ Return(c)
    /\ UNCHANGED <<card, request, connection, notices>>

-----------------------------------------------------------------------------
(* What the profile-card and user modules do to the rows read above. *)

PublishCard(x) ==
    /\ card[x] = "private"
    /\ card' = [card EXCEPT ![x] = "public"]
    /\ UNCHANGED <<request, connection, notices, call>>

(* An update with isActive = false, or one card of a withdrawing owner. *)
HideCard(x) ==
    /\ card[x] = "public"
    /\ card' = [card EXCEPT ![x] = "private"]
    /\ UNCHANGED <<request, connection, notices, call>>

(* The requests of a deleted card go with it; the archive has no foreign key. *)
DeleteCard(x) ==
    /\ Exists(x)
    /\ card' = [card EXCEPT ![x] = "deleted"]
    /\ request' = [p \in Pairs |-> IF x \in {p[1], p[2]} THEN NoRequest ELSE request[p]]
    /\ UNCHANGED <<connection, notices, call>>

-----------------------------------------------------------------------------
Begin(c) == BeginCreate(c) \/ BeginAnswer(c) \/ BeginRemove(c)

Step(c) ==
    \/ FindRequesterCard(c) \/ FindReceiverCard(c) \/ FindRequestByCardPair(c)
    \/ CreateRequest(c) \/ ReviveRequest(c)
    \/ ReadToAccept(c) \/ AcceptRequest(c)
    \/ ReadToReject(c) \/ RejectRequest(c)
    \/ ReadToCancel(c) \/ CancelRequest(c)
    \/ FindConnectionById(c) \/ SoftRemoveByUser(c)
    \/ Notify(c)

Environment ==
    \E x \in Cards : PublishCard(x) \/ HideCard(x) \/ DeleteCard(x)

Next ==
    \/ \E c \in Calls : Begin(c) \/ Step(c) \/ Fail(c)
    \/ Environment

Spec == Init /\ [][Next]_vars

(* The event loop resumes every awaited call; nobody has to start one. *)
Fairness == \A c \in Calls : WF_vars(Step(c))

FairSpec == Spec /\ Fairness
-----------------------------------------------------------------------------
(* Properties that hold however calls overlap. *)

(* A request shows ACCEPTED only if the archive holds its connection: the   *)
(* status and the row are written in one transaction, and no interleaving   *)
(* of rejections, cancellations and revivals gets an ACCEPTED back without  *)
(* the row.                                                                 *)
AcceptedIsArchived ==
    \A p \in Pairs : request[p].status = "ACCEPTED" => Connected(p)

(* A request joins two existing cards of two different users, although the  *)
(* handler checks both cards in separate reads and inserts later.           *)
RequestsAreGrounded ==
    \A p \in Pairs : HasRequest(p) =>
        Exists(p[1]) /\ Exists(p[2]) /\ Requester(p) # Receiver(p)

(* Nobody is told that a request was accepted unless the connection is in   *)
(* the archive: the notification is sent after the transaction, never       *)
(* instead of it, and the row does not go away before it is read.           *)
AcceptedNoticeIsTrue ==
    \A n \in notices : n.type = "ACCEPTED" => Connected(n.about)

(* What a call found out about its user before an await still holds after   *)
(* it, although the handler does not look again; and a connection it is     *)
(* working on, or about to announce, stays in the archive.                  *)
Checked(c) ==
    LET p == call[c].pair
        u == call[c].user
        pc == call[c].pc IN
    /\ pc \in {"findReceiverCard", "findRequestByCardPair", "createRequest",
              "reviveRequest", "cancelRequest"} => Requester(p) = u
    /\ pc \in {"findRequestByCardPair", "createRequest", "reviveRequest"} => Receiver(p) # u
    /\ pc \in {"acceptRequest", "rejectRequest"} => Receiver(p) = u
    /\ pc \in {"findConnectionById", "softRemoveByUser", "notifyAccepted"} => Connected(p)
    /\ pc = "softRemoveByUser" => u \in {Requester(p), Receiver(p)}

CallsStayChecked == \A c \in Calls : Checked(c)

(* A pair of cards of one user, or a call of a third user, changes nothing: *)
(* the receiver alone accepts or rejects, the requester alone sends and     *)
(* cancels, each at a write that follows the check by at least one await.   *)
Author(p, status) ==
    IF status \in {"ACCEPTED", "REJECTED"} THEN Receiver(p) ELSE Requester(p)

OnlyPartiesAct ==
    [][\A p \in Pairs :
          request'[p] # request[p] /\ HasRequest(p)' =>
              \E c \in Calls : /\ call[c].pair = p
                               /\ call[c].user = Author(p, request'[p].status)
                               /\ call'[c] # call[c]]_vars

(* Once a late rejection, cancellation or revival has overwritten the       *)
(* status of a connected pair, no call ever shows it as ACCEPTED again: the *)
(* unique archive row turns every further acceptance into a 409.            *)
OverwrittenStaysOverwritten ==
    [][\A p \in Pairs :
          Connected(p) /\ request[p].status # "ACCEPTED" =>
              request'[p].status # "ACCEPTED"]_vars

(* Under any overlap of calls, a row of the archive appears when its        *)
(* receiver accepts and stays as it is; a party who removes the connection  *)
(* hides it for itself, and nobody hides it unasked or for the other        *)
(* (connections.service.ts:41-64).                                          *)
RequestTo(op, c) == [op |-> op, user |-> call[c].user, pair |-> call[c].pair]

Asked(c) ==
    CASE call[c].pc \in {"readToAccept", "acceptRequest"} -> RequestTo("accept", c)
      [] call[c].pc \in {"findConnectionById", "softRemoveByUser"} -> RequestTo("remove", c)
      [] OTHER -> [op |-> "nothing", user |-> None, pair |-> None]

Archive == INSTANCE ConnectionArchive
    WITH archive <- connection, asked <- [c \in Calls |-> Asked(c)]

ArchiveIsAppendOnly == Archive!Spec

-----------------------------------------------------------------------------
(* Properties that need the calls to run one at a time. *)

(* Each request then moves through its statuses as if every operation were  *)
(* atomic, in the presence of card edits and deletions between its awaits.  *)
Lifecycle == INSTANCE RequestLifecycle
    WITH status <- [p \in Pairs |-> request[p].status],
         connected <- {p \in Pairs : Connected(p)}

RequestsFollowLifecycle == Lifecycle!Spec

(* The archived message is the one its request still carries. *)
ArchivedMessageIsTheRequests ==
    \A p \in Pairs :
        Connected(p) /\ HasRequest(p) => connection[p].message = request[p].message

(* Every call that starts returns, also when the rows it works on vanish    *)
(* between two of its awaits.                                               *)
CallsReturn ==
    \A c \in Calls : ~At(c, "idle") ~> At(c, "idle")

-----------------------------------------------------------------------------
(* What the comments in the code and in the schema say, and the code does   *)
(* not guarantee.                                                           *)

(* Only a PENDING request is accepted, rejected or cancelled. *)
OnlyPendingIsAnswered ==
    [][\A p \in Pairs :
          /\ request'[p].status # request[p].status
          /\ request'[p].status \in Answers
          => request[p].status = "PENDING"]_vars

(* Two cards are connected at most once. *)
OneConnectionPerCardPair ==
    \A x, y \in Cards : ~(Connected(<<x, y>>) /\ Connected(<<y, x>>))

(* A pending request between existing cards that never connected can be     *)
(* accepted.                                                                *)
PendingCanBeAccepted ==
    \A c \in Calls :
        LET p == call[c].pair IN
        /\ At(c, "acceptRequest")
        /\ request[p].status = "PENDING" /\ ~Connected(p)
        => CanAccept(c)
=============================================================================
