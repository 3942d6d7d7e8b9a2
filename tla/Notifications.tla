---------------------------- MODULE Notifications ----------------------------
(***************************************************************************)
(* Notifications and the event streams that announce them                  *)
(* (src/src/module/notifications, src/src/lib/redis).                      *)
(*                                                                         *)
(* A notification is a row, written before it is published on the Redis    *)
(* channel of its user.  Each replica subscribes to the channel of a user  *)
(* while it serves a stream of that user; subscriptions are commands sent  *)
(* on the replica's connection, which nobody awaits.                       *)
(*                                                                         *)
(* Redis and its client library are modelled from how the code uses them:  *)
(* commands are handled in the order they were sent; a dropped connection  *)
(* loses the subscriptions and the messages under way; the library then    *)
(* subscribes again to what had been confirmed and resends the rest.       *)
(* A browser tab reads the list of notifications besides its stream; the   *)
(* list's pages are read as one, and its order and filters are left out.   *)
(***************************************************************************)
EXTENDS Naturals, Sequences

CONSTANTS
    Users,
    Notices,        \* ids of notification rows, those not yet given out included
    To,             \* the user a notice's id is given out to
    Streams,        \* connections of browser tabs, one for each tab that is open
    Replicas,       \* running copies of the server
    Calls,          \* slots for concurrently running handlers
    CommandLimit,   \* bound on a replica's unhandled commands, for TLC
    None            \* a null, or an unused field of a slot

Channels == Replicas \X Users

ASSUME NotificationsAssumption ==
    /\ To \in [Notices -> Users]
    /\ CommandLimit \in Nat
    /\ None \notin Users \cup Notices \cup Channels

Command == [op : {"subscribe", "unsubscribe"}, users : SUBSET Users]

Subscribe(U) == [op |-> "subscribe", users |-> U]
Unsubscribe(U) == [op |-> "unsubscribe", users |-> U]

Idle == [pc |-> "idle", user |-> None, notice |-> None]

Running ==
    [pc : {"createNotification"}, user : Users, notice : {None}]
        \cup [pc : {"publish", "findOneById", "update"}, user : Users, notice : Notices]

VARIABLES
    row,            \* notifications, and whether read_at is set
    call,           \* what each slot is running
    stream,         \* the replica and the user an open stream belongs to
    channels,       \* the keys of each replica's map of channels
    sent,           \* commands on their way to Redis, one queue per replica
    subscribed,     \* what Redis will push to each replica
    push,           \* messages on their way from Redis to a replica
    seen,           \* the notices each tab knows of
    announced,      \* history: notices published at least once
    current         \* history: tabs that listed while being subscribed

vars == <<row, call, stream, channels, sent, subscribed, push, seen, announced, current>>

rows == <<row, call>>
links == <<stream, channels, sent, subscribed>>

TypeOK ==
    /\ row \in [Notices -> {"absent", "unread", "read"}]
    /\ call \in [Calls -> Running \cup {Idle}]
    /\ stream \in [Streams -> Channels \cup {None}]
    /\ channels \in SUBSET Channels
    /\ sent \in [Replicas -> Seq(Command)]
    /\ subscribed \in [Replicas -> SUBSET Users]
    /\ push \in SUBSET (Replicas \X Notices)
    /\ seen \in [Streams -> SUBSET Notices]
    /\ announced \in SUBSET Notices
    /\ current \in SUBSET Streams

Init ==
    /\ row = [n \in Notices |-> "absent"]
    /\ call = [c \in Calls |-> Idle]
    /\ stream = [s \in Streams |-> None]
    /\ channels = {}
    /\ sent = [r \in Replicas |-> <<>>]
    /\ subscribed = [r \in Replicas |-> {}]
    /\ push = {}
    /\ seen = [s \in Streams |-> {}]
    /\ announced = {}
    /\ current = {}

Stored(n) == row[n] # "absent"
Served(r, u) == \E s \in Streams : stream[s] = <<r, u>>
CommandsAbout(r, u) == {i \in DOMAIN sent[r] : u \in sent[r][i].users}
Confirmed(r, u) == u \in subscribed[r] /\ CommandsAbout(r, u) = {}

-----------------------------------------------------------------------------
At(c, pc) == call[c].pc = pc
Goto(c, pc) == call' = [call EXCEPT ![c].pc = pc]
Return(c) == call' = [call EXCEPT ![c] = Idle]

Enter(c, pc, u, n) ==
    /\ At(c, "idle")
    /\ call' = [call EXCEPT ![c] = [pc |-> pc, user |-> u, notice |-> n]]
    /\ UNCHANGED <<row, links, push, seen, announced, current>>

(* A handler of connection requests notifies the other party. *)
BeginCreate(c) == \E u \in Users : Enter(c, "createNotification", u, None)

(* The id of a notification is known once its row exists. *)
BeginRead(c) ==
    \E u \in Users, n \in Notices : Stored(n) /\ Enter(c, "findOneById", u, n)

-----------------------------------------------------------------------------
(* create *)

(* Mutant: the row is not awaited, and its promise is published.            *)
CreateWithoutAwait(c) ==
    /\ At(c, "createNotification")
    /\ \E n \in Notices :
          /\ To[n] = call[c].user /\ ~Stored(n)
          /\ row' = [row EXCEPT ![n] = "unread"]
    /\ Goto(c, "publish")
    /\ UNCHANGED <<links, push, seen, announced, current>>

(* The row takes an id never used before. *)
CreateNotification(c) ==
    /\ At(c, "createNotification")
    /\ \E n \in Notices :
          /\ To[n] = call[c].user /\ ~Stored(n)
          /\ row' = [row EXCEPT ![n] = "unread"]
          /\ call' = [call EXCEPT ![c].pc = "publish", ![c].notice = n]
    /\ UNCHANGED <<links, push, seen, announced, current>>

(* Mutant: only the streams of one replica are told, as without Redis.      *)
PublishLocally(c) ==
    LET n == call[c].notice IN
    /\ At(c, "publish")
    /\ \E r \in Replicas :
          push' = IF To[n] \in subscribed[r] THEN push \cup {<<r, n>>} ELSE push
    /\ announced' = announced \cup {n}
    /\ Return(c)
    /\ UNCHANGED <<row, links, seen, current>>

(* Redis pushes the message to every replica that is subscribed just then.  *)
(* A reply that gets lost makes the library publish again; a publication    *)
(* that fails is logged, and the call returns as in Fail.                   *)
Publish(c) ==
    LET n == call[c].notice IN
    /\ At(c, "publish")
    /\ push' = push \cup {<<r, n>> : r \in {q \in Replicas : To[n] \in subscribed[q]}}
    /\ announced' = announced \cup {n}
    /\ Return(c) \/ UNCHANGED call
    /\ UNCHANGED <<row, links, seen, current>>

-----------------------------------------------------------------------------
(* checkRead *)

(* Somebody else's notice is not found (404); a read one stays as it is.    *)
FindOneById(c) ==
    LET n == call[c].notice IN
    /\ At(c, "findOneById")
    /\ IF To[n] = call[c].user /\ row[n] = "unread" THEN Goto(c, "update") ELSE Return(c)
    /\ UNCHANGED <<row, links, push, seen, announced, current>>

UpdateReadAt(c) ==
    /\ At(c, "update")
    /\ row' = [row EXCEPT ![call[c].notice] = "read"]
    /\ Return(c)
    /\ UNCHANGED <<links, push, seen, announced, current>>

(* A step that throws for any other reason, or a replica that stops. *)
Fail(c) ==
    /\ ~At(c, "idle")
    /\ Return(c)
    /\ UNCHANGED <<row, links, push, seen, announced, current>>

-----------------------------------------------------------------------------
(* stream: what a replica does when a tab connects and when it goes away.   *)

Send(r, command) == sent' = [sent EXCEPT ![r] = Append(@, command)]

OpenStream(s) ==
    \E r \in Replicas, u \in Users :
        /\ stream[s] = None
        /\ stream' = [stream EXCEPT ![s] = <<r, u>>]
        /\ IF <<r, u>> \in channels
           THEN UNCHANGED <<channels, sent>>
           ELSE /\ Len(sent[r]) < CommandLimit
                /\ channels' = channels \cup {<<r, u>>}
                /\ Send(r, Subscribe({u}))
        /\ UNCHANGED <<subscribed, rows, push, seen, announced, current>>

(* Mutant: the channel is left without asking who else observes it.         *)
CloseStreamForEveryone(s) ==
    LET ch == stream[s] IN
    /\ ch # None
    /\ stream' = [stream EXCEPT ![s] = None]
    /\ channels' = channels \ {ch}
    /\ Send(ch[1], Unsubscribe({ch[2]}))
    /\ seen' = [seen EXCEPT ![s] = {}]
    /\ current' = current \ {s}
    /\ UNCHANGED <<subscribed, rows, push, announced>>

(* The tab disconnects, or the stream reaches its maximal age. *)
CloseStream(s) ==
    LET ch == stream[s] IN
    /\ ch # None
    /\ stream' = [stream EXCEPT ![s] = None]
    /\ IF \E t \in Streams \ {s} : stream[t] = ch
       THEN UNCHANGED <<channels, sent>>
       ELSE channels' = channels \ {ch} /\ Send(ch[1], Unsubscribe({ch[2]}))
    /\ seen' = [seen EXCEPT ![s] = {}]
    /\ current' = current \ {s}
    /\ UNCHANGED <<subscribed, rows, push, announced>>

(* Mutant: a message reaches every stream of the replica.                   *)
ReceivePushForEveryone(r) ==
    \E n \in Notices :
        /\ <<r, n>> \in push
        /\ push' = push \ {<<r, n>>}
        /\ seen' = [s \in Streams |->
              IF stream[s] # None /\ stream[s][1] = r THEN seen[s] \cup {n} ELSE seen[s]]
        /\ UNCHANGED <<rows, links, announced, current>>

(* Mutant: the message goes to one observer, as if they were competing.     *)
ReceivePushOnce(r) ==
    \E n \in Notices, s \in Streams :
        /\ <<r, n>> \in push
        /\ push' = push \ {<<r, n>>}
        /\ seen' = IF stream[s] = <<r, To[n]>>
                   THEN [seen EXCEPT ![s] = @ \cup {n}] ELSE seen
        /\ UNCHANGED <<rows, links, announced, current>>

(* Every stream of the channel forwards the message to its tab. *)
ReceivePush(r) ==
    \E n \in Notices :
        /\ <<r, n>> \in push
        /\ push' = push \ {<<r, n>>}
        /\ seen' = [s \in Streams |->
              IF stream[s] = <<r, To[n]>> THEN seen[s] \cup {n} ELSE seen[s]]
        /\ UNCHANGED <<rows, links, announced, current>>

(* A tab lists the notifications of its user, as it does when it connects.  *)
ListNotices(s) ==
    LET ch == stream[s] IN
    /\ ch # None
    /\ seen' = [seen EXCEPT ![s] = @ \cup {n \in Notices : Stored(n) /\ To[n] = ch[2]}]
    /\ current' = IF Confirmed(ch[1], ch[2]) THEN current \cup {s} ELSE current
    /\ UNCHANGED <<rows, links, push, announced>>

-----------------------------------------------------------------------------
(* Redis, the connections to it, and replicas that stop. *)

HandleCommand(r) ==
    LET command == Head(sent[r]) IN
    /\ sent[r] # <<>>
    /\ subscribed' = [subscribed EXCEPT ![r] =
          IF command.op = "subscribe" THEN @ \cup command.users ELSE @ \ command.users]
    /\ sent' = [sent EXCEPT ![r] = Tail(@)]
    /\ UNCHANGED <<rows, stream, channels, push, seen, announced, current>>

OnReplica(r) == {s \in Streams : stream[s] # None /\ stream[s][1] = r}
WithoutPushesTo(r) == {m \in push : m[1] # r}

(* The connection of a replica breaks and is made again. *)
DropLink(r) ==
    /\ subscribed[r] # {}
    /\ sent' = [sent EXCEPT ![r] = <<Subscribe(subscribed[r])>> \o @]
    /\ subscribed' = [subscribed EXCEPT ![r] = {}]
    /\ push' = WithoutPushesTo(r)
    /\ current' = current \ OnReplica(r)
    /\ UNCHANGED <<rows, stream, channels, seen, announced>>

Restart(r) ==
    /\ stream' = [s \in Streams |-> IF s \in OnReplica(r) THEN None ELSE stream[s]]
    /\ seen' = [s \in Streams |-> IF s \in OnReplica(r) THEN {} ELSE seen[s]]
    /\ channels' = {ch \in channels : ch[1] # r}
    /\ sent' = [sent EXCEPT ![r] = <<>>]
    /\ subscribed' = [subscribed EXCEPT ![r] = {}]
    /\ push' = WithoutPushesTo(r)
    /\ current' = current \ OnReplica(r)
    /\ UNCHANGED <<rows, announced>>

-----------------------------------------------------------------------------
Begin(c) == BeginCreate(c) \/ BeginRead(c)

Step(c) ==
    CreateNotification(c) \/ Publish(c) \/ FindOneById(c) \/ UpdateReadAt(c)

Tab(s) == OpenStream(s) \/ CloseStream(s) \/ ListNotices(s)

Redis(r) == HandleCommand(r) \/ ReceivePush(r) \/ DropLink(r) \/ Restart(r)

Next ==
    \/ \E c \in Calls : Begin(c) \/ Step(c) \/ Fail(c)
    \/ \E s \in Streams : Tab(s)
    \/ \E r \in Replicas : Redis(r)

Spec == Init /\ [][Next]_vars

(* One message arrives, of those that are on their way to a replica. *)
Deliver(r, n) ==
    /\ <<r, n>> \in push
    /\ ReceivePush(r)
    /\ <<r, n>> \notin push'

(* Redis handles what it is sent, and each message it pushes arrives: they  *)
(* keep their order on the way, so that none holds up another for ever.     *)
(* The connection may break before, and nobody has to do anything else.     *)
Fairness ==
    \A r \in Replicas :
        /\ WF_vars(HandleCommand(r))
        /\ \A n \in Notices : WF_vars(Deliver(r, n))

FairSpec == Spec /\ Fairness

-----------------------------------------------------------------------------
(* Subscriptions are sent and never awaited, so Redis may lag behind.  Once *)
(* it has handled what is under way, a replica is subscribed to exactly the *)
(* channels it serves a stream of, which are also the keys of its map: no   *)
(* stream is deaf, and no channel stays subscribed after its last stream,   *)
(* whatever streams, dropped connections and restarts come in between.      *)
WillBeSubscribed(r, u) ==
    LET I == CommandsAbout(r, u) IN
    IF I = {}
    THEN u \in subscribed[r]
    ELSE \E i \in I : (\A j \in I : j <= i) /\ sent[r][i].op = "subscribe"

SubscriptionsFollowStreams ==
    \A r \in Replicas, u \in Users :
        /\ <<r, u>> \in channels <=> Served(r, u)
        /\ WillBeSubscribed(r, u) <=> Served(r, u)

(* A tab that listed its notifications while its subscription was in effect *)
(* knows of every notification published before or since, or a message is   *)
(* on its way: there is no gap between the list and the stream.  It lasts   *)
(* until the replica's connection to Redis breaks.                          *)
CurrentTabsMissNothing ==
    \A s \in current, n \in announced :
        To[n] = stream[s][2] => n \in seen[s] \/ <<stream[s][1], n>> \in push

(* The rows and the tabs implement the feed: a notification is stored       *)
(* before anybody is told of it, a tab is told of its own user's only, and  *)
(* what has been read stays read.                                           *)
Feed == INSTANCE NotificationFeed
    WITH feed <- {n \in Notices : Stored(n)},
         read <- {n \in Notices : row[n] = "read"},
         Tabs <- Streams,
         tab <- [s \in Streams |-> IF stream[s] = None THEN None ELSE stream[s][2]],
         shown <- seen

FeedIsKept == Feed!Spec

(* Although a subscription is sent and forgotten (redis-pubsub.service.ts:  *)
(* 47), a stream that stays open is subscribed some day, with nothing under *)
(* way that would end it: its tab may list its notifications then and miss  *)
(* nothing.  The connection to Redis has to stop breaking.                  *)
OpenStreamsAreConfirmed ==
    \A r \in Replicas : <>[][~DropLink(r)]_vars =>
        \A u \in Users : Served(r, u) ~> Confirmed(r, u) \/ ~Served(r, u)

(* What was published reaches every tab that is up to date, unless the tab  *)
(* closes or its replica's connection breaks before                         *)
(* (notifications.service.ts:46-67).                                        *)
PublishedNoticesArrive ==
    \A s \in Streams, n \in Notices :
        s \in current /\ n \in announced /\ To[n] = stream[s][2]
            ~> n \in seen[s] \/ s \notin current
=============================================================================
