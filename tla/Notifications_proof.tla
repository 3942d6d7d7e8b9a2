------------------------- MODULE Notifications_proof -------------------------
(***************************************************************************)
(* For any users, notifications, tabs, replicas and calls: subscriptions   *)
(* follow streams, tabs that are up to date miss nothing, and the whole    *)
(* implements the feed.  Two facts make this inductive.  The subscription  *)
(* of an up-to-date tab is confirmed and no command about it is under way, *)
(* as commands are sent only when the first stream of a channel opens or   *)
(* the last one closes.  And whoever is told of a notification, or works   *)
(* on it, is told of one that is stored.                                   *)
(***************************************************************************)
EXTENDS Notifications, SequenceTheorems, TLAPS

(* The channel of an up-to-date tab is not about to change.                 *)
CurrentAreConfirmed ==
    \A s \in current : \E r \in Replicas, u \in Users :
        stream[s] = <<r, u>> /\ Confirmed(r, u)

(* Rows come before everything that is said about them.                     *)
ToldIsStored ==
    /\ \A c \in Calls : At(c, "publish") \/ At(c, "update") => Stored(call[c].notice)
    /\ \A n \in announced : Stored(n)
    /\ \A r \in Replicas, n \in Notices : <<r, n>> \in push => Stored(n)
    /\ \A s \in Streams : \A n \in seen[s] : Stored(n)

Inv ==
    /\ TypeOK
    /\ SubscriptionsFollowStreams
    /\ CurrentAreConfirmed
    /\ ToldIsStored
    /\ CurrentTabsMissNothing

-----------------------------------------------------------------------------
(* Queues of commands *)

(* Whether u is subscribed after q, when the users S are before.            *)
About(q, u) == {i \in DOMAIN q : u \in q[i].users}

Leaves(q, S, u) ==
    IF About(q, u) = {}
    THEN u \in S
    ELSE \E i \in About(q, u) : (\A j \in About(q, u) : j <= i) /\ q[i].op = "subscribe"

LEMMA WillBeSubscribedIs ==
    ASSUME NEW r, NEW u
    PROVE  /\ WillBeSubscribed(r, u) <=> Leaves(sent[r], subscribed[r], u)
           /\ WillBeSubscribed(r, u)' <=> Leaves(sent'[r], subscribed'[r], u)
  BY DEF WillBeSubscribed, Leaves, CommandsAbout, About

LEMMA ConfirmedIs ==
    ASSUME NEW r, NEW u
    PROVE  /\ Confirmed(r, u) <=> u \in subscribed[r] /\ About(sent[r], u) = {}
           /\ Confirmed(r, u)' <=> u \in subscribed'[r] /\ About(sent'[r], u) = {}
  BY DEF Confirmed, CommandsAbout, About

LEMMA AppendAbout ==
    ASSUME NEW q \in Seq(Command), NEW m \in Command, NEW u, u \notin m.users
    PROVE  About(Append(q, m), u) = About(q, u)
  BY AppendProperties, LenProperties DEF About

LEMMA TailAbout ==
    ASSUME NEW q \in Seq(Command), q # <<>>, NEW u, About(q, u) = {}
    PROVE  About(Tail(q), u) = {} /\ u \notin Head(q).users
  <1>1. /\ Len(q) \in Nat \ {0} /\ DOMAIN q = 1 .. Len(q)
        /\ DOMAIN Tail(q) = 1 .. (Len(q) - 1) /\ Head(q) = q[1]
        /\ \A i \in 1 .. (Len(q) - 1) : Tail(q)[i] = q[i + 1]
    BY HeadTailProperties, LenProperties, EmptySeq
  <1> QED
    BY <1>1 DEF About

(* The command sent last decides, if it is about the user.                  *)
LEMMA AppendLeaves ==
    ASSUME NEW q \in Seq(Command), NEW m \in Command, NEW u, NEW S
    PROVE  Leaves(Append(q, m), S, u) <=>
               IF u \in m.users THEN m.op = "subscribe" ELSE Leaves(q, S, u)
  <1> DEFINE p == Append(q, m)
  <1>1. /\ Len(q) \in Nat /\ DOMAIN q = 1 .. Len(q) /\ DOMAIN p = 1 .. (Len(q) + 1)
        /\ \A i \in 1 .. Len(q) : p[i] = q[i]
        /\ p[Len(q) + 1] = m
    BY AppendProperties, LenProperties
  <1>2. CASE u \in m.users
    <2>1. Len(q) + 1 \in About(p, u) /\ \A j \in About(p, u) : j <= Len(q) + 1
      BY <1>1, <1>2 DEF About
    <2>2. \A i \in About(p, u) : (\A j \in About(p, u) : j <= i) => i = Len(q) + 1
      BY <1>1, <2>1 DEF About
    <2> QED
      BY <1>1, <1>2, <2>1, <2>2 DEF Leaves
  <1>3. CASE u \notin m.users
    <2>1. About(p, u) = About(q, u)
      BY <1>1, <1>3 DEF About
    <2>2. \A i \in About(q, u) : p[i] = q[i]
      BY <1>1 DEF About
    <2> QED
      BY <1>3, <2>1, <2>2 DEF Leaves
  <1> QED
    BY <1>2, <1>3

(* Handling the first command and then the rest is handling all.            *)
LEMMA TailLeaves ==
    ASSUME NEW q \in Seq(Command), q # <<>>, NEW u, NEW S, NEW T,
           u \in T <=> IF u \in Head(q).users THEN Head(q).op = "subscribe" ELSE u \in S
    PROVE  Leaves(q, S, u) <=> Leaves(Tail(q), T, u)
  <1> DEFINE p == Tail(q)
  <1>1. /\ Len(q) \in Nat \ {0} /\ DOMAIN q = 1 .. Len(q) /\ DOMAIN p = 1 .. (Len(q) - 1)
        /\ Head(q) = q[1]
        /\ \A i \in 1 .. (Len(q) - 1) : p[i] = q[i + 1]
    BY HeadTailProperties, LenProperties, EmptySeq
  <1>2. \A i \in DOMAIN p : i \in About(p, u) <=> i + 1 \in About(q, u)
    BY <1>1 DEF About
  <1>3. \A i \in About(q, u) : i = 1 \/ (i - 1 \in About(p, u) /\ i \in Nat)
    BY <1>1 DEF About
  <1>4. CASE About(p, u) = {}
    <2>1. \A i \in About(q, u) : i = 1
      BY <1>3, <1>4
    <2>2. 1 \in About(q, u) <=> u \in Head(q).users
      BY <1>1 DEF About
    <2> QED
      BY <1>1, <1>4, <2>1, <2>2 DEF Leaves
  <1>5. CASE About(p, u) # {}
    <2>0. About(p, u) \subseteq DOMAIN p /\ About(q, u) \subseteq DOMAIN q
      BY DEF About
    <2>1. About(q, u) # {}
      BY <1>2, <1>5, <2>0
    <2>2. ASSUME NEW i \in About(p, u), \A j \in About(p, u) : j <= i, p[i].op = "subscribe"
          PROVE  Leaves(q, S, u)
      <3>1. i + 1 \in About(q, u) /\ q[i + 1].op = "subscribe"
        BY <1>1, <1>2, <2>0, <2>2
      <3>2. \A j \in About(q, u) : j <= i + 1
        BY <1>1, <1>3, <2>0, <2>2
      <3> QED
        BY <2>1, <3>1, <3>2 DEF Leaves
    <2>3. ASSUME NEW i \in About(q, u), \A j \in About(q, u) : j <= i, q[i].op = "subscribe"
          PROVE  Leaves(p, T, u)
      <3>1. i # 1
        BY <1>1, <1>2, <1>5, <2>0, <2>3
      <3>2. i - 1 \in About(p, u) /\ p[i - 1].op = "subscribe"
        BY <1>1, <1>3, <2>0, <2>3, <3>1
      <3>3. \A j \in About(p, u) : j <= i - 1
        BY <1>1, <1>2, <2>0, <2>3
      <3> QED
        BY <1>5, <3>2, <3>3 DEF Leaves
    <2> QED
      BY <1>5, <2>1, <2>2, <2>3 DEF Leaves
  <1> QED
    BY <1>4, <1>5

(* What is sent again first makes up for the subscriptions that were lost.  *)
LEMMA ResendLeaves ==
    ASSUME NEW q \in Seq(Command), NEW U \in SUBSET Users, NEW u
    PROVE  /\ <<Subscribe(U)>> \o q \in Seq(Command)
           /\ Leaves(<<Subscribe(U)>> \o q, {}, u) <=> Leaves(q, U, u)
  <1> DEFINE p == <<Subscribe(U)>> \o q
  <1>1. Subscribe(U) \in Command /\ <<Subscribe(U)>> \in Seq(Command)
    BY DEF Subscribe, Command
  <1>2. p \in Seq(Command) /\ p # <<>> /\ Head(p) = Subscribe(U) /\ Tail(p) = q
    BY <1>1
  <1>3. u \in U <=> IF u \in Head(p).users THEN Head(p).op = "subscribe" ELSE u \in {}
    BY <1>2 DEF Subscribe
  <1>4. Leaves(p, {}, u) <=> Leaves(Tail(p), U, u)
    BY <1>2, <1>3, TailLeaves
  <1> QED
    BY <1>2, <1>4

-----------------------------------------------------------------------------
(* Types *)

LEMMA InitInv ==
    ASSUME Init
    PROVE  Inv
  <1>1. TypeOK
    BY EmptySeq DEF Init, TypeOK, Idle
  <1>2. SubscriptionsFollowStreams
    BY NotificationsAssumption
    DEF Init, SubscriptionsFollowStreams, Served, WillBeSubscribed, CommandsAbout, Channels
  <1>3. CurrentAreConfirmed /\ ToldIsStored /\ CurrentTabsMissNothing
    BY DEF Init, CurrentAreConfirmed, ToldIsStored, CurrentTabsMissNothing, At, Idle
  <1> QED
    BY <1>1, <1>2, <1>3 DEF Inv

(* An open stream belongs to a replica and a user.                          *)
LEMMA StreamTyped ==
    ASSUME TypeOK, NEW s \in Streams, stream[s] # None
    PROVE  /\ stream[s] \in Channels
           /\ stream[s][1] \in Replicas /\ stream[s][2] \in Users
           /\ stream[s] = <<stream[s][1], stream[s][2]>>
  BY DEF TypeOK, Channels

(* Nothing is None that is somebody's.                                      *)
LEMMA Nones ==
    /\ None \notin Users /\ None \notin Notices /\ None \notin Channels
    /\ \A n \in Notices : To[n] \in Users
  BY NotificationsAssumption

(* Tabs that are up to date are open.                                       *)
LEMMA CurrentAreOpen ==
    ASSUME Inv, NEW s \in current
    PROVE  s \in Streams /\ stream[s] # None
  <1>1. PICK r \in Replicas, u \in Users : stream[s] = <<r, u>> /\ Confirmed(r, u)
    BY DEF Inv, CurrentAreConfirmed
  <1>2. <<r, u>> \in Channels
    BY DEF Channels
  <1> QED
    BY <1>1, <1>2, Nones DEF Inv, TypeOK

(* What a call holds at each of its queries.                                *)
LEMMA CallTyped ==
    ASSUME TypeOK, NEW c \in Calls
    PROVE  /\ call[c] \in Running \cup {Idle}
           /\ At(c, "createNotification") => call[c].user \in Users /\ call[c].notice = None
           /\ At(c, "publish") \/ At(c, "findOneById") \/ At(c, "update") =>
                 call[c].user \in Users /\ call[c].notice \in Notices
  BY DEF TypeOK, At, Running, Idle

(* A call that goes on or returns keeps its type, and the others are not    *)
(* concerned.                                                               *)
LEMMA CallBecomes ==
    ASSUME TypeOK, NEW c \in Calls, NEW new \in Running \cup {Idle},
           call' = [call EXCEPT ![c] = new]
    PROVE  /\ call' \in [Calls -> Running \cup {Idle}]
           /\ \A d \in Calls : call'[d] = IF d = c THEN new ELSE call[d]
  BY DEF TypeOK

LEMMA GotoBecomes ==
    ASSUME TypeOK, NEW c \in Calls, NEW pc, Goto(c, pc)
    PROVE  call' = [call EXCEPT ![c] =
                       [pc |-> pc, user |-> call[c].user, notice |-> call[c].notice]]
  <1>1. call' = [call EXCEPT ![c] = [call[c] EXCEPT !.pc = pc]]
    BY DEF Goto
  <1>2. [call[c] EXCEPT !.pc = pc] =
            [pc |-> pc, user |-> call[c].user, notice |-> call[c].notice]
    BY DEF TypeOK, Running, Idle
  <1> QED
    BY <1>1, <1>2

-----------------------------------------------------------------------------
(* Rows and calls *)

(* What changes neither streams nor subscriptions keeps what is said of     *)
(* them.                                                                    *)
LEMMA LinksStay ==
    ASSUME Inv, UNCHANGED <<links, current>>
    PROVE  SubscriptionsFollowStreams' /\ CurrentAreConfirmed'
  <1>1. SubscriptionsFollowStreams'
    BY DEF Inv, SubscriptionsFollowStreams, links, Served, WillBeSubscribed, CommandsAbout
  <1>2. CurrentAreConfirmed'
    BY DEF Inv, CurrentAreConfirmed, links, Confirmed, CommandsAbout
  <1> QED
    BY <1>1, <1>2

(* Nor does a tab miss what is not published.                               *)
LEMMA RowsKeepLinks ==
    ASSUME Inv, UNCHANGED <<links, seen, current>>, push \subseteq push', announced' = announced
    PROVE  SubscriptionsFollowStreams' /\ CurrentAreConfirmed' /\ CurrentTabsMissNothing'
  <1>1. CurrentTabsMissNothing'
    BY DEF Inv, CurrentTabsMissNothing, links
  <1> QED
    BY <1>1, LinksStay

(* What only changes what one call is about.                                *)
LEMMA CallKeepsInv ==
    ASSUME Inv, NEW c \in Calls, NEW new \in Running \cup {Idle},
           call' = [call EXCEPT ![c] = new],
           new.pc \in {"publish", "update"} => Stored(new.notice),
           UNCHANGED <<row, links, push, seen, announced, current>>
    PROVE  Inv'
  <1>1. /\ call' \in [Calls -> Running \cup {Idle}]
        /\ \A d \in Calls : call'[d] = IF d = c THEN new ELSE call[d]
    BY CallBecomes DEF Inv
  <1>2. TypeOK'
    BY <1>1 DEF Inv, TypeOK, links
  <1>3. ToldIsStored'
    BY <1>1 DEF Inv, ToldIsStored, At, Stored
  <1> QED
    BY <1>2, <1>3, RowsKeepLinks DEF Inv

(* A call that begins works on nothing yet, or on a stored notification.    *)
LEMMA BeginKeepsInv ==
    ASSUME Inv, NEW c \in Calls, Begin(c)
    PROVE  Inv'
  <1>1. CASE BeginCreate(c)
    <2>1. PICK u \in Users : Enter(c, "createNotification", u, None)
      BY <1>1 DEF BeginCreate
    <2>2. [pc |-> "createNotification", user |-> u, notice |-> None] \in Running
      BY DEF Running
    <2> QED
      BY <2>1, <2>2, CallKeepsInv DEF Enter
  <1>2. CASE BeginRead(c)
    <2>1. PICK u \in Users, n \in Notices : Enter(c, "findOneById", u, n)
      BY <1>2 DEF BeginRead
    <2>2. [pc |-> "findOneById", user |-> u, notice |-> n] \in Running
      BY DEF Running
    <2> QED
      BY <2>1, <2>2, CallKeepsInv DEF Enter
  <1> QED
    BY <1>1, <1>2 DEF Begin

(* A call that ends in whatever way holds nothing.                          *)
LEMMA FailKeepsInv ==
    ASSUME Inv, NEW c \in Calls, Fail(c)
    PROVE  Inv'
  <1>1. Idle \in Running \cup {Idle} /\ Idle.pc \notin {"publish", "update"}
    BY DEF Idle
  <1> QED
    BY <1>1, CallKeepsInv DEF Fail, Return

LEMMA FindKeepsInv ==
    ASSUME Inv, NEW c \in Calls, FindOneById(c)
    PROVE  Inv'
  <1> DEFINE n == call[c].notice
             new == [pc |-> "update", user |-> call[c].user, notice |-> n]
  <1>1. TypeOK /\ call[c].user \in Users /\ n \in Notices
    BY CallTyped DEF Inv, FindOneById
  <1>2. CASE row[n] = "unread" /\ Goto(c, "update")
    <2>1. call' = [call EXCEPT ![c] = new]
      BY <1>1, <1>2, GotoBecomes
    <2>2. new \in Running /\ Stored(new.notice)
      BY <1>1, <1>2 DEF Running, Stored
    <2> QED
      BY <2>1, <2>2, CallKeepsInv DEF FindOneById
  <1>3. CASE Return(c)
    <2>1. Idle \in Running \cup {Idle} /\ Idle.pc \notin {"publish", "update"}
      BY DEF Idle
    <2> QED
      BY <1>3, <2>1, CallKeepsInv DEF FindOneById, Return
  <1> QED
    BY <1>2, <1>3 DEF FindOneById

(* A row that is written is stored from then on.                            *)
LEMMA RowKeepsInv ==
    ASSUME Inv, NEW n \in Notices, NEW as \in {"unread", "read"},
           row' = [row EXCEPT ![n] = as],
           NEW c \in Calls, NEW new \in Running \cup {Idle},
           call' = [call EXCEPT ![c] = new],
           new.pc \in {"publish", "update"} => new.notice = n,
           UNCHANGED <<links, push, seen, announced, current>>
    PROVE  Inv'
  <1>1. /\ call' \in [Calls -> Running \cup {Idle}]
        /\ \A d \in Calls : call'[d] = IF d = c THEN new ELSE call[d]
    BY CallBecomes DEF Inv
  <1>2. TypeOK'
    BY <1>1 DEF Inv, TypeOK, links
  <1>3. \A m \in Notices : row'[m] = IF m = n THEN as ELSE row[m]
    BY DEF Inv, TypeOK
  <1>4. \A m \in Notices : Stored(m)' <=> m = n \/ Stored(m)
    BY <1>3 DEF Stored
  <1>5. ToldIsStored'
    <2>1. \A d \in Calls : At(d, "publish") \/ At(d, "update") => call[d].notice \in Notices
      BY CallTyped DEF Inv
    <2>2. ASSUME NEW d \in Calls, At(d, "publish")' \/ At(d, "update")'
          PROVE  Stored(call[d].notice)'
      BY <1>1, <1>4, <2>1, <2>2 DEF Inv, ToldIsStored, At
    <2>3. announced \subseteq Notices /\ \A s \in Streams : seen[s] \subseteq Notices
      BY DEF Inv, TypeOK
    <2> QED
      BY <1>4, <2>2, <2>3 DEF Inv, ToldIsStored
  <1> QED
    BY <1>2, <1>5, RowsKeepLinks DEF Inv

LEMMA CreateKeepsInv ==
    ASSUME Inv, NEW c \in Calls, CreateNotification(c)
    PROVE  Inv'
  <1>1. PICK n \in Notices :
            /\ row' = [row EXCEPT ![n] = "unread"]
            /\ call' = [call EXCEPT ![c].pc = "publish", ![c].notice = n]
    BY DEF CreateNotification
  <1> DEFINE new == [pc |-> "publish", user |-> call[c].user, notice |-> n]
  <1>2. call[c].user \in Users
    BY CallTyped DEF Inv, CreateNotification
  <1>3. call' = [call EXCEPT ![c] = new]
    BY <1>1, CallTyped DEF Running, CreateNotification, At, Idle, Inv
  <1>4. new \in Running \cup {Idle} /\ new.notice = n
    BY <1>2 DEF Running
  <1>5. /\ row' = [row EXCEPT ![n] = "unread"]
        /\ UNCHANGED <<links, push, seen, announced, current>>
    BY <1>1 DEF CreateNotification
  <1> HIDE DEF new
  <1> QED
    BY <1>3, <1>4, <1>5, RowKeepsInv

LEMMA UpdateKeepsInv ==
    ASSUME Inv, NEW c \in Calls, UpdateReadAt(c)
    PROVE  Inv'
  <1>1. call[c].notice \in Notices
    BY CallTyped DEF Inv, UpdateReadAt
  <1>2. Idle \in Running \cup {Idle} /\ Idle.pc \notin {"publish", "update"}
    BY DEF Idle
  <1> QED
    BY <1>1, <1>2, RowKeepsInv DEF UpdateReadAt, Return

(* What is published reaches the replicas of all tabs that are up to date,  *)
(* as their subscriptions are confirmed.                                    *)
LEMMA PublishKeepsInv ==
    ASSUME Inv, NEW c \in Calls, Publish(c)
    PROVE  Inv'
  <1> DEFINE n == call[c].notice
  <1>0. TypeOK /\ n \in Notices /\ Stored(n)
    BY CallTyped DEF Inv, Publish, ToldIsStored
  <1>1. push' = push \cup {<<r, n>> : r \in {q \in Replicas : To[n] \in subscribed[q]}}
    BY DEF Publish
  <1>2. /\ call' \in [Calls -> Running \cup {Idle}]
        /\ \A d \in Calls : call'[d] = Idle \/ call'[d] = call[d]
    BY <1>0 DEF Publish, Return, TypeOK
  <1>3. TypeOK'
    <2>1. push' \in SUBSET (Replicas \X Notices)
      BY <1>0, <1>1 DEF TypeOK
    <2> QED
      BY <1>0, <1>2, <2>1 DEF TypeOK, Publish, links
  <1>4. ToldIsStored'
    <2>1. \A m : Stored(m)' <=> Stored(m)
      BY DEF Publish, Stored
    <2>2. ASSUME NEW d \in Calls, At(d, "publish")' \/ At(d, "update")'
          PROVE  Stored(call[d].notice)'
      <3>1. call'[d] = call[d]
        BY <1>2, <2>2 DEF At, Idle
      <3> QED
        BY <2>1, <2>2, <3>1 DEF Inv, ToldIsStored, At
    <2>3. \A m \in announced' : Stored(m)'
      BY <1>0, <2>1 DEF Inv, ToldIsStored, Publish
    <2>4. ASSUME NEW r \in Replicas, NEW m \in Notices, <<r, m>> \in push'
          PROVE  Stored(m)'
      BY <1>0, <1>1, <2>1, <2>4 DEF Inv, ToldIsStored
    <2>5. seen' = seen
      BY DEF Publish
    <2> QED
      BY <2>1, <2>2, <2>3, <2>4, <2>5 DEF Inv, ToldIsStored
  <1>5. SubscriptionsFollowStreams' /\ CurrentAreConfirmed'
    BY LinksStay DEF Publish
  <1>6. CurrentTabsMissNothing'
    <2>1. UNCHANGED <<stream, seen, current>> /\ announced' = announced \cup {n}
      BY DEF Publish, links
    <2>2. ASSUME NEW s \in current, To[n] = stream[s][2]
          PROVE  <<stream[s][1], n>> \in push'
      <3>1. PICK r \in Replicas, u \in Users : stream[s] = <<r, u>> /\ Confirmed(r, u)
        BY DEF Inv, CurrentAreConfirmed
      <3>2. stream[s][1] = r /\ To[n] \in subscribed[r]
        BY <2>2, <3>1 DEF Confirmed
      <3> QED
        BY <1>1, <3>2
    <2> QED
      BY <1>1, <2>1, <2>2 DEF Inv, CurrentTabsMissNothing
  <1> QED
    BY <1>3, <1>4, <1>5, <1>6 DEF Inv
-----------------------------------------------------------------------------
(* Streams *)

(* Rows and calls are not concerned, and tabs are told of stored ones only. *)
LEMMA ToldStays ==
    ASSUME Inv, UNCHANGED <<row, call>>, announced' = announced,
           \A r \in Replicas, n \in Notices : <<r, n>> \in push' => Stored(n),
           \A s \in Streams : \A n \in seen'[s] : Stored(n)
    PROVE  ToldIsStored'
  BY DEF Inv, ToldIsStored, At, Stored

(* A command goes to the end of the queue of its replica.                   *)
LEMMA SendBecomes ==
    ASSUME TypeOK, NEW r \in Replicas, NEW m \in Command, Send(r, m)
    PROVE  /\ sent' \in [Replicas -> Seq(Command)]
           /\ sent'[r] = Append(sent[r], m)
           /\ \A q \in Replicas \ {r} : sent'[q] = sent[q]
  BY DEF TypeOK, Send

(* A channel that is not in the map is subscribed to with its first stream. *)
LEMMA OpenKeepsInv ==
    ASSUME Inv, NEW s \in Streams, OpenStream(s)
    PROVE  Inv'
  <1>1. PICK r \in Replicas, u \in Users :
            /\ stream[s] = None
            /\ stream' = [stream EXCEPT ![s] = <<r, u>>]
            /\ IF <<r, u>> \in channels
               THEN UNCHANGED <<channels, sent>>
               ELSE channels' = channels \cup {<<r, u>>} /\ Send(r, Subscribe({u}))
            /\ UNCHANGED <<subscribed, rows, push, seen, announced, current>>
    BY DEF OpenStream
  <1>2. TypeOK /\ <<r, u>> \in Channels /\ Subscribe({u}) \in Command
    BY DEF Inv, Channels, Subscribe, Command
  <1>3. \A t \in Streams : stream'[t] = IF t = s THEN <<r, u>> ELSE stream[t]
    BY <1>1, <1>2 DEF TypeOK
  <1>4. \A q \in Replicas, v \in Users :
            Served(q, v)' <=> Served(q, v) \/ <<q, v>> = <<r, u>>
    <2>1. \A q \in Replicas, v \in Users : <<q, v>> # None
      BY Nones DEF Channels
    <2> QED
      BY <1>1, <1>3, <2>1 DEF Served
  <1>5. TypeOK'
    <2>1. stream' \in [Streams -> Channels \cup {None}]
      BY <1>1, <1>2 DEF TypeOK
    <2>2. channels' \in SUBSET Channels /\ sent' \in [Replicas -> Seq(Command)]
      BY <1>1, <1>2, SendBecomes DEF TypeOK
    <2> QED
      BY <1>1, <1>2, <2>1, <2>2 DEF TypeOK, rows
  <1>6. s \notin current
    BY <1>1, Nones DEF Inv, CurrentAreConfirmed, Channels
  <1>7. ToldIsStored' /\ CurrentTabsMissNothing'
    <2>1. ToldIsStored'
      BY <1>1, ToldStays DEF Inv, ToldIsStored, rows
    <2>2. CurrentTabsMissNothing'
      BY <1>1, <1>2, <1>3, <1>6 DEF Inv, CurrentTabsMissNothing, TypeOK
    <2> QED
      BY <2>1, <2>2
  <1>8. CASE <<r, u>> \in channels
    <2>1. \A q \in Replicas, v \in Users : Served(q, v)' <=> Served(q, v)
      BY <1>4, <1>8 DEF Inv, SubscriptionsFollowStreams
    <2>2. SubscriptionsFollowStreams'
      BY <1>1, <1>8, <2>1, WillBeSubscribedIs DEF Inv, SubscriptionsFollowStreams
    <2>3. ASSUME NEW t \in current
          PROVE  \E q \in Replicas, v \in Users :
                     stream'[t] = <<q, v>> /\ Confirmed(q, v)'
      <3>1. PICK q \in Replicas, v \in Users : stream[t] = <<q, v>> /\ Confirmed(q, v)
        BY DEF Inv, CurrentAreConfirmed
      <3>2. t \in Streams /\ stream'[t] = <<q, v>>
        BY <1>2, <1>3, <1>6, <3>1 DEF TypeOK
      <3>3. sent' = sent /\ subscribed' = subscribed
        BY <1>1, <1>8
      <3> QED
        BY <3>1, <3>2, <3>3, ConfirmedIs
    <2> QED
      BY <1>1, <1>5, <1>7, <2>2, <2>3 DEF Inv, CurrentAreConfirmed
  <1>9. CASE <<r, u>> \notin channels
    <2>1. /\ channels' = channels \cup {<<r, u>>}
          /\ sent'[r] = Append(sent[r], Subscribe({u}))
          /\ \A q \in Replicas \ {r} : sent'[q] = sent[q]
          /\ sent[r] \in Seq(Command)
      BY <1>1, <1>2, <1>9, SendBecomes DEF TypeOK
    <2>2. Subscribe({u}).op = "subscribe" /\ Subscribe({u}).users = {u}
      BY DEF Subscribe
    <2>3. ASSUME NEW v \in Users
          PROVE  Leaves(sent'[r], subscribed'[r], v) <=>
                     v = u \/ Leaves(sent[r], subscribed[r], v)
      <3>1. Leaves(Append(sent[r], Subscribe({u})), subscribed[r], v) <=>
                IF v \in Subscribe({u}).users
                THEN Subscribe({u}).op = "subscribe"
                ELSE Leaves(sent[r], subscribed[r], v)
        BY <1>2, <2>1, AppendLeaves
      <3>2. subscribed' = subscribed
        BY <1>1
      <3>3. v \in Subscribe({u}).users <=> v = u
        BY <2>2
      <3> QED
        BY <2>1, <2>2, <3>1, <3>2, <3>3
    <2>4. SubscriptionsFollowStreams'
      <3>1. ASSUME NEW q \in Replicas, NEW v \in Users
            PROVE  WillBeSubscribed(q, v)' <=> WillBeSubscribed(q, v) \/ <<q, v>> = <<r, u>>
        BY <1>1, <2>1, <2>3, WillBeSubscribedIs
      <3> QED
        BY <1>4, <2>1, <3>1 DEF Inv, SubscriptionsFollowStreams
    <2>5. ASSUME NEW t \in current
          PROVE  \E q \in Replicas, v \in Users :
                     stream'[t] = <<q, v>> /\ Confirmed(q, v)'
      <3>1. PICK q \in Replicas, v \in Users : stream[t] = <<q, v>> /\ Confirmed(q, v)
        BY DEF Inv, CurrentAreConfirmed
      <3>2. t \in Streams /\ stream'[t] = <<q, v>>
        BY <1>2, <1>3, <1>6, <3>1 DEF TypeOK
      <3>3. <<q, v>> \in channels
        BY <3>1, <3>2 DEF Inv, SubscriptionsFollowStreams, Served
      <3>4. CASE q # r
        BY <1>1, <2>1, <3>1, <3>2, <3>4, ConfirmedIs
      <3>5. CASE q = r
        <4>1. v \notin Subscribe({u}).users
          BY <1>9, <2>2, <3>3, <3>5
        <4>2. About(sent'[q], v) = About(sent[q], v)
          BY <1>2, <2>1, <3>5, <4>1, AppendAbout
        <4> QED
          BY <1>1, <3>1, <3>2, <4>2, ConfirmedIs
      <3> QED
        BY <3>4, <3>5
    <2> QED
      BY <1>1, <1>5, <1>7, <2>4, <2>5 DEF Inv, CurrentAreConfirmed
  <1> QED
    BY <1>8, <1>9

(* A channel leaves the map with its last stream.                           *)
LEMMA CloseKeepsInv ==
    ASSUME Inv, NEW s \in Streams, CloseStream(s)
    PROVE  Inv'
  <1>1. PICK r \in Replicas, u \in Users : stream[s] = <<r, u>>
    BY StreamTyped DEF Inv, CloseStream
  <1>2. /\ stream' = [stream EXCEPT ![s] = None]
        /\ IF \E t \in Streams \ {s} : stream[t] = <<r, u>>
           THEN UNCHANGED <<channels, sent>>
           ELSE channels' = channels \ {<<r, u>>} /\ Send(r, Unsubscribe({u}))
        /\ seen' = [seen EXCEPT ![s] = {}]
        /\ current' = current \ {s}
        /\ UNCHANGED <<subscribed, row, call, push, announced>>
    BY <1>1 DEF CloseStream, rows
  <1>3. TypeOK /\ <<r, u>> \in Channels /\ Unsubscribe({u}) \in Command
    BY DEF Inv, Channels, Unsubscribe, Command
  <1>4. \A t \in Streams : stream'[t] = IF t = s THEN None ELSE stream[t]
    BY <1>2, <1>3 DEF TypeOK
  <1>5. TypeOK'
    <2>1. channels' \in SUBSET Channels /\ sent' \in [Replicas -> Seq(Command)]
      BY <1>2, <1>3, SendBecomes DEF TypeOK
    <2>2. seen' \in [Streams -> SUBSET Notices]
      BY <1>2, <1>3 DEF TypeOK
    <2>3. stream' \in [Streams -> Channels \cup {None}]
      BY <1>2, <1>3 DEF TypeOK
    <2> QED
      BY <1>2, <1>3, <2>1, <2>2, <2>3 DEF TypeOK
  <1>6. ToldIsStored'
    <2>1. \A t \in Streams : seen'[t] \subseteq seen[t]
      BY <1>2, <1>3 DEF TypeOK
    <2> QED
      BY <1>2, <2>1, ToldStays DEF Inv, ToldIsStored
  <1>7. \A t \in current' :
            t \in Streams /\ t \in current /\ stream'[t] = stream[t] /\ seen'[t] = seen[t]
    BY <1>2, <1>3, <1>4 DEF TypeOK
  <1>8. CurrentTabsMissNothing'
    BY <1>2, <1>7 DEF Inv, CurrentTabsMissNothing
  <1>9. CASE \E t \in Streams \ {s} : stream[t] = <<r, u>>
    <2>1. UNCHANGED <<channels, sent, subscribed>>
      BY <1>2, <1>9
    <2>2. \A q \in Replicas, v \in Users : Served(q, v)' <=> Served(q, v)
      <3>1. \A q \in Replicas, v \in Users : <<q, v>> # None
        BY Nones DEF Channels
      <3> QED
        BY <1>1, <1>4, <1>9, <3>1 DEF Served
    <2>3. SubscriptionsFollowStreams'
      BY <2>1, <2>2, WillBeSubscribedIs DEF Inv, SubscriptionsFollowStreams
    <2>4. ASSUME NEW t \in current'
          PROVE  \E q \in Replicas, v \in Users :
                     stream'[t] = <<q, v>> /\ Confirmed(q, v)'
      <3>1. PICK q \in Replicas, v \in Users : stream[t] = <<q, v>> /\ Confirmed(q, v)
        BY <1>7 DEF Inv, CurrentAreConfirmed
      <3> QED
        BY <1>7, <2>1, <3>1, ConfirmedIs
    <2> QED
      BY <1>5, <1>6, <1>8, <2>3, <2>4 DEF Inv, CurrentAreConfirmed
  <1>10. CASE ~ \E t \in Streams \ {s} : stream[t] = <<r, u>>
    <2>1. /\ channels' = channels \ {<<r, u>>}
          /\ sent'[r] = Append(sent[r], Unsubscribe({u}))
          /\ \A q \in Replicas \ {r} : sent'[q] = sent[q]
          /\ sent[r] \in Seq(Command)
      BY <1>2, <1>3, <1>10, SendBecomes DEF TypeOK
    <2>2. Unsubscribe({u}).op = "unsubscribe" /\ Unsubscribe({u}).users = {u}
      BY DEF Unsubscribe
    <2>3. \A q \in Replicas, v \in Users :
              Served(q, v)' <=> Served(q, v) /\ <<q, v>> # <<r, u>>
      <3>1. \A q \in Replicas, v \in Users : <<q, v>> # None
        BY Nones DEF Channels
      <3> QED
        BY <1>1, <1>4, <1>10, <3>1 DEF Served
    <2>4. ASSUME NEW v \in Users
          PROVE  Leaves(sent'[r], subscribed'[r], v) <=>
                     v # u /\ Leaves(sent[r], subscribed[r], v)
      <3>1. Leaves(Append(sent[r], Unsubscribe({u})), subscribed[r], v) <=>
                IF v \in Unsubscribe({u}).users
                THEN Unsubscribe({u}).op = "subscribe"
                ELSE Leaves(sent[r], subscribed[r], v)
        BY <1>3, <2>1, AppendLeaves
      <3>2. subscribed' = subscribed
        BY <1>2
      <3>3. v \in Unsubscribe({u}).users <=> v = u
        BY <2>2
      <3> QED
        BY <2>1, <2>2, <3>1, <3>2, <3>3
    <2>5. SubscriptionsFollowStreams'
      <3>1. ASSUME NEW q \in Replicas, NEW v \in Users
            PROVE  WillBeSubscribed(q, v)' <=> WillBeSubscribed(q, v) /\ <<q, v>> # <<r, u>>
        BY <1>2, <2>1, <2>4, WillBeSubscribedIs
      <3> QED
        BY <2>1, <2>3, <3>1 DEF Inv, SubscriptionsFollowStreams
    <2>6. ASSUME NEW t \in current'
          PROVE  \E q \in Replicas, v \in Users :
                     stream'[t] = <<q, v>> /\ Confirmed(q, v)'
      <3>1. PICK q \in Replicas, v \in Users : stream[t] = <<q, v>> /\ Confirmed(q, v)
        BY <1>7 DEF Inv, CurrentAreConfirmed
      <3>2. t # s /\ stream'[t] = <<q, v>> /\ subscribed' = subscribed
        BY <1>2, <1>7, <3>1
      <3>3. <<q, v>> # <<r, u>>
        BY <1>7, <1>10, <3>1, <3>2
      <3>4. CASE q # r
        BY <2>1, <3>1, <3>2, <3>4, ConfirmedIs
      <3>5. CASE q = r
        <4>1. v \notin Unsubscribe({u}).users
          BY <2>2, <3>3, <3>5
        <4>2. About(sent'[q], v) = About(sent[q], v)
          BY <1>3, <2>1, <3>5, <4>1, AppendAbout
        <4> QED
          BY <3>1, <3>2, <4>2, ConfirmedIs
      <3> QED
        BY <3>4, <3>5
    <2> QED
      BY <1>5, <1>6, <1>8, <2>5, <2>6 DEF Inv, CurrentAreConfirmed
  <1> QED
    BY <1>9, <1>10

(* A message that arrives is known to all tabs it is for.                   *)
LEMMA ReceiveKeepsInv ==
    ASSUME Inv, NEW r \in Replicas, ReceivePush(r)
    PROVE  Inv'
  <1>1. PICK n \in Notices :
            /\ <<r, n>> \in push
            /\ push' = push \ {<<r, n>>}
            /\ seen' = [s \in Streams |->
                  IF stream[s] = <<r, To[n]>> THEN seen[s] \cup {n} ELSE seen[s]]
    BY DEF ReceivePush
  <1>2. UNCHANGED <<links, current>> /\ UNCHANGED <<row, call>> /\ announced' = announced
    BY DEF ReceivePush, rows
  <1>3. TypeOK'
    <2>1. seen' \in [Streams -> SUBSET Notices]
      BY <1>1 DEF Inv, TypeOK
    <2> QED
      BY <1>1, <1>2, <2>1 DEF Inv, TypeOK, links
  <1>4. ToldIsStored'
    <2>1. Stored(n)
      BY <1>1 DEF Inv, ToldIsStored
    <2>2. \A s \in Streams : \A m \in seen'[s] : Stored(m)
      BY <1>1, <2>1 DEF Inv, ToldIsStored
    <2>3. \A q \in Replicas, m \in Notices : <<q, m>> \in push' => Stored(m)
      BY <1>1 DEF Inv, ToldIsStored
    <2> QED
      BY <1>2, <2>2, <2>3, ToldStays
  <1>5. CurrentTabsMissNothing'
    <2>1. ASSUME NEW s \in current, NEW m \in announced, To[m] = stream[s][2]
          PROVE  m \in seen'[s] \/ <<stream[s][1], m>> \in push'
      <3>1. s \in Streams /\ seen'[s] = IF stream[s] = <<r, To[n]>> THEN seen[s] \cup {n} ELSE seen[s]
        BY <1>1 DEF Inv, TypeOK
      <3>2. m \in seen[s] \/ <<stream[s][1], m>> \in push
        BY <2>1 DEF Inv, CurrentTabsMissNothing
      <3>3. CASE <<stream[s][1], m>> = <<r, n>>
        <4>1. stream[s] # None
          BY Nones DEF Inv, CurrentAreConfirmed, Channels
        <4>2. stream[s] = <<r, To[n]>>
          BY <2>1, <3>1, <3>3, <4>1, StreamTyped DEF Inv
        <4> QED
          BY <3>1, <3>3, <4>2
      <3>4. CASE <<stream[s][1], m>> # <<r, n>>
        BY <1>1, <3>1, <3>2, <3>4
      <3> QED
        BY <3>3, <3>4
    <2>2. UNCHANGED <<stream, current, announced>>
      BY <1>2 DEF links
    <2> QED
      BY <2>1, <2>2 DEF CurrentTabsMissNothing
  <1> QED
    BY <1>2, <1>3, <1>4, <1>5, LinksStay DEF Inv

(* The list holds whatever was published, and from then on the confirmed    *)
(* subscription does the rest.                                              *)
LEMMA ListKeepsInv ==
    ASSUME Inv, NEW s \in Streams, ListNotices(s)
    PROVE  Inv'
  <1> DEFINE listed == {n \in Notices : Stored(n) /\ To[n] = stream[s][2]}
  <1>1. PICK r \in Replicas, u \in Users : stream[s] = <<r, u>>
    BY StreamTyped DEF Inv, ListNotices
  <1>2. /\ seen' = [seen EXCEPT ![s] = @ \cup listed]
        /\ current' = IF Confirmed(r, u) THEN current \cup {s} ELSE current
        /\ UNCHANGED <<row, call, stream, channels, sent, subscribed, push, announced>>
    BY <1>1 DEF ListNotices, rows, links
  <1>3. \A t \in Streams : seen'[t] = IF t = s THEN seen[t] \cup listed ELSE seen[t]
    BY <1>2 DEF Inv, TypeOK
  <1>4. TypeOK'
    <2>1. seen' \in [Streams -> SUBSET Notices] /\ current' \in SUBSET Streams
      BY <1>2, <1>3 DEF Inv, TypeOK
    <2> QED
      BY <1>2, <2>1 DEF Inv, TypeOK
  <1>5. ToldIsStored'
    BY <1>2, <1>3, ToldStays DEF Inv, ToldIsStored
  <1>6. SubscriptionsFollowStreams'
    BY <1>2 DEF Inv, SubscriptionsFollowStreams, Served, WillBeSubscribed, CommandsAbout
  <1>7. CurrentAreConfirmed'
    <2>1. \A t \in current' : t \in current \/ (t = s /\ Confirmed(r, u))
      BY <1>2
    <2>2. \A q \in Replicas, v \in Users : Confirmed(q, v)' <=> Confirmed(q, v)
      BY <1>2 DEF Confirmed, CommandsAbout
    <2> QED
      BY <1>1, <1>2, <2>1, <2>2 DEF Inv, CurrentAreConfirmed
  <1>8. CurrentTabsMissNothing'
    <2>1. ASSUME NEW t \in current', NEW n \in announced, To[n] = stream[t][2]
          PROVE  n \in seen'[t] \/ <<stream[t][1], n>> \in push
      <3>1. t \in Streams /\ n \in Notices /\ Stored(n)
        BY <1>4 DEF Inv, TypeOK, ToldIsStored
      <3>2. CASE t = s
        BY <1>3, <2>1, <3>1, <3>2
      <3>3. CASE t # s
        BY <1>2, <1>3, <2>1, <3>1, <3>3 DEF Inv, CurrentTabsMissNothing
      <3> QED
        BY <3>2, <3>3
    <2> QED
      BY <1>2, <2>1 DEF CurrentTabsMissNothing
  <1> QED
    BY <1>4, <1>5, <1>6, <1>7, <1>8 DEF Inv

-----------------------------------------------------------------------------
(* Redis and restarts *)

(* What was sent is handled, in the order it was sent.                      *)
LEMMA HandleKeepsInv ==
    ASSUME Inv, NEW r \in Replicas, HandleCommand(r)
    PROVE  Inv'
  <1> DEFINE m == Head(sent[r])
             T == IF m.op = "subscribe"
                  THEN subscribed[r] \cup m.users
                  ELSE subscribed[r] \ m.users
  <1>1. /\ sent[r] # <<>>
        /\ subscribed' = [subscribed EXCEPT ![r] = T]
        /\ sent' = [sent EXCEPT ![r] = Tail(sent[r])]
        /\ UNCHANGED <<row, call, stream, channels, push, seen, announced, current>>
    BY DEF HandleCommand, rows
  <1>2. TypeOK /\ sent[r] \in Seq(Command)
    BY DEF Inv, TypeOK
  <1>3. Tail(sent[r]) \in Seq(Command) /\ m \in Command
    BY <1>1, <1>2, HeadTailProperties
  <1>4. T \in SUBSET Users
    BY <1>2, <1>3 DEF TypeOK, Command
  <1>5. /\ subscribed'[r] = T /\ sent'[r] = Tail(sent[r])
        /\ \A q \in Replicas \ {r} : subscribed'[q] = subscribed[q] /\ sent'[q] = sent[q]
    BY <1>1, <1>2 DEF TypeOK
  <1>6. TypeOK'
    <2>1. subscribed' \in [Replicas -> SUBSET Users]
      BY <1>1, <1>2, <1>4 DEF TypeOK
    <2>2. sent' \in [Replicas -> Seq(Command)]
      BY <1>1, <1>2, <1>3 DEF TypeOK
    <2> QED
      BY <1>1, <1>2, <2>1, <2>2 DEF TypeOK
  <1>7. ToldIsStored' /\ CurrentTabsMissNothing'
    <2>1. ToldIsStored'
      BY <1>1, ToldStays DEF Inv, ToldIsStored
    <2>2. CurrentTabsMissNothing'
      BY <1>1 DEF Inv, CurrentTabsMissNothing
    <2> QED
      BY <2>1, <2>2
  <1>8. ASSUME NEW u \in Users
        PROVE  Leaves(sent[r], subscribed[r], u) <=> Leaves(sent'[r], subscribed'[r], u)
    <2>1. u \in T <=> IF u \in m.users THEN m.op = "subscribe" ELSE u \in subscribed[r]
      OBVIOUS
    <2> HIDE DEF T
    <2>2. Leaves(sent[r], subscribed[r], u) <=> Leaves(Tail(sent[r]), T, u)
      BY <1>1, <1>2, <2>1, TailLeaves
    <2> QED
      BY <1>5, <2>2
  <1>9. SubscriptionsFollowStreams'
    <2>1. ASSUME NEW q \in Replicas, NEW u \in Users
          PROVE  WillBeSubscribed(q, u)' <=> WillBeSubscribed(q, u)
      BY <1>5, <1>8, WillBeSubscribedIs
    <2>2. \A q \in Replicas, u \in Users : Served(q, u)' <=> Served(q, u)
      BY <1>1 DEF Served
    <2> QED
      BY <1>1, <2>1, <2>2 DEF Inv, SubscriptionsFollowStreams
  <1>10. ASSUME NEW t \in current'
         PROVE  \E q \in Replicas, u \in Users :
                    stream'[t] = <<q, u>> /\ Confirmed(q, u)'
    <2>1. PICK q \in Replicas, u \in Users : stream[t] = <<q, u>> /\ Confirmed(q, u)
      BY <1>1 DEF Inv, CurrentAreConfirmed
    <2>2. CASE q # r
      BY <1>1, <1>5, <2>1, <2>2, ConfirmedIs
    <2>3. CASE q = r
      <3>1. u \in subscribed[r] /\ About(sent[r], u) = {}
        BY <2>1, <2>3, ConfirmedIs
      <3>2. About(Tail(sent[r]), u) = {} /\ u \notin m.users
        BY <1>1, <1>2, <3>1, TailAbout
      <3>3. u \in T
        BY <3>1, <3>2
      <3> QED
        BY <1>1, <1>5, <2>1, <2>3, <3>2, <3>3, ConfirmedIs
    <2> QED
      BY <2>2, <2>3
  <1> QED
    BY <1>6, <1>7, <1>9, <1>10 DEF Inv, CurrentAreConfirmed

(* What was confirmed is subscribed to again, ahead of what is sent again;  *)
(* no tab of the replica counts as up to date.                              *)
LEMMA DropKeepsInv ==
    ASSUME Inv, NEW r \in Replicas, DropLink(r)
    PROVE  Inv'
  <1>1. /\ sent' = [sent EXCEPT ![r] = <<Subscribe(subscribed[r])>> \o sent[r]]
        /\ subscribed' = [subscribed EXCEPT ![r] = {}]
        /\ push' = WithoutPushesTo(r)
        /\ current' = current \ OnReplica(r)
        /\ UNCHANGED <<row, call, stream, channels, seen, announced>>
    BY DEF DropLink, rows
  <1>2. TypeOK /\ sent[r] \in Seq(Command) /\ subscribed[r] \in SUBSET Users
    BY DEF Inv, TypeOK
  <1>3. <<Subscribe(subscribed[r])>> \o sent[r] \in Seq(Command)
    BY <1>2, ResendLeaves
  <1>4. /\ subscribed'[r] = {} /\ sent'[r] = <<Subscribe(subscribed[r])>> \o sent[r]
        /\ \A q \in Replicas \ {r} : subscribed'[q] = subscribed[q] /\ sent'[q] = sent[q]
    BY <1>1, <1>2 DEF TypeOK
  <1>5. TypeOK'
    <2>1. subscribed' \in [Replicas -> SUBSET Users]
      BY <1>1, <1>2 DEF TypeOK
    <2>2. sent' \in [Replicas -> Seq(Command)]
      BY <1>1, <1>2, <1>3 DEF TypeOK
    <2>3. push' \in SUBSET (Replicas \X Notices) /\ current' \in SUBSET Streams
      BY <1>1, <1>2 DEF TypeOK, WithoutPushesTo
    <2> QED
      BY <1>1, <1>2, <2>1, <2>2, <2>3 DEF TypeOK
  <1>6. ASSUME NEW t \in current'
        PROVE  t \in current /\ t \in Streams /\ stream[t] # None /\ stream[t][1] # r
    <2>1. t \in current /\ t \notin OnReplica(r)
      BY <1>1
    <2> QED
      BY <2>1, CurrentAreOpen DEF OnReplica
  <1>7. ToldIsStored'
    BY <1>1, ToldStays DEF Inv, ToldIsStored, WithoutPushesTo
  <1>8. CurrentTabsMissNothing'
    <2>1. ASSUME NEW t \in current', NEW n \in announced, To[n] = stream[t][2]
          PROVE  n \in seen[t] \/ <<stream[t][1], n>> \in push'
      BY <1>1, <1>6, <2>1 DEF Inv, CurrentTabsMissNothing, WithoutPushesTo
    <2> QED
      BY <1>1, <2>1 DEF CurrentTabsMissNothing
  <1>9. SubscriptionsFollowStreams'
    <2>1. ASSUME NEW q \in Replicas, NEW u \in Users
          PROVE  WillBeSubscribed(q, u)' <=> WillBeSubscribed(q, u)
      <3>1. Leaves(<<Subscribe(subscribed[r])>> \o sent[r], {}, u) <=>
                Leaves(sent[r], subscribed[r], u)
        BY <1>2, ResendLeaves
      <3>2. CASE q = r
        BY <1>4, <3>1, <3>2, WillBeSubscribedIs
      <3>3. CASE q # r
        BY <1>4, <3>3, WillBeSubscribedIs
      <3> QED
        BY <3>2, <3>3
    <2>2. \A q \in Replicas, u \in Users : Served(q, u)' <=> Served(q, u)
      BY <1>1 DEF Served
    <2> QED
      BY <1>1, <2>1, <2>2 DEF Inv, SubscriptionsFollowStreams
  <1>10. ASSUME NEW t \in current'
         PROVE  \E q \in Replicas, u \in Users :
                    stream'[t] = <<q, u>> /\ Confirmed(q, u)'
    <2>1. PICK q \in Replicas, u \in Users : stream[t] = <<q, u>> /\ Confirmed(q, u)
      BY <1>6 DEF Inv, CurrentAreConfirmed
    <2>2. q # r
      BY <1>6, <2>1
    <2> QED
      BY <1>1, <1>4, <2>1, <2>2, ConfirmedIs
  <1> QED
    BY <1>5, <1>7, <1>8, <1>9, <1>10 DEF Inv, CurrentAreConfirmed

(* A replica that stops serves no stream and has no subscription.           *)
LEMMA RestartKeepsInv ==
    ASSUME Inv, NEW r \in Replicas, Restart(r)
    PROVE  Inv'
  <1>1. /\ stream' = [s \in Streams |-> IF s \in OnReplica(r) THEN None ELSE stream[s]]
        /\ seen' = [s \in Streams |-> IF s \in OnReplica(r) THEN {} ELSE seen[s]]
        /\ channels' = {ch \in channels : ch[1] # r}
        /\ sent' = [sent EXCEPT ![r] = <<>>]
        /\ subscribed' = [subscribed EXCEPT ![r] = {}]
        /\ push' = WithoutPushesTo(r)
        /\ current' = current \ OnReplica(r)
        /\ UNCHANGED <<row, call, announced>>
    BY DEF Restart, rows
  <1>2. TypeOK
    BY DEF Inv
  <1>3. /\ subscribed'[r] = {} /\ sent'[r] = <<>>
        /\ \A q \in Replicas \ {r} : subscribed'[q] = subscribed[q] /\ sent'[q] = sent[q]
    BY <1>1, <1>2 DEF TypeOK
  <1>4. TypeOK'
    <2>1. stream' \in [Streams -> Channels \cup {None}]
      BY <1>1, <1>2 DEF TypeOK
    <2>2. seen' \in [Streams -> SUBSET Notices]
      BY <1>1, <1>2 DEF TypeOK
    <2>3. subscribed' \in [Replicas -> SUBSET Users] /\ sent' \in [Replicas -> Seq(Command)]
      BY <1>1, <1>2, EmptySeq DEF TypeOK
    <2>4. /\ channels' \in SUBSET Channels /\ current' \in SUBSET Streams
          /\ push' \in SUBSET (Replicas \X Notices)
      BY <1>1, <1>2 DEF TypeOK, WithoutPushesTo
    <2> QED
      BY <1>1, <1>2, <2>1, <2>2, <2>3, <2>4 DEF TypeOK
  <1>5. ASSUME NEW t \in current'
        PROVE  /\ t \in current /\ t \in Streams
               /\ stream[t] # None /\ stream[t][1] # r
               /\ stream'[t] = stream[t] /\ seen'[t] = seen[t]
    <2>1. t \in current /\ t \notin OnReplica(r)
      BY <1>1
    <2>2. t \in Streams /\ stream[t] # None
      BY <2>1, CurrentAreOpen
    <2>3. stream[t][1] # r
      BY <2>1, <2>2 DEF OnReplica
    <2> QED
      BY <1>1, <2>1, <2>2, <2>3
  <1>6. ToldIsStored'
    BY <1>1, ToldStays DEF Inv, ToldIsStored, WithoutPushesTo
  <1>7. CurrentTabsMissNothing'
    <2>1. ASSUME NEW t \in current', NEW n \in announced, To[n] = stream'[t][2]
          PROVE  n \in seen'[t] \/ <<stream'[t][1], n>> \in push'
      BY <1>1, <1>5, <2>1 DEF Inv, CurrentTabsMissNothing, WithoutPushesTo
    <2> QED
      BY <1>1, <2>1 DEF CurrentTabsMissNothing
  <1>8. \A q \in Replicas, u \in Users : Served(q, u)' <=> Served(q, u) /\ q # r
    <2>1. \A q \in Replicas, u \in Users : <<q, u>> # None
      BY Nones DEF Channels
    <2>2. \A t \in Streams, q \in Replicas, u \in Users :
              stream'[t] = <<q, u>> <=> stream[t] = <<q, u>> /\ t \notin OnReplica(r)
      BY <1>1, <2>1
    <2>3. \A t \in Streams, q \in Replicas, u \in Users :
              stream[t] = <<q, u>> => (t \in OnReplica(r) <=> q = r)
      BY <2>1 DEF OnReplica
    <2> QED
      BY <2>2, <2>3 DEF Served
  <1>9. SubscriptionsFollowStreams'
    <2>1. ASSUME NEW q \in Replicas, NEW u \in Users
          PROVE  WillBeSubscribed(q, u)' <=> WillBeSubscribed(q, u) /\ q # r
      <3>1. CASE q = r
        <4>1. ~ Leaves(sent'[r], subscribed'[r], u)
          BY <1>3 DEF Leaves, About
        <4> QED
          BY <3>1, <4>1, WillBeSubscribedIs
      <3>2. CASE q # r
        BY <1>3, <3>2, WillBeSubscribedIs
      <3> QED
        BY <3>1, <3>2
    <2>2. \A q \in Replicas, u \in Users : <<q, u>> \in channels' <=> <<q, u>> \in channels /\ q # r
      BY <1>1
    <2> QED
      BY <1>8, <2>1, <2>2 DEF Inv, SubscriptionsFollowStreams
  <1>10. ASSUME NEW t \in current'
         PROVE  \E q \in Replicas, u \in Users :
                    stream'[t] = <<q, u>> /\ Confirmed(q, u)'
    <2>1. PICK q \in Replicas, u \in Users : stream[t] = <<q, u>> /\ Confirmed(q, u)
      BY <1>5 DEF Inv, CurrentAreConfirmed
    <2>2. q # r
      BY <1>5, <2>1
    <2> QED
      BY <1>3, <1>5, <2>1, <2>2, ConfirmedIs
  <1> QED
    BY <1>4, <1>6, <1>7, <1>9, <1>10 DEF Inv, CurrentAreConfirmed

-----------------------------------------------------------------------------
LEMMA StutterKeepsInv ==
    ASSUME Inv, UNCHANGED vars
    PROVE  Inv'
  <1>1. /\ UNCHANGED <<row, call, stream, channels, sent, subscribed>>
        /\ UNCHANGED <<push, seen, announced, current, links>>
    BY DEF vars, links
  <1>2. TypeOK'
    BY <1>1 DEF Inv, TypeOK
  <1>3. ToldIsStored' /\ CurrentTabsMissNothing'
    BY <1>1 DEF Inv, ToldIsStored, CurrentTabsMissNothing, At, Stored
  <1> QED
    BY <1>1, <1>2, <1>3, LinksStay DEF Inv

LEMMA NextKeepsInv ==
    ASSUME Inv, Next
    PROVE  Inv'
  <1>1. ASSUME NEW c \in Calls, Begin(c) \/ Step(c) \/ Fail(c)
        PROVE  Inv'
    BY <1>1, BeginKeepsInv, CreateKeepsInv, PublishKeepsInv, FindKeepsInv,
       UpdateKeepsInv, FailKeepsInv DEF Step
  <1>2. ASSUME NEW s \in Streams, Tab(s)
        PROVE  Inv'
    BY <1>2, OpenKeepsInv, CloseKeepsInv, ListKeepsInv DEF Tab
  <1>3. ASSUME NEW r \in Replicas, Redis(r)
        PROVE  Inv'
    BY <1>3, HandleKeepsInv, ReceiveKeepsInv, DropKeepsInv, RestartKeepsInv DEF Redis
  <1> QED
    BY <1>1, <1>2, <1>3 DEF Next

(* The invariant holds for every number of tabs, replicas and calls.        *)
THEOREM InvHolds == Spec => []Inv
  <1> QED
    BY InitInv, NextKeepsInv, StutterKeepsInv, PTL DEF Spec

(* Rows, calls, streams and queues keep their types (prisma schema, redis). *)
THEOREM TypeCorrect == Spec => []TypeOK
  <1>1. Inv => TypeOK
    BY DEF Inv
  <1> QED
    BY <1>1, InvHolds, PTL

(* Once Redis has handled what is under way, a replica is subscribed to the *)
(* channels it serves streams of and to no other (redis-pubsub.service.ts). *)
THEOREM FollowHolds == Spec => []SubscriptionsFollowStreams
  <1>1. Inv => SubscriptionsFollowStreams
    BY DEF Inv
  <1> QED
    BY <1>1, InvHolds, PTL

(* A tab that listed while subscribed has no gap between its list and its   *)
(* stream (notifications.service.ts).                                       *)
THEOREM MissNothingHolds == Spec => []CurrentTabsMissNothing
  <1>1. Inv => CurrentTabsMissNothing
    BY DEF Inv
  <1> QED
    BY <1>1, InvHolds, PTL

-----------------------------------------------------------------------------
(* The feed *)

(* What the rows and the streams are for the feed.                          *)
Posted == {n \in Notices : Stored(n)}
ReadOnes == {n \in Notices : row[n] = "read"}
Shows == [s \in Streams |-> IF stream[s] = None THEN None ELSE stream[s][2]]

(* A row is inserted: its notice is posted.                                 *)
LEMMA CreatePosts ==
    ASSUME Inv, NEW c \in Calls, CreateNotification(c)
    PROVE  Feed!Next
  <1>1. PICK n \in Notices : ~Stored(n) /\ row' = [row EXCEPT ![n] = "unread"]
    BY DEF CreateNotification
  <1>2. \A m \in Notices : row'[m] = IF m = n THEN "unread" ELSE row[m]
    BY <1>1 DEF Inv, TypeOK
  <1>3. n \notin Posted /\ Posted' = Posted \cup {n}
    BY <1>1, <1>2 DEF Posted, Stored
  <1>4. ReadOnes' = ReadOnes
    BY <1>1, <1>2 DEF ReadOnes, Stored
  <1>5. UNCHANGED <<Shows, seen>>
    BY DEF CreateNotification, links, Shows
  <1>6. Feed!Post(n)
    BY <1>3, <1>4, <1>5 DEF Feed!Post, Posted, ReadOnes, Shows
  <1> QED
    BY <1>6 DEF Feed!Next

(* The time of reading is set on a stored row.                              *)
LEMMA UpdateMarks ==
    ASSUME Inv, NEW c \in Calls, UpdateReadAt(c)
    PROVE  Feed!Next
  <1>1. PICK n \in Notices : Stored(n) /\ row' = [row EXCEPT ![n] = "read"]
    BY CallTyped DEF Inv, ToldIsStored, UpdateReadAt
  <1>2. \A m \in Notices : row'[m] = IF m = n THEN "read" ELSE row[m]
    BY <1>1 DEF Inv, TypeOK
  <1>3. n \in Posted /\ Posted' = Posted
    BY <1>1, <1>2 DEF Posted, Stored
  <1>4. ReadOnes' = ReadOnes \cup {n}
    BY <1>1, <1>2 DEF ReadOnes
  <1>5. UNCHANGED <<Shows, seen>>
    BY DEF UpdateReadAt, links, Shows
  <1>6. Feed!MarkRead(n)
    BY <1>3, <1>4, <1>5 DEF Feed!MarkRead, Posted, ReadOnes, Shows
  <1> QED
    BY <1>1, <1>6 DEF Feed!Next

(* A stream is a tab that is open for its user.                             *)
LEMMA OpenOpens ==
    ASSUME Inv, NEW s \in Streams, OpenStream(s)
    PROVE  Feed!Next
  <1>1. PICK r \in Replicas, u \in Users :
            /\ stream[s] = None
            /\ stream' = [stream EXCEPT ![s] = <<r, u>>]
            /\ UNCHANGED <<row, seen>>
    BY DEF OpenStream, rows
  <1>2. <<r, u>> # None
    BY Nones DEF Channels
  <1>3. Shows[s] = None /\ Shows' = [Shows EXCEPT ![s] = u]
    BY <1>1, <1>2 DEF Shows, Inv, TypeOK
  <1>4. Posted' = Posted /\ ReadOnes' = ReadOnes
    BY <1>1 DEF Posted, ReadOnes, Stored
  <1>5. Feed!OpenTab(s)
    BY <1>1, <1>3, <1>4 DEF Feed!OpenTab, Posted, ReadOnes, Shows
  <1> QED
    BY <1>5 DEF Feed!Next

(* Streams that end, one by one or with their replica, are tabs that close. *)
LEMMA EndCloses ==
    ASSUME NEW T \in SUBSET Streams,
           stream' = [s \in Streams |-> IF s \in T THEN None ELSE stream[s]],
           seen' = [s \in Streams |-> IF s \in T THEN {} ELSE seen[s]],
           row' = row
    PROVE  Feed!Next
  <1>1. Shows' = [s \in Streams |-> IF s \in T THEN None ELSE Shows[s]]
    BY DEF Shows
  <1>2. Posted' = Posted /\ ReadOnes' = ReadOnes
    BY DEF Posted, ReadOnes, Stored
  <1>3. Feed!CloseTabs(T)
    BY <1>1, <1>2 DEF Feed!CloseTabs, Posted, ReadOnes, Shows
  <1> QED
    BY <1>3 DEF Feed!Next

LEMMA CloseCloses ==
    ASSUME Inv, NEW s \in Streams, CloseStream(s)
    PROVE  Feed!Next
  <1>1. /\ stream' = [t \in Streams |-> IF t \in {s} THEN None ELSE stream[t]]
        /\ seen' = [t \in Streams |-> IF t \in {s} THEN {} ELSE seen[t]]
        /\ row' = row
    BY DEF CloseStream, rows, Inv, TypeOK
  <1> QED
    BY <1>1, EndCloses

LEMMA RestartCloses ==
    ASSUME NEW r \in Replicas, Restart(r)
    PROVE  Feed!Next
  <1>1. OnReplica(r) \in SUBSET Streams
    BY DEF OnReplica
  <1> QED
    BY <1>1, EndCloses DEF Restart, rows

(* Whatever a tab learns is stored, and its own user's.                     *)
LEMMA LearningShows ==
    ASSUME Inv', UNCHANGED <<row, stream>>,
           \A s \in Streams : /\ seen[s] \subseteq seen'[s]
                              /\ \A n \in seen'[s] \ seen[s] : To[n] = Shows[s]
    PROVE  Feed!Next
  <1>1. seen' \in [Streams -> SUBSET Posted]
    <2>1. seen' \in [Streams -> SUBSET Notices] /\ \A s \in Streams : \A n \in seen'[s] : Stored(n)'
      BY DEF Inv, TypeOK, ToldIsStored
    <2> QED
      BY <2>1 DEF Posted, Stored
  <1>2. UNCHANGED <<Posted, ReadOnes, Shows>>
    BY DEF Posted, ReadOnes, Shows, Stored
  <1>3. Feed!Show
    BY <1>1, <1>2 DEF Feed!Show, Posted, ReadOnes, Shows
  <1> QED
    BY <1>3 DEF Feed!Next

LEMMA ReceiveShows ==
    ASSUME Inv, Inv', NEW r \in Replicas, ReceivePush(r)
    PROVE  Feed!Next
  <1>1. PICK n \in Notices :
            seen' = [s \in Streams |->
                IF stream[s] = <<r, To[n]>> THEN seen[s] \cup {n} ELSE seen[s]]
    BY DEF ReceivePush
  <1>2. <<r, To[n]>> # None
    BY Nones DEF Channels
  <1>3. ASSUME NEW s \in Streams
        PROVE  /\ seen[s] \subseteq seen'[s]
               /\ \A m \in seen'[s] \ seen[s] : To[m] = Shows[s]
    BY <1>1, <1>2 DEF Shows
  <1>4. UNCHANGED <<row, stream>>
    BY DEF ReceivePush, rows, links
  <1> QED
    BY <1>3, <1>4, LearningShows

LEMMA ListShows ==
    ASSUME Inv, Inv', NEW s \in Streams, ListNotices(s)
    PROVE  Feed!Next
  <1>1. /\ stream[s] # None
        /\ seen' = [seen EXCEPT ![s] =
               @ \cup {n \in Notices : Stored(n) /\ To[n] = stream[s][2]}]
    BY DEF ListNotices
  <1>2. ASSUME NEW t \in Streams
        PROVE  /\ seen[t] \subseteq seen'[t]
               /\ \A m \in seen'[t] \ seen[t] : To[m] = Shows[t]
    BY <1>1 DEF Shows, Inv, TypeOK
  <1>3. UNCHANGED <<row, stream>>
    BY DEF ListNotices, rows, links
  <1> QED
    BY <1>2, <1>3, LearningShows

(* Every step is a step of the feed, or none.                               *)
LEMMA StepRefines ==
    ASSUME Inv, Inv', [Next]_vars
    PROVE  Feed!Next \/ UNCHANGED <<row, stream, seen>>
  <1>1. ASSUME NEW c \in Calls, Begin(c) \/ Fail(c) \/ Publish(c) \/ FindOneById(c)
        PROVE  UNCHANGED <<row, stream, seen>>
    BY <1>1 DEF Begin, BeginCreate, BeginRead, Enter, Fail, Publish, FindOneById, links
  <1>2. ASSUME NEW r \in Replicas, HandleCommand(r) \/ DropLink(r)
        PROVE  UNCHANGED <<row, stream, seen>>
    BY <1>2 DEF HandleCommand, DropLink, rows
  <1>3. CASE UNCHANGED vars
    BY <1>3 DEF vars
  <1>4. CASE Next
    BY <1>1, <1>2, <1>4, CreatePosts, UpdateMarks, OpenOpens, CloseCloses, RestartCloses,
       ReceiveShows, ListShows DEF Next, Step, Tab, Redis
  <1> QED
    BY <1>3, <1>4

(* For any number of tabs and replicas, rows and tabs implement the feed    *)
(* (notifications.service.ts, notifications.repository.ts).                 *)
THEOREM ImplementsFeed == Spec => FeedIsKept
  <1>1. Init => Feed!Init
    BY DEF Init, Feed!Init, Stored
  <1>2. Inv /\ Inv' /\ [Next]_vars =>
            [Feed!Next]_<<Posted, ReadOnes, Shows, seen>>
    <2>1. UNCHANGED <<row, stream, seen>> => UNCHANGED <<Posted, ReadOnes, Shows, seen>>
      BY DEF Posted, ReadOnes, Shows, Stored
    <2> QED
      BY <2>1, StepRefines
  <1>3. Inv /\ Inv' /\ [Next]_vars =>
            [Feed!Next]_<<{n \in Notices : Stored(n)}, {n \in Notices : row[n] = "read"},
                [s \in Streams |-> IF stream[s] = None THEN None ELSE stream[s][2]], seen>>
    BY <1>2 DEF Posted, ReadOnes, Shows
  <1> QED
    BY <1>1, <1>3, InvHolds, PTL DEF Spec, FeedIsKept, Feed!Spec

-----------------------------------------------------------------------------
(* Why messages and subscriptions arrive, as far as no fairness is needed.  *)

(* A tab that is up to date has yet to hear of what was published.          *)
Awaited(s, n) ==
    s \in current /\ n \in announced /\ To[n] = stream[s][2] /\ n \notin seen[s]

Reached(s, n) == n \in seen[s] \/ s \notin current

(* As long as a tab waits for a message the message is on its way, it waits *)
(* until it is reached or falls behind, and the arrival reaches it.         *)
MessagesWait ==
    [][\A s \in Streams, n \in Notices :
          Awaited(s, n) =>
              /\ <<stream[s][1], n>> \in push
              /\ Awaited(s, n)' \/ Reached(s, n)'
              /\ Deliver(stream[s][1], n) => Reached(s, n)']_vars

(* As long as a channel is served and the connection lives, nothing is sent *)
(* about it, and each command that is handled brings the others nearer.     *)
CommandsComeNearer ==
    [][\A r \in Replicas, u \in Users :
          Served(r, u) /\ Served(r, u)' /\ ~DropLink(r) =>
              \/ CommandsAbout(r, u)' = CommandsAbout(r, u)
              \/ /\ HandleCommand(r)
                 /\ CommandsAbout(r, u)' = {i - 1 : i \in CommandsAbout(r, u) \ {1}}]_vars

(* When no command about a served channel is left, it is confirmed.         *)
ServedAndQuietIsConfirmed ==
    \A r \in Replicas, u \in Users :
        Served(r, u) /\ CommandsAbout(r, u) = {} => Confirmed(r, u)

LEMMA CommandsAre ==
    ASSUME NEW r, NEW u
    PROVE  /\ CommandsAbout(r, u) = About(sent[r], u)
           /\ CommandsAbout(r, u)' = About(sent'[r], u)
  BY DEF CommandsAbout, About

LEMMA TailComesNearer ==
    ASSUME NEW q \in Seq(Command), q # <<>>, NEW u
    PROVE  About(Tail(q), u) = {i - 1 : i \in About(q, u) \ {1}}
  <1>1. /\ Len(q) \in Nat \ {0} /\ DOMAIN q = 1 .. Len(q)
        /\ DOMAIN Tail(q) = 1 .. (Len(q) - 1)
        /\ \A i \in 1 .. (Len(q) - 1) : Tail(q)[i] = q[i + 1]
    BY HeadTailProperties, LenProperties, EmptySeq
  <1>2. ASSUME NEW i \in About(Tail(q), u)
        PROVE  i + 1 \in About(q, u) \ {1} /\ i = (i + 1) - 1
    BY <1>1 DEF About
  <1>3. ASSUME NEW i \in About(q, u) \ {1}
        PROVE  i - 1 \in About(Tail(q), u)
    <2>1. i \in 2 .. Len(q) /\ u \in q[i].users
      BY <1>1 DEF About
    <2>2. i - 1 \in 1 .. (Len(q) - 1) /\ Tail(q)[i - 1] = q[i]
      BY <1>1, <2>1
    <2> QED
      BY <1>1, <2>1, <2>2 DEF About
  <1> QED
    BY <1>2, <1>3

(* Only a stream that closes, or its replica, ends what a tab waits for.    *)
LEMMA CurrentStay ==
    ASSUME Inv, [Next]_vars, NEW s \in current, s \in current'
    PROVE  stream'[s] = stream[s] /\ announced \subseteq announced'
  <1>1. s \in Streams /\ stream[s] # None /\ TypeOK
    BY CurrentAreOpen DEF Inv
  <1>2. CASE UNCHANGED vars
    BY <1>2 DEF vars
  <1>3. ASSUME NEW c \in Calls, Begin(c) \/ Step(c) \/ Fail(c)
        PROVE  stream' = stream /\ announced \subseteq announced'
    BY <1>3 DEF Begin, BeginCreate, BeginRead, Enter, Step, CreateNotification, Publish,
                FindOneById, UpdateReadAt, Fail, links
  <1>4. ASSUME NEW t \in Streams, OpenStream(t)
        PROVE  stream'[s] = stream[s] /\ announced' = announced
    BY <1>1, <1>4 DEF OpenStream, TypeOK
  <1>5. ASSUME NEW t \in Streams, CloseStream(t)
        PROVE  stream'[s] = stream[s] /\ announced' = announced
    BY <1>1, <1>5 DEF CloseStream, TypeOK
  <1>6. ASSUME NEW t \in Streams, ListNotices(t)
        PROVE  stream' = stream /\ announced' = announced
    BY <1>6 DEF ListNotices, links
  <1>7. ASSUME NEW r \in Replicas, HandleCommand(r) \/ ReceivePush(r) \/ DropLink(r)
        PROVE  stream' = stream /\ announced' = announced
    BY <1>7 DEF HandleCommand, ReceivePush, DropLink, links
  <1>8. ASSUME NEW r \in Replicas, Restart(r)
        PROVE  stream'[s] = stream[s] /\ announced' = announced
    BY <1>1, <1>8 DEF Restart
  <1> QED
    BY <1>2, <1>3, <1>4, <1>5, <1>6, <1>7, <1>8 DEF Next, Tab, Redis

LEMMA AwaitedGoesOn ==
    ASSUME Inv, [Next]_vars, NEW s \in Streams, NEW n \in Notices, Awaited(s, n)
    PROVE  /\ <<stream[s][1], n>> \in push
           /\ Awaited(s, n)' \/ Reached(s, n)'
           /\ Deliver(stream[s][1], n) => Reached(s, n)'
  <1>1. <<stream[s][1], n>> \in push
    BY DEF Awaited, Inv, CurrentTabsMissNothing
  <1>2. Awaited(s, n)' \/ Reached(s, n)'
    BY CurrentStay DEF Awaited, Reached
  <1>3. ASSUME Deliver(stream[s][1], n)
        PROVE  n \in seen'[s]
    <2> DEFINE r == stream[s][1]
    <2>1. PICK m \in Notices :
              /\ push' = push \ {<<r, m>>}
              /\ seen' = [t \in Streams |->
                    IF stream[t] = <<r, To[m]>> THEN seen[t] \cup {m} ELSE seen[t]]
      BY <1>3 DEF Deliver, ReceivePush
    <2>2. m = n
      BY <1>3, <2>1 DEF Deliver
    <2>3. stream[s] = <<r, To[n]>>
      BY CurrentAreOpen, StreamTyped DEF Awaited, Inv
    <2> QED
      BY <2>1, <2>2, <2>3
  <1> QED
    BY <1>1, <1>2, <1>3 DEF Reached

(* A tab that is up to date waits for nothing that is not on its way to it  *)
(* and does not get lost before it falls behind (notifications.service.ts:  *)
(* 46-67).  What is left of PublishedNoticesArrive is that it arrives.      *)
THEOREM MessagesGetThrough == Spec => MessagesWait
  <1>1. Inv /\ [Next]_vars =>
            [\A s \in Streams, n \in Notices :
                Awaited(s, n) =>
                    /\ <<stream[s][1], n>> \in push
                    /\ Awaited(s, n)' \/ Reached(s, n)'
                    /\ Deliver(stream[s][1], n) => Reached(s, n)']_vars
    BY AwaitedGoesOn
  <1> QED
    BY <1>1, InvHolds, PTL DEF Spec, MessagesWait

(* Streams that come and go send commands about their own channel only, and *)
(* about one that is served before and after they send none.                *)
LEMMA TabSendsForItself ==
    ASSUME Inv, NEW s \in Streams, Tab(s), NEW r \in Replicas, NEW u \in Users,
           Served(r, u), Served(r, u)'
    PROVE  About(sent'[r], u) = About(sent[r], u)
  <1>1. TypeOK /\ <<r, u>> \in channels /\ sent[r] \in Seq(Command)
    BY DEF Inv, TypeOK, SubscriptionsFollowStreams
  <1>2. ASSUME NEW q \in Replicas, NEW v \in Users, NEW m \in Command,
               m.users = {v}, Send(q, m), <<q, v>> # <<r, u>>
        PROVE  About(sent'[r], u) = About(sent[r], u)
    <2>1. CASE q = r
      <3>1. sent'[r] = Append(sent[r], m)
        BY <1>1, <1>2, <2>1, SendBecomes
      <3>2. u \notin m.users
        BY <1>2, <2>1
      <3> QED
        BY <1>1, <3>1, <3>2, AppendAbout
    <2>2. CASE q # r
      BY <1>1, <1>2, <2>2, SendBecomes
    <2> QED
      BY <2>1, <2>2
  <1>3. CASE OpenStream(s)
    <2>1. PICK q \in Replicas, v \in Users :
              IF <<q, v>> \in channels THEN sent' = sent ELSE Send(q, Subscribe({v}))
      BY <1>3 DEF OpenStream
    <2>2. Subscribe({v}) \in Command /\ Subscribe({v}).users = {v}
      BY DEF Subscribe, Command
    <2> QED
      BY <1>1, <1>2, <2>1, <2>2
  <1>4. CASE CloseStream(s)
    <2>1. PICK q \in Replicas, v \in Users : stream[s] = <<q, v>>
      BY <1>1, <1>4, StreamTyped DEF CloseStream
    <2>2. /\ stream' = [stream EXCEPT ![s] = None]
          /\ IF \E t \in Streams \ {s} : stream[t] = <<q, v>>
             THEN sent' = sent ELSE Send(q, Unsubscribe({v}))
      BY <1>4, <2>1 DEF CloseStream
    <2>3. Unsubscribe({v}) \in Command /\ Unsubscribe({v}).users = {v}
      BY DEF Unsubscribe, Command
    <2>4. ASSUME <<q, v>> = <<r, u>>
          PROVE  \E t \in Streams \ {s} : stream[t] = <<q, v>>
      <3>1. PICK t \in Streams : stream'[t] = <<r, u>>
        BY DEF Served
      <3>2. <<r, u>> # None
        BY Nones DEF Channels
      <3> QED
        BY <1>1, <2>2, <2>4, <3>1, <3>2 DEF TypeOK
    <2> QED
      BY <1>2, <2>2, <2>3, <2>4
  <1>5. CASE ListNotices(s)
    BY <1>5 DEF ListNotices, links
  <1> QED
    BY <1>3, <1>4, <1>5 DEF Tab

LEMMA RedisHandlesInOrder ==
    ASSUME Inv, NEW q \in Replicas, Redis(q), NEW r \in Replicas, NEW u \in Users,
           Served(r, u)', ~DropLink(r)
    PROVE  \/ About(sent'[r], u) = About(sent[r], u)
           \/ /\ HandleCommand(r)
              /\ About(sent'[r], u) = {i - 1 : i \in About(sent[r], u) \ {1}}
  <1>1. sent \in [Replicas -> Seq(Command)]
    BY DEF Inv, TypeOK
  <1>2. CASE HandleCommand(q)
    <2>1. sent[q] # <<>> /\ sent' = [sent EXCEPT ![q] = Tail(@)]
      BY <1>2 DEF HandleCommand
    <2>2. CASE q = r
      BY <1>1, <1>2, <2>1, <2>2, TailComesNearer
    <2>3. CASE q # r
      BY <1>1, <2>1, <2>3
    <2> QED
      BY <2>2, <2>3
  <1>3. CASE ReceivePush(q)
    BY <1>3 DEF ReceivePush, links
  <1>4. CASE DropLink(q)
    BY <1>1, <1>4 DEF DropLink
  <1>5. CASE Restart(q)
    <2>1. q # r
      <3>1. PICK s \in Streams : stream'[s] = <<r, u>>
        BY DEF Served
      <3>2. stream'[s] = IF s \in OnReplica(q) THEN None ELSE stream[s]
        BY <1>5 DEF Restart
      <3>3. <<r, u>> # None
        BY Nones DEF Channels
      <3> QED
        BY <3>1, <3>2, <3>3 DEF OnReplica
    <2> QED
      BY <1>1, <1>5, <2>1 DEF Restart
  <1> QED
    BY <1>2, <1>3, <1>4, <1>5 DEF Redis

(* While a replica serves a stream, nothing new is sent about its channel   *)
(* (redis-pubsub.service.ts:42-57), so what is under way is handled command *)
(* by command.  What is left of OpenStreamsAreConfirmed is that it is.      *)
THEOREM SubscriptionsGetThrough == Spec => CommandsComeNearer
  <1>1. ASSUME Inv, [Next]_vars, NEW r \in Replicas, NEW u \in Users,
               Served(r, u), Served(r, u)', ~DropLink(r)
        PROVE  \/ CommandsAbout(r, u)' = CommandsAbout(r, u)
               \/ /\ HandleCommand(r)
                  /\ CommandsAbout(r, u)' = {i - 1 : i \in CommandsAbout(r, u) \ {1}}
    <2>1. ASSUME NEW c \in Calls, Begin(c) \/ Step(c) \/ Fail(c)
          PROVE  sent' = sent
      BY <2>1 DEF Begin, BeginCreate, BeginRead, Enter, Step, CreateNotification, Publish,
                  FindOneById, UpdateReadAt, Fail, links
    <2>2. CASE UNCHANGED vars
      BY <2>2, CommandsAre DEF vars
    <2>3. CASE Next
      BY <1>1, <2>1, <2>3, CommandsAre, TabSendsForItself, RedisHandlesInOrder DEF Next
    <2> QED
      BY <1>1, <2>2, <2>3
  <1>2. Inv /\ [Next]_vars =>
            [\A r \in Replicas, u \in Users :
                Served(r, u) /\ Served(r, u)' /\ ~DropLink(r) =>
                    \/ CommandsAbout(r, u)' = CommandsAbout(r, u)
                    \/ /\ HandleCommand(r)
                       /\ CommandsAbout(r, u)' =
                              {i - 1 : i \in CommandsAbout(r, u) \ {1}}]_vars
    BY <1>1
  <1> QED
    BY <1>2, InvHolds, PTL DEF Spec, CommandsComeNearer

(* A replica that serves a stream is subscribed as soon as Redis has        *)
(* handled what was sent about the channel (redis-pubsub.service.ts:47).    *)
THEOREM QuietIsConfirmed == Spec => []ServedAndQuietIsConfirmed
  <1>1. Inv => ServedAndQuietIsConfirmed
    BY DEF Inv, SubscriptionsFollowStreams, WillBeSubscribed, Confirmed,
           ServedAndQuietIsConfirmed
  <1> QED
    BY <1>1, InvHolds, PTL
=============================================================================
