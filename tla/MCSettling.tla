------------------------------ MODULE MCSettling ------------------------------
(***************************************************************************)
(* What has to happen in the end, in two parts that share no state: the    *)
(* accounts, and the notifications.  One of them, chosen in the beginning, *)
(* runs while the other stays as it is; there, nothing is awaited or under *)
(* way that fairness could ask for.  The accounts are what this module     *)
(* extends; the notifications are an instance with one replica.            *)
(***************************************************************************)
EXTENDS Accounts, TLC

CONSTANTS google, kakao, reader, n1, n2, s1, s2, r1, c1

VARIABLES
    part,
    row, notiCall, stream, channels, sent, subscribed, push, seen, announced, current

MCProvider == google :> "GOOGLE" @@ kakao :> "KAKAO"

Noti == INSTANCE Notifications
            WITH Users <- {reader}, Notices <- {n1, n2}, To <- [n \in {n1, n2} |-> reader],
                 Streams <- {s1, s2}, Replicas <- {r1}, Calls <- {c1},
                 CommandLimit <- 2, call <- notiCall

notiVars == <<row, notiCall, stream, channels, sent, subscribed, push, seen,
              announced, current>>

SettlingInit ==
    /\ part \in {"accounts", "notifications"}
    /\ Init /\ Noti!Init

InAccounts ==
    /\ part = "accounts"
    /\ Next
    /\ UNCHANGED <<part, notiVars>>

InNotifications ==
    /\ part = "notifications"
    /\ Noti!Next
    /\ UNCHANGED <<part, vars>>

SettlingNext == InAccounts \/ InNotifications

SettlingSpec ==
    /\ SettlingInit /\ [][SettlingNext]_<<part, vars, notiVars>>
    /\ Fairness /\ Noti!Fairness

-----------------------------------------------------------------------------
(* A stream that stays open is subscribed some day                          *)
(* (redis-pubsub.service.ts:42-57).                                         *)
OpenStreamsAreConfirmed == Noti!OpenStreamsAreConfirmed

(* What was published reaches the tabs that are up to date                  *)
(* (notifications.service.ts:46-67).                                        *)
PublishedNoticesArrive == Noti!PublishedNoticesArrive
=============================================================================
