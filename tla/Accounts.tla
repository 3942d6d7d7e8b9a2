------------------------------ MODULE Accounts ------------------------------
(***************************************************************************)
(* Accounts, the social identities that log in to them and their refresh   *)
(* tokens (src/src/module/auth, src/src/module/users).                     *)
(*                                                                         *)
(* As in Connections, a call is a running handler, each action is what it  *)
(* does between two awaits, and pc names the query it is about to await.   *)
(*                                                                         *)
(* A refresh token is a JWT of the user and of the second it was signed    *)
(* in, so two of them differ exactly if one of these does.  The clock is   *)
(* left out: a token may be signed in any second.  The OAuth state kept in *)
(* Redis and the provider's answer decide only whether a login fails, as   *)
(* any step may.  Access tokens carry no server state.                     *)
(***************************************************************************)
EXTENDS Naturals, FiniteSets

CONSTANTS
    Users,          \* ids of users, those not yet given out included
    Emails,
    Identities,     \* accounts at the social login providers
    Provider,       \* the provider of an identity
    Devices,        \* values of the device_id cookie
    Seconds,        \* in which a token may be signed
    Calls,          \* slots for concurrently running handlers
    None            \* a null, or an unused field of a slot

ASSUME AccountsAssumption ==
    None \notin Users \cup Emails \cup Identities \cup Devices \cup Seconds

NoAccount == [state |-> "absent", email |-> None]

MaskedAccount == [state |-> "withdrawn", email |-> None]

LiveAccount == [state : {"live"}, email : Emails]

NoSession == [state |-> "absent", token |-> None]

Session == [state : {"open", "revoked"}, token : Seconds]

Idle == [pc |-> "idle", identity |-> None, email |-> None,
         user |-> None, device |-> None, token |-> None]

LoginCall(pcs, users, tokens) ==
    [pc : pcs, identity : Identities, email : Emails,
     user : users, device : Devices, token : tokens]

TokenCall ==
    [pc : {"findToken", "updateToken", "findTokenOwner", "revokeToken"},
     identity : {None}, email : {None},
     user : Users, device : Devices, token : Seconds]

WithdrawCall ==
    [pc : {"softDeleteUser"}, identity : {None}, email : {None},
     user : Users, device : {None}, token : {None}]

(* Which local variables a handler has set by the time it awaits a query. *)
Running ==
    LoginCall({"findUserByAuth", "findUserByEmail", "createUser"}, {None}, {None})
        \cup LoginCall({"createUserAuth"}, Users, {None})
        \cup LoginCall({"upsertToken"}, Users, Seconds)
        \cup TokenCall \cup WithdrawCall

VARIABLES
    account,        \* users: the row, its deleted_at and its e-mail
    auth,           \* user_auths: the user an identity logs in, or None
    session,        \* refresh_tokens, unique per user and device
    call            \* what each slot is running

vars == <<account, auth, session, call>>

TypeOK ==
    /\ account \in [Users -> LiveAccount \cup {NoAccount, MaskedAccount}]
    /\ auth \in [Identities -> Users \cup {None}]
    /\ session \in [Users \X Devices -> Session \cup {NoSession}]
    /\ call \in [Calls -> Running \cup {Idle}]

Init ==
    /\ account = [u \in Users |-> NoAccount]
    /\ auth = [i \in Identities |-> None]
    /\ session = [s \in Users \X Devices |-> NoSession]
    /\ call = [c \in Calls |-> Idle]

Live(u) == account[u].state = "live"
Withdrawn(u) == account[u].state = "withdrawn"
Open(s) == session[s].state = "open"

-----------------------------------------------------------------------------
At(c, pc) == call[c].pc = pc
Goto(c, pc) == call' = [call EXCEPT ![c].pc = pc]
Return(c) == call' = [call EXCEPT ![c] = Idle]

Enter(c, pc, fields) ==
    /\ At(c, "idle")
    /\ call' = [call EXCEPT ![c] = [fields EXCEPT !.pc = pc]]
    /\ UNCHANGED <<account, auth, session>>

(* The provider reports who logs in, and the e-mail that account has today. *)
BeginLogin(c) ==
    \E i \in Identities, e \in Emails, d \in Devices :
        Enter(c, "findUserByAuth", [Idle EXCEPT !.identity = i, !.email = e, !.device = d])

(* The token a browser presents verifies: it was signed for an account. *)
BeginWithToken(c) ==
    \E u \in Users, d \in Devices, t \in Seconds, pc \in {"findToken", "findTokenOwner"} :
        /\ account[u].state # "absent"
        /\ Enter(c, pc, [Idle EXCEPT !.user = u, !.device = d, !.token = t])

(* The authentication guard has just loaded the user of the access token,   *)
(* which a login handed out with a session.                                 *)
BeginWithdraw(c) ==
    \E u \in Users, d \in Devices :
        /\ Live(u) /\ session[<<u, d>>] # NoSession
        /\ Enter(c, "softDeleteUser", [Idle EXCEPT !.user = u])

(* generateToken: the call goes on to store a fresh token of user u. *)
SignFor(c, u, pc) ==
    \E t \in Seconds :
        call' = [call EXCEPT ![c].pc = pc, ![c].user = u, ![c].token = t]

-----------------------------------------------------------------------------
(* login *)

(* Mutant: the user is found whether or not it has withdrawn. *)
FindUserByAuthEvenWithdrawn(c) ==
    LET u == auth[call[c].identity] IN
    /\ At(c, "findUserByAuth")
    /\ IF u # None THEN SignFor(c, u, "upsertToken") ELSE Goto(c, "findUserByEmail")
    /\ UNCHANGED <<account, auth, session>>

FindUserByAuth(c) ==
    LET u == auth[call[c].identity] IN
    /\ At(c, "findUserByAuth")
    /\ IF u # None /\ Live(u)
       THEN SignFor(c, u, "upsertToken")
       ELSE Goto(c, "findUserByEmail")
    /\ UNCHANGED <<account, auth, session>>

(* The live user of that e-mail, if there is one. *)
FindUserByEmail(c) ==
    LET Holders == {u \in Users : Live(u) /\ account[u].email = call[c].email} IN
    /\ At(c, "findUserByEmail")
    /\ \/ \E u \in Holders :
              call' = [call EXCEPT ![c].pc = "createUserAuth", ![c].user = u]
       \/ Holders = {} /\ Goto(c, "createUser")
    /\ UNCHANGED <<account, auth, session>>

(* Unique per identity, and per user and provider. *)
CanLink(i, u) ==
    /\ auth[i] = None
    /\ \A j \in Identities : Provider[j] = Provider[i] => auth[j] # u

(* Mutant: a conflict is taken to mean that the identity is already linked. *)
LinkOrAssumeLinked(c) ==
    LET i == call[c].identity
        u == call[c].user IN
    /\ At(c, "createUserAuth")
    /\ auth' = IF CanLink(i, u) THEN [auth EXCEPT ![i] = u] ELSE auth
    /\ SignFor(c, u, "upsertToken")
    /\ UNCHANGED <<account, session>>

CreateUserAuth(c) ==
    LET i == call[c].identity
        u == call[c].user IN
    /\ At(c, "createUserAuth")
    /\ IF CanLink(i, u)
       THEN auth' = [auth EXCEPT ![i] = u] /\ SignFor(c, u, "upsertToken")
       ELSE Return(c) /\ UNCHANGED auth
    /\ UNCHANGED <<account, session>>

(* Mutant: the e-mail column is not unique. *)
CanSignUpWithAnyEmail(i, e, u) ==
    auth[i] = None /\ account[u].state = "absent"

(* Unique e-mail and identity; the new row takes an id never used before. *)
CanSignUp(i, e, u) ==
    /\ auth[i] = None
    /\ \A v \in Users : account[v].email # e
    /\ account[u].state = "absent"

(* Mutant: a login that loses the race for its e-mail starts again. *)
CreateUserOrRetry(c) ==
    LET i == call[c].identity
        e == call[c].email IN
    /\ At(c, "createUser")
    /\ \/ \E u \in Users :
              /\ CanSignUp(i, e, u)
              /\ account' = [account EXCEPT ![u] = [state |-> "live", email |-> e]]
              /\ auth' = [auth EXCEPT ![i] = u]
              /\ SignFor(c, u, "upsertToken")
       \/ /\ \A u \in Users : ~CanSignUp(i, e, u)
          /\ Goto(c, "findUserByAuth")
          /\ UNCHANGED <<account, auth>>
    /\ UNCHANGED session

(* The user and its identity are written by one nested create. *)
CreateUser(c) ==
    LET i == call[c].identity
        e == call[c].email IN
    /\ At(c, "createUser")
    /\ \/ \E u \in Users :
              /\ CanSignUp(i, e, u)
              /\ account' = [account EXCEPT ![u] = [state |-> "live", email |-> e]]
              /\ auth' = [auth EXCEPT ![i] = u]
              /\ SignFor(c, u, "upsertToken")
       \/ /\ \A u \in Users : ~CanSignUp(i, e, u)
          /\ Return(c)
          /\ UNCHANGED <<account, auth>>
    /\ UNCHANGED session

UpsertToken(c) ==
    LET s == <<call[c].user, call[c].device>> IN
    /\ At(c, "upsertToken")
    /\ session' = [session EXCEPT ![s] = [state |-> "open", token |-> call[c].token]]
    /\ Return(c)
    /\ UNCHANGED <<account, auth>>

-----------------------------------------------------------------------------
(* refresh, logout *)

FindToken(c) ==
    LET s == <<call[c].user, call[c].device>> IN
    /\ At(c, "findToken")
    /\ IF Open(s) /\ session[s].token = call[c].token
       THEN SignFor(c, call[c].user, "updateToken")
       ELSE Return(c)
    /\ UNCHANGED <<account, auth, session>>

(* Mutant: a refresh clears revokedAt, as a login does. *)
UpdateTokenAndRevive(c) ==
    LET s == <<call[c].user, call[c].device>> IN
    /\ At(c, "updateToken")
    /\ session' = [session EXCEPT ![s].token = call[c].token, ![s].state = "open"]
    /\ Return(c)
    /\ UNCHANGED <<account, auth>>

(* The row is found by user and device, whatever token it holds by now. *)
UpdateToken(c) ==
    LET s == <<call[c].user, call[c].device>> IN
    /\ At(c, "updateToken")
    /\ session' = [session EXCEPT ![s].token = call[c].token]
    /\ Return(c)
    /\ UNCHANGED <<account, auth>>

(* A withdrawn user is found here as well: the row is never deleted. *)
FindTokenOwner(c) ==
    /\ At(c, "findTokenOwner")
    /\ Goto(c, "revokeToken")
    /\ UNCHANGED <<account, auth, session>>

RevokeToken(c) ==
    LET s == <<call[c].user, call[c].device>> IN
    /\ At(c, "revokeToken")
    /\ session' = IF session[s].token = call[c].token
                  THEN [session EXCEPT ![s].state = "revoked"]
                  ELSE session
    /\ Return(c)
    /\ UNCHANGED <<account, auth>>

-----------------------------------------------------------------------------
(* withdraw: one transaction.  The masked e-mail holds the user's id, so it *)
(* is nobody's address; what happens to the cards is in ProfileCards.       *)

(* Mutant: the e-mail is not masked. *)
WithdrawKeepingEmail(c) ==
    LET u == call[c].user IN
    /\ At(c, "softDeleteUser")
    /\ account' = [account EXCEPT ![u].state = "withdrawn"]
    /\ auth' = [i \in Identities |-> IF auth[i] = u THEN None ELSE auth[i]]
    /\ session' = [s \in Users \X Devices |->
          IF s[1] = u /\ Open(s) THEN [session[s] EXCEPT !.state = "revoked"] ELSE session[s]]
    /\ Return(c)

(* Mutant: the user's sessions stay open. *)
WithdrawKeepingSessions(c) ==
    LET u == call[c].user IN
    /\ At(c, "softDeleteUser")
    /\ account' = [account EXCEPT ![u] = MaskedAccount]
    /\ auth' = [i \in Identities |-> IF auth[i] = u THEN None ELSE auth[i]]
    /\ Return(c)
    /\ UNCHANGED session

SoftDeleteUser(c) ==
    LET u == call[c].user IN
    /\ At(c, "softDeleteUser")
    /\ account' = [account EXCEPT ![u] = MaskedAccount]
    /\ auth' = [i \in Identities |-> IF auth[i] = u THEN None ELSE auth[i]]
    /\ session' = [s \in Users \X Devices |->
          IF s[1] = u /\ Open(s) THEN [session[s] EXCEPT !.state = "revoked"] ELSE session[s]]
    /\ Return(c)

(* A step that throws for any other reason, or a replica that stops. *)
Fail(c) ==
    /\ ~At(c, "idle")
    /\ Return(c)
    /\ UNCHANGED <<account, auth, session>>

-----------------------------------------------------------------------------
Begin(c) == BeginLogin(c) \/ BeginWithToken(c) \/ BeginWithdraw(c)

Step(c) ==
    \/ FindUserByAuth(c) \/ FindUserByEmail(c) \/ CreateUserAuth(c) \/ CreateUser(c)
    \/ UpsertToken(c)
    \/ FindToken(c) \/ UpdateToken(c)
    \/ FindTokenOwner(c) \/ RevokeToken(c)
    \/ SoftDeleteUser(c)

Next == \E c \in Calls : Begin(c) \/ Step(c) \/ Fail(c)

Spec == Init /\ [][Next]_vars

(* The event loop resumes every awaited call; nobody has to start one. *)
Fairness == \A c \in Calls : WF_vars(Step(c))

FairSpec == Spec /\ Fairness
-----------------------------------------------------------------------------
(* Properties that hold however calls overlap. *)

(* A login that is about to open a session found or made the account that   *)
(* its identity belongs to, and one that is about to link the identity      *)
(* found the account with its e-mail; neither is still true only if the     *)
(* account was withdrawn meanwhile.  A refresh rotates a token that exists, *)
(* and a withdrawal closes an account that was opened.                      *)
Checked(c) ==
    LET i == call[c].identity
        u == call[c].user IN
    /\ At(c, "createUserAuth") => account[u].email = call[c].email \/ Withdrawn(u)
    /\ At(c, "upsertToken") => auth[i] = u \/ Withdrawn(u)
    /\ At(c, "updateToken") => session[<<u, call[c].device>>] # NoSession
    /\ At(c, "softDeleteUser") => account[u].state # "absent"

CallsStayChecked == \A c \in Calls : Checked(c)

(* A session that was closed, by a logout or by a withdrawal, is opened     *)
(* again by a login of the same user on the same device and by nothing      *)
(* else: a refresh that read the row before it was revoked does not.        *)
OnlyLoginOpensSession ==
    [][\A u \in Users, d \in Devices :
          Open(<<u, d>>)' /\ ~Open(<<u, d>>) =>
              \E c \in Calls : /\ At(c, "upsertToken")
                               /\ call[c].user = u /\ call[c].device = d]_vars

(* Accounts come and go as in AccountRegistry: an e-mail has one account at *)
(* a time, though it is looked up and taken in different steps, and a       *)
(* withdrawn account never comes back.                                      *)
Registry == INSTANCE AccountRegistry
    WITH members <- {m \in Users \X Emails : Live(m[1]) /\ account[m[1]].email = m[2]},
         used <- {u \in Users : account[u].state # "absent"}

EmailsHaveOneAccount == Registry!Spec

(* A withdrawal that no login of the same user overlaps ends every session  *)
(* and frees every identity, and nothing that happens later, a refresh or a *)
(* logout that was already under way included, undoes any of it.            *)
LogsInTo(c, u) ==
    call[c].pc \in {"createUserAuth", "upsertToken"} /\ call[c].user = u

NobodyLogsInTo(u) == \A c \in Calls : ~LogsInTo(c, u)

Settled(u) ==
    /\ NobodyLogsInTo(u)
    /\ \A d \in Devices : ~Open(<<u, d>>)
    /\ \A i \in Identities : auth[i] # u

WithdrawalIsFinal ==
    [][\A u \in Users :
          /\ Withdrawn(u)' /\ NobodyLogsInTo(u)'
          /\ Live(u) \/ Settled(u)
          => Settled(u)']_vars

(* Whatever was under way when a user withdrew, from some time on no login  *)
(* reaches the withdrawn account any more, even if an identity was left     *)
(* linked to it.                                                            *)
WithdrawnIsLeftAlone ==
    \A u \in Users : [](Withdrawn(u) => <>[]NobodyLogsInTo(u))

(* Every call that starts returns. *)
CallsReturn ==
    \A c \in Calls : ~At(c, "idle") ~> At(c, "idle")

-----------------------------------------------------------------------------
(* What the documentation says, and the code does not guarantee. *)

(* The social accounts of a withdrawn user can sign up again: none of them  *)
(* stays linked to the withdrawn account.                                   *)
IdentityCanSignUpAgain ==
    \A i \in Identities : auth[i] # None => Live(auth[i])

(* A withdrawal ends the sessions of all devices: a withdrawn account has   *)
(* none that is open (users.repository.ts:69).                              *)
WithdrawnIsLoggedOut ==
    \A u \in Users, d \in Devices : Withdrawn(u) => ~Open(<<u, d>>)
=============================================================================
