--------------------------- MODULE Accounts_proof ---------------------------
(***************************************************************************)
(* What holds of accounts and sessions for any users, identities and       *)
(* devices, and any number of overlapping calls.                           *)
(***************************************************************************)
EXTENDS Accounts, TLAPS

Slots == [Calls -> Running \cup {Idle}]

(* How calls move through the slots. *)

LEMMA RunningCall ==
    ASSUME TypeOK, NEW c \in Calls, ~At(c, "idle")
    PROVE  call[c] \in Running
BY DEF TypeOK, At, Idle

LEMMA ReturnMoves ==
    ASSUME TypeOK, NEW c \in Calls, Return(c)
    PROVE  /\ call' \in Slots
           /\ call'[c] = Idle
           /\ \A d \in Calls \ {c} : call'[d] = call[d]
BY DEF Return, TypeOK, Slots

LEMMA BecomesRunning ==
    ASSUME TypeOK, NEW c \in Calls, NEW r \in Running, call' = [call EXCEPT ![c] = r]
    PROVE  /\ call' \in Slots
           /\ call'[c] = r
           /\ \A d \in Calls \ {c} : call'[d] = call[d]
BY DEF TypeOK, Slots

LEMMA LoginGotoMoves ==
    ASSUME TypeOK, NEW c \in Calls,
           \/ At(c, "findUserByAuth") /\ Goto(c, "findUserByEmail")
           \/ At(c, "findUserByEmail") /\ Goto(c, "createUser")
           \/ At(c, "findTokenOwner") /\ Goto(c, "revokeToken")
    PROVE  /\ call' \in Slots
           /\ call'[c].pc \in {"findUserByEmail", "createUser", "revokeToken"}
           /\ \A d \in Calls \ {c} : call'[d] = call[d]
<1>1. call[c] \in Running
  BY RunningCall DEF At
<1>2. PICK pc \in {"findUserByEmail", "createUser", "revokeToken"} :
        /\ call' = [call EXCEPT ![c] = [call[c] EXCEPT !.pc = pc]]
        /\ \/ At(c, "findUserByAuth") /\ pc = "findUserByEmail"
           \/ At(c, "findUserByEmail") /\ pc = "createUser"
           \/ At(c, "findTokenOwner") /\ pc = "revokeToken"
  BY DEF Goto
<1>3. [call[c] EXCEPT !.pc = pc] \in Running
  BY <1>1, <1>2 DEF At, Running, LoginCall, TokenCall, WithdrawCall
<1>4. [call[c] EXCEPT !.pc = pc].pc = pc
  BY <1>1 DEF Running, LoginCall, TokenCall, WithdrawCall
<1>5. QED
  BY <1>2, <1>3, <1>4, BecomesRunning

LEMMA SignMoves ==
    ASSUME TypeOK, NEW c \in Calls, NEW u \in Users,
           \/ /\ At(c, "findUserByAuth") \/ At(c, "createUserAuth") \/ At(c, "createUser")
              /\ SignFor(c, u, "upsertToken")
           \/ At(c, "findToken") /\ SignFor(c, u, "updateToken")
    PROVE  /\ call' \in Slots
           /\ call'[c].pc = IF At(c, "findToken") THEN "updateToken" ELSE "upsertToken"
           /\ call'[c].identity = call[c].identity
           /\ call'[c].device = call[c].device
           /\ call'[c].user = u
           /\ \A d \in Calls \ {c} : call'[d] = call[d]
<1>1. call[c] \in Running
  BY RunningCall DEF At
<1> DEFINE pc == IF At(c, "findToken") THEN "updateToken" ELSE "upsertToken"
           Signed(t) == [call[c] EXCEPT !.pc = pc, !.user = u, !.token = t]
<1>2. PICK t \in Seconds : call' = [call EXCEPT ![c] = Signed(t)]
  BY DEF SignFor, At
<1>3. Signed(t) \in Running
  BY <1>1 DEF At, Running, LoginCall, TokenCall, WithdrawCall
<1>4. /\ Signed(t).pc = pc
      /\ Signed(t).identity = call[c].identity
      /\ Signed(t).device = call[c].device
      /\ Signed(t).user = u
  BY <1>1 DEF Running, LoginCall, TokenCall, WithdrawCall
<1>5. QED
  BY <1>2, <1>3, <1>4, BecomesRunning

LEMMA FoundByEmailMoves ==
    ASSUME TypeOK, NEW c \in Calls, NEW u \in Users, At(c, "findUserByEmail"),
           call' = [call EXCEPT ![c].pc = "createUserAuth", ![c].user = u]
    PROVE  /\ call' \in Slots
           /\ call'[c].pc = "createUserAuth"
           /\ call'[c].email = call[c].email
           /\ call'[c].user = u
           /\ \A d \in Calls \ {c} : call'[d] = call[d]
<1> DEFINE Found == [call[c] EXCEPT !.pc = "createUserAuth", !.user = u]
<1>1. call[c] \in Running
  BY RunningCall DEF At
<1>2. Found \in Running
  BY <1>1 DEF At, Running, LoginCall, TokenCall, WithdrawCall
<1>3. Found.pc = "createUserAuth" /\ Found.email = call[c].email /\ Found.user = u
  BY <1>1 DEF Running, LoginCall, TokenCall, WithdrawCall
<1>4. call' = [call EXCEPT ![c] = Found]
  OBVIOUS
<1>5. QED
  BY <1>2, <1>3, <1>4, BecomesRunning

LEMMA BeginMoves ==
    ASSUME TypeOK, NEW c \in Calls, Begin(c)
    PROVE  /\ call' \in Slots
           /\ call'[c].pc \in {"findUserByAuth", "findToken", "findTokenOwner", "softDeleteUser"}
           /\ call'[c].pc = "softDeleteUser" => call'[c].user \in Users /\ Live(call'[c].user)
           /\ \A d \in Calls \ {c} : call'[d] = call[d]
           /\ UNCHANGED <<account, auth, session>>
<1>1. CASE BeginLogin(c)
  <2>1. PICK i \in Identities, e \in Emails, d \in Devices :
           Enter(c, "findUserByAuth", [Idle EXCEPT !.identity = i, !.email = e, !.device = d])
    BY <1>1 DEF BeginLogin
  <2> DEFINE r == [Idle EXCEPT !.identity = i, !.email = e, !.device = d, !.pc = "findUserByAuth"]
  <2>2. r \in Running /\ r.pc = "findUserByAuth"
    BY DEF Idle, Running, LoginCall
  <2>3. call' = [call EXCEPT ![c] = r] /\ UNCHANGED <<account, auth, session>>
    BY <2>1 DEF Enter, Idle
  <2>4. QED
    BY <2>2, <2>3, BecomesRunning
<1>2. CASE BeginWithToken(c)
  <2>1. PICK u \in Users, d \in Devices, t \in Seconds, pc \in {"findToken", "findTokenOwner"} :
           Enter(c, pc, [Idle EXCEPT !.user = u, !.device = d, !.token = t])
    BY <1>2 DEF BeginWithToken
  <2> DEFINE r == [Idle EXCEPT !.user = u, !.device = d, !.token = t, !.pc = pc]
  <2>2. r \in Running /\ r.pc = pc
    BY DEF Idle, Running, TokenCall
  <2>3. call' = [call EXCEPT ![c] = r] /\ UNCHANGED <<account, auth, session>>
    BY <2>1 DEF Enter, Idle
  <2>4. QED
    BY <2>2, <2>3, BecomesRunning
<1>3. CASE BeginWithdraw(c)
  <2>1. PICK u \in Users : Live(u) /\ Enter(c, "softDeleteUser", [Idle EXCEPT !.user = u])
    BY <1>3 DEF BeginWithdraw
  <2> DEFINE r == [Idle EXCEPT !.user = u, !.pc = "softDeleteUser"]
  <2>2. r \in Running /\ r.user = u /\ r.pc = "softDeleteUser"
    BY DEF Idle, Running, WithdrawCall
  <2>3. call' = [call EXCEPT ![c] = r] /\ UNCHANGED <<account, auth, session>>
    BY <2>1 DEF Enter, Idle
  <2>4. QED
    BY <2>1, <2>2, <2>3, BecomesRunning
<1>4. QED
  BY <1>1, <1>2, <1>3 DEF Begin

(* The fields a handler has set by the time it writes. *)
LEMMA LoginFields ==
    ASSUME TypeOK, NEW c \in Calls, At(c, "createUserAuth") \/ At(c, "upsertToken")
    PROVE  /\ call[c].identity \in Identities /\ call[c].user \in Users
           /\ call[c].email \in Emails /\ call[c].device \in Devices
           /\ At(c, "upsertToken") => call[c].token \in Seconds
<1>1. call[c] \in Running
  BY RunningCall DEF At
<1>2. QED
  BY <1>1 DEF At, Running, LoginCall, TokenCall, WithdrawCall

LEMMA CreateFields ==
    ASSUME TypeOK, NEW c \in Calls, At(c, "createUser")
    PROVE  call[c].identity \in Identities /\ call[c].email \in Emails
<1>1. call[c] \in Running
  BY RunningCall DEF At
<1>2. QED
  BY <1>1 DEF At, Running, LoginCall, TokenCall, WithdrawCall

LEMMA TokenFields ==
    ASSUME TypeOK, NEW c \in Calls,
           At(c, "findToken") \/ At(c, "updateToken") \/ At(c, "revokeToken")
    PROVE  /\ call[c].user \in Users /\ call[c].device \in Devices
           /\ call[c].token \in Seconds
<1>1. call[c] \in Running
  BY RunningCall DEF At
<1>2. QED
  BY <1>1 DEF At, Running, LoginCall, TokenCall, WithdrawCall

LEMMA WithdrawFields ==
    ASSUME TypeOK, NEW c \in Calls, At(c, "softDeleteUser")
    PROVE  call[c].user \in Users
<1>1. call[c] \in Running
  BY RunningCall DEF At
<1>2. QED
  BY <1>1 DEF At, Running, LoginCall, TokenCall, WithdrawCall

-----------------------------------------------------------------------------
(* The types of the next state.  A refresh stores its token in whatever row *)
(* it finds, so what calls checked is needed here: the row is there.        *)
LEMMA TypesStay == TypeOK /\ CallsStayChecked /\ [Next]_vars => TypeOK'
<1> SUFFICES ASSUME TypeOK, CallsStayChecked, [Next]_vars PROVE TypeOK'
  OBVIOUS
<1>1. ASSUME NEW c \in Calls, Begin(c) PROVE TypeOK'
  BY <1>1, BeginMoves DEF TypeOK, Slots
<1>2. ASSUME NEW c \in Calls, Step(c) PROVE TypeOK'
  <2>1. CASE FindUserByAuth(c)
    <3>1. call' \in Slots
      <4>1. At(c, "findUserByAuth") => call[c].identity \in Identities
        BY RunningCall DEF At, Running, LoginCall, TokenCall, WithdrawCall
      <4>2. QED
        BY <2>1, <4>1, SignMoves, LoginGotoMoves DEF FindUserByAuth, TypeOK
    <3>2. QED
      BY <2>1, <3>1 DEF FindUserByAuth, TypeOK, Slots
  <2>2. CASE FindUserByEmail(c)
    <3>1. call' \in Slots
      BY <2>2, FoundByEmailMoves, LoginGotoMoves DEF FindUserByEmail
    <3>2. QED
      BY <2>2, <3>1 DEF FindUserByEmail, TypeOK, Slots
  <2>3. CASE CreateUserAuth(c)
    <3>1. call' \in Slots
      BY <2>3, LoginFields, SignMoves, ReturnMoves DEF CreateUserAuth
    <3>2. auth' \in [Identities -> Users \cup {None}]
      BY <2>3, LoginFields DEF CreateUserAuth, TypeOK
    <3>3. QED
      BY <2>3, <3>1, <3>2 DEF CreateUserAuth, TypeOK, Slots
  <2>4. CASE CreateUser(c)
    <3>1. call' \in Slots
      BY <2>4, SignMoves, ReturnMoves DEF CreateUser
    <3>2. auth' \in [Identities -> Users \cup {None}]
      BY <2>4 DEF CreateUser, TypeOK
    <3>3. account' \in [Users -> LiveAccount \cup {NoAccount, MaskedAccount}]
      BY <2>4, CreateFields DEF CreateUser, TypeOK, LiveAccount
    <3>4. QED
      BY <2>4, <3>1, <3>2, <3>3 DEF CreateUser, TypeOK, Slots
  <2>5. CASE UpsertToken(c)
    <3>1. session' \in [Users \X Devices -> Session \cup {NoSession}]
      BY <2>5, LoginFields DEF UpsertToken, TypeOK, Session
    <3>2. QED
      BY <2>5, <3>1, ReturnMoves DEF UpsertToken, TypeOK, Slots
  <2>6. CASE FindToken(c)
    <3>1. call' \in Slots
      BY <2>6, TokenFields, SignMoves, ReturnMoves DEF FindToken
    <3>2. QED
      BY <2>6, <3>1 DEF FindToken, TypeOK, Slots
  <2>7. CASE UpdateToken(c)
    <3> DEFINE s == <<call[c].user, call[c].device>>
    <3>1. s \in Users \X Devices /\ call[c].token \in Seconds
      BY <2>7, TokenFields DEF UpdateToken
    <3>2. [session[s] EXCEPT !.token = call[c].token] \in Session
      BY <2>7, <3>1 DEF UpdateToken, At, CallsStayChecked, Checked, TypeOK, Session
    <3>3. session' \in [Users \X Devices -> Session \cup {NoSession}]
      BY <2>7, <3>2 DEF UpdateToken, TypeOK
    <3>4. QED
      BY <2>7, <3>3, ReturnMoves DEF UpdateToken, TypeOK, Slots
  <2>8. CASE FindTokenOwner(c)
    BY <2>8, LoginGotoMoves DEF FindTokenOwner, TypeOK, Slots
  <2>9. CASE RevokeToken(c)
    <3> DEFINE s == <<call[c].user, call[c].device>>
    <3>1. s \in Users \X Devices /\ call[c].token # None
      BY <2>9, TokenFields, AccountsAssumption DEF RevokeToken
    <3>2. session[s].token = call[c].token =>
             [session[s] EXCEPT !.state = "revoked"] \in Session
      BY <3>1 DEF TypeOK, Session, NoSession
    <3>3. session' \in [Users \X Devices -> Session \cup {NoSession}]
      BY <2>9, <3>1, <3>2 DEF RevokeToken, TypeOK
    <3>4. QED
      BY <2>9, <3>3, ReturnMoves DEF RevokeToken, TypeOK, Slots
  <2>10. CASE SoftDeleteUser(c)
    <3>1. account' \in [Users -> LiveAccount \cup {NoAccount, MaskedAccount}]
      BY <2>10 DEF SoftDeleteUser, TypeOK
    <3>2. auth' \in [Identities -> Users \cup {None}]
      BY <2>10 DEF SoftDeleteUser, TypeOK
    <3>3. ASSUME NEW s \in Users \X Devices, Open(s)
          PROVE  [session[s] EXCEPT !.state = "revoked"] \in Session
      BY <3>3 DEF TypeOK, Open, Session, NoSession
    <3>4. session' \in [Users \X Devices -> Session \cup {NoSession}]
      BY <2>10, <3>3 DEF SoftDeleteUser, TypeOK
    <3>5. QED
      BY <2>10, <3>1, <3>2, <3>4, ReturnMoves DEF SoftDeleteUser, TypeOK, Slots
  <2>11. QED
    BY <1>2, <2>1, <2>2, <2>3, <2>4, <2>5, <2>6, <2>7, <2>8, <2>9, <2>10 DEF Step
<1>3. ASSUME NEW c \in Calls, Fail(c) PROVE TypeOK'
  BY <1>3, ReturnMoves DEF Fail, TypeOK, Slots
<1>4. CASE UNCHANGED vars
  BY <1>4 DEF vars, TypeOK
<1>5. QED
  BY <1>1, <1>2, <1>3, <1>4 DEF Next

-----------------------------------------------------------------------------
(* No step takes anything back: rows stay, a withdrawn account stays so, a  *)
(* live one changes only by withdrawing, and an identity is unlinked only   *)
(* when its user withdraws.                                                 *)
RowsOnlyAge ==
    /\ \A u \in Users : \/ account'[u] = account[u]
                        \/ account[u].state = "absent"
                        \/ Withdrawn(u)'
    /\ \A u \in Users : account[u].state # "absent" => account'[u].state # "absent"
    /\ \A u \in Users : Withdrawn(u) => Withdrawn(u)'
    /\ \A i \in Identities, u \in Users : auth[i] = u => auth'[i] = u \/ Withdrawn(u)'
    /\ \A s \in Users \X Devices : session[s] # NoSession => session'[s] # NoSession

LEMMA StepsOnlyAge == TypeOK /\ [Next]_vars => RowsOnlyAge
<1> SUFFICES ASSUME TypeOK, [Next]_vars PROVE RowsOnlyAge
  OBVIOUS
<1> USE DEF RowsOnlyAge, Withdrawn
<1>1. ASSUME UNCHANGED <<account, auth, session>> PROVE RowsOnlyAge
  BY <1>1
<1>2. ASSUME NEW c \in Calls, CreateUserAuth(c) PROVE RowsOnlyAge
  BY <1>2, LoginFields, AccountsAssumption DEF CreateUserAuth, CanLink, TypeOK
<1>3. ASSUME NEW c \in Calls, CreateUser(c) PROVE RowsOnlyAge
  <2>1. CASE UNCHANGED <<account, auth>>
    BY <1>3, <2>1 DEF CreateUser
  <2>2. ASSUME NEW u \in Users, CanSignUp(call[c].identity, call[c].email, u),
               account' = [account EXCEPT ![u] = [state |-> "live", email |-> call[c].email]],
               auth' = [auth EXCEPT ![call[c].identity] = u]
        PROVE  RowsOnlyAge
    BY <1>3, <2>2, CreateFields, AccountsAssumption DEF CreateUser, CanSignUp, TypeOK
  <2>3. QED
    BY <1>3, <2>1, <2>2 DEF CreateUser
<1>4. ASSUME NEW c \in Calls, UpsertToken(c) PROVE RowsOnlyAge
  BY <1>4, LoginFields DEF UpsertToken, TypeOK, NoSession
<1>5. ASSUME NEW c \in Calls, UpdateToken(c) PROVE RowsOnlyAge
  BY <1>5, TokenFields, AccountsAssumption DEF UpdateToken, TypeOK, NoSession, Session
<1>6. ASSUME NEW c \in Calls, RevokeToken(c) PROVE RowsOnlyAge
  BY <1>6, TokenFields, AccountsAssumption DEF RevokeToken, TypeOK, NoSession, Session
<1>7. ASSUME NEW c \in Calls, SoftDeleteUser(c) PROVE RowsOnlyAge
  <2>1. /\ account' = [account EXCEPT ![call[c].user] = MaskedAccount]
        /\ \A i \in Identities : auth'[i] = IF auth[i] = call[c].user THEN None ELSE auth[i]
    BY <1>7 DEF SoftDeleteUser
  <2>2. \A s \in Users \X Devices : session[s] # NoSession => session'[s] # NoSession
    BY <1>7 DEF SoftDeleteUser, TypeOK, NoSession, Session, Open
  <2>3. QED
    BY <2>1, <2>2, <1>7, WithdrawFields DEF SoftDeleteUser, TypeOK, MaskedAccount
<1>8. QED
  BY <1>1, <1>2, <1>3, <1>4, <1>5, <1>6, <1>7
  DEF Next, vars, Begin, BeginLogin, BeginWithToken, BeginWithdraw, Enter, Step, Fail,
      FindUserByAuth, FindUserByEmail, FindToken, FindTokenOwner

LEMMA OthersStayChecked ==
    ASSUME TypeOK, RowsOnlyAge, NEW d \in Calls, Checked(d), call'[d] = call[d]
    PROVE  Checked(d)'
<1>1. At(d, "createUserAuth") => Checked(d)'
  BY LoginFields, AccountsAssumption DEF Checked, At, RowsOnlyAge, Withdrawn, TypeOK,
     NoAccount, MaskedAccount, LiveAccount
<1>2. At(d, "upsertToken") => Checked(d)'
  BY LoginFields DEF Checked, At, RowsOnlyAge
<1>3. At(d, "updateToken") => Checked(d)'
  BY TokenFields DEF Checked, At, RowsOnlyAge
<1>4. At(d, "softDeleteUser") => Checked(d)'
  BY WithdrawFields DEF Checked, At, RowsOnlyAge
<1>5. QED
  BY <1>1, <1>2, <1>3, <1>4 DEF Checked, At

LEMMA CallsStayCheckedStep == TypeOK /\ CallsStayChecked /\ [Next]_vars => CallsStayChecked'
<1> SUFFICES ASSUME TypeOK, CallsStayChecked, [Next]_vars PROVE CallsStayChecked'
  OBVIOUS
<1>1. RowsOnlyAge
  BY StepsOnlyAge
<1>2. ASSUME NEW c \in Calls, \A d \in Calls \ {c} : call'[d] = call[d], Checked(c)'
      PROVE  CallsStayChecked'
  <2>1. \A d \in Calls \ {c} : Checked(d)'
    BY <1>1, <1>2, OthersStayChecked DEF CallsStayChecked
  <2>2. QED
    BY <1>2, <2>1 DEF CallsStayChecked
<1>3. ASSUME NEW c \in Calls, Return(c) PROVE CallsStayChecked'
  <2>1. call'[c] = Idle /\ \A d \in Calls \ {c} : call'[d] = call[d]
    BY <1>3, ReturnMoves
  <2>2. Checked(c)'
    BY <2>1 DEF Checked, At, Idle
  <2>3. QED
    BY <1>2, <2>1, <2>2
<1>4. ASSUME NEW c \in Calls, Begin(c) PROVE CallsStayChecked'
  BY <1>2, <1>4, BeginMoves DEF Checked, At, Live
<1>5. ASSUME NEW c \in Calls, FindUserByAuth(c) PROVE CallsStayChecked'
  <2>1. CASE Goto(c, "findUserByEmail")
    BY <1>2, <1>5, <2>1, LoginGotoMoves DEF FindUserByAuth, Checked, At
  <2>2. CASE /\ auth[call[c].identity] # None
             /\ SignFor(c, auth[call[c].identity], "upsertToken")
    <3>1. auth[call[c].identity] \in Users
      BY <1>5, <2>2, RunningCall
      DEF FindUserByAuth, At, TypeOK, Running, LoginCall, TokenCall, WithdrawCall
    <3>2. QED
      BY <1>2, <1>5, <2>2, <3>1, SignMoves DEF FindUserByAuth, Checked, At
  <2>3. QED
    BY <1>5, <2>1, <2>2 DEF FindUserByAuth
<1>6. ASSUME NEW c \in Calls, FindUserByEmail(c) PROVE CallsStayChecked'
  <2>1. CASE Goto(c, "createUser")
    BY <1>2, <1>6, <2>1, LoginGotoMoves DEF FindUserByEmail, Checked, At
  <2>2. ASSUME NEW u \in Users, account[u].email = call[c].email,
               call' = [call EXCEPT ![c].pc = "createUserAuth", ![c].user = u]
        PROVE  CallsStayChecked'
    <3>1. /\ call'[c].pc = "createUserAuth" /\ call'[c].user = u
          /\ call'[c].email = call[c].email
          /\ \A d \in Calls \ {c} : call'[d] = call[d]
      BY <1>6, <2>2, FoundByEmailMoves DEF FindUserByEmail
    <3>2. Checked(c)'
      BY <1>6, <2>2, <3>1 DEF FindUserByEmail, Checked, At
    <3>3. QED
      BY <1>2, <3>1, <3>2
  <2>3. QED
    BY <1>6, <2>1, <2>2 DEF FindUserByEmail
<1>7. ASSUME NEW c \in Calls, CreateUserAuth(c) PROVE CallsStayChecked'
  <2>1. CASE Return(c)
    BY <1>3, <2>1
  <2>2. CASE /\ auth' = [auth EXCEPT ![call[c].identity] = call[c].user]
             /\ SignFor(c, call[c].user, "upsertToken")
    BY <1>2, <1>7, <2>2, LoginFields, SignMoves DEF CreateUserAuth, Checked, At, TypeOK
  <2>3. QED
    BY <1>7, <2>1, <2>2 DEF CreateUserAuth
<1>8. ASSUME NEW c \in Calls, CreateUser(c) PROVE CallsStayChecked'
  <2>1. CASE Return(c)
    BY <1>3, <2>1
  <2>2. ASSUME NEW u \in Users, auth' = [auth EXCEPT ![call[c].identity] = u],
               SignFor(c, u, "upsertToken")
        PROVE  CallsStayChecked'
    BY <1>2, <1>8, <2>2, CreateFields, SignMoves DEF CreateUser, Checked, At, TypeOK
  <2>3. QED
    BY <1>8, <2>1, <2>2 DEF CreateUser
<1>9. ASSUME NEW c \in Calls, FindToken(c) PROVE CallsStayChecked'
  <2>1. CASE Return(c)
    BY <1>3, <2>1
  <2>2. CASE /\ Open(<<call[c].user, call[c].device>>)
             /\ SignFor(c, call[c].user, "updateToken")
    BY <1>2, <1>9, <2>2, TokenFields, SignMoves DEF FindToken, Checked, At, Open, NoSession
  <2>3. QED
    BY <1>9, <2>1, <2>2 DEF FindToken
<1>10. ASSUME NEW c \in Calls, FindTokenOwner(c) PROVE CallsStayChecked'
  BY <1>2, <1>10, LoginGotoMoves DEF FindTokenOwner, Checked, At
<1>11. CASE UNCHANGED vars
  BY <1>11 DEF vars, CallsStayChecked, Checked, At, Withdrawn
<1>12. QED
  BY <1>3, <1>4, <1>5, <1>6, <1>7, <1>8, <1>9, <1>10, <1>11
  DEF Next, Step, Fail, UpsertToken, UpdateToken, RevokeToken, SoftDeleteUser

(* Type correctness: an account that withdrew has given up its address, a   *)
(* token row is complete, and a call has set the variables it goes on with. *)
THEOREM TypeCorrect == Spec => []TypeOK
<1>1. Init => TypeOK /\ CallsStayChecked
  BY DEF Init, TypeOK, CallsStayChecked, Checked, At, Idle
<1>2. TypeOK /\ CallsStayChecked /\ [Next]_vars => TypeOK' /\ CallsStayChecked'
  BY TypesStay, CallsStayCheckedStep
<1>3. QED
  BY <1>1, <1>2, PTL DEF Spec

(* A login opens a session only of the account its identity belongs to, or  *)
(* of one that was withdrawn since the login looked.                        *)
THEOREM CallsAlwaysChecked == Spec => []CallsStayChecked
<1>1. Init => CallsStayChecked
  BY DEF Init, CallsStayChecked, Checked, At, Idle
<1>2. QED
  BY <1>1, TypeCorrect, CallsStayCheckedStep, PTL DEF Spec

-----------------------------------------------------------------------------
(* Which step writes which table. *)

LEMMA SessionWriters ==
    ASSUME [Next]_vars, ~UNCHANGED session
    PROVE  \E c \in Calls : \/ UpsertToken(c) \/ UpdateToken(c) \/ RevokeToken(c)
                            \/ SoftDeleteUser(c)
BY DEF Next, vars, Begin, BeginLogin, BeginWithToken, BeginWithdraw, Enter, Step, Fail,
       FindUserByAuth, FindUserByEmail, FindToken, FindTokenOwner, CreateUser, CreateUserAuth

LEMMA AuthWriters ==
    ASSUME [Next]_vars, ~UNCHANGED auth
    PROVE  \E c \in Calls : CreateUserAuth(c) \/ CreateUser(c) \/ SoftDeleteUser(c)
BY DEF Next, vars, Begin, BeginLogin, BeginWithToken, BeginWithdraw, Enter, Step, Fail,
       FindUserByAuth, FindUserByEmail, FindToken, FindTokenOwner, UpsertToken, UpdateToken,
       RevokeToken

LEMMA AccountWriters ==
    ASSUME [Next]_vars, ~UNCHANGED account
    PROVE  \E c \in Calls : CreateUser(c) \/ SoftDeleteUser(c)
BY DEF Next, vars, Begin, BeginLogin, BeginWithToken, BeginWithdraw, Enter, Step, Fail,
       FindUserByAuth, FindUserByEmail, FindToken, FindTokenOwner, UpsertToken, UpdateToken,
       RevokeToken, CreateUserAuth

(* A closed session is opened again by a login alone: neither a refresh nor *)
(* a logout that read it earlier does.                                      *)
THEOREM OnlyLoginOpens == Spec => OnlyLoginOpensSession
<1> DEFINE Opener(u, d) == \E c \in Calls : /\ At(c, "upsertToken")
                                            /\ call[c].user = u /\ call[c].device = d
<1>1. ASSUME TypeOK, [Next]_vars, NEW u \in Users, NEW d \in Devices,
             Open(<<u, d>>)', ~Open(<<u, d>>)
      PROVE  Opener(u, d)
  <2>1. ASSUME NEW c \in Calls, UpsertToken(c) PROVE Opener(u, d)
    <3>1. <<call[c].user, call[c].device>> = <<u, d>>
      BY <1>1, <2>1 DEF UpsertToken, Open, TypeOK
    <3>2. QED
      BY <2>1, <3>1 DEF UpsertToken
  <2>2. ASSUME NEW c \in Calls, UpdateToken(c) \/ RevokeToken(c) \/ SoftDeleteUser(c)
        PROVE  FALSE
    BY <1>1, <2>2 DEF UpdateToken, RevokeToken, SoftDeleteUser, Open, TypeOK, Session, NoSession
  <2>3. QED
    BY <1>1, <2>1, <2>2, SessionWriters DEF Open
<1>2. TypeOK /\ [Next]_vars =>
        [\A u \in Users, d \in Devices :
            Open(<<u, d>>)' /\ ~Open(<<u, d>>) => Opener(u, d)]_vars
  BY <1>1
<1>3. QED
  BY <1>2, TypeCorrect, PTL DEF Spec, OnlyLoginOpensSession

LEMMA SettledStays ==
    ASSUME TypeOK, [Next]_vars, NEW u \in Users, Settled(u), Withdrawn(u)', NobodyLogsInTo(u)'
    PROVE  Settled(u)'
<1>1. \A d \in Devices : ~Open(<<u, d>>)'
  <2>1. CASE UNCHANGED session
    BY <2>1 DEF Settled, Open
  <2>2. ASSUME NEW c \in Calls, UpsertToken(c) PROVE \A d \in Devices : ~Open(<<u, d>>)'
    <3>1. call[c].user # u
      BY <2>2 DEF UpsertToken, Settled, NobodyLogsInTo, LogsInTo, At
    <3>2. \A d \in Devices : session'[<<u, d>>] = session[<<u, d>>]
      BY <2>2, <3>1 DEF UpsertToken, TypeOK
    <3>3. QED
      BY <3>2 DEF Settled, Open
  <2>3. ASSUME NEW c \in Calls, UpdateToken(c) \/ RevokeToken(c) \/ SoftDeleteUser(c)
        PROVE  \A d \in Devices : ~Open(<<u, d>>)'
    BY <2>3 DEF UpdateToken, RevokeToken, SoftDeleteUser, Settled, Open, TypeOK, Session,
       NoSession
  <2>4. QED
    BY <2>1, <2>2, <2>3, SessionWriters
<1>2. \A i \in Identities : auth'[i] # u
  <2>1. CASE UNCHANGED auth
    BY <2>1 DEF Settled
  <2>2. ASSUME NEW c \in Calls, CreateUserAuth(c) PROVE \A i \in Identities : auth'[i] # u
    <3>1. call[c].user # u
      BY <2>2 DEF CreateUserAuth, Settled, NobodyLogsInTo, LogsInTo, At
    <3>2. QED
      BY <2>2, <3>1 DEF CreateUserAuth, Settled, TypeOK
  <2>3. ASSUME NEW c \in Calls, CreateUser(c) PROVE \A i \in Identities : auth'[i] # u
    <3>1. CASE UNCHANGED auth
      BY <3>1 DEF Settled
    <3>2. ASSUME NEW v \in Users,
                 account' = [account EXCEPT ![v] = [state |-> "live", email |-> call[c].email]],
                 auth' = [auth EXCEPT ![call[c].identity] = v]
          PROVE  \A i \in Identities : auth'[i] # u
      <4>1. v # u
        BY <3>2 DEF Withdrawn, TypeOK
      <4>2. QED
        BY <3>2, <4>1 DEF Settled, TypeOK
    <3>3. QED
      BY <2>3, <3>1, <3>2 DEF CreateUser
  <2>4. ASSUME NEW c \in Calls, SoftDeleteUser(c) PROVE \A i \in Identities : auth'[i] # u
    BY <2>4, AccountsAssumption DEF SoftDeleteUser, Settled, TypeOK
  <2>5. QED
    BY <2>1, <2>2, <2>3, <2>4, AuthWriters
<1>3. QED
  BY <1>1, <1>2 DEF Settled

LEMMA WithdrawalSettles ==
    ASSUME TypeOK, [Next]_vars, NEW u \in Users, Live(u), Withdrawn(u)', NobodyLogsInTo(u)'
    PROVE  Settled(u)'
<1>1. ASSUME NEW c \in Calls, CreateUser(c) PROVE FALSE
  BY <1>1 DEF CreateUser, Live, Withdrawn, TypeOK
<1>2. PICK c \in Calls : SoftDeleteUser(c)
  BY <1>1, AccountWriters DEF Live, Withdrawn
<1>3. call[c].user = u
  BY <1>2, WithdrawFields DEF SoftDeleteUser, Live, Withdrawn, TypeOK
<1>4. \A d \in Devices : ~Open(<<u, d>>)'
  BY <1>2, <1>3 DEF SoftDeleteUser, Open, TypeOK, Session, NoSession
<1>5. \A i \in Identities : auth'[i] # u
  BY <1>2, <1>3, AccountsAssumption DEF SoftDeleteUser, TypeOK
<1>6. QED
  BY <1>4, <1>5 DEF Settled

(* A withdrawal ends sessions and frees identities for good, unless a login *)
(* of that very user was already past its last look at the account.         *)
THEOREM WithdrawalForGood == Spec => WithdrawalIsFinal
<1>1. TypeOK /\ [Next]_vars =>
        [\A u \in Users : /\ Withdrawn(u)' /\ NobodyLogsInTo(u)'
                          /\ Live(u) \/ Settled(u)
                          => Settled(u)']_vars
  BY SettledStays, WithdrawalSettles
<1>2. QED
  BY <1>1, TypeCorrect, PTL DEF Spec, WithdrawalIsFinal

(* The users table implements the registry: one account per e-mail, closed  *)
(* accounts stay closed, whatever logins and withdrawals overlap.           *)
THEOREM RegistryRefinement == Spec => EmailsHaveOneAccount
<1> DEFINE membersBar == {m \in Users \X Emails : Live(m[1]) /\ account[m[1]].email = m[2]}
           usedBar == {u \in Users : account[u].state # "absent"}
<1>1. Init => Registry!Init
  BY DEF Init, Registry!Init, Live, NoAccount
<1>2. TypeOK /\ TypeOK' /\ CallsStayChecked /\ [Next]_vars =>
        [Registry!Next]_<<membersBar, usedBar>>
  <2> SUFFICES ASSUME TypeOK, TypeOK', CallsStayChecked, [Next]_vars,
                      ~UNCHANGED <<membersBar, usedBar>>
               PROVE  Registry!Next
    OBVIOUS
  <2>1. ~UNCHANGED account
    BY DEF Live
  <2>2. ASSUME NEW c \in Calls, CreateUser(c) PROVE Registry!Next
    <3> DEFINE e == call[c].email
    <3>1. PICK u \in Users :
            /\ CanSignUp(call[c].identity, e, u)
            /\ account' = [account EXCEPT ![u] = [state |-> "live", email |-> e]]
      BY <2>1, <2>2 DEF CreateUser
    <3>2. e \in Emails
      BY <2>2, CreateFields DEF CreateUser
    <3>3. u \notin usedBar /\ \A m \in membersBar : m[2] # e
      BY <3>1 DEF CanSignUp
    <3>4. usedBar' = usedBar \cup {u}
      BY <3>1 DEF TypeOK
    <3>5. membersBar' = membersBar \cup {<<u, e>>}
      <4>1. ~Live(u)
        BY <3>1 DEF CanSignUp, Live
      <4>2. \A v \in Users, f \in Emails :
               <<v, f>> \in membersBar' <=> <<v, f>> \in membersBar \/ (v = u /\ f = e)
        BY <3>1, <3>2, <4>1 DEF Live, TypeOK
      <4>3. QED
        BY <3>2, <4>2
    <3>6. QED
      BY <3>2, <3>3, <3>4, <3>5 DEF Registry!Next, Registry!Open
  <2>3. ASSUME NEW c \in Calls, SoftDeleteUser(c) PROVE Registry!Next
    <3> DEFINE u == call[c].user
    <3>1. u \in Users /\ account' = [account EXCEPT ![u] = MaskedAccount]
      BY <2>3, WithdrawFields DEF SoftDeleteUser
    <3>2. account[u].state # "absent"
      BY <2>3 DEF SoftDeleteUser, CallsStayChecked, Checked
    <3>3. usedBar' = usedBar
      BY <3>1, <3>2 DEF TypeOK, MaskedAccount
    <3>4. membersBar' = {m \in membersBar : m[1] # u}
      BY <3>1 DEF Live, TypeOK, MaskedAccount
    <3>5. QED
      BY <3>1, <3>3, <3>4 DEF Registry!Next, Registry!Close
  <2>4. QED
    BY <2>1, <2>2, <2>3, AccountWriters
<1>3. QED
  BY <1>1, <1>2, TypeCorrect, CallsAlwaysChecked, PTL DEF Spec, EmailsHaveOneAccount, Registry!Spec

-----------------------------------------------------------------------------
(* Why calls return and withdrawn accounts are left alone, as far as no     *)
(* fairness is needed: every query brings the end of a handler nearer, and  *)
(* no login turns to an account that is withdrawn.                          *)

(* The most queries a handler awaits from here on.                          *)
QueriesLeft(pc) ==
    CASE pc = "findUserByAuth" -> 4
      [] pc = "findUserByEmail" -> 3
      [] pc \in {"createUserAuth", "createUser", "findToken", "findTokenOwner"} -> 2
      [] pc \in {"upsertToken", "updateToken", "revokeToken", "softDeleteUser"} -> 1
      [] OTHER -> 0

Advances(c) == QueriesLeft(call'[c].pc) < QueriesLeft(call[c].pc)

(* A query that is answered leaves fewer to come, and nothing else moves a  *)
(* handler, except to its end.                                              *)
CallsAdvance ==
    [][\A c \in Calls : /\ Step(c) => Advances(c)
                        /\ At(c, "idle") \/ UNCHANGED call[c] \/ Advances(c)]_vars

(* A login comes to a withdrawn account only from before the withdrawal.    *)
NoNewLogins ==
    [][\A u \in Users, c \in Calls : Withdrawn(u) /\ LogsInTo(c, u)' => LogsInTo(c, u)]_vars

(* A handler that goes on awaits the query it is sent to.                   *)
LEMMA GoesTo ==
    ASSUME TypeOK, NEW c \in Calls, ~At(c, "idle"),
           NEW pc \in {"findUserByEmail", "createUser", "revokeToken"}, Goto(c, pc)
    PROVE  call'[c].pc = pc /\ \A d \in Calls \ {c} : call'[d] = call[d]
<1>1. call[c] \in Running
  BY RunningCall
<1>2. [call[c] EXCEPT !.pc = pc].pc = pc
  BY <1>1 DEF Running, LoginCall, TokenCall, WithdrawCall
<1>3. call' = [call EXCEPT ![c] = [call[c] EXCEPT !.pc = pc]]
  BY DEF Goto
<1>4. QED
  BY <1>2, <1>3 DEF TypeOK

LEMMA KnownIdentity ==
    ASSUME TypeOK, NEW c \in Calls, FindUserByAuth(c), auth[call[c].identity] # None
    PROVE  auth[call[c].identity] \in Users
BY RunningCall DEF FindUserByAuth, At, TypeOK, Running, LoginCall, TokenCall, WithdrawCall

LEMMA ReturnAdvances ==
    ASSUME TypeOK, NEW c \in Calls, ~At(c, "idle"), Return(c)
    PROVE  Advances(c) /\ \A d \in Calls \ {c} : call'[d] = call[d]
<1>1. QueriesLeft(call[c].pc) > 0
  BY RunningCall DEF QueriesLeft, Running, LoginCall, TokenCall, WithdrawCall
<1>2. QueriesLeft(Idle.pc) = 0
  BY DEF QueriesLeft, Idle
<1>3. QED
  BY <1>1, <1>2, ReturnMoves DEF Advances

LEMMA StepAdvances ==
    ASSUME TypeOK, NEW c \in Calls, Step(c)
    PROVE  Advances(c) /\ \A d \in Calls \ {c} : call'[d] = call[d]
<1>1. ASSUME ~At(c, "idle"), Return(c)
      PROVE  Advances(c) /\ \A d \in Calls \ {c} : call'[d] = call[d]
  BY <1>1, ReturnAdvances
<1>2. CASE UpsertToken(c) \/ UpdateToken(c) \/ RevokeToken(c) \/ SoftDeleteUser(c)
  BY <1>1, <1>2 DEF UpsertToken, UpdateToken, RevokeToken, SoftDeleteUser, At
<1>3. CASE FindUserByAuth(c)
  <2>1. CASE Goto(c, "findUserByEmail")
    BY <1>3, <2>1, GoesTo DEF FindUserByAuth, At, Advances, QueriesLeft
  <2>2. ASSUME NEW u \in Users, SignFor(c, u, "upsertToken")
        PROVE  Advances(c) /\ \A d \in Calls \ {c} : call'[d] = call[d]
    BY <1>3, <2>2, SignMoves DEF FindUserByAuth, At, Advances, QueriesLeft
  <2>3. QED
    BY <1>3, <2>1, <2>2, KnownIdentity DEF FindUserByAuth
<1>4. CASE FindUserByEmail(c)
  <2>1. CASE Goto(c, "createUser")
    BY <1>4, <2>1, GoesTo DEF FindUserByEmail, At, Advances, QueriesLeft
  <2>2. ASSUME NEW u \in Users,
               call' = [call EXCEPT ![c].pc = "createUserAuth", ![c].user = u]
        PROVE  Advances(c) /\ \A d \in Calls \ {c} : call'[d] = call[d]
    <3>1. call[c].pc = "findUserByEmail"
      BY <1>4 DEF FindUserByEmail, At
    <3>2. call'[c].pc = "createUserAuth" /\ \A d \in Calls \ {c} : call'[d] = call[d]
      BY <2>2, <3>1, FoundByEmailMoves DEF At
    <3>3. QED
      BY <3>1, <3>2 DEF Advances, QueriesLeft
  <2>3. QED
    BY <1>4, <2>1, <2>2 DEF FindUserByEmail
<1>5. ASSUME NEW u \in Users, At(c, "createUserAuth") \/ At(c, "createUser"),
             SignFor(c, u, "upsertToken")
      PROVE  Advances(c) /\ \A d \in Calls \ {c} : call'[d] = call[d]
  BY <1>5, SignMoves DEF At, Advances, QueriesLeft
<1>6. CASE CreateUserAuth(c)
  BY <1>1, <1>5, <1>6, LoginFields DEF CreateUserAuth, At
<1>7. CASE CreateUser(c)
  BY <1>1, <1>5, <1>7 DEF CreateUser, At
<1>8. CASE FindToken(c)
  <2>1. CASE SignFor(c, call[c].user, "updateToken")
    BY <1>8, <2>1, TokenFields, SignMoves DEF FindToken, At, Advances, QueriesLeft
  <2>2. QED
    BY <1>1, <1>8, <2>1 DEF FindToken, At
<1>9. CASE FindTokenOwner(c)
  BY <1>9, GoesTo DEF FindTokenOwner, At, Advances, QueriesLeft
<1>10. QED
  BY <1>2, <1>3, <1>4, <1>6, <1>7, <1>8, <1>9 DEF Step

(* No handler of auth.service.ts or users.service.ts goes back to a query,  *)
(* whatever others do in between: a login awaits four at most.  What is     *)
(* left of CallsReturn is that every query is answered.                     *)
THEOREM HandlersAdvance == Spec => CallsAdvance
<1>1. ASSUME TypeOK, [Next]_vars, NEW c \in Calls
      PROVE  /\ Step(c) => Advances(c)
             /\ At(c, "idle") \/ UNCHANGED call[c] \/ Advances(c)
  <2>1. Step(c) => Advances(c)
    BY <1>1, StepAdvances
  <2>2. ASSUME ~At(c, "idle")
        PROVE  UNCHANGED call[c] \/ Advances(c)
    <3>1. CASE UNCHANGED vars
      BY <3>1 DEF vars
    <3>2. ASSUME NEW d \in Calls, Begin(d)
          PROVE  UNCHANGED call[c]
      BY <1>1, <2>2, <3>2, BeginMoves DEF Begin, BeginLogin, BeginWithToken, BeginWithdraw, Enter
    <3>3. ASSUME NEW d \in Calls, Step(d)
          PROVE  UNCHANGED call[c] \/ Advances(c)
      BY <1>1, <3>3, StepAdvances
    <3>4. ASSUME NEW d \in Calls, Fail(d)
          PROVE  UNCHANGED call[c] \/ Advances(c)
      BY <1>1, <3>4, ReturnAdvances DEF Fail
    <3>5. QED
      BY <1>1, <3>1, <3>2, <3>3, <3>4 DEF Next
  <2>3. QED
    BY <2>1, <2>2
<1>2. TypeOK /\ [Next]_vars =>
        [\A c \in Calls : /\ Step(c) => Advances(c)
                          /\ At(c, "idle") \/ UNCHANGED call[c] \/ Advances(c)]_vars
  BY <1>1
<1>3. QED
  BY <1>2, TypeCorrect, PTL DEF Spec, CallsAdvance

(* Of a withdrawn user, the logins under way at the withdrawal are all      *)
(* there will ever be (users.service.ts:56-81).  As each of them advances, *)
(* WithdrawnIsLeftAlone only needs their queries to be answered.            *)
THEOREM WithdrawnGetNoLogins == Spec => NoNewLogins
<1>1. ASSUME TypeOK, [Next]_vars, NEW u \in Users, NEW c \in Calls, Withdrawn(u), LogsInTo(c, u)'
      PROVE  LogsInTo(c, u)
  <2>1. CASE UNCHANGED call
    BY <1>1, <2>1 DEF LogsInTo
  <2>2. ASSUME NEW d \in Calls, Begin(d)
        PROVE  LogsInTo(c, u)
    BY <1>1, <2>2, BeginMoves DEF LogsInTo
  <2>3. ASSUME NEW d \in Calls, Return(d)
        PROVE  LogsInTo(c, u)
    BY <1>1, <2>3, ReturnMoves DEF LogsInTo, Idle
  <2>4. ASSUME NEW d \in Calls, FindUserByAuth(d)
        PROVE  LogsInTo(c, u)
    <3>1. CASE Goto(d, "findUserByEmail")
      BY <1>1, <2>4, <3>1, GoesTo DEF FindUserByAuth, At, LogsInTo
    <3>2. ASSUME NEW v \in Users, Live(v), SignFor(d, v, "upsertToken")
          PROVE  LogsInTo(c, u)
      BY <1>1, <2>4, <3>2, SignMoves DEF FindUserByAuth, LogsInTo, Live, Withdrawn
    <3>3. QED
      BY <1>1, <2>4, <3>1, <3>2, KnownIdentity DEF FindUserByAuth
  <2>5. ASSUME NEW d \in Calls, FindUserByEmail(d)
        PROVE  LogsInTo(c, u)
    <3>1. CASE Goto(d, "createUser")
      BY <1>1, <2>5, <3>1, GoesTo DEF FindUserByEmail, At, LogsInTo
    <3>2. ASSUME NEW v \in Users, Live(v),
                 call' = [call EXCEPT ![d].pc = "createUserAuth", ![d].user = v]
          PROVE  LogsInTo(c, u)
      BY <1>1, <2>5, <3>2, FoundByEmailMoves DEF FindUserByEmail, LogsInTo, Live, Withdrawn
    <3>3. QED
      BY <2>5, <3>1, <3>2 DEF FindUserByEmail
  <2>6. ASSUME NEW d \in Calls, CreateUserAuth(d), SignFor(d, call[d].user, "upsertToken")
        PROVE  LogsInTo(c, u)
    BY <1>1, <2>6, LoginFields, SignMoves DEF CreateUserAuth, LogsInTo, At
  <2>7. ASSUME NEW d \in Calls, NEW v \in Users, At(d, "createUser"),
               account[v].state = "absent", SignFor(d, v, "upsertToken")
        PROVE  LogsInTo(c, u)
    BY <1>1, <2>7, SignMoves DEF LogsInTo, Withdrawn
  <2>8. ASSUME NEW d \in Calls, FindToken(d), SignFor(d, call[d].user, "updateToken")
        PROVE  LogsInTo(c, u)
    BY <1>1, <2>8, TokenFields, SignMoves DEF FindToken, At, LogsInTo
  <2>9. ASSUME NEW d \in Calls, FindTokenOwner(d)
        PROVE  LogsInTo(c, u)
    BY <1>1, <2>9, GoesTo DEF FindTokenOwner, At, LogsInTo
  <2>10. ASSUME NEW d \in Calls, CreateUser(d)
         PROVE  LogsInTo(c, u)
    BY <2>3, <2>7, <2>10 DEF CreateUser, CanSignUp
  <2>11. QED
    BY <1>1, <2>1, <2>2, <2>3, <2>4, <2>5, <2>6, <2>8, <2>9, <2>10
    DEF Next, Step, Fail, vars, CreateUserAuth, FindToken, UpsertToken, UpdateToken,
        RevokeToken, SoftDeleteUser
<1>2. TypeOK /\ [Next]_vars =>
        [\A u \in Users, c \in Calls :
            Withdrawn(u) /\ LogsInTo(c, u)' => LogsInTo(c, u)]_vars
  BY <1>1
<1>3. QED
  BY <1>2, TypeCorrect, PTL DEF Spec, NoNewLogins
=============================================================================
