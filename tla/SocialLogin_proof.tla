--------------------------- MODULE SocialLogin_proof ---------------------------
(***************************************************************************)
(* For any number of states, codes and overlapping logins, an approval at  *)
(* a provider opens one session at most, and a state is of no use once a   *)
(* login with it has returned.  What makes it inductive: a code that has   *)
(* been exchanged is held by one call at most, until that call opens the   *)
(* session or ends; and a call goes by what its state was given out for.   *)
(***************************************************************************)
EXTENDS SocialLogin, TLAPS

Holds(c) == At(c, "getProfile") \/ At(c, "login")

(* A key is of a state that was given out, and not of one used up.          *)
KeysAreFresh ==
    /\ \A s \in key \cup returned : issued[s] # None
    /\ key \cap returned = {}

(* A code is for the provider and the origin of a state.                    *)
CodesFollowStates ==
    \A k \in Codes : code[k] # None =>
        /\ issued[code[k].state] # None
        /\ code[k].provider = issued[code[k].state].provider
        /\ code[k].origin = issued[code[k].state].origin

(* So is a login.                                                           *)
CallsFollowStates ==
    \A c \in Calls : ~At(c, "idle") =>
        /\ issued[call[c].state] # None
        /\ call[c].provider = issued[call[c].state].provider
        /\ call[c].origin = issued[call[c].state].origin
        /\ code[call[c].code] # None

(* Whoever holds a code that was exchanged is alone, and has yet to open    *)
(* the session.                                                             *)
HeldOnce ==
    /\ \A c \in Calls : Holds(c) =>
          /\ call[c].code \in spent
          /\ opened[call[c].code] = None
          /\ code[call[c].code].provider = call[c].provider
          /\ code[call[c].code].origin = call[c].origin
    /\ \A c, d \in Calls : Holds(c) /\ Holds(d) /\ call[c].code = call[d].code => c = d

(* A code that opened a session was handed out, and is exchanged.           *)
OpenedAreSpent ==
    \A k \in Codes : opened[k] # None =>
        /\ k \in spent /\ code[k] # None
        /\ opened[k] \in States /\ issued[opened[k]] # None

Inv ==
    /\ TypeOK
    /\ KeysAreFresh
    /\ CodesFollowStates
    /\ CallsFollowStates
    /\ HeldOnce
    /\ OpenedAreSpent
    /\ ApprovalsOpenOneSession

-----------------------------------------------------------------------------
LEMMA InitInv ==
    ASSUME Init
    PROVE  Inv
  BY DEF Init, Inv, TypeOK, KeysAreFresh, CodesFollowStates, CallsFollowStates, HeldOnce,
         OpenedAreSpent,          ApprovalsOpenOneSession, At, Holds, Idle

LEMMA CallTyped ==
    ASSUME TypeOK, NEW c \in Calls, ~At(c, "idle")
    PROVE  /\ call[c] \in Running
           /\ call[c].state \in States /\ call[c].provider \in Providers
           /\ call[c].code \in Codes /\ call[c].origin \in Origins
  BY DEF TypeOK, Running, Idle, At

(* A call moves on with what it has.                                        *)
LEMMA GotoBecomes ==
    ASSUME TypeOK, NEW c \in Calls, ~At(c, "idle"),
           NEW pc \in {"getProfile", "login", "del"}, Goto(c, pc)
    PROVE  /\ call' \in [Calls -> Running \cup {Idle}]
           /\ call'[c].pc = pc /\ call'[c].state = call[c].state
           /\ call'[c].provider = call[c].provider /\ call'[c].code = call[c].code
           /\ call'[c].origin = call[c].origin
           /\ \A d \in Calls \ {c} : call'[d] = call[d]
  <1>1. call[c] \in Running
    BY CallTyped
  <1> DEFINE new == [pc |-> pc, state |-> call[c].state, provider |-> call[c].provider,
                     code |-> call[c].code, origin |-> call[c].origin]
  <1>2. new \in Running
    BY <1>1 DEF Running
  <1>3. [call[c] EXCEPT !.pc = pc] = new
    BY <1>1 DEF Running
  <1>4. call' = [call EXCEPT ![c] = new]
    BY <1>3 DEF Goto
  <1>5. /\ new.pc = pc /\ new.state = call[c].state /\ new.provider = call[c].provider
        /\ new.code = call[c].code /\ new.origin = call[c].origin
    OBVIOUS
  <1> HIDE DEF new
  <1> QED
    BY <1>2, <1>4, <1>5 DEF TypeOK

LEMMA ReturnBecomes ==
    ASSUME TypeOK, NEW c \in Calls, Return(c)
    PROVE  /\ call' \in [Calls -> Running \cup {Idle}]
           /\ call'[c].pc = "idle"
           /\ \A d \in Calls \ {c} : call'[d] = call[d]
  BY DEF TypeOK, Return, Idle

-----------------------------------------------------------------------------
(* A state that is given out was not known to anybody.                      *)
LEMMA IssueKeepsInv ==
    ASSUME SocialLoginAssumption, Inv, NEW s \in States, IssueAuthUrl(s)
    PROVE  Inv'
  <1>1. PICK r \in Request : issued' = [issued EXCEPT ![s] = r]
    BY DEF IssueAuthUrl
  <1>2. /\ issued[s] = None /\ key' = key \cup {s}
        /\ UNCHANGED <<code, spent, opened, returned, call>>
    BY DEF IssueAuthUrl
  <1>3. r # None /\ \A t \in States : issued'[t] = IF t = s THEN r ELSE issued[t]
    BY <1>1 DEF Inv, TypeOK, SocialLoginAssumption
  <1>4. TypeOK'
    BY <1>1, <1>2 DEF Inv, TypeOK
  <1>5. KeysAreFresh'
    BY <1>2, <1>3 DEF Inv, KeysAreFresh, TypeOK
  <1>6. CodesFollowStates'
    <2>1. \A k \in Codes : code[k] # None => code[k].state \in States
      BY DEF Inv, TypeOK, Code
    <2> QED
      BY <1>2, <1>3, <2>1 DEF Inv, CodesFollowStates
  <1>7. CallsFollowStates'
    <2>1. \A c \in Calls : ~At(c, "idle") => call[c].state \in States
      BY CallTyped DEF Inv
    <2> QED
      BY <1>2, <1>3, <2>1 DEF Inv, CallsFollowStates, At
  <1>8. HeldOnce'
    BY <1>2 DEF Inv, HeldOnce, Holds, At
  <1>9. OpenedAreSpent' /\ ApprovalsOpenOneSession'
    BY <1>2, <1>3 DEF Inv, OpenedAreSpent, ApprovalsOpenOneSession
  <1> QED
    BY <1>4, <1>5, <1>6, <1>7, <1>8, <1>9 DEF Inv

LEMMA ExpireKeepsInv ==
    ASSUME Inv, NEW s \in States, Expire(s)
    PROVE  Inv'
  <1>1. key' \subseteq key /\ UNCHANGED <<issued, code, spent, opened, returned, call>>
    BY DEF Expire
  <1>2. TypeOK' /\ KeysAreFresh'
    BY <1>1 DEF Inv, TypeOK, KeysAreFresh
  <1>3. CodesFollowStates' /\ CallsFollowStates'
    BY <1>1 DEF Inv, CodesFollowStates, CallsFollowStates, At
  <1>4. HeldOnce' /\ OpenedAreSpent' /\ ApprovalsOpenOneSession'
    BY <1>1 DEF Inv, HeldOnce, OpenedAreSpent, ApprovalsOpenOneSession, Holds, At
  <1> QED
    BY <1>2, <1>3, <1>4 DEF Inv

(* A code that is handed out is fresh, too.                                 *)
LEMMA ApproveKeepsInv ==
    ASSUME Inv, NEW k \in Codes, Approve(k)
    PROVE  Inv'
  <1>1. PICK s \in States :
            /\ issued[s] # None
            /\ code' = [code EXCEPT ![k] = [provider |-> issued[s].provider,
                                           origin |-> issued[s].origin, state |-> s]]
    BY DEF Approve
  <1> DEFINE new == [provider |-> issued[s].provider, origin |-> issued[s].origin, state |-> s]
  <1>2. code[k] = None /\ UNCHANGED <<issued, key, spent, opened, returned, call>>
    BY DEF Approve
  <1>3. new \in Code
    BY <1>1 DEF Inv, TypeOK, Request, Code
  <1>4. /\ new.provider = issued[s].provider /\ new.origin = issued[s].origin
        /\ new.state = s
    OBVIOUS
  <1>5. code' = [code EXCEPT ![k] = new]
    BY <1>1
  <1> HIDE DEF new
  <1>6. code'[k] = new /\ \A l \in Codes \ {k} : code'[l] = code[l]
    BY <1>5 DEF Inv, TypeOK
  <1>7. TypeOK'
    BY <1>2, <1>3, <1>5 DEF Inv, TypeOK
  <1>8. KeysAreFresh'
    BY <1>2 DEF Inv, KeysAreFresh
  <1>9. CodesFollowStates'
    BY <1>1, <1>2, <1>4, <1>6 DEF Inv, CodesFollowStates
  <1>10. \A c \in Calls : ~At(c, "idle") => call[c].code \in Codes \ {k}
    BY <1>2, CallTyped DEF Inv, CallsFollowStates
  <1>11. CallsFollowStates'
    BY <1>2, <1>6, <1>10 DEF Inv, CallsFollowStates, At
  <1>12. HeldOnce'
    BY <1>2, <1>6, <1>10 DEF Inv, HeldOnce, Holds, At
  <1>13. OpenedAreSpent' /\ ApprovalsOpenOneSession'
    BY <1>2, <1>6 DEF Inv, OpenedAreSpent, ApprovalsOpenOneSession
  <1> QED
    BY <1>7, <1>8, <1>9, <1>11, <1>12, <1>13 DEF Inv

-----------------------------------------------------------------------------
(* Logins *)

(* A login goes by the state it presents.                                   *)
LEMMA GetStateKeepsInv ==
    ASSUME Inv, NEW c \in Calls, GetState(c)
    PROVE  Inv'
  <1>1. PICK s \in States, p \in Providers, k \in Codes :
            /\ code[k] # None
            /\ s \in key /\ issued[s].provider = p
            /\ call' = [call EXCEPT ![c] = [pc |-> "getToken", state |-> s, provider |-> p,
                                          code |-> k, origin |-> issued[s].origin]]
    BY DEF GetState, IsGood
  <1> DEFINE new == [pc |-> "getToken", state |-> s, provider |-> p,
                     code |-> k, origin |-> issued[s].origin]
  <1>2. UNCHANGED <<issued, key, code, spent, opened, returned>>
    BY DEF GetState
  <1>3. issued[s] # None
    BY <1>1 DEF Inv, KeysAreFresh
  <1>4. new \in Running
    BY <1>1, <1>3 DEF Inv, TypeOK, Running, Request
  <1>5. /\ new.pc = "getToken" /\ new.state = s /\ new.provider = p
        /\ new.code = k /\ new.origin = issued[s].origin
    OBVIOUS
  <1>6. call' = [call EXCEPT ![c] = new]
    BY <1>1
  <1> HIDE DEF new
  <1>7. call'[c] = new /\ \A d \in Calls \ {c} : call'[d] = call[d]
    BY <1>6 DEF Inv, TypeOK
  <1>8. TypeOK'
    BY <1>2, <1>4, <1>6 DEF Inv, TypeOK
  <1>9. KeysAreFresh' /\ CodesFollowStates'
    BY <1>2 DEF Inv, KeysAreFresh, CodesFollowStates
  <1>10. CallsFollowStates'
    BY <1>1, <1>2, <1>3, <1>5, <1>7 DEF Inv, CallsFollowStates, At
  <1>11. HeldOnce'
    BY <1>2, <1>5, <1>7 DEF Inv, HeldOnce, Holds, At
  <1>12. OpenedAreSpent' /\ ApprovalsOpenOneSession'
    BY <1>2 DEF Inv, OpenedAreSpent, ApprovalsOpenOneSession
  <1> QED
    BY <1>8, <1>9, <1>10, <1>11, <1>12 DEF Inv

(* An exchange makes its call the only holder of the code.                  *)
LEMMA ExchangeKeepsInv ==
    ASSUME Inv, NEW c \in Calls, NEW p, Exchange(c, p),
           call[c].origin = code[call[c].code].origin
    PROVE  Inv'
  <1> DEFINE k == call[c].code
  <1>1. /\ At(c, "getToken") /\ call[c].provider = p
        /\ code[k].provider = p /\ k \notin spent
        /\ spent' = spent \cup {k}
        /\ Goto(c, "getProfile")
        /\ UNCHANGED <<issued, key, code, opened, returned>>
    BY DEF Exchange
  <1>2. TypeOK /\ ~At(c, "idle") /\ k \in Codes
    BY <1>1, CallTyped DEF Inv, At
  <1>3. /\ call' \in [Calls -> Running \cup {Idle}]
        /\ call'[c].pc = "getProfile" /\ call'[c].state = call[c].state
        /\ call'[c].provider = call[c].provider /\ call'[c].code = k
        /\ call'[c].origin = call[c].origin
        /\ \A d \in Calls \ {c} : call'[d] = call[d]
    BY <1>1, <1>2, GotoBecomes
  <1>4. TypeOK'
    BY <1>1, <1>2, <1>3 DEF TypeOK
  <1>5. KeysAreFresh' /\ CodesFollowStates'
    BY <1>1 DEF Inv, KeysAreFresh, CodesFollowStates
  <1>6. CallsFollowStates'
    BY <1>1, <1>2, <1>3 DEF Inv, CallsFollowStates, At
  <1>7. \A d \in Calls \ {c} : Holds(d) => call[d].code # k
    BY <1>1 DEF Inv, HeldOnce
  <1>8. opened[k] = None
    BY <1>1, <1>2 DEF Inv, OpenedAreSpent
  <1>9. HeldOnce'
    <2>1. \A d \in Calls \ {c} : Holds(d)' <=> Holds(d)
      BY <1>3 DEF Holds, At
    <2>2. call[c].origin = code[k].origin
      OBVIOUS
    <2> HIDE DEF k
    <2>3. ASSUME NEW d \in Calls, Holds(d)'
          PROVE  /\ call'[d].code \in spent'
                 /\ opened'[call'[d].code] = None
                 /\ code'[call'[d].code].provider = call'[d].provider
                 /\ code'[call'[d].code].origin = call'[d].origin
      <3>1. CASE d = c
        BY <1>1, <1>3, <1>8, <2>2, <3>1
      <3>2. CASE d # c
        BY <1>1, <1>3, <2>1, <2>3, <3>2 DEF Inv, HeldOnce
      <3> QED
        BY <3>1, <3>2
    <2>4. ASSUME NEW d \in Calls, NEW e \in Calls, Holds(d)', Holds(e)',
                 call'[d].code = call'[e].code
          PROVE  d = e
      BY <1>3, <1>7, <2>1, <2>4 DEF Inv, HeldOnce
    <2> QED
      BY <2>3, <2>4 DEF HeldOnce
  <1>10. OpenedAreSpent' /\ ApprovalsOpenOneSession'
    BY <1>1 DEF Inv, OpenedAreSpent, ApprovalsOpenOneSession
  <1> QED
    BY <1>4, <1>5, <1>6, <1>9, <1>10 DEF Inv

(* Naver compares the states: with them the origins agree.                  *)
LEMMA TokenKeepsInv ==
    ASSUME Inv, NEW c \in Calls,
           GetTokenAtGoogle(c) \/ GetTokenAtKakao(c) \/ GetTokenAtNaver(c)
    PROVE  Inv'
  <1>1. CASE GetTokenAtGoogle(c)
    BY <1>1, ExchangeKeepsInv DEF GetTokenAtGoogle
  <1>2. CASE GetTokenAtKakao(c)
    BY <1>2, ExchangeKeepsInv DEF GetTokenAtKakao
  <1>3. CASE GetTokenAtNaver(c)
    <2>1. Exchange(c, "NAVER") /\ call[c].state = code[call[c].code].state
      BY <1>3 DEF GetTokenAtNaver
    <2>2. ~At(c, "idle") /\ call[c].code \in Codes
      BY <2>1, CallTyped DEF Inv, Exchange, At
    <2>3. call[c].origin = code[call[c].code].origin
      BY <2>1, <2>2 DEF Inv, CallsFollowStates, CodesFollowStates
    <2> QED
      BY <2>1, <2>3, ExchangeKeepsInv
  <1> QED
    BY <1>1, <1>2, <1>3

LEMMA ProfileKeepsInv ==
    ASSUME Inv, NEW c \in Calls, GetProfile(c)
    PROVE  Inv'
  <1>1. /\ At(c, "getProfile") /\ Goto(c, "login")
        /\ UNCHANGED <<issued, key, code, spent, opened, returned>>
    BY DEF GetProfile
  <1>2. TypeOK /\ ~At(c, "idle")
    BY <1>1 DEF Inv, At
  <1>3. /\ call' \in [Calls -> Running \cup {Idle}]
        /\ call'[c].pc = "login" /\ call'[c].state = call[c].state
        /\ call'[c].provider = call[c].provider /\ call'[c].code = call[c].code
        /\ call'[c].origin = call[c].origin
        /\ \A d \in Calls \ {c} : call'[d] = call[d]
    BY <1>1, <1>2, GotoBecomes
  <1>4. TypeOK'
    BY <1>1, <1>2, <1>3 DEF TypeOK
  <1>5. KeysAreFresh' /\ CodesFollowStates'
    BY <1>1 DEF Inv, KeysAreFresh, CodesFollowStates
  <1>6. CallsFollowStates'
    BY <1>1, <1>2, <1>3 DEF Inv, CallsFollowStates, At
  <1>7. HeldOnce'
    <2>1. \A d \in Calls : /\ Holds(d)' <=> Holds(d)
                           /\ call'[d].code = call[d].code
                           /\ call'[d].provider = call[d].provider
                           /\ call'[d].origin = call[d].origin
      BY <1>1, <1>3 DEF Holds, At
    <2> QED
      BY <1>1, <2>1 DEF Inv, HeldOnce
  <1>8. OpenedAreSpent' /\ ApprovalsOpenOneSession'
    BY <1>1 DEF Inv, OpenedAreSpent, ApprovalsOpenOneSession
  <1> QED
    BY <1>4, <1>5, <1>6, <1>7, <1>8 DEF Inv

(* The session is the code's first, and its holder lets go of the code.     *)
LEMMA LoginKeepsInv ==
    ASSUME Inv, NEW c \in Calls, Login(c)
    PROVE  Inv'
  <1> DEFINE k == call[c].code
             s == call[c].state
  <1>1. /\ At(c, "login") /\ Goto(c, "del")
        /\ opened' = [opened EXCEPT ![k] = IF @ = None THEN s ELSE "twice"]
        /\ UNCHANGED <<issued, key, code, spent, returned>>
    BY DEF Login
  <1>2. TypeOK /\ ~At(c, "idle") /\ k \in Codes /\ s \in States
    BY <1>1, CallTyped DEF Inv, At
  <1>3. /\ call' \in [Calls -> Running \cup {Idle}]
        /\ call'[c].pc = "del" /\ call'[c].state = s
        /\ call'[c].provider = call[c].provider /\ call'[c].code = k
        /\ call'[c].origin = call[c].origin
        /\ \A d \in Calls \ {c} : call'[d] = call[d]
    BY <1>1, <1>2, GotoBecomes
  <1>4. /\ k \in spent /\ opened[k] = None /\ code[k] # None /\ issued[s] # None
        /\ code[k].provider = issued[s].provider /\ code[k].origin = issued[s].origin
    BY <1>1, <1>2 DEF Inv, HeldOnce, Holds, CallsFollowStates
  <1>5. \A d \in Calls \ {c} : Holds(d) => call[d].code # k
    BY <1>1 DEF Inv, HeldOnce, Holds
  <1>6. \A d \in Calls : Holds(d) => call[d].code \in Codes
    BY <1>2, CallTyped DEF Holds, At
  <1> HIDE DEF k, s
  <1>7. opened'[k] = s /\ \A l \in Codes \ {k} : opened'[l] = opened[l]
    BY <1>1, <1>2, <1>4 DEF TypeOK
  <1>8. TypeOK'
    <2>1. opened' \in [Codes -> States \cup {None, "twice"}]
      BY <1>1, <1>2 DEF TypeOK
    <2> QED
      BY <1>1, <1>2, <1>3, <2>1 DEF TypeOK
  <1>9. KeysAreFresh' /\ CodesFollowStates'
    BY <1>1 DEF Inv, KeysAreFresh, CodesFollowStates
  <1>10. CallsFollowStates'
    BY <1>1, <1>2, <1>3 DEF Inv, CallsFollowStates, At, k, s
  <1>11. HeldOnce'
    <2>1. ~Holds(c)' /\ \A d \in Calls \ {c} : Holds(d)' <=> Holds(d)
      BY <1>3 DEF Holds, At
    <2> QED
      BY <1>1, <1>3, <1>5, <1>6, <1>7, <2>1 DEF Inv, HeldOnce
  <1>12. OpenedAreSpent' /\ ApprovalsOpenOneSession'
    BY <1>1, <1>2, <1>4, <1>7 DEF Inv, OpenedAreSpent, ApprovalsOpenOneSession
  <1> QED
    BY <1>8, <1>9, <1>10, <1>11, <1>12 DEF Inv

(* A call that ends lets go of its code, which stays spent.                 *)
LEMMA EndKeepsInv ==
    ASSUME Inv, NEW c \in Calls, Return(c),
           key' \subseteq key, returned' \cap key' = {},
           \A s \in returned' : s \in returned \/ (s \in States /\ issued[s] # None),
           spent \subseteq spent', spent' \subseteq Codes, returned' \subseteq States,
           UNCHANGED <<issued, code, opened>>
    PROVE  Inv'
  <1>1. TypeOK
    BY DEF Inv
  <1>2. /\ call' \in [Calls -> Running \cup {Idle}]
        /\ call'[c].pc = "idle"
        /\ \A d \in Calls \ {c} : call'[d] = call[d]
    BY <1>1, ReturnBecomes
  <1>3. TypeOK'
    BY <1>1, <1>2 DEF TypeOK
  <1>4. KeysAreFresh'
    BY DEF Inv, KeysAreFresh
  <1>5. CodesFollowStates'
    BY DEF Inv, CodesFollowStates
  <1>6. CallsFollowStates'
    BY <1>2 DEF Inv, CallsFollowStates, At
  <1>7. HeldOnce'
    <2>1. ~Holds(c)' /\ \A d \in Calls \ {c} : Holds(d)' <=> Holds(d)
      BY <1>2 DEF Holds, At
    <2> QED
      BY <1>2, <2>1 DEF Inv, HeldOnce
  <1>8. OpenedAreSpent' /\ ApprovalsOpenOneSession'
    BY DEF Inv, OpenedAreSpent, ApprovalsOpenOneSession
  <1> QED
    BY <1>3, <1>4, <1>5, <1>6, <1>7, <1>8 DEF Inv

LEMMA DelKeepsInv ==
    ASSUME Inv, NEW c \in Calls, DelState(c)
    PROVE  Inv'
  <1> DEFINE s == call[c].state
  <1>1. s \in States /\ issued[s] # None
    BY CallTyped DEF Inv, DelState, At, CallsFollowStates
  <1>2. key' = key \ {s} /\ returned' = returned \cup {s}
    BY DEF DelState
  <1>3. /\ key \subseteq States /\ returned \subseteq States /\ spent \subseteq Codes
        /\ key \cap returned = {}
    BY DEF Inv, TypeOK, KeysAreFresh
  <1> HIDE DEF s
  <1>4. Return(c) /\ UNCHANGED <<issued, code, spent, opened>>
    BY DEF DelState
  <1>5. /\ key' \subseteq key /\ returned' \cap key' = {} /\ returned' \subseteq States
        /\ \A t \in returned' : t \in returned \/ (t \in States /\ issued[t] # None)
    BY <1>1, <1>2, <1>3
  <1> QED
    BY <1>3, <1>4, <1>5, EndKeepsInv

LEMMA FailKeepsInv ==
    ASSUME Inv, NEW c \in Calls, Fail(c)
    PROVE  Inv'
  <1>1. call[c].code \in Codes
    BY CallTyped DEF Inv, Fail
  <1>2. /\ key \cap returned = {} /\ returned \subseteq States /\ spent \subseteq Codes
    BY DEF Inv, TypeOK, KeysAreFresh
  <1>3. Return(c) /\ UNCHANGED <<issued, key, code, opened, returned>>
    BY DEF Fail
  <1>4. spent \subseteq spent' /\ spent' \subseteq Codes
    BY <1>1, <1>2 DEF Fail
  <1> QED
    BY <1>2, <1>3, <1>4, EndKeepsInv

LEMMA NextKeepsInv ==
    ASSUME SocialLoginAssumption, Inv, [Next]_vars
    PROVE  Inv'
  <1>1. CASE Next
    <2>1. ASSUME NEW c \in Calls, HandleLogin(c)
          PROVE  Inv'
      BY <2>1, GetStateKeepsInv, TokenKeepsInv, ProfileKeepsInv, LoginKeepsInv,
         DelKeepsInv, FailKeepsInv DEF HandleLogin
    <2> QED
      BY <1>1, <2>1, IssueKeepsInv, ExpireKeepsInv, ApproveKeepsInv DEF Next
  <1>2. CASE UNCHANGED vars
    BY <1>2 DEF vars, Inv, TypeOK, KeysAreFresh, CodesFollowStates, CallsFollowStates,
                HeldOnce, OpenedAreSpent, ApprovalsOpenOneSession, Holds, At
  <1> QED
    BY <1>1, <1>2

(* The invariant holds for any number of states, codes and logins.          *)
THEOREM InvHolds ==
    ASSUME SocialLoginAssumption
    PROVE  Spec => []Inv
  <1> QED
    BY InitInv, NextKeepsInv, PTL DEF Spec

(* However logins overlap and are tried again, an approval at a provider    *)
(* opens one session at most, and at the provider and for the origin its    *)
(* state was given out for (auth.service.ts:89-123).                        *)
THEOREM OneSessionHolds ==
    ASSUME SocialLoginAssumption
    PROVE  Spec => []ApprovalsOpenOneSession
  <1>1. Inv => ApprovalsOpenOneSession
    BY DEF Inv
  <1> QED
    BY <1>1, InvHolds, PTL

(* No login begins with the state of one that has returned                  *)
(* (auth.service.ts:122-123).                                               *)
THEOREM StatesAreGone ==
    ASSUME SocialLoginAssumption
    PROVE  Spec => ReturnedStatesAreGone
  <1>1. ASSUME Inv, [Next]_vars, NEW c \in Calls, At(c, "idle"), ~At(c, "idle")'
        PROVE  call'[c].state \notin returned
    <2>1. call'[c] # call[c]
      BY <1>1 DEF At
    <2>2. Next
      BY <1>1, <2>1 DEF vars
    <2>3. PICK d \in Calls : HandleLogin(d)
      BY <2>1, <2>2 DEF Next, IssueAuthUrl, Expire, Approve
    <2>4. ASSUME d # c
          PROVE  FALSE
      <3>1. CASE GetState(d)
        BY <1>1, <2>1, <2>4, <3>1 DEF GetState, Inv, TypeOK
      <3>2. CASE ~GetState(d)
        <4>1. Return(d) \/ \E pc \in {"getProfile", "login", "del"} : Goto(d, pc)
          BY <2>3, <3>2 DEF HandleLogin, GetTokenAtGoogle, GetTokenAtKakao, GetTokenAtNaver,
                            Exchange, GetProfile, Login, DelState, Fail
        <4> QED
          BY <1>1, <2>1, <2>4, <4>1 DEF Return, Goto, Inv, TypeOK
      <3> QED
        BY <3>1, <3>2
    <2>5. GetState(c)
      BY <1>1, <2>3, <2>4 DEF HandleLogin, GetTokenAtGoogle, GetTokenAtKakao, GetTokenAtNaver,
                              Exchange, GetProfile, Login, DelState, Fail, At
    <2>6. PICK s \in States, p \in Providers, k \in Codes :
              /\ s \in key
              /\ call' = [call EXCEPT ![c] = [pc |-> "getToken", state |-> s, provider |-> p,
                                            code |-> k, origin |-> issued[s].origin]]
      BY <2>5 DEF GetState, IsGood
    <2>7. call'[c].state = s
      BY <1>1, <2>6 DEF Inv, TypeOK
    <2> QED
      BY <1>1, <2>6, <2>7 DEF Inv, KeysAreFresh
  <1>2. Inv /\ [Next]_vars =>
            [\A c \in Calls : At(c, "idle") /\ ~At(c, "idle")' => call'[c].state \notin returned]_vars
    BY <1>1
  <1> QED
    BY <1>2, InvHolds, PTL DEF Spec, ReturnedStatesAreGone
=============================================================================
