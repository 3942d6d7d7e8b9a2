----------------------------- MODULE SocialLogin -----------------------------
(***************************************************************************)
(* Logging in with an account at a social login provider: the state kept   *)
(* in Redis between the address a browser is sent to and the login that    *)
(* follows, and the code a provider hands out in between                   *)
(* (src/src/module/auth, src/src/lib/oauth, src/src/lib/redis).            *)
(*                                                                         *)
(* What a login does in the database is in Accounts: here it opens a       *)
(* session in one step.  Providers are modelled from how the code uses     *)
(* them: a code is good for one exchange, at its own provider.  States are *)
(* random and expire at any time; the reply to any request may get lost.   *)
(***************************************************************************)
CONSTANTS
    Origins,        \* where the front end may be served from
    States,         \* random states, those not yet given out included
    Codes,          \* codes of the providers, likewise
    Calls,          \* slots for running handlers
    None            \* an absent key or code, or an unused field of a slot

Providers == {"GOOGLE", "NAVER", "KAKAO"}

Request == [provider : Providers, origin : Origins]
Code == [provider : Providers, origin : Origins, state : States]

SocialLoginAssumption == None \notin Request \cup Code

Idle == [pc |-> "idle", state |-> None, provider |-> None, code |-> None, origin |-> None]

Running ==
    [pc : {"getToken", "getProfile", "login", "del"},
     state : States, provider : Providers, code : Codes, origin : Origins]

VARIABLES
    issued,         \* what each state was given out for
    key,            \* the states whose keys Redis holds
    code,           \* what each code was given out for
    spent,          \* the codes that have been exchanged
    opened,         \* history: the states of the logins with a code that opened a session
    returned,       \* history: the states of the logins that have returned
    call            \* what each slot is running

vars == <<issued, key, code, spent, opened, returned, call>>

TypeOK ==
    /\ issued \in [States -> Request \cup {None}]
    /\ key \in SUBSET States
    /\ code \in [Codes -> Code \cup {None}]
    /\ spent \in SUBSET Codes
    /\ opened \in [Codes -> States \cup {None, "twice"}]
    /\ returned \in SUBSET States
    /\ call \in [Calls -> Running \cup {Idle}]

Init ==
    /\ issued = [s \in States |-> None]
    /\ key = {}
    /\ code = [k \in Codes |-> None]
    /\ spent = {}
    /\ opened = [k \in Codes |-> None]
    /\ returned = {}
    /\ call = [c \in Calls |-> Idle]

-----------------------------------------------------------------------------
At(c, pc) == call[c].pc = pc
Goto(c, pc) == call' = [call EXCEPT ![c].pc = pc]
Return(c) == call' = [call EXCEPT ![c] = Idle]

(* A browser asks for the address of a provider's page.  The request is     *)
(* kept under a fresh state, which is part of that address.                 *)
IssueAuthUrl(s) ==
    /\ issued[s] = None
    /\ \E r \in Request : issued' = [issued EXCEPT ![s] = r]
    /\ key' = key \cup {s}
    /\ UNCHANGED <<code, spent, opened, returned, call>>

Expire(s) ==
    /\ s \in key
    /\ key' = key \ {s}
    /\ UNCHANGED <<issued, code, spent, opened, returned, call>>

(* The user agrees at the provider, which sends the browser back with a     *)
(* code: to the origin of the address, and with its state.                  *)
Approve(k) ==
    /\ code[k] = None
    /\ \E s \in States :
          /\ issued[s] # None
          /\ code' = [code EXCEPT ![k] = [provider |-> issued[s].provider,
                                          origin |-> issued[s].origin, state |-> s]]
    /\ UNCHANGED <<issued, key, spent, opened, returned, call>>

-----------------------------------------------------------------------------
(* login, with any state, provider and code that a browser can name *)

(* Mutant: the provider of the body is not compared with the state's.       *)
IsGoodForAny(s, p) == s \in key

IsGood(s, p) == s \in key /\ issued[s].provider = p

(* The key is read and left there until the login has succeeded. *)
GetState(c) ==
    /\ At(c, "idle")
    /\ \E s \in States, p \in Providers, k \in Codes :
          /\ code[k] # None
          /\ IsGood(s, p)
          /\ call' = [call EXCEPT ![c] = [pc |-> "getToken", state |-> s, provider |-> p,
                                          code |-> k, origin |-> issued[s].origin]]
    /\ UNCHANGED <<issued, key, code, spent, opened, returned>>

(* A provider takes one of its own codes, once. *)
Exchange(c, p) ==
    LET k == call[c].code IN
    /\ At(c, "getToken")
    /\ call[c].provider = p
    /\ code[k].provider = p /\ k \notin spent
    /\ spent' = spent \cup {k}
    /\ Goto(c, "getProfile")
    /\ UNCHANGED <<issued, key, code, opened, returned>>

(* Google and Kakao want the address the browser was sent back to, Naver    *)
(* the state it was sent back with.                                         *)
GetTokenAtGoogle(c) ==
    Exchange(c, "GOOGLE") /\ call[c].origin = code[call[c].code].origin

GetTokenAtKakao(c) ==
    Exchange(c, "KAKAO") /\ call[c].origin = code[call[c].code].origin

GetTokenAtNaver(c) ==
    Exchange(c, "NAVER") /\ call[c].state = code[call[c].code].state

(* With the token, the user's profile; it may lack what an account needs.   *)
GetProfile(c) ==
    /\ At(c, "getProfile")
    /\ Goto(c, "login")
    /\ UNCHANGED <<issued, key, code, spent, opened, returned>>

(* Accounts: the user is found or signed up, and a session opened.  With    *)
(* the answer the session's token goes to the browser.                      *)
Login(c) ==
    LET k == call[c].code IN
    /\ At(c, "login")
    /\ opened' = [opened EXCEPT ![k] = IF @ = None THEN call[c].state ELSE "twice"]
    /\ Goto(c, "del")
    /\ UNCHANGED <<issued, key, code, spent, returned>>

(* Mutant: the answer is sent while the state is still there.               *)
ReturnAtOnce(c) ==
    /\ At(c, "del")
    /\ returned' = returned \cup {call[c].state}
    /\ Return(c)
    /\ UNCHANGED <<issued, key, code, spent, opened>>

DelState(c) ==
    /\ At(c, "del")
    /\ key' = key \ {call[c].state}
    /\ returned' = returned \cup {call[c].state}
    /\ Return(c)
    /\ UNCHANGED <<issued, code, spent, opened>>

(* Any request may fail, or its answer get lost after it was served: a code *)
(* spent and a session opened stay so, and the state may be tried again.    *)
Fail(c) ==
    /\ ~At(c, "idle")
    /\ Return(c)
    /\ \/ UNCHANGED spent
       \/ At(c, "getToken") /\ spent' = spent \cup {call[c].code}
    /\ UNCHANGED <<issued, key, code, opened, returned>>

HandleLogin(c) ==
    \/ GetState(c)
    \/ GetTokenAtGoogle(c) \/ GetTokenAtKakao(c) \/ GetTokenAtNaver(c)
    \/ GetProfile(c) \/ Login(c) \/ DelState(c)
    \/ Fail(c)

Next ==
    \/ \E s \in States : IssueAuthUrl(s) \/ Expire(s)
    \/ \E k \in Codes : Approve(k)
    \/ \E c \in Calls : HandleLogin(c)

Spec == Init /\ [][Next]_vars

-----------------------------------------------------------------------------
(* A user's approval opens one session at most, and at the provider and for *)
(* the origin that the state of the login was given out for, although a     *)
(* state stays good until the login is over: retries and second tabs may    *)
(* use it again (auth.service.ts:89-123).                                   *)
ApprovalsOpenOneSession ==
    \A k \in Codes : opened[k] # None =>
        /\ opened[k] \in States
        /\ code[k].provider = issued[opened[k]].provider
        /\ code[k].origin = issued[opened[k]].origin

(* After a login has returned, its state is of no use: the only calls that  *)
(* still go by it had read it before (auth.service.ts:122-123).             *)
ReturnedStatesAreGone ==
    [][\A c \in Calls :
          At(c, "idle") /\ ~At(c, "idle")' => call'[c].state \notin returned]_vars
=============================================================================
