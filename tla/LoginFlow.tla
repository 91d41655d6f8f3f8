------------------------------ MODULE LoginFlow ------------------------------
(***************************************************************************)
(* The flow store, the user store and every handler that writes a login    *)
(* flow: the login pages and the /api/v1/flows endpoints, the passkey      *)
(* ceremonies, the notification hub, the magic link, /authorize/complete   *)
(* and the redemption of authorization codes.                              *)
(*                                                                         *)
(* A store operation is atomic (it runs under the store's mutex, or is one *)
(* SQL statement); a handler is not.  It reads whole records, works on its *)
(* copies, and writes whole records back, so a request is modelled as a    *)
(* process whose program counter stands between two store operations and   *)
(* that carries the copies it read.  A rejected request changes nothing    *)
(* and is not a step.                                                      *)
(***************************************************************************)
EXTENDS FlowStateMachine, Naturals

CONSTANTS
    Flows,        \* identities of flows; time-stamped by the code, never reused
    Users,        \* identities of users
    Reqs,         \* HTTP requests in progress at the same time
    Tokens,       \* magic link tokens, 24 random bytes each
    Codes,        \* authorization codes, 16 random bytes each
    Methods,      \* the values User.MFAMethod takes
    NextFlows,    \* the values User.NextFlow takes
    AdminWrites,  \* method and scenario of the users the admin API writes
    MaxAttempts,  \* bound on the submissions of a code for one flow
    Ops,          \* the operations this instance exercises
    None          \* absent record, identity, token or code

RequestOps ==
    {"selectUser", "verify", "approve", "deny", "get", "loginMFA", "magic",
     "notify", "beginLogin", "beginRegister", "finishRegister", "assert",
     "authorizeComplete"}

EnvironmentOps == {"deleteUser", "cleanup", "crash", "redeem"}

Ages == {"unborn", "fresh", "aged", "expired"}

Approvals == {"none", "verify", "approve", "auto", "magic", "webauthn"}

SecretKinds == {"totp", "sms", "webauthn"}

FlowRecord ==
    [state           : States,
     scenario        : ScenarioNames,
     userID          : Users \cup {None},
     attempts        : 0..MaxAttempts,
     completedAt     : BOOLEAN,
     secrets         : SUBSET SecretKinds,
     magicLinkToken  : Tokens \cup {None},
     magicLinkUsed   : BOOLEAN,
     webAuthnSession : BOOLEAN,
     redirectURI     : BOOLEAN,
     authCode        : Codes \cup {None},
     \* History: the MFA method of the user when picked, and what approved the flow.
     method          : Methods \cup {None},
     approvedBy      : Approvals]

UserRecord ==
    [mfaMethod : Methods, nextFlow : NextFlows, webAuthnCredentials : BOOLEAN]

ASSUME NoneAssumption ==
    /\ None \notin Flows \cup Users \cup Tokens \cup Codes \cup Methods
    /\ None \notin FlowRecord
    /\ None \notin UserRecord
ASSUME BoundAssumption == MaxAttempts \in Nat
ASSUME OpsAssumption == Ops \subseteq RequestOps \cup EnvironmentOps
ASSUME AdminWritesAssumption == AdminWrites \subseteq Methods \X NextFlows
ASSUME NextFlowAssumption == "normal" \in NextFlows

VARIABLES
    flows,     \* the flow store
    age,       \* how much of its 10 seconds and its 30 minutes a flow has behind it
    users,     \* the user store
    req,       \* the requests in progress
    minted,    \* tokens and codes handed out by the random generator
    redeemed   \* history: codes ConsumeAuthCode has accepted

vars == <<flows, age, users, req, minted, redeemed>>

PCs == {"idle", "readUser", "saveUser1", "write", "loadUser", "saveUser2"}

Request ==
    [pc   : PCs,
     op   : RequestOps \cup {"none"},
     flow : Flows \cup {None},
     snap : FlowRecord \cup {None},    \* the copy of the flow, as it will be written
     user : Users \cup {None},
     usr  : UserRecord \cup {None}]    \* the copy of the user

Idle == [pc |-> "idle", op |-> "none", flow |-> None, snap |-> None,
         user |-> None, usr |-> None]

(* One type invariant for the module.                                      *)
TypeOK ==
    /\ flows \in [Flows -> FlowRecord \cup {None}]
    /\ age \in [Flows -> Ages]
    /\ users \in [Users -> UserRecord \cup {None}]
    /\ req \in [Reqs -> Request]
    /\ minted \subseteq Tokens \cup Codes
    /\ redeemed \subseteq Codes

Init ==
    /\ flows = [f \in Flows |-> None]
    /\ age = [f \in Flows |-> "unborn"]
    /\ users \in [Users -> [mfaMethod : Methods, nextFlow : NextFlows,
                            webAuthnCredentials : {FALSE}]]
    /\ req = [r \in Reqs |-> Idle]
    /\ minted = {}
    /\ redeemed = {}

-----------------------------------------------------------------------------
(* What the handlers do to their copies of the records.                    *)

(* Slip: a flow reaches a terminal state without its time stamp.           *)
MarkTerminalForgets(rec) == rec

MarkTerminal(rec) ==
    [rec EXCEPT !.completedAt = rec.completedAt \/ rec.state \in Terminal]

MoveTo(rec, state) == MarkTerminal([rec EXCEPT !.state = state])

Approved(rec, by) == [rec EXCEPT !.state = "mfa_approved", !.approvedBy = by]

(* What applySelectUser moves the flow to.                                 *)
StateAfterPick(scenario, method) ==
    CASE scenario = "account_locked"                         -> "error"
      [] scenario # "account_locked" /\ IsWebAuthn(method)   -> "webauthn_pending"
      [] scenario # "account_locked" /\ ~IsWebAuthn(method)
           /\ RequiresMFA(method)                            -> "mfa_pending"
      [] OTHER                                               -> "complete"

(* Slip: the scenario is copied from the user without normalisation.       *)
PickedRaw(rec, u, usr) ==
    MoveTo([rec EXCEPT !.userID = u, !.scenario = usr.nextFlow, !.method = usr.mfaMethod],
           StateAfterPick(usr.nextFlow, usr.mfaMethod))

(* applySelectUser: the record it stores for the user it found.            *)
Picked(rec, u, usr) ==
    LET scenario == NormalizeScenario(usr.nextFlow)
    IN  MoveTo([rec EXCEPT !.userID = u, !.scenario = scenario,
                           !.method = usr.mfaMethod],
               StateAfterPick(scenario, usr.mfaMethod))

(* Slip: the assertion approves the flow but leaves its session behind.    *)
AssertedKeepsSession(rec) == Approved(rec, "webauthn")

(* A verified assertion approves the flow and ends its ceremony.           *)
Asserted(rec) == [Approved(rec, "webauthn") EXCEPT !.webAuthnSession = FALSE]

(* The reset to "normal" that uses a scenario up.                          *)
ResetNextFlow(usr) == [usr EXCEPT !.nextFlow = "normal"]

(* The hub generates the secret of the user's present method when the flow *)
(* has none yet; push needs none, and a missing user has no method.        *)
Notified(rec, usr, t) ==
    IF usr.mfaMethod = "magic_link"
    THEN [rec EXCEPT !.magicLinkToken = t]
    ELSE [rec EXCEPT !.secrets = @ \cup {usr.mfaMethod}]

NeedsSecret(rec, usr) ==
    /\ usr # None
    /\ \/ usr.mfaMethod \in SecretKinds \ rec.secrets
       \/ usr.mfaMethod = "magic_link" /\ rec.magicLinkToken = None

(* Slip: a push approval does not wait for the delay.                      *)
SlowDelayIgnored(f, rec) == TRUE

SlowDelayOver(f, rec) == rec.scenario = "slow_mfa" => age[f] \in {"aged", "expired"}

AutoAdvances(f, rec) ==
    /\ rec.state = "mfa_pending"
    /\ rec.scenario = "slow_mfa"
    /\ age[f] \in {"aged", "expired"}

-----------------------------------------------------------------------------
(* Requests: the first store operation reads the flow.  A request that     *)
(* names an expected_state can only be rejected more often, on the copy it *)
(* has just read, so expected_state is left out.                           *)

Begin(r, op, f, snap, pc, u) ==
    /\ op \in Ops
    /\ req[r].pc = "idle"
    /\ req' = [req EXCEPT ![r] = [pc |-> pc, op |-> op, flow |-> f, snap |-> snap,
                                  user |-> u, usr |-> None]]
    /\ UNCHANGED <<flows, age, users, redeemed>>

(* Slip: a user can be selected at any time.                               *)
SelectUserAnyTime(r, f, u) ==
    /\ flows[f] # None
    /\ Begin(r, "selectUser", f, flows[f], "readUser", u)
    /\ UNCHANGED minted

SelectUser(r, f, u) ==
    /\ flows[f] # None
    /\ CanTransition(flows[f].state, "user_picked")
    /\ Begin(r, "selectUser", f, flows[f], "readUser", u)
    /\ UNCHANGED minted

(* Slip: the attempt is compared before it is counted.                     *)
VerifyMFAOffByOne(r, f, codeGiven) ==
    /\ flows[f] # None
    /\ flows[f].state = "mfa_pending"
    /\ flows[f].attempts < MaxAttempts
    /\ LET tried    == [flows[f] EXCEPT !.attempts = @ + 1]
           rejected == \/ tried.scenario = "mfa_fail" /\ tried.attempts = 0
                       \/ ~codeGiven
       IN  Begin(r, "verify", f, IF rejected THEN tried ELSE Approved(tried, "verify"),
                 "write", None)
    /\ UNCHANGED minted

(* The first attempt under mfa_fail and an empty code are rejected, after  *)
(* the attempt has been counted.                                           *)
VerifyMFA(r, f, codeGiven) ==
    /\ flows[f] # None
    /\ flows[f].state = "mfa_pending"
    /\ flows[f].attempts < MaxAttempts
    /\ LET tried    == [flows[f] EXCEPT !.attempts = @ + 1]
           rejected == \/ tried.scenario = "mfa_fail" /\ tried.attempts = 1
                       \/ ~codeGiven
       IN  Begin(r, "verify", f, IF rejected THEN tried ELSE Approved(tried, "verify"),
                 "write", None)
    /\ UNCHANGED minted

Approve(r, f) ==
    /\ flows[f] # None
    /\ flows[f].state = "mfa_pending"
    /\ SlowDelayOver(f, flows[f])
    /\ Begin(r, "approve", f, Approved(flows[f], "approve"), "write", None)
    /\ UNCHANGED minted

(* Slip: deny does not look at the state.                                  *)
DenyAnyState(r, f) ==
    /\ flows[f] # None
    /\ Begin(r, "deny", f, MoveTo(flows[f], "mfa_denied"), "write", None)
    /\ UNCHANGED minted

Deny(r, f) ==
    /\ flows[f] # None
    /\ flows[f].state = "mfa_pending"
    /\ Begin(r, "deny", f, MoveTo(flows[f], "mfa_denied"), "write", None)
    /\ UNCHANGED minted

(* GET of the flow, or of the login page: getAndAutoAdvanceFlow.           *)
GetFlow(r, f) ==
    /\ flows[f] # None
    /\ AutoAdvances(f, flows[f])
    /\ Begin(r, "get", f, Approved(flows[f], "auto"), "write", None)
    /\ UNCHANGED minted

(* Slip: the MFA page completes a flow that still awaits its approval.     *)
LoginMFAUnchecked(r, f) ==
    /\ flows[f] # None
    /\ flows[f].state \in {"mfa_pending", "mfa_approved"}
    /\ Begin(r, "loginMFA", f, MoveTo(flows[f], "complete"), "write", None)
    /\ UNCHANGED minted

(* GET /login/mfa advances as GetFlow does, then completes what is approved. *)
LoginMFA(r, f) ==
    /\ flows[f] # None
    /\ \/ /\ AutoAdvances(f, flows[f])
          /\ Begin(r, "loginMFA", f, Approved(flows[f], "auto"), "write", None)
       \/ /\ CanTransition(flows[f].state, "complete")
          /\ flows[f].state = "mfa_approved"
          /\ Begin(r, "loginMFA", f, MoveTo(flows[f], "complete"), "write", None)
    /\ UNCHANGED minted

LoginMagic(r, f, t) ==
    /\ flows[f] # None
    /\ flows[f].magicLinkToken = t
    /\ ~flows[f].magicLinkUsed
    /\ flows[f].state = "mfa_pending"
    /\ Begin(r, "magic", f,
             [Approved(flows[f], "magic") EXCEPT !.magicLinkUsed = TRUE], "write", None)
    /\ UNCHANGED minted

(* One flow of the hub's poll.  A poll over all flows is as many of these, *)
(* all begun when it lists the store.                                      *)
Notify(r, f) ==
    /\ flows[f] # None
    /\ flows[f].state \in Pending
    /\ Begin(r, "notify", f, flows[f], "readUser", flows[f].userID)
    /\ UNCHANGED minted

(* The four passkey handlers.  Only finish-register looks at nothing but   *)
(* the ceremony's session.                                                 *)
WebAuthnCeremony(r, f, op) ==
    /\ op \in {"beginLogin", "beginRegister", "finishRegister", "assert"}
    /\ flows[f] # None
    /\ op # "finishRegister" => flows[f].state = "webauthn_pending"
    /\ op \in {"finishRegister", "assert"} => flows[f].webAuthnSession
    /\ Begin(r, op, f, flows[f], "readUser", flows[f].userID)
    /\ UNCHANGED minted

(* Slip: a code is issued for a flow that has not completed.               *)
AuthorizeCompleteEarly(r, f, c) ==
    /\ flows[f] # None
    /\ flows[f].redirectURI
    /\ c \notin minted
    /\ minted' = minted \cup {c}
    /\ Begin(r, "authorizeComplete", f, [flows[f] EXCEPT !.authCode = c], "write", None)

AuthorizeComplete(r, f, c) ==
    /\ flows[f] # None
    /\ flows[f].state = "complete"
    /\ flows[f].redirectURI
    /\ c \notin minted
    /\ minted' = minted \cup {c}
    /\ Begin(r, "authorizeComplete", f, [flows[f] EXCEPT !.authCode = c], "write", None)

-----------------------------------------------------------------------------
(* Requests: the later store operations.                                   *)

Finish(r) == req' = [req EXCEPT ![r] = Idle]

Proceed(r, pc, snap, usr) ==
    req' = [req EXCEPT ![r] = [@ EXCEPT !.pc = pc, !.snap = snap, !.usr = usr]]

(* users.GetByID of applySelectUser.  Without a second factor the scenario *)
(* is used up before the flow is stored.                                   *)
PickUser(r) ==
    /\ req[r].pc = "readUser" /\ req[r].op = "selectUser"
    /\ LET usr  == users[req[r].user]
           snap == Picked(req[r].snap, req[r].user, usr)
       IN  /\ usr # None
           /\ IF snap.state = "complete" /\ snap.scenario # "normal"
              THEN Proceed(r, "saveUser1", snap, ResetNextFlow(usr))
              ELSE Proceed(r, "write", snap, None)
    /\ UNCHANGED <<flows, age, users, minted, redeemed>>

(* users.GetByID of the hub; a fresh magic link takes a fresh token.       *)
NotifyUser(r, t) ==
    /\ req[r].pc = "readUser" /\ req[r].op = "notify"
    /\ LET usr == users[req[r].user]
       IN  /\ NeedsSecret(req[r].snap, usr)
           /\ Proceed(r, "write", Notified(req[r].snap, usr, t), None)
           /\ \/ /\ usr.mfaMethod = "magic_link"
                 /\ t \in Tokens \ minted
                 /\ minted' = minted \cup {t}
              \/ /\ usr.mfaMethod # "magic_link"
                 /\ t = None
                 /\ UNCHANGED minted
    /\ UNCHANGED <<flows, age, users, redeemed>>

(* users.GetByID of a passkey handler, and the library's verdict.  A login *)
(* ceremony needs a registered passkey.                                    *)
CeremonyUser(r) ==
    /\ req[r].pc = "readUser"
    /\ LET usr  == users[req[r].user]
           snap == req[r].snap
       IN  /\ usr # None
           /\ req[r].op \in {"beginLogin", "assert"} => usr.webAuthnCredentials
           /\ \/ /\ req[r].op \in {"beginLogin", "beginRegister"}
                 /\ Proceed(r, "write", [snap EXCEPT !.webAuthnSession = TRUE], None)
              \/ /\ req[r].op = "finishRegister"
                 /\ Proceed(r, "saveUser1", [snap EXCEPT !.webAuthnSession = FALSE],
                            [usr EXCEPT !.webAuthnCredentials = TRUE])
              \/ /\ req[r].op = "assert"
                 /\ Proceed(r, "saveUser1", Asserted(snap), usr)
    /\ UNCHANGED <<flows, age, users, minted, redeemed>>

(* The user is gone, the hub has nothing to generate, or the library       *)
(* refuses the ceremony.                                                   *)
GiveUp(r) ==
    /\ req[r].pc = "readUser"
    /\ \/ users[req[r].user] = None
       \/ req[r].op = "notify" /\ ~NeedsSecret(req[r].snap, users[req[r].user])
       \/ req[r].op \in {"beginLogin", "beginRegister", "finishRegister", "assert"}
    /\ Finish(r)
    /\ UNCHANGED <<flows, age, users, minted, redeemed>>

(* users.Update: the whole user as copied; of a user who is gone, nothing. *)
StoreUser(r) ==
    users' = IF users[req[r].user] = None THEN users
             ELSE [users EXCEPT ![req[r].user] = req[r].usr]

(* users.Update before the flow is stored.  Only finish-register minds     *)
(* that the user is gone.                                                  *)
SaveUserFirst(r) ==
    /\ req[r].pc = "saveUser1"
    /\ StoreUser(r)
    /\ IF req[r].op = "finishRegister" /\ users[req[r].user] = None
       THEN Finish(r)
       ELSE Proceed(r, "write", req[r].snap, None)
    /\ UNCHANGED <<flows, age, minted, redeemed>>

(* Slip: the store's Update inserts a record that is not there.            *)
UpdateInserts(f) == TRUE

(* flows.Update: the whole flow as copied, or ErrNotFound.                 *)
UpdateFinds(f) == flows[f] # None

(* Slip: an approved push does not use the scenario up.                    *)
ApproveKeepsScenario(op, snap) ==
    \/ op = "magic"
    \/ op \in {"verify", "assert"} /\ snap.state = "mfa_approved"

UsesUpScenario(op, snap) ==
    \/ op = "magic"
    \/ /\ op \in {"verify", "approve", "assert"}
       /\ snap.state = "mfa_approved"
       /\ snap.scenario # "normal"

(* GET /login/mfa has advanced the flow and goes on to complete it.        *)
CompletesToo(op, snap) == op = "loginMFA" /\ snap.state = "mfa_approved"

AfterWrite(r, op, snap) ==
    \/ /\ CompletesToo(op, snap)
       /\ Proceed(r, "write", MoveTo(snap, "complete"), None)
    \/ /\ UsesUpScenario(op, snap)
       /\ req' = [req EXCEPT ![r] = [@ EXCEPT !.pc = "loadUser", !.snap = None,
                                             !.user = snap.userID]]
    \/ ~CompletesToo(op, snap) /\ ~UsesUpScenario(op, snap) /\ Finish(r)

Write(r) ==
    LET f    == req[r].flow
        snap == req[r].snap
    IN  /\ req[r].pc = "write"
        /\ \/ ~UpdateFinds(f) /\ Finish(r) /\ UNCHANGED flows
           \/ /\ UpdateFinds(f)
              /\ flows' = [flows EXCEPT ![f] = snap]
              /\ AfterWrite(r, req[r].op, snap)
        /\ UNCHANGED <<age, users, minted, redeemed>>

(* users.GetByID and users.Update that use the scenario up.                *)
LoadUser(r) ==
    /\ req[r].pc = "loadUser"
    /\ IF users[req[r].user] = None
       THEN Finish(r)
       ELSE Proceed(r, "saveUser2", None, ResetNextFlow(users[req[r].user]))
    /\ UNCHANGED <<flows, age, users, minted, redeemed>>

SaveUserLast(r) ==
    /\ req[r].pc = "saveUser2"
    /\ StoreUser(r)
    /\ Finish(r)
    /\ UNCHANGED <<flows, age, minted, redeemed>>

-----------------------------------------------------------------------------
(* The rest of the system: creation, time, administration, the cleanup     *)
(* tick, the redemption of a code, and the end of the process.             *)

(* POST /api/v1/flows, GET /login without a flow, and /authorize, which    *)
(* alone records a redirect_uri.                                           *)
NewFlow(redirect) ==
    [state |-> "initiated", scenario |-> "normal", userID |-> None, attempts |-> 0,
     completedAt |-> FALSE, secrets |-> {}, magicLinkToken |-> None,
     magicLinkUsed |-> FALSE, webAuthnSession |-> FALSE, redirectURI |-> redirect,
     authCode |-> None, method |-> None, approvedBy |-> "none"]

CreateFlow(f, redirect) ==
    /\ age[f] = "unborn"
    /\ redirect => "authorizeComplete" \in Ops
    /\ flows' = [flows EXCEPT ![f] = NewFlow(redirect)]
    /\ age' = [age EXCEPT ![f] = "fresh"]
    /\ UNCHANGED <<users, req, minted, redeemed>>

TimePasses(f) ==
    /\ age[f] \in {"fresh", "aged"}
    /\ age' = [age EXCEPT ![f] = IF @ = "fresh" THEN "aged" ELSE "expired"]
    /\ UNCHANGED <<flows, users, req, minted, redeemed>>

(* The admin API.  A passkey is not part of the JSON body, so a user who   *)
(* is created or overwritten has none.                                     *)
PutUser(u, method, nextFlow) ==
    /\ <<method, nextFlow>> \in AdminWrites
    /\ users' = [users EXCEPT ![u] = [mfaMethod |-> method, nextFlow |-> nextFlow,
                                      webAuthnCredentials |-> FALSE]]
    /\ UNCHANGED <<flows, age, req, minted, redeemed>>

DeleteUser(u) ==
    /\ "deleteUser" \in Ops
    /\ users[u] # None
    /\ users' = [users EXCEPT ![u] = None]
    /\ UNCHANGED <<flows, age, req, minted, redeemed>>

DeleteExpired ==
    /\ "cleanup" \in Ops
    /\ \E f \in Flows : flows[f] # None /\ age[f] = "expired"
    /\ flows' = [f \in Flows |-> IF age[f] = "expired" THEN None ELSE flows[f]]
    /\ UNCHANGED <<age, users, req, minted, redeemed>>

(* Slip: the code is looked up but stays on the flow.                      *)
LookUpAuthCode(f, c) ==
    /\ "redeem" \in Ops
    /\ flows[f] # None
    /\ flows[f].authCode = c
    /\ redeemed' = redeemed \cup {c}
    /\ UNCHANGED <<flows, age, users, req, minted>>

(* ConsumeAuthCode, the first thing the token endpoint does.               *)
ConsumeAuthCode(f, c) ==
    /\ "redeem" \in Ops
    /\ flows[f] # None
    /\ flows[f].authCode = c
    /\ flows' = [flows EXCEPT ![f].authCode = None]
    /\ redeemed' = redeemed \cup {c}
    /\ UNCHANGED <<age, users, req, minted>>

(* The process ends and is started again on the same SQLite file.          *)
Crash ==
    /\ "crash" \in Ops
    /\ \E r \in Reqs : req[r] # Idle
    /\ req' = [r \in Reqs |-> Idle]
    /\ UNCHANGED <<flows, age, users, minted, redeemed>>

BeginRequest(r) ==
    \E f \in Flows :
        \/ \E u \in Users : SelectUser(r, f, u)
        \/ \E codeGiven \in BOOLEAN : VerifyMFA(r, f, codeGiven)
        \/ Approve(r, f)
        \/ Deny(r, f)
        \/ GetFlow(r, f)
        \/ LoginMFA(r, f)
        \/ \E t \in Tokens : LoginMagic(r, f, t)
        \/ Notify(r, f)
        \/ \E op \in RequestOps : WebAuthnCeremony(r, f, op)
        \/ \E c \in Codes : AuthorizeComplete(r, f, c)

ContinueRequest(r) ==
    \/ PickUser(r)
    \/ \E t \in Tokens \cup {None} : NotifyUser(r, t)
    \/ CeremonyUser(r)
    \/ GiveUp(r)
    \/ SaveUserFirst(r)
    \/ Write(r)
    \/ LoadUser(r)
    \/ SaveUserLast(r)

Environment ==
    \/ \E f \in Flows : TimePasses(f) \/ \E redirect \in BOOLEAN : CreateFlow(f, redirect)
    \/ \E u \in Users : \E method \in Methods, nextFlow \in NextFlows :
            PutUser(u, method, nextFlow)
    \/ \E u \in Users : DeleteUser(u)
    \/ DeleteExpired
    \/ \E f \in Flows, c \in Codes : ConsumeAuthCode(f, c)
    \/ Crash

Next ==
    \/ \E r \in Reqs : BeginRequest(r) \/ ContinueRequest(r)
    \/ Environment

Spec == Init /\ [][Next]_vars

(* The cleanup ticker keeps ticking.                                       *)
FairSpec == Spec /\ WF_vars(DeleteExpired)

-----------------------------------------------------------------------------
(* Properties of the store, whatever requests overlap.                     *)

LoggedIn == {"mfa_approved", "complete"}

(* The session of a passkey ceremony exists only while the flow waits for  *)
(* a passkey.  finish-register checks the session and not the state, so it *)
(* relies on this to never touch a flow that has moved on.                 *)
SessionWhilePending(rec) == rec.webAuthnSession => rec.state = "webauthn_pending"
CeremonySession == \A f \in Flows : flows[f] # None => SessionWhilePending(flows[f])

(* CompletedAt is set exactly in the terminal states, also when a stale    *)
(* copy is written over a newer record.                                    *)
StampedWhenFinal(rec) == rec.completedAt <=> rec.state \in Terminal
CompletionStamp == \A f \in Flows : flows[f] # None => StampedWhenFinal(flows[f])

(* No interleaving of handlers logs a user in without the second factor of *)
(* the method found when the user was picked; a passkey user is let in by  *)
(* an assertion only, and nobody else is.                                  *)
FactorPresented(rec) ==
    rec.state \in LoggedIn =>
        /\ RequiresMFA(rec.method) => rec.approvedBy # "none"
        /\ IsWebAuthn(rec.method) <=> rec.approvedBy = "webauthn"
SecondFactor == \A f \in Flows : flows[f] # None => FactorPresented(flows[f])

(* mfa_fail: a code lets the user in at the second attempt at the          *)
(* earliest, although concurrent submissions can count an attempt once.    *)
RetriedAfterFailure(rec) ==
    rec.approvedBy = "verify" /\ rec.scenario = "mfa_fail" => rec.attempts >= 2
FirstCodeFails == \A f \in Flows : flows[f] # None => RetriedAfterFailure(flows[f])

(* slow_mfa: neither a push approval nor the automatic one comes before    *)
(* the 10 seconds are over.                                                *)
SlowApproval ==
    \A f \in Flows :
        flows[f] # None /\ flows[f].scenario = "slow_mfa"
            /\ flows[f].approvedBy \in {"approve", "auto"} => age[f] # "fresh"

(* The simulated trouble of a scenario is met by whatever login survives   *)
(* it: a code that failed first, a push that took its time.                *)
ScenarioHonoured == FirstCodeFails /\ SlowApproval

(* An authorization code stands on a flow only when the login it vouches   *)
(* for is complete, second factor included.                                *)
Vouched(rec) ==
    rec.authCode # None => rec.state = "complete" /\ FactorPresented(rec)
CodeVouches == \A f \in Flows : flows[f] # None => Vouched(flows[f])

(* A code the token endpoint has accepted never comes back: no handler     *)
(* holds a copy of the flow that could restore it.                         *)
CodeOnce ==
    \A f \in Flows : flows[f] # None => flows[f].authCode \notin redeemed

(* A flow the cleanup has removed is not written back by a request that    *)
(* read it before.                                                         *)
NoResurrection ==
    [][\A f \in Flows : age[f] # "unborn" /\ flows[f] = None => flows'[f] = None]_vars

(* With the cleanup ticking, an expired flow is gone for good.             *)
ExpiredGone ==
    \A f \in Flows : age[f] = "expired" ~> [](flows[f] = None)

-----------------------------------------------------------------------------
(* Properties that need one request at a time.                             *)

status == [f \in Flows |-> CASE flows[f] # None -> flows[f].state
                              [] flows[f] = None /\ age[f] = "unborn" -> "absent"
                              [] OTHER -> "removed"]

Lifecycle == INSTANCE FlowLifecycle WITH Flows <- Flows, status <- status

(* Every change of a flow follows validTransitions, and a flow that has    *)
(* ended stays as it is until it is removed.                               *)
FollowsLifecycle == Lifecycle!LifecycleSpec

(* Who logs in, with what method and under what scenario is settled when   *)
(* the user is picked.                                                     *)
PickIsFinal ==
    [][\A f \in Flows :
          flows[f] # None /\ flows[f].userID # None /\ flows'[f] # None =>
              /\ flows'[f].userID = flows[f].userID
              /\ flows'[f].method = flows[f].method
              /\ flows'[f].scenario = flows[f].scenario]_vars

(* A login under a special scenario uses the scenario up, unless it was    *)
(* approved by the passing of time, and whatever the administrator writes  *)
(* or deletes meanwhile, so long as it is not the next scenario.           *)
ScenarioUsedUp ==
    (\A r \in Reqs : req[r] = Idle) =>
        \A f \in Flows :
            flows[f] # None /\ flows[f].state \in LoggedIn
                /\ flows[f].scenario # "normal" /\ flows[f].approvedBy # "auto"
                /\ users[flows[f].userID] # None
                => users[flows[f].userID].nextFlow = "normal"
=============================================================================
