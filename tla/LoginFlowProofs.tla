--------------------------- MODULE LoginFlowProofs ---------------------------
(***************************************************************************)
(* Proofs about LoginFlow, for any sets of flows, users, requests, tokens  *)
(* and codes.  The argument: every record a handler builds is consistent   *)
(* in itself (Consistent), handlers write whole records, so whatever       *)
(* overlaps, the store only ever holds consistent records.  How one record *)
(* follows another is settled only where requests do not overlap: on one   *)
(* flow, for the life it leads and the login it stands for, and at all,    *)
(* for the scenario that login uses up.                                    *)
(***************************************************************************)
EXTENDS LoginFlow, TLAPS

-----------------------------------------------------------------------------
(* The strengthening.                                                      *)

(* What the states of a record say about its other fields.                 *)
UserPicked(rec) == rec.state # "initiated" => rec.userID # None
AwaitsMethod(rec) ==
    /\ rec.state = "mfa_pending" =>
          RequiresMFA(rec.method) /\ ~IsWebAuthn(rec.method)
    /\ rec.state = "webauthn_pending" => IsWebAuthn(rec.method)
    /\ rec.state \in Pending \cup {"initiated"} => rec.approvedBy = "none"

Consistent(rec) ==
    /\ UserPicked(rec)
    /\ AwaitsMethod(rec)
    /\ SessionWhilePending(rec)
    /\ StampedWhenFinal(rec)
    /\ FactorPresented(rec)
    /\ RetriedAfterFailure(rec)
    /\ Vouched(rec)

(* What a request in progress carries from one store operation to the next. *)
ReadsUser == {"selectUser", "notify", "beginLogin", "beginRegister",
              "finishRegister", "assert"}

CarriesFlow(q) ==
    q.pc \in {"readUser", "saveUser1", "write"} =>
        q.flow \in Flows /\ q.snap \in FlowRecord /\ Consistent(q.snap)
CarriesUser(q) ==
    /\ q.pc \in {"readUser", "saveUser1", "loadUser", "saveUser2"} => q.user \in Users
    /\ q.pc \in {"saveUser1", "saveUser2"} => q.usr \in UserRecord
ReadState(q) ==
    q.pc = "readUser" =>
        /\ q.op \in ReadsUser
        /\ q.op = "selectUser" => q.snap.state = "initiated"
        /\ q.op = "notify" => q.snap.state \in Pending
        /\ q.op \in {"beginLogin", "beginRegister", "finishRegister", "assert"} =>
              q.snap.state = "webauthn_pending"
WriteState(q) ==
    q.pc \in {"saveUser1", "write"} /\ q.op = "magic" => q.snap.state = "mfa_approved"

Carries(q) == CarriesFlow(q) /\ CarriesUser(q) /\ ReadState(q) /\ WriteState(q)

StoreConsistent == \A f \in Flows : flows[f] # None => Consistent(flows[f])
RequestsCarry   == \A r \in Reqs : Carries(req[r])

IInv == TypeOK /\ StoreConsistent /\ RequestsCarry

-----------------------------------------------------------------------------
(* Records: what the handlers make of a record they copied.                *)

LEMMA MoveToTyped ==
    ASSUME NEW rec \in FlowRecord, NEW s \in States
    PROVE  /\ MoveTo(rec, s) \in FlowRecord
           /\ MoveTo(rec, s) = [rec EXCEPT !.state = s,
                                  !.completedAt = rec.completedAt \/ s \in Terminal]
  BY DEF MoveTo, MarkTerminal, FlowRecord

LEMMA PickedConsistent ==
    ASSUME NEW rec \in FlowRecord, Consistent(rec), rec.state = "initiated",
           NEW u \in Users, NEW usr \in UserRecord
    PROVE  Picked(rec, u, usr) \in FlowRecord /\ Consistent(Picked(rec, u, usr))
  <1> DEFINE sc   == NormalizeScenario(usr.nextFlow)
             st   == StateAfterPick(sc, usr.mfaMethod)
             base == [rec EXCEPT !.userID = u, !.scenario = sc,
                                 !.method = usr.mfaMethod]
  <1>1. sc \in ScenarioNames
    BY DEF NormalizeScenario, ScenarioNames
  <1>2. st \in {"error", "webauthn_pending", "mfa_pending", "complete"}
    BY DEF StateAfterPick
  <1>3. /\ st = "webauthn_pending" => IsWebAuthn(usr.mfaMethod)
        /\ st = "mfa_pending" => RequiresMFA(usr.mfaMethod) /\ ~IsWebAuthn(usr.mfaMethod)
        /\ st = "complete" => ~RequiresMFA(usr.mfaMethod)
    BY DEF StateAfterPick, IsWebAuthn, RequiresMFA
  <1>4. base \in FlowRecord /\ st \in States
    BY <1>1, <1>2 DEF FlowRecord, UserRecord, States
  <1>5. Picked(rec, u, usr) = MoveTo(base, st)
    BY DEF Picked
  <1> HIDE DEF sc, st
  <1>6. MoveTo(base, st) \in FlowRecord
    BY <1>4, MoveToTyped
  <1>7. Consistent(MoveTo(base, st))
    <2>1. MoveTo(base, st) = [base EXCEPT !.state = st,
                                !.completedAt = base.completedAt \/ st \in Terminal]
      BY <1>4, MoveToTyped
    <2>2. u # None
      BY NoneAssumption
    <2>3. /\ rec.completedAt = FALSE /\ rec.approvedBy = "none"
          /\ rec.authCode = None /\ rec.webAuthnSession = FALSE
      BY DEF Consistent, StampedWhenFinal, AwaitsMethod, Vouched, SessionWhilePending,
             Terminal, Pending, FlowRecord
    <2> DEFINE new == MoveTo(base, st)
    <2>4. /\ new.state = st /\ new.userID = u /\ new.method = usr.mfaMethod
          /\ new.completedAt = (st \in Terminal)
          /\ new.approvedBy = "none" /\ new.authCode = None
          /\ new.webAuthnSession = FALSE
      <3>1. /\ base.userID = u /\ base.method = usr.mfaMethod
            /\ base.completedAt = FALSE /\ base.approvedBy = "none"
            /\ base.authCode = None /\ base.webAuthnSession = FALSE
        BY <2>3 DEF FlowRecord
      <3> HIDE DEF base
      <3>2. /\ new.state = st /\ new.userID = base.userID
            /\ new.method = base.method /\ new.approvedBy = base.approvedBy
            /\ new.authCode = base.authCode
            /\ new.webAuthnSession = base.webAuthnSession
        BY <1>4, <2>1 DEF FlowRecord
      <3>3. new.completedAt = (base.completedAt \/ st \in Terminal)
        BY <1>4, <2>1 DEF FlowRecord
      <3> QED
        BY <3>1, <3>2, <3>3
    <2> HIDE DEF new
    <2>5. UserPicked(new) /\ AwaitsMethod(new) /\ SessionWhilePending(new)
      BY <1>2, <1>3, <2>2, <2>4 DEF UserPicked, AwaitsMethod, SessionWhilePending, Pending
    <2>6. StampedWhenFinal(new) /\ RetriedAfterFailure(new) /\ Vouched(new)
      BY <2>4 DEF StampedWhenFinal, RetriedAfterFailure, Vouched
    <2>7. FactorPresented(new)
      BY <1>2, <1>3, <2>4 DEF FactorPresented, LoggedIn, RequiresMFA, IsWebAuthn
    <2> QED
      BY <2>5, <2>6, <2>7 DEF Consistent, new
  <1> QED
    BY <1>5, <1>6, <1>7

LEMMA ApprovedConsistent ==
    ASSUME NEW rec \in FlowRecord, Consistent(rec), rec.state = "mfa_pending",
           NEW by \in {"verify", "approve", "auto", "magic"},
           by = "verify" /\ rec.scenario = "mfa_fail" => rec.attempts >= 2
    PROVE  /\ Approved(rec, by) \in FlowRecord
           /\ Consistent(Approved(rec, by))
           /\ Approved(rec, by).state = "mfa_approved"
  <1>1. Approved(rec, by) \in FlowRecord
    BY DEF Approved, FlowRecord, States, Approvals
  <1>2. rec.completedAt = FALSE /\ rec.authCode = None /\ rec.webAuthnSession = FALSE
    BY DEF Consistent, StampedWhenFinal, Vouched, SessionWhilePending, Terminal, FlowRecord
  <1> QED
    BY <1>1, <1>2 DEF Approved, Consistent, UserPicked, AwaitsMethod,
       SessionWhilePending, StampedWhenFinal, FactorPresented, RetriedAfterFailure,
       Vouched, FlowRecord, Terminal, Pending, LoggedIn

LEMMA UsedLinkConsistent ==
    ASSUME NEW rec \in FlowRecord, Consistent(rec)
    PROVE  LET used == [rec EXCEPT !.magicLinkUsed = TRUE]
           IN  used \in FlowRecord /\ Consistent(used) /\ used.state = rec.state
  <1> DEFINE used == [rec EXCEPT !.magicLinkUsed = TRUE]
  <1>1. used \in FlowRecord /\ used.state = rec.state
    BY DEF FlowRecord
  <1>2. /\ used.userID = rec.userID /\ used.method = rec.method
        /\ used.approvedBy = rec.approvedBy /\ used.scenario = rec.scenario
        /\ used.webAuthnSession = rec.webAuthnSession
        /\ used.completedAt = rec.completedAt
        /\ used.attempts = rec.attempts /\ used.authCode = rec.authCode
    BY DEF FlowRecord
  <1> QED
    BY <1>1, <1>2 DEF Consistent, UserPicked, AwaitsMethod, SessionWhilePending,
       StampedWhenFinal, FactorPresented, RetriedAfterFailure, Vouched

LEMMA AssertedConsistent ==
    ASSUME NEW rec \in FlowRecord, Consistent(rec), rec.state = "webauthn_pending"
    PROVE  Asserted(rec) \in FlowRecord /\ Consistent(Asserted(rec))
  <1>1. Asserted(rec) \in FlowRecord
    BY DEF Asserted, Approved, FlowRecord, States, Approvals
  <1>2. rec.completedAt = FALSE /\ rec.authCode = None
    BY DEF Consistent, StampedWhenFinal, Vouched, Terminal, FlowRecord
  <1> QED
    BY <1>1, <1>2 DEF Asserted, Approved, Consistent, UserPicked, AwaitsMethod,
       SessionWhilePending, StampedWhenFinal, FactorPresented, RetriedAfterFailure,
       Vouched, FlowRecord, Terminal, Pending, LoggedIn

LEMMA DeniedConsistent ==
    ASSUME NEW rec \in FlowRecord, Consistent(rec), rec.state = "mfa_pending"
    PROVE  MoveTo(rec, "mfa_denied") \in FlowRecord /\ Consistent(MoveTo(rec, "mfa_denied"))
  <1>1. /\ MoveTo(rec, "mfa_denied") \in FlowRecord
        /\ MoveTo(rec, "mfa_denied") =
             [rec EXCEPT !.state = "mfa_denied",
                !.completedAt = rec.completedAt \/ "mfa_denied" \in Terminal]
    BY MoveToTyped DEF States
  <1>2. rec.authCode = None /\ rec.webAuthnSession = FALSE /\ rec.approvedBy = "none"
    BY DEF Consistent, Vouched, SessionWhilePending, AwaitsMethod, Pending, FlowRecord
  <1> QED
    BY <1>1, <1>2 DEF Consistent, UserPicked, AwaitsMethod, SessionWhilePending,
       StampedWhenFinal, FactorPresented, RetriedAfterFailure, Vouched, FlowRecord,
       Terminal, Pending, LoggedIn

LEMMA CompletedConsistent ==
    ASSUME NEW rec \in FlowRecord, Consistent(rec), rec.state = "mfa_approved"
    PROVE  MoveTo(rec, "complete") \in FlowRecord /\ Consistent(MoveTo(rec, "complete"))
  <1>1. /\ MoveTo(rec, "complete") \in FlowRecord
        /\ MoveTo(rec, "complete") =
             [rec EXCEPT !.state = "complete",
                !.completedAt = rec.completedAt \/ "complete" \in Terminal]
    BY MoveToTyped DEF States
  <1>2. rec.authCode = None /\ rec.webAuthnSession = FALSE
    BY DEF Consistent, Vouched, SessionWhilePending, FlowRecord
  <1> DEFINE new == MoveTo(rec, "complete")
  <1>3. /\ new.state = "complete" /\ new.completedAt = TRUE
        /\ new.userID = rec.userID /\ new.method = rec.method
        /\ new.approvedBy = rec.approvedBy /\ new.scenario = rec.scenario
        /\ new.attempts = rec.attempts
        /\ new.authCode = None /\ new.webAuthnSession = FALSE
    BY <1>1, <1>2 DEF FlowRecord, Terminal
  <1> HIDE DEF new
  <1>4. UserPicked(new) /\ AwaitsMethod(new) /\ SessionWhilePending(new)
    BY <1>3 DEF Consistent, UserPicked, AwaitsMethod, SessionWhilePending, Pending
  <1>5. StampedWhenFinal(new) /\ RetriedAfterFailure(new) /\ Vouched(new)
    BY <1>3 DEF Consistent, StampedWhenFinal, RetriedAfterFailure, Vouched, Terminal
  <1>6. FactorPresented(new)
    BY <1>3 DEF Consistent, FactorPresented, LoggedIn
  <1> QED
    BY <1>1, <1>4, <1>5, <1>6 DEF Consistent, new

LEMMA CountedConsistent ==
    ASSUME NEW rec \in FlowRecord, Consistent(rec), rec.state = "mfa_pending",
           rec.attempts < MaxAttempts
    PROVE  LET tried == [rec EXCEPT !.attempts = @ + 1]
           IN  tried \in FlowRecord /\ Consistent(tried)
  BY BoundAssumption DEF Consistent, UserPicked, AwaitsMethod, SessionWhilePending,
     StampedWhenFinal, FactorPresented, RetriedAfterFailure, Vouched, FlowRecord,
     Pending, LoggedIn

LEMMA NotifiedConsistent ==
    ASSUME NEW rec \in FlowRecord, Consistent(rec), NEW usr \in UserRecord,
           NEW t \in Tokens \cup {None}, NeedsSecret(rec, usr)
    PROVE  Notified(rec, usr, t) \in FlowRecord /\ Consistent(Notified(rec, usr, t))
  <1>1. Notified(rec, usr, t) \in FlowRecord
    BY DEF Notified, NeedsSecret, FlowRecord
  <1> QED
    BY <1>1 DEF Notified, Consistent, UserPicked, AwaitsMethod, SessionWhilePending,
       StampedWhenFinal, FactorPresented, RetriedAfterFailure, Vouched, FlowRecord

LEMMA SessionSetConsistent ==
    ASSUME NEW rec \in FlowRecord, Consistent(rec), rec.state = "webauthn_pending",
           NEW b \in BOOLEAN
    PROVE  LET set == [rec EXCEPT !.webAuthnSession = b]
           IN  set \in FlowRecord /\ Consistent(set)
  BY DEF Consistent, UserPicked, AwaitsMethod, SessionWhilePending, StampedWhenFinal,
     FactorPresented, RetriedAfterFailure, Vouched, FlowRecord

LEMMA CodeSetConsistent ==
    ASSUME NEW rec \in FlowRecord, Consistent(rec), rec.state = "complete",
           NEW c \in Codes \cup {None}
    PROVE  LET coded == [rec EXCEPT !.authCode = c]
           IN  coded \in FlowRecord /\ Consistent(coded)
  BY DEF Consistent, UserPicked, AwaitsMethod, SessionWhilePending, StampedWhenFinal,
     FactorPresented, RetriedAfterFailure, Vouched, FlowRecord

LEMMA NewConsistent ==
    ASSUME NEW b \in BOOLEAN
    PROVE  NewFlow(b) \in FlowRecord /\ Consistent(NewFlow(b))
  BY BoundAssumption DEF NewFlow, Consistent, UserPicked, AwaitsMethod,
     SessionWhilePending, StampedWhenFinal, FactorPresented, RetriedAfterFailure,
     Vouched, FlowRecord, States, ScenarioNames, Approvals, Terminal, Pending, LoggedIn

-----------------------------------------------------------------------------
(* Steps of one request.                                                   *)

LEMMA IdleCarries == Idle \in Request /\ Carries(Idle)
  BY DEF Idle, Request, PCs, Carries, CarriesFlow, CarriesUser, ReadState, WriteState

(* Replacing what one request carries.                                     *)
LEMMA RequestReplaced ==
    ASSUME req \in [Reqs -> Request], RequestsCarry, NEW r \in Reqs,
           NEW q \in Request, Carries(q), req' = [req EXCEPT ![r] = q]
    PROVE  req' \in [Reqs -> Request] /\ RequestsCarry'
  <1>1. req' \in [Reqs -> Request]
    OBVIOUS
  <1>2. ASSUME NEW s \in Reqs PROVE Carries(req'[s])
    <2>1. CASE s = r
      BY <2>1
    <2>2. CASE s # r
      BY <2>2 DEF RequestsCarry
    <2> QED
      BY <2>1, <2>2
  <1> QED
    BY <1>1, <1>2 DEF RequestsCarry

LEMMA FinishKeeps ==
    ASSUME req \in [Reqs -> Request], RequestsCarry, NEW r \in Reqs, Finish(r)
    PROVE  req' \in [Reqs -> Request] /\ RequestsCarry'
  BY IdleCarries, RequestReplaced DEF Finish

(* The start of a request, from the record it puts aside.                  *)
LEMMA BeginKeeps ==
    ASSUME IInv, NEW r \in Reqs, NEW op \in RequestOps, NEW f \in Flows,
           NEW snap \in FlowRecord, Consistent(snap),
           NEW pc \in {"readUser", "write"}, NEW u \in Users \cup {None},
           Begin(r, op, f, snap, pc, u), minted' \subseteq Tokens \cup Codes,
           pc = "readUser" =>
             /\ u \in Users
             /\ op \in ReadsUser
             /\ op = "selectUser" => snap.state = "initiated"
             /\ op = "notify" => snap.state \in Pending
             /\ op \in {"beginLogin", "beginRegister", "finishRegister", "assert"} =>
                   snap.state = "webauthn_pending",
           pc = "write" /\ op = "magic" => snap.state = "mfa_approved"
    PROVE  IInv'
  <1> DEFINE q == [pc |-> pc, op |-> op, flow |-> f, snap |-> snap, user |-> u, usr |-> None]
  <1>1. q \in Request
    BY DEF Request, PCs
  <1>2. Carries(q)
    BY DEF Carries, CarriesFlow, CarriesUser, ReadState, WriteState
  <1>3. req' = [req EXCEPT ![r] = q] /\ UNCHANGED <<flows, age, users, redeemed>>
    BY DEF Begin
  <1>4. req' \in [Reqs -> Request] /\ RequestsCarry'
    <2> HIDE DEF q
    <2> QED BY <1>1, <1>2, <1>3, RequestReplaced DEF IInv, TypeOK
  <1> QED
    BY <1>3, <1>4 DEF IInv, TypeOK, StoreConsistent

(* The record a request reads.                                             *)
LEMMA StoredRecord ==
    ASSUME IInv, NEW f \in Flows, flows[f] # None
    PROVE  /\ flows[f] \in FlowRecord
           /\ Consistent(flows[f])
           /\ flows[f].state # "initiated" => flows[f].userID \in Users
  BY DEF IInv, TypeOK, StoreConsistent, Consistent, UserPicked, FlowRecord

LEMMA BeginRequestKeeps ==
    ASSUME IInv, NEW r \in Reqs, BeginRequest(r)
    PROVE  IInv'
  <1>0. minted \subseteq Tokens \cup Codes
    BY DEF IInv, TypeOK
  <1>1. PICK f \in Flows :
          \/ \E u \in Users : SelectUser(r, f, u)
          \/ \E codeGiven \in BOOLEAN : VerifyMFA(r, f, codeGiven)
          \/ Approve(r, f)
          \/ Deny(r, f)
          \/ GetFlow(r, f)
          \/ LoginMFA(r, f)
          \/ \E t \in Tokens : LoginMagic(r, f, t)
          \/ Notify(r, f)
          \/ \E op \in RequestOps : WebAuthnCeremony(r, f, op)
          \/ \E c \in Codes : AuthorizeComplete(r, f, c)
    BY DEF BeginRequest
  <1>2. flows[f] # None
    BY <1>1 DEF SelectUser, VerifyMFA, Approve, Deny, GetFlow, LoginMFA, LoginMagic,
       Notify, WebAuthnCeremony, AuthorizeComplete
  <1>3. /\ flows[f] \in FlowRecord /\ Consistent(flows[f])
        /\ flows[f].state # "initiated" => flows[f].userID \in Users
    BY <1>2, StoredRecord
  <1>a. ASSUME NEW u \in Users, SelectUser(r, f, u) PROVE IInv'
    <2>1. flows[f].state = "initiated"
      BY <1>3, <1>a DEF SelectUser, CanTransition, validTransitions, States, Pending, FlowRecord
    <2>2. Begin(r, "selectUser", f, flows[f], "readUser", u) /\ minted' = minted
      BY <1>a DEF SelectUser
    <2> QED
      BY <1>0, <1>3, <2>1, <2>2, BeginKeeps DEF RequestOps, ReadsUser
  <1>b. ASSUME NEW codeGiven \in BOOLEAN, VerifyMFA(r, f, codeGiven) PROVE IInv'
    <2> DEFINE tried    == [flows[f] EXCEPT !.attempts = @ + 1]
               rejected == \/ tried.scenario = "mfa_fail" /\ tried.attempts = 1
                           \/ ~codeGiven
               snap     == IF rejected THEN tried ELSE Approved(tried, "verify")
    <2>1. /\ flows[f].state = "mfa_pending" /\ flows[f].attempts < MaxAttempts
          /\ Begin(r, "verify", f, snap, "write", None) /\ minted' = minted
      BY <1>b DEF VerifyMFA
    <2>2. tried \in FlowRecord /\ Consistent(tried)
      BY <1>3, <2>1, CountedConsistent
    <2>3. tried.state = "mfa_pending"
      BY <1>3, <2>1 DEF FlowRecord
    <2>4. ~rejected /\ tried.scenario = "mfa_fail" => tried.attempts >= 2
      BY <1>3, BoundAssumption DEF FlowRecord
    <2>5. snap \in FlowRecord /\ Consistent(snap)
      <3> HIDE DEF tried
      <3> QED BY <2>2, <2>3, <2>4, ApprovedConsistent
    <2> HIDE DEF snap
    <2> QED
      BY <1>0, <2>1, <2>5, BeginKeeps DEF RequestOps
  <1>c. ASSUME Approve(r, f) PROVE IInv'
    <2>1. /\ flows[f].state = "mfa_pending"
          /\ Begin(r, "approve", f, Approved(flows[f], "approve"), "write", None)
          /\ minted' = minted
      BY <1>c DEF Approve
    <2> QED
      BY <1>0, <1>3, <2>1, ApprovedConsistent, BeginKeeps DEF RequestOps
  <1>d. ASSUME Deny(r, f) PROVE IInv'
    <2>1. /\ flows[f].state = "mfa_pending"
          /\ Begin(r, "deny", f, MoveTo(flows[f], "mfa_denied"), "write", None)
          /\ minted' = minted
      BY <1>d DEF Deny
    <2> QED
      BY <1>0, <1>3, <2>1, DeniedConsistent, BeginKeeps DEF RequestOps
  <1>e. ASSUME GetFlow(r, f) PROVE IInv'
    <2>1. /\ flows[f].state = "mfa_pending"
          /\ Begin(r, "get", f, Approved(flows[f], "auto"), "write", None)
          /\ minted' = minted
      BY <1>e DEF GetFlow, AutoAdvances
    <2> QED
      BY <1>0, <1>3, <2>1, ApprovedConsistent, BeginKeeps DEF RequestOps
  <1>f. ASSUME LoginMFA(r, f) PROVE IInv'
    <2>1. minted' = minted
      BY <1>f DEF LoginMFA
    <2>2. CASE /\ flows[f].state = "mfa_pending"
               /\ Begin(r, "loginMFA", f, Approved(flows[f], "auto"), "write", None)
      BY <1>0, <1>3, <2>1, <2>2, ApprovedConsistent, BeginKeeps DEF RequestOps
    <2>3. CASE /\ flows[f].state = "mfa_approved"
               /\ Begin(r, "loginMFA", f, MoveTo(flows[f], "complete"), "write", None)
      BY <1>0, <1>3, <2>1, <2>3, CompletedConsistent, BeginKeeps DEF RequestOps
    <2> QED
      BY <1>f, <2>2, <2>3 DEF LoginMFA, AutoAdvances
  <1>g. ASSUME NEW t \in Tokens, LoginMagic(r, f, t) PROVE IInv'
    <2> DEFINE used == [Approved(flows[f], "magic") EXCEPT !.magicLinkUsed = TRUE]
    <2>1. /\ flows[f].state = "mfa_pending" /\ minted' = minted
          /\ Begin(r, "magic", f, used, "write", None)
      BY <1>g DEF LoginMagic
    <2>2. used \in FlowRecord /\ Consistent(used) /\ used.state = "mfa_approved"
      BY <1>3, <2>1, ApprovedConsistent, UsedLinkConsistent
    <2> HIDE DEF used
    <2> QED
      BY <1>0, <2>1, <2>2, BeginKeeps DEF RequestOps
  <1>h. ASSUME Notify(r, f) PROVE IInv'
    <2>1. /\ flows[f].state \in Pending /\ minted' = minted
          /\ Begin(r, "notify", f, flows[f], "readUser", flows[f].userID)
      BY <1>h DEF Notify
    <2>2. flows[f].userID \in Users
      BY <1>3, <2>1 DEF Pending
    <2> QED
      BY <1>0, <1>3, <2>1, <2>2, BeginKeeps DEF RequestOps, ReadsUser
  <1>i. ASSUME NEW op \in RequestOps, WebAuthnCeremony(r, f, op) PROVE IInv'
    <2>1. /\ op \in {"beginLogin", "beginRegister", "finishRegister", "assert"}
          /\ minted' = minted
          /\ Begin(r, op, f, flows[f], "readUser", flows[f].userID)
      BY <1>i DEF WebAuthnCeremony
    <2>2. flows[f].state = "webauthn_pending"
      BY <1>i, <1>3 DEF WebAuthnCeremony, Consistent, SessionWhilePending
    <2>3. flows[f].userID \in Users
      BY <1>3, <2>2
    <2> QED
      BY <1>0, <1>3, <2>1, <2>2, <2>3, BeginKeeps DEF ReadsUser
  <1>j. ASSUME NEW c \in Codes, AuthorizeComplete(r, f, c) PROVE IInv'
    <2>1. /\ flows[f].state = "complete" /\ minted' = minted \cup {c}
          /\ Begin(r, "authorizeComplete", f, [flows[f] EXCEPT !.authCode = c], "write", None)
      BY <1>j DEF AuthorizeComplete
    <2>2. minted' \subseteq Tokens \cup Codes
      BY <1>0, <2>1
    <2>3. /\ [flows[f] EXCEPT !.authCode = c] \in FlowRecord
          /\ Consistent([flows[f] EXCEPT !.authCode = c])
      BY <1>3, <2>1, CodeSetConsistent
    <2> QED
      BY <2>1, <2>2, <2>3, BeginKeeps DEF RequestOps
  <1> QED
    BY <1>1, <1>a, <1>b, <1>c, <1>d, <1>e, <1>f, <1>g, <1>h, <1>i, <1>j

(* What a request stands for after Proceed with a copy to write or save.   *)
LEMMA ProceedCarries ==
    ASSUME NEW q \in Request, Carries(q), q.pc \in {"readUser", "saveUser1", "write"},
           NEW pc \in {"saveUser1", "write"},
           NEW snap \in FlowRecord, Consistent(snap),
           NEW usr \in UserRecord \cup {None},
           pc = "saveUser1" => q.user \in Users /\ usr \in UserRecord,
           q.op = "magic" => snap.state = "mfa_approved"
    PROVE  LET p == [q EXCEPT !.pc = pc, !.snap = snap, !.usr = usr]
           IN  p \in Request /\ Carries(p)
  <1> DEFINE p == [q EXCEPT !.pc = pc, !.snap = snap, !.usr = usr]
  <1>1. p \in Request
    BY DEF Request, PCs
  <1>2. /\ p.pc = pc /\ p.op = q.op /\ p.flow = q.flow /\ p.snap = snap
        /\ p.user = q.user /\ p.usr = usr
    BY DEF Request
  <1>3. q.flow \in Flows
    BY DEF Carries, CarriesFlow
  <1> HIDE DEF p
  <1>4. Carries(p)
    BY <1>2, <1>3 DEF Carries, CarriesFlow, CarriesUser, ReadState, WriteState
  <1> QED
    BY <1>1, <1>4 DEF p

(* Proceed, for the steps that change nothing but the request.             *)
LEMMA ProceedStep ==
    ASSUME IInv, NEW r \in Reqs,
           req[r].pc \in {"readUser", "saveUser1", "write"},
           NEW pc \in {"saveUser1", "write"},
           NEW snap \in FlowRecord, Consistent(snap),
           NEW usr \in UserRecord \cup {None},
           pc = "saveUser1" => req[r].user \in Users /\ usr \in UserRecord,
           req[r].op = "magic" => snap.state = "mfa_approved",
           Proceed(r, pc, snap, usr)
    PROVE  req' \in [Reqs -> Request] /\ RequestsCarry'
  <1> DEFINE p == [req[r] EXCEPT !.pc = pc, !.snap = snap, !.usr = usr]
  <1>1. req \in [Reqs -> Request] /\ RequestsCarry
    BY DEF IInv, TypeOK
  <1>2. req[r] \in Request /\ Carries(req[r])
    BY <1>1 DEF RequestsCarry
  <1>3. p \in Request /\ Carries(p)
    BY <1>2, ProceedCarries
  <1>4. req' = [req EXCEPT ![r] = p]
    BY <1>1 DEF Proceed
  <1> HIDE DEF p
  <1> QED
    BY <1>1, <1>3, <1>4, RequestReplaced

LEMMA UserUpdateKeeps ==
    ASSUME IInv, NEW r \in Reqs, StoreUser(r),
           req[r].pc \in {"saveUser1", "saveUser2"}
    PROVE  users' \in [Users -> UserRecord \cup {None}]
  <1>1. req[r].user \in Users /\ req[r].usr \in UserRecord
    BY DEF IInv, RequestsCarry, Carries, CarriesUser
  <1> QED
    BY <1>1 DEF IInv, TypeOK, StoreUser

LEMMA ContinueRequestKeeps ==
    ASSUME IInv, NEW r \in Reqs, ContinueRequest(r)
    PROVE  IInv'
  <1> DEFINE q == req[r]
  <1>0. /\ req \in [Reqs -> Request] /\ RequestsCarry
        /\ minted \subseteq Tokens \cup Codes
        /\ q \in Request /\ Carries(q)
    BY DEF IInv, TypeOK, RequestsCarry
  <1>1. ASSUME req' \in [Reqs -> Request], RequestsCarry',
               UNCHANGED <<flows, age, users, redeemed>>,
               minted' \subseteq Tokens \cup Codes
        PROVE  IInv'
    BY <1>1 DEF IInv, TypeOK, StoreConsistent
  <1>a. ASSUME PickUser(r) PROVE IInv'
    <2> DEFINE usr  == users[q.user]
               snap == Picked(q.snap, q.user, usr)
    <2>1. /\ q.pc = "readUser" /\ q.op = "selectUser" /\ usr # None
          /\ UNCHANGED <<flows, age, users, minted, redeemed>>
          /\ \/ Proceed(r, "saveUser1", snap, ResetNextFlow(usr))
             \/ Proceed(r, "write", snap, None)
      BY <1>a DEF PickUser
    <2>2. /\ q.user \in Users /\ q.snap \in FlowRecord /\ Consistent(q.snap)
          /\ q.snap.state = "initiated"
      BY <1>0, <2>1 DEF Carries, CarriesFlow, CarriesUser, ReadState
    <2>3. usr \in UserRecord
      BY <2>1, <2>2 DEF IInv, TypeOK
    <2>4. snap \in FlowRecord /\ Consistent(snap)
      BY <2>2, <2>3, PickedConsistent
    <2>5. ResetNextFlow(usr) \in UserRecord
      BY <2>3, NextFlowAssumption DEF ResetNextFlow, UserRecord
    <2> HIDE DEF snap, usr
    <2>6. req' \in [Reqs -> Request] /\ RequestsCarry'
      BY <2>1, <2>2, <2>4, <2>5, ProceedStep
    <2> QED
      BY <1>0, <1>1, <2>1, <2>6
  <1>b. ASSUME NEW t \in Tokens \cup {None}, NotifyUser(r, t) PROVE IInv'
    <2> DEFINE usr  == users[q.user]
               snap == Notified(q.snap, usr, t)
    <2>1. /\ q.pc = "readUser" /\ q.op = "notify" /\ NeedsSecret(q.snap, usr)
          /\ UNCHANGED <<flows, age, users, redeemed>>
          /\ Proceed(r, "write", snap, None)
          /\ minted' \subseteq Tokens \cup Codes
      BY <1>b, <1>0 DEF NotifyUser
    <2>2. q.user \in Users /\ q.snap \in FlowRecord /\ Consistent(q.snap)
      BY <1>0, <2>1 DEF Carries, CarriesFlow, CarriesUser
    <2>3. usr \in UserRecord
      BY <2>1, <2>2 DEF IInv, TypeOK, NeedsSecret
    <2>4. snap \in FlowRecord /\ Consistent(snap)
      BY <2>1, <2>2, <2>3, NotifiedConsistent
    <2> HIDE DEF snap, usr
    <2>5. req' \in [Reqs -> Request] /\ RequestsCarry'
      BY <2>1, <2>2, <2>4, ProceedStep
    <2> QED
      BY <1>1, <2>1, <2>5
  <1>c. ASSUME CeremonyUser(r) PROVE IInv'
    <2> DEFINE usr   == users[q.user]
               begun == [q.snap EXCEPT !.webAuthnSession = TRUE]
               ended == [q.snap EXCEPT !.webAuthnSession = FALSE]
               done  == Asserted(q.snap)
               keyed == [usr EXCEPT !.webAuthnCredentials = TRUE]
    <2>1. /\ q.pc = "readUser" /\ usr # None
          /\ UNCHANGED <<flows, age, users, minted, redeemed>>
          /\ \/ /\ q.op \in {"beginLogin", "beginRegister"}
                /\ Proceed(r, "write", begun, None)
             \/ Proceed(r, "saveUser1", ended, keyed)
             \/ Proceed(r, "saveUser1", done, usr)
      BY <1>c DEF CeremonyUser
    <2>2. /\ q.user \in Users /\ q.snap \in FlowRecord /\ Consistent(q.snap)
          /\ q.snap.state = "webauthn_pending" /\ q.op # "magic"
      <3>1. q.op \in {"beginLogin", "beginRegister", "finishRegister", "assert"}
        BY <1>c DEF CeremonyUser
      <3> QED
        BY <1>0, <2>1, <3>1 DEF Carries, CarriesFlow, CarriesUser, ReadState
    <2>3. usr \in UserRecord
      BY <2>1, <2>2 DEF IInv, TypeOK
    <2>4. /\ begun \in FlowRecord /\ Consistent(begun)
          /\ ended \in FlowRecord /\ Consistent(ended)
      BY <2>2, SessionSetConsistent
    <2>5. done \in FlowRecord /\ Consistent(done)
      BY <2>2, AssertedConsistent
    <2>6. keyed \in UserRecord
      BY <2>3 DEF UserRecord
    <2> HIDE DEF usr, begun, ended, done, keyed
    <2>7. req' \in [Reqs -> Request] /\ RequestsCarry'
      BY <2>1, <2>2, <2>3, <2>4, <2>5, <2>6, ProceedStep
    <2> QED
      BY <1>0, <1>1, <2>1, <2>7
  <1>d. ASSUME GiveUp(r) PROVE IInv'
    <2>1. Finish(r) /\ UNCHANGED <<flows, age, users, minted, redeemed>>
      BY <1>d DEF GiveUp
    <2> QED
      BY <1>0, <1>1, <2>1, FinishKeeps
  <1>e. ASSUME SaveUserFirst(r) PROVE IInv'
    <2>1. /\ q.pc = "saveUser1" /\ StoreUser(r)
          /\ Finish(r) \/ Proceed(r, "write", q.snap, None)
          /\ UNCHANGED <<flows, age, minted, redeemed>>
      BY <1>e DEF SaveUserFirst
    <2>2. users' \in [Users -> UserRecord \cup {None}]
      BY <2>1, UserUpdateKeeps
    <2>3. req' \in [Reqs -> Request] /\ RequestsCarry'
      <3>1. /\ q.snap \in FlowRecord /\ Consistent(q.snap)
            /\ q.op = "magic" => q.snap.state = "mfa_approved"
        BY <1>0, <2>1 DEF Carries, CarriesFlow, WriteState
      <3> QED
        BY <1>0, <2>1, <3>1, FinishKeeps, ProceedStep
    <2> QED
      BY <2>1, <2>2, <2>3 DEF IInv, TypeOK, StoreConsistent
  <1>f. ASSUME Write(r) PROVE IInv'
    <2> DEFINE f    == q.flow
               snap == q.snap
    <2>1. /\ q.pc = "write" /\ UNCHANGED <<age, users, minted, redeemed>>
          /\ f \in Flows /\ snap \in FlowRecord /\ Consistent(snap)
          /\ q.op = "magic" => snap.state = "mfa_approved"
      BY <1>f, <1>0 DEF Write, Carries, CarriesFlow, WriteState
    <2>2. CASE ~UpdateFinds(f)
      <3>1. Finish(r) /\ UNCHANGED flows
        BY <1>f, <2>2 DEF Write
      <3> QED
        BY <1>0, <1>1, <2>1, <3>1, FinishKeeps
    <2>3. CASE UpdateFinds(f)
      <3>1. flows' = [flows EXCEPT ![f] = snap]
        BY <1>f, <2>3 DEF Write
      <3>2. req' \in [Reqs -> Request] /\ RequestsCarry'
        <4> DEFINE p == [q EXCEPT !.pc = "loadUser", !.snap = None, !.user = snap.userID]
        <4>0. \/ /\ CompletesToo(q.op, snap)
                 /\ Proceed(r, "write", MoveTo(snap, "complete"), None)
              \/ UsesUpScenario(q.op, snap) /\ req' = [req EXCEPT ![r] = p]
              \/ Finish(r)
          BY <1>f, <1>0, <2>3 DEF Write, AfterWrite
        <4>1. CASE /\ CompletesToo(q.op, snap)
                   /\ Proceed(r, "write", MoveTo(snap, "complete"), None)
          BY <2>1, <4>1, CompletedConsistent, ProceedStep DEF CompletesToo
        <4>2. CASE UsesUpScenario(q.op, snap) /\ req' = [req EXCEPT ![r] = p]
          <5>2. snap.userID \in Users
            BY <2>1, <4>2 DEF UsesUpScenario, Consistent, UserPicked, FlowRecord
          <5>3. p \in Request /\ Carries(p)
            <6>1. p \in Request
              BY <1>0, <5>2 DEF Request, PCs
            <6>2. p.pc = "loadUser" /\ p.user = snap.userID
              BY <1>0 DEF Request
            <6> HIDE DEF p
            <6> QED
              BY <5>2, <6>1, <6>2 DEF Carries, CarriesFlow, CarriesUser, ReadState, WriteState
          <5> HIDE DEF p
          <5> QED
            BY <1>0, <4>2, <5>3, RequestReplaced
        <4>3. CASE Finish(r)
          BY <1>0, <4>3, FinishKeeps
        <4> QED
          BY <4>0, <4>1, <4>2, <4>3
      <3> QED
        BY <2>1, <3>1, <3>2 DEF IInv, TypeOK, StoreConsistent
    <2> QED
      BY <2>2, <2>3
  <1>g. ASSUME LoadUser(r) PROVE IInv'
    <2>1. /\ q.pc = "loadUser" /\ UNCHANGED <<flows, age, users, minted, redeemed>>
          /\ q.user \in Users
      BY <1>g, <1>0 DEF LoadUser, Carries, CarriesUser
    <2>2. CASE users[q.user] = None
      <3>1. Finish(r)
        BY <1>g, <2>2 DEF LoadUser
      <3> QED
        BY <1>0, <1>1, <2>1, <3>1, FinishKeeps
    <2>3. CASE users[q.user] # None
      <3> DEFINE usr == ResetNextFlow(users[q.user])
                 p   == [q EXCEPT !.pc = "saveUser2", !.snap = None, !.usr = usr]
      <3>1. usr \in UserRecord
        BY <2>1, <2>3, NextFlowAssumption DEF IInv, TypeOK, ResetNextFlow, UserRecord
      <3>2. req' = [req EXCEPT ![r] = p]
        BY <1>g, <1>0, <2>3 DEF LoadUser, Proceed
      <3> HIDE DEF usr
      <3>3. p \in Request /\ Carries(p)
        <4>1. p \in Request
          BY <1>0, <3>1 DEF Request, PCs
        <4>2. p.pc = "saveUser2" /\ p.user = q.user /\ p.usr = usr
          BY <1>0 DEF Request
        <4> HIDE DEF p
        <4> QED
          BY <2>1, <3>1, <4>1, <4>2 DEF Carries, CarriesFlow, CarriesUser, ReadState, WriteState
      <3> HIDE DEF p
      <3> QED
        BY <1>0, <1>1, <2>1, <3>2, <3>3, RequestReplaced
    <2> QED
      BY <2>2, <2>3
  <1>h. ASSUME SaveUserLast(r) PROVE IInv'
    <2>1. /\ q.pc = "saveUser2" /\ StoreUser(r) /\ Finish(r)
          /\ UNCHANGED <<flows, age, minted, redeemed>>
      BY <1>h DEF SaveUserLast
    <2>2. users' \in [Users -> UserRecord \cup {None}]
      BY <2>1, UserUpdateKeeps
    <2>3. req' \in [Reqs -> Request] /\ RequestsCarry'
      BY <1>0, <2>1, FinishKeeps
    <2> QED
      BY <2>1, <2>2, <2>3 DEF IInv, TypeOK, StoreConsistent
  <1> QED
    BY <1>a, <1>b, <1>c, <1>d, <1>e, <1>f, <1>g, <1>h DEF ContinueRequest

-----------------------------------------------------------------------------
(* Steps of the rest of the system.                                        *)

LEMMA EnvironmentKeeps ==
    ASSUME IInv, Environment
    PROVE  IInv'
  <1>a. ASSUME NEW f \in Flows, NEW b \in BOOLEAN, CreateFlow(f, b) PROVE IInv'
    <2>1. NewFlow(b) \in FlowRecord /\ Consistent(NewFlow(b))
      BY NewConsistent
    <2> QED
      BY <1>a, <2>1 DEF CreateFlow, IInv, TypeOK, StoreConsistent, RequestsCarry, Ages
  <1>b. ASSUME NEW f \in Flows, TimePasses(f) PROVE IInv'
    BY <1>b DEF TimePasses, IInv, TypeOK, StoreConsistent, RequestsCarry, Ages
  <1>c. ASSUME NEW u \in Users, NEW m \in Methods, NEW n \in NextFlows, PutUser(u, m, n)
        PROVE  IInv'
    BY <1>c DEF PutUser, IInv, TypeOK, StoreConsistent, RequestsCarry, UserRecord
  <1>d. ASSUME NEW u \in Users, DeleteUser(u) PROVE IInv'
    BY <1>d DEF DeleteUser, IInv, TypeOK, StoreConsistent, RequestsCarry
  <1>e. ASSUME DeleteExpired PROVE IInv'
    BY <1>e DEF DeleteExpired, IInv, TypeOK, StoreConsistent, RequestsCarry
  <1>f. ASSUME NEW f \in Flows, NEW c \in Codes, ConsumeAuthCode(f, c) PROVE IInv'
    <2> DEFINE bare == [flows[f] EXCEPT !.authCode = None]
    <2>1. flows[f] \in FlowRecord /\ Consistent(flows[f]) /\ flows[f].authCode # None
      BY <1>f, StoredRecord, NoneAssumption DEF ConsumeAuthCode
    <2>2. bare \in FlowRecord /\ Consistent(bare)
      BY <2>1, CodeSetConsistent DEF Consistent, Vouched
    <2>3. /\ flows' = [flows EXCEPT ![f] = bare]
          /\ redeemed' = redeemed \cup {c} /\ UNCHANGED <<age, users, req, minted>>
      BY <1>f DEF ConsumeAuthCode, IInv, TypeOK
    <2> HIDE DEF bare
    <2> QED
      BY <2>2, <2>3 DEF IInv, TypeOK, StoreConsistent, RequestsCarry
  <1>g. ASSUME Crash PROVE IInv'
    BY <1>g, IdleCarries DEF Crash, IInv, TypeOK, StoreConsistent, RequestsCarry
  <1> QED
    BY <1>a, <1>b, <1>c, <1>d, <1>e, <1>f, <1>g DEF Environment

-----------------------------------------------------------------------------
(* The strengthening is an inductive invariant.                            *)
THEOREM Invariance == Spec => []IInv
  <1>1. Init => IInv
    <2> SUFFICES ASSUME Init PROVE IInv
      OBVIOUS
    <2>1. TypeOK
      BY IdleCarries DEF Init, TypeOK, Ages, UserRecord
    <2>2. StoreConsistent /\ RequestsCarry
      BY IdleCarries DEF Init, StoreConsistent, RequestsCarry
    <2> QED
      BY <2>1, <2>2 DEF IInv
  <1>2. IInv /\ [Next]_vars => IInv'
    <2> SUFFICES ASSUME IInv, [Next]_vars PROVE IInv'
      OBVIOUS
    <2>1. CASE Next
      BY <2>1, BeginRequestKeeps, ContinueRequestKeeps, EnvironmentKeeps DEF Next
    <2>2. CASE UNCHANGED vars
      BY <2>2 DEF vars, IInv, TypeOK, StoreConsistent, RequestsCarry
    <2> QED
      BY <2>1, <2>2
  <1> QED
    BY <1>1, <1>2, PTL DEF Spec

(* Every record and every copy of one is well formed, at any time.         *)
THEOREM TypeCorrect == Spec => []TypeOK
  <1>1. IInv => TypeOK
    BY DEF IInv
  <1> QED
    BY <1>1, Invariance, PTL

(* Handlers that overlap in any way leave every stored flow consistent:    *)
(* the passkey session, the time stamp, the second factor, the scenario    *)
(* mfa_fail and the authorization code agree with the state.               *)
THEOREM StoredFlowsConsistent ==
    Spec => [](CeremonySession /\ CompletionStamp /\ SecondFactor
                 /\ FirstCodeFails /\ CodeVouches)
  <1>1. IInv => CeremonySession /\ CompletionStamp /\ SecondFactor
                  /\ FirstCodeFails /\ CodeVouches
    BY DEF IInv, StoreConsistent, Consistent, CeremonySession, CompletionStamp,
       SecondFactor, FirstCodeFails, CodeVouches
  <1> QED
    BY <1>1, Invariance, PTL

(* Each of them, as the runs check it.                                     *)

(* A passkey ceremony session is on a stored flow in webauthn_pending only,*)
(* whatever copies overlapping requests write back.                        *)
THEOREM PasskeySessionsEnd == Spec => []CeremonySession
  <1> QED
    BY StoredFlowsConsistent, PTL

(* A stored flow carries its completion time exactly in the states it      *)
(* cannot leave, stale copies included.                                    *)
THEOREM CompletionsAreStamped == Spec => []CompletionStamp
  <1> QED
    BY StoredFlowsConsistent, PTL

(* Under mfa_fail no overlap of submissions lets the first code in.        *)
THEOREM FirstCodesFail == Spec => []FirstCodeFails
  <1> QED
    BY StoredFlowsConsistent, PTL

(* An authorization code in the store stands for a finished login with     *)
(* its second factor, so the token endpoint need not look at either.       *)
THEOREM CodesVouchForLogins == Spec => []CodeVouches
  <1> QED
    BY StoredFlowsConsistent, PTL

-----------------------------------------------------------------------------
(* The delay of slow_mfa.  A flow never gets younger, so what had waited   *)
(* when a handler copied it has waited when the copy is written.           *)

Waited(rec, a) ==
    rec.scenario = "slow_mfa" /\ rec.approvedBy \in {"approve", "auto"}
        => a \in {"aged", "expired"}

HoldsCopy == {"readUser", "saveUser1", "write"}

StoreWaited == \A f \in Flows : flows[f] # None => Waited(flows[f], age[f])
CopiesWaited ==
    \A r \in Reqs : req[r].pc \in HoldsCopy => Waited(req[r].snap, age[req[r].flow])

SlowInv == StoreWaited /\ CopiesWaited

LEMMA AgeGrows ==
    ASSUME IInv, [Next]_vars, NEW f \in Flows, NEW rec, Waited(rec, age[f])
    PROVE  Waited(rec, age'[f])
  <1>0. age \in [Flows -> Ages]
    BY DEF IInv, TypeOK
  <1>1. age' = age \/ (\E g \in Flows : TimePasses(g) \/ \E b \in BOOLEAN : CreateFlow(g, b))
    <2>1. ASSUME NEW r \in Reqs, BeginRequest(r) PROVE age' = age
      BY <2>1 DEF BeginRequest, SelectUser, VerifyMFA, Approve, Deny, GetFlow, LoginMFA,
         LoginMagic, Notify, WebAuthnCeremony, AuthorizeComplete, Begin
    <2>2. ASSUME NEW r \in Reqs, ContinueRequest(r) PROVE age' = age
      BY <2>2 DEF ContinueRequest, PickUser, NotifyUser, CeremonyUser, GiveUp, SaveUserFirst,
         Write, LoadUser, SaveUserLast
    <2>3. CASE Environment
      BY <2>3 DEF Environment, PutUser, DeleteUser, DeleteExpired, ConsumeAuthCode, Crash
    <2> QED
      BY <2>1, <2>2, <2>3 DEF Next, vars
  <1>2. ASSUME NEW g \in Flows, TimePasses(g) PROVE Waited(rec, age'[f])
    BY <1>0, <1>2 DEF TimePasses, Waited
  <1>3. ASSUME NEW g \in Flows, NEW b \in BOOLEAN, CreateFlow(g, b)
        PROVE  Waited(rec, age'[f])
    BY <1>0, <1>3 DEF CreateFlow, Waited
  <1> QED
    BY <1>1, <1>2, <1>3

(* A step that leaves the flows alone and gives one request a copy that    *)
(* has waited.                                                             *)
LEMMA CopyKeepsWaiting ==
    ASSUME IInv, SlowInv, NEW r \in Reqs, NEW q,
           q.pc \in HoldsCopy => Waited(q.snap, age[q.flow]),
           req' = [req EXCEPT ![r] = q], UNCHANGED <<flows, age>>
    PROVE  SlowInv'
  <1>0. req \in [Reqs -> Request]
    BY DEF IInv, TypeOK
  <1>1. \A s \in Reqs : req'[s].pc \in HoldsCopy
            => Waited(req'[s].snap, age[req'[s].flow])
    BY <1>0 DEF SlowInv, CopiesWaited
  <1> QED
    BY <1>1 DEF SlowInv, StoreWaited, CopiesWaited

LEMMA BeginWaits ==
    ASSUME IInv, SlowInv, NEW r \in Reqs, NEW op, NEW f \in Flows, NEW snap, NEW pc, NEW u,
           Begin(r, op, f, snap, pc, u), Waited(snap, age[f])
    PROVE  SlowInv'
  <1> DEFINE q == [pc |-> pc, op |-> op, flow |-> f, snap |-> snap, user |-> u, usr |-> None]
  <1>1. q.snap = snap /\ q.flow = f
    OBVIOUS
  <1>2. req' = [req EXCEPT ![r] = q] /\ UNCHANGED <<flows, age>>
    BY DEF Begin
  <1> HIDE DEF q
  <1> QED
    BY <1>1, <1>2, CopyKeepsWaiting

LEMMA ProceedWaits ==
    ASSUME IInv, SlowInv, NEW r \in Reqs, NEW snap, NEW pc, NEW usr,
           Proceed(r, pc, snap, usr), UNCHANGED <<flows, age>>,
           Waited(snap, age[req[r].flow])
    PROVE  SlowInv'
  <1> DEFINE q == [req[r] EXCEPT !.pc = pc, !.snap = snap, !.usr = usr]
  <1>1. req[r] \in Request
    BY DEF IInv, TypeOK
  <1>2. q.snap = snap /\ q.flow = req[r].flow
    BY <1>1 DEF Request
  <1>3. req' = [req EXCEPT ![r] = q]
    BY DEF Proceed
  <1> HIDE DEF q
  <1> QED
    BY <1>2, <1>3, CopyKeepsWaiting

LEMMA FinishWaits ==
    ASSUME IInv, SlowInv, NEW r \in Reqs, Finish(r), UNCHANGED <<flows, age>>
    PROVE  SlowInv'
  <1>1. Idle.pc \notin HoldsCopy
    BY DEF Idle, HoldsCopy
  <1> QED
    BY <1>1, CopyKeepsWaiting DEF Finish

LEMMA BeginRequestWaits ==
    ASSUME IInv, SlowInv, NEW r \in Reqs, BeginRequest(r)
    PROVE  SlowInv'
  <1>1. PICK f \in Flows :
          \/ \E u \in Users : SelectUser(r, f, u)
          \/ \E codeGiven \in BOOLEAN : VerifyMFA(r, f, codeGiven)
          \/ Approve(r, f)
          \/ Deny(r, f)
          \/ GetFlow(r, f)
          \/ LoginMFA(r, f)
          \/ \E t \in Tokens : LoginMagic(r, f, t)
          \/ Notify(r, f)
          \/ \E op \in RequestOps : WebAuthnCeremony(r, f, op)
          \/ \E c \in Codes : AuthorizeComplete(r, f, c)
    BY DEF BeginRequest
  <1>2. flows[f] # None
    BY <1>1 DEF SelectUser, VerifyMFA, Approve, Deny, GetFlow, LoginMFA, LoginMagic, Notify,
       WebAuthnCeremony, AuthorizeComplete
  <1>3. flows[f] \in FlowRecord /\ Waited(flows[f], age[f])
    BY <1>2, StoredRecord DEF SlowInv, StoreWaited
  <1> DEFINE rec == flows[f]
  <1>a. ASSUME NEW u \in Users, SelectUser(r, f, u) PROVE SlowInv'
    BY <1>3, <1>a, BeginWaits DEF SelectUser
  <1>b. ASSUME NEW given \in BOOLEAN, VerifyMFA(r, f, given) PROVE SlowInv'
    <2> DEFINE tried    == [rec EXCEPT !.attempts = @ + 1]
               rejected == \/ tried.scenario = "mfa_fail" /\ tried.attempts = 1
                           \/ ~given
               snap     == IF rejected THEN tried ELSE Approved(tried, "verify")
    <2>1. Begin(r, "verify", f, snap, "write", None)
      BY <1>b DEF VerifyMFA
    <2>2. Waited(tried, age[f]) /\ Waited(Approved(tried, "verify"), age[f])
      BY <1>3 DEF Waited, Approved, FlowRecord
    <2>3. Waited(snap, age[f])
      BY <2>2
    <2> HIDE DEF snap
    <2> QED
      BY <2>1, <2>3, BeginWaits
  <1>c. ASSUME Approve(r, f) PROVE SlowInv'
    <2>1. Waited(Approved(rec, "approve"), age[f])
      BY <1>3, <1>c DEF Waited, Approved, Approve, SlowDelayOver, FlowRecord
    <2> QED
      BY <1>c, <2>1, BeginWaits DEF Approve
  <1>d. ASSUME Deny(r, f) PROVE SlowInv'
    <2>1. Waited(MoveTo(rec, "mfa_denied"), age[f])
      BY <1>3 DEF Waited, MoveTo, MarkTerminal, FlowRecord
    <2> QED
      BY <1>d, <2>1, BeginWaits DEF Deny
  <1>e. ASSUME AutoAdvances(f, rec) PROVE Waited(Approved(rec, "auto"), age[f])
    BY <1>e DEF Waited, AutoAdvances
  <1>f. ASSUME GetFlow(r, f) PROVE SlowInv'
    BY <1>e, <1>f, BeginWaits DEF GetFlow
  <1>g. ASSUME LoginMFA(r, f) PROVE SlowInv'
    <2>1. Waited(MoveTo(rec, "complete"), age[f])
      BY <1>3 DEF Waited, MoveTo, MarkTerminal, FlowRecord
    <2> QED
      BY <1>e, <1>g, <2>1, BeginWaits DEF LoginMFA
  <1>h. ASSUME NEW t \in Tokens, LoginMagic(r, f, t) PROVE SlowInv'
    <2> DEFINE used == [Approved(rec, "magic") EXCEPT !.magicLinkUsed = TRUE]
    <2>1. Begin(r, "magic", f, used, "write", None)
      BY <1>h DEF LoginMagic
    <2>2. Waited(used, age[f])
      BY <1>3 DEF Waited, Approved, FlowRecord
    <2> HIDE DEF used
    <2> QED
      BY <2>1, <2>2, BeginWaits
  <1>i. ASSUME Notify(r, f) PROVE SlowInv'
    BY <1>3, <1>i, BeginWaits DEF Notify
  <1>j. ASSUME NEW op \in RequestOps, WebAuthnCeremony(r, f, op) PROVE SlowInv'
    BY <1>3, <1>j, BeginWaits DEF WebAuthnCeremony
  <1>k. ASSUME NEW c \in Codes, AuthorizeComplete(r, f, c) PROVE SlowInv'
    <2>1. Waited([rec EXCEPT !.authCode = c], age[f])
      BY <1>3 DEF Waited, FlowRecord
    <2> QED
      BY <1>k, <2>1, BeginWaits DEF AuthorizeComplete
  <1> QED
    BY <1>1, <1>a, <1>b, <1>c, <1>d, <1>f, <1>g, <1>h, <1>i, <1>j, <1>k

(* The store takes a copy that has waited.                                 *)
LEMMA WriteWaits ==
    ASSUME IInv, SlowInv, NEW r \in Reqs, Write(r)
    PROVE  SlowInv'
  <1> DEFINE f == req[r].flow
             snap == req[r].snap
  <1>1. /\ req \in [Reqs -> Request] /\ flows \in [Flows -> FlowRecord \cup {None}]
        /\ req[r].pc = "write" /\ f \in Flows /\ snap \in FlowRecord
        /\ Waited(snap, age[f]) /\ age' = age
    BY DEF IInv, TypeOK, RequestsCarry, Carries, CarriesFlow, Write, SlowInv, CopiesWaited,
       HoldsCopy
  <1>2. StoreWaited'
    <2>1. flows' = flows \/ flows' = [flows EXCEPT ![f] = snap]
      BY DEF Write
    <2> QED
      BY <1>1, <2>1 DEF SlowInv, StoreWaited
  <1>3. ASSUME NEW q, req' = [req EXCEPT ![r] = q],
               q.pc \in HoldsCopy => Waited(q.snap, age[q.flow])
        PROVE  CopiesWaited'
    BY <1>1, <1>3 DEF SlowInv, CopiesWaited
  <1>4. CASE Finish(r)
    <2>1. Idle.pc \notin HoldsCopy
      BY DEF Idle, HoldsCopy
    <2> QED
      BY <1>2, <1>3, <1>4, <2>1 DEF Finish, SlowInv
  <1>5. CASE Proceed(r, "write", MoveTo(snap, "complete"), None)
    <2> DEFINE new == MoveTo(snap, "complete")
               q == [req[r] EXCEPT !.pc = "write", !.snap = new, !.usr = None]
    <2>1. Waited(new, age[f])
      BY <1>1 DEF Waited, MoveTo, MarkTerminal, FlowRecord
    <2>2. q.snap = new /\ q.flow = f
      BY <1>1 DEF Request
    <2>3. req' = [req EXCEPT ![r] = q]
      BY <1>5 DEF Proceed
    <2> HIDE DEF q, new
    <2> QED
      BY <1>2, <1>3, <2>1, <2>2, <2>3 DEF SlowInv
  <1>6. CASE req' = [req EXCEPT ![r] = [@ EXCEPT !.pc = "loadUser", !.snap = None,
                                                 !.user = snap.userID]]
    <2> DEFINE q == [req[r] EXCEPT !.pc = "loadUser", !.snap = None, !.user = snap.userID]
    <2>1. q.pc \notin HoldsCopy
      BY <1>1 DEF Request, HoldsCopy
    <2>2. req' = [req EXCEPT ![r] = q]
      BY <1>6
    <2> HIDE DEF q
    <2> QED
      BY <1>2, <1>3, <2>1, <2>2 DEF SlowInv
  <1> QED
    BY <1>4, <1>5, <1>6 DEF Write, AfterWrite

LEMMA ContinueRequestWaits ==
    ASSUME IInv, SlowInv, NEW r \in Reqs, ContinueRequest(r)
    PROVE  SlowInv'
  <1> DEFINE snap == req[r].snap
             a    == age[req[r].flow]
  <1>1. ASSUME req[r].pc \in {"readUser", "saveUser1"}
        PROVE  snap \in FlowRecord /\ Waited(snap, a)
    BY <1>1 DEF IInv, RequestsCarry, Carries, CarriesFlow, SlowInv, CopiesWaited, HoldsCopy
  <1>2. ASSUME PickUser(r) PROVE SlowInv'
    <2> DEFINE new == Picked(snap, req[r].user, users[req[r].user])
    <2>1. snap \in FlowRecord /\ snap.state = "initiated" /\ Consistent(snap)
      BY <1>2 DEF PickUser, IInv, RequestsCarry, Carries, CarriesFlow, ReadState
    <2>2. snap.approvedBy = "none"
      BY <2>1 DEF Consistent, AwaitsMethod
    <2>3. new.approvedBy = "none"
      BY <2>1, <2>2 DEF Picked, MoveTo, MarkTerminal, FlowRecord
    <2>4. Waited(new, a)
      BY <2>3 DEF Waited
    <2>5. /\ UNCHANGED <<flows, age>>
          /\ \E pc, usr : Proceed(r, pc, new, usr)
      BY <1>2 DEF PickUser
    <2> HIDE DEF new
    <2> QED
      BY <2>4, <2>5, ProceedWaits
  <1>3. ASSUME NEW t \in Tokens \cup {None}, NotifyUser(r, t) PROVE SlowInv'
    <2> DEFINE new == Notified(snap, users[req[r].user], t)
    <2>1. Waited(new, a)
      BY <1>1, <1>3 DEF NotifyUser, Notified, Waited, FlowRecord
    <2>2. UNCHANGED <<flows, age>> /\ Proceed(r, "write", new, None)
      BY <1>3 DEF NotifyUser
    <2> HIDE DEF new
    <2> QED
      BY <2>1, <2>2, ProceedWaits
  <1>4. ASSUME CeremonyUser(r) PROVE SlowInv'
    <2>1. /\ Waited([snap EXCEPT !.webAuthnSession = TRUE], a)
          /\ Waited([snap EXCEPT !.webAuthnSession = FALSE], a)
          /\ Waited(Asserted(snap), a)
      BY <1>1, <1>4 DEF CeremonyUser, Asserted, Approved, Waited, FlowRecord
    <2>2. UNCHANGED <<flows, age>>
      BY <1>4 DEF CeremonyUser
    <2>3. \/ \E pc, usr : Proceed(r, pc, [snap EXCEPT !.webAuthnSession = TRUE], usr)
          \/ \E pc, usr : Proceed(r, pc, [snap EXCEPT !.webAuthnSession = FALSE], usr)
          \/ \E pc, usr : Proceed(r, pc, Asserted(snap), usr)
      BY <1>4 DEF CeremonyUser
    <2> QED
      BY <2>1, <2>2, <2>3, ProceedWaits
  <1>5. ASSUME GiveUp(r) PROVE SlowInv'
    BY <1>5, FinishWaits DEF GiveUp
  <1>6. ASSUME SaveUserFirst(r) PROVE SlowInv'
    <2>1. UNCHANGED <<flows, age>> /\ (Finish(r) \/ Proceed(r, "write", snap, None))
      BY <1>6 DEF SaveUserFirst
    <2>2. Waited(snap, a)
      BY <1>1, <1>6 DEF SaveUserFirst
    <2> QED
      BY <2>1, <2>2, FinishWaits, ProceedWaits
  <1>7. ASSUME LoadUser(r) PROVE SlowInv'
    <2>1. UNCHANGED <<flows, age>>
      BY <1>7 DEF LoadUser
    <2>2. CASE Finish(r)
      BY <2>1, <2>2, FinishWaits
    <2>3. ASSUME NEW usr, Proceed(r, "saveUser2", None, usr) PROVE SlowInv'
      <3> DEFINE q == [req[r] EXCEPT !.pc = "saveUser2", !.snap = None, !.usr = usr]
      <3>1. req[r] \in Request
        BY DEF IInv, TypeOK
      <3>2. q.pc \notin HoldsCopy
        BY <3>1 DEF Request, HoldsCopy
      <3>3. req' = [req EXCEPT ![r] = q]
        BY <2>3 DEF Proceed
      <3> HIDE DEF q
      <3> QED
        BY <2>1, <3>2, <3>3, CopyKeepsWaiting
    <2> QED
      BY <1>7, <2>2, <2>3 DEF LoadUser
  <1>8. ASSUME SaveUserLast(r) PROVE SlowInv'
    BY <1>8, FinishWaits DEF SaveUserLast
  <1> QED
    BY <1>2, <1>3, <1>4, <1>5, <1>6, <1>7, <1>8, WriteWaits DEF ContinueRequest

LEMMA EnvironmentWaits ==
    ASSUME IInv, SlowInv, Environment, [Next]_vars
    PROVE  SlowInv'
  <1>0. /\ flows \in [Flows -> FlowRecord \cup {None}]
        /\ age \in [Flows -> Ages]
        /\ \A r \in Reqs : req[r].pc \in HoldsCopy => req[r].flow \in Flows
    BY DEF IInv, TypeOK, RequestsCarry, Carries, CarriesFlow, HoldsCopy
  <1>1. (\A r \in Reqs : req'[r] = req[r] \/ req'[r] = Idle) => CopiesWaited'
    <2>1. Idle.pc \notin HoldsCopy
      BY DEF Idle, HoldsCopy
    <2> QED
      BY <1>0, <2>1, AgeGrows DEF SlowInv, CopiesWaited
  <1>2. \A r \in Reqs : req'[r] = req[r] \/ req'[r] = Idle
    BY DEF Environment, CreateFlow, TimePasses, PutUser, DeleteUser, DeleteExpired,
       ConsumeAuthCode, Crash
  <1>3. ASSUME \A f \in Flows : flows'[f] # None =>
                  \/ flows'[f].approvedBy = "none"
                  \/ /\ flows[f] # None
                     /\ flows'[f].scenario = flows[f].scenario
                     /\ flows'[f].approvedBy = flows[f].approvedBy
        PROVE  StoreWaited'
    <2> SUFFICES ASSUME NEW f \in Flows, flows'[f] # None PROVE Waited(flows'[f], age'[f])
      BY DEF StoreWaited
    <2>1. CASE flows'[f].approvedBy = "none"
      BY <2>1 DEF Waited
    <2>2. CASE flows'[f].approvedBy # "none"
      <3>1. Waited(flows[f], age'[f])
        BY <1>3, <2>2, AgeGrows DEF SlowInv, StoreWaited
      <3> QED
        BY <1>3, <2>2, <3>1 DEF Waited
    <2> QED
      BY <2>1, <2>2
  <1>a. ASSUME NEW f \in Flows, NEW b \in BOOLEAN, CreateFlow(f, b) PROVE StoreWaited'
    BY <1>0, <1>3, <1>a DEF CreateFlow, NewFlow
  <1>b. ASSUME UNCHANGED flows PROVE StoreWaited'
    BY <1>3, <1>b
  <1>c. ASSUME DeleteExpired PROVE StoreWaited'
    BY <1>3, <1>c DEF DeleteExpired
  <1>d. ASSUME NEW f \in Flows, NEW c \in Codes, ConsumeAuthCode(f, c) PROVE StoreWaited'
    <2>1. flows[f] \in FlowRecord /\ flows' = [flows EXCEPT ![f].authCode = None]
      BY <1>0, <1>d DEF ConsumeAuthCode
    <2>2. /\ flows'[f].scenario = flows[f].scenario
          /\ flows'[f].approvedBy = flows[f].approvedBy
          /\ flows[f] # None
      BY <1>0, <1>d, <2>1 DEF FlowRecord, ConsumeAuthCode
    <2> QED
      BY <1>0, <1>3, <2>1, <2>2
  <1>4. StoreWaited'
    BY <1>a, <1>b, <1>c, <1>d DEF Environment, TimePasses, PutUser, DeleteUser, Crash
  <1> QED
    BY <1>1, <1>2, <1>4 DEF SlowInv

(* slow_mfa: no push approval, pressed or automatic, reaches the store     *)
(* before its delay is over, however long its request was on the way.      *)
THEOREM ApprovalsWait == Spec => []SlowApproval
  <1>1. Init => SlowInv
    BY DEF Init, SlowInv, StoreWaited, CopiesWaited, HoldsCopy, Idle
  <1>2. IInv /\ SlowInv /\ [Next]_vars => SlowInv'
    <2> SUFFICES ASSUME IInv, SlowInv, [Next]_vars PROVE SlowInv'
      OBVIOUS
    <2>1. CASE UNCHANGED vars
      BY <2>1 DEF vars, SlowInv, StoreWaited, CopiesWaited
    <2> QED
      BY <2>1, BeginRequestWaits, ContinueRequestWaits, EnvironmentWaits DEF Next
  <1>3. SlowInv => SlowApproval
    BY DEF SlowInv, StoreWaited, Waited, SlowApproval
  <1> QED
    BY <1>1, <1>2, <1>3, Invariance, PTL DEF Spec

(* A login that survives the trouble simulated for it has met it: under    *)
(* every overlap of requests a first code has failed under mfa_fail, and   *)
(* a push has waited under slow_mfa.                                       *)
THEOREM ScenariosHonoured == Spec => []ScenarioHonoured
  <1>1. FirstCodeFails /\ SlowApproval => ScenarioHonoured
    BY DEF ScenarioHonoured
  <1> QED
    BY <1>1, FirstCodesFail, ApprovalsWait, PTL

-----------------------------------------------------------------------------
(* Removal is final.                                                       *)

(* The only steps that change the flow store.                              *)
LEMMA FlowChanges ==
    ASSUME Next
    PROVE  \/ UNCHANGED flows
           \/ \E f \in Flows, b \in BOOLEAN : CreateFlow(f, b)
           \/ \E r \in Reqs : Write(r)
           \/ DeleteExpired
           \/ \E f \in Flows, c \in Codes : ConsumeAuthCode(f, c)
  <1>1. ASSUME NEW r \in Reqs, BeginRequest(r) PROVE UNCHANGED flows
    BY <1>1 DEF BeginRequest, SelectUser, VerifyMFA, Approve, Deny, GetFlow, LoginMFA,
       LoginMagic, Notify, WebAuthnCeremony, AuthorizeComplete, Begin
  <1>2. ASSUME NEW r \in Reqs, ContinueRequest(r) PROVE UNCHANGED flows \/ Write(r)
    BY <1>2 DEF ContinueRequest, PickUser, NotifyUser, CeremonyUser, GiveUp,
       SaveUserFirst, LoadUser, SaveUserLast
  <1>3. ASSUME Environment
        PROVE  \/ UNCHANGED flows
               \/ \E f \in Flows, b \in BOOLEAN : CreateFlow(f, b)
               \/ DeleteExpired
               \/ \E f \in Flows, c \in Codes : ConsumeAuthCode(f, c)
    BY <1>3 DEF Environment, TimePasses, PutUser, DeleteUser, Crash
  <1> QED
    BY <1>1, <1>2, <1>3 DEF Next

(* A request that read a flow before the cleanup removed it cannot bring   *)
(* the flow back: Update refuses a record that is not there.               *)
THEOREM RemovalIsFinal == Spec => NoResurrection
  <1> DEFINE StaysGone == \A f \in Flows :
                 age[f] # "unborn" /\ flows[f] = None => flows'[f] = None
  <1>1. IInv /\ [Next]_vars => StaysGone
    <2> SUFFICES ASSUME IInv, [Next]_vars, NEW f \in Flows,
                        age[f] # "unborn", flows[f] = None
                 PROVE  flows'[f] = None
      OBVIOUS
    <2>0. flows \in [Flows -> FlowRecord \cup {None}] /\ age \in [Flows -> Ages]
      BY DEF IInv, TypeOK
    <2>1. CASE UNCHANGED flows
      BY <2>1
    <2>2. ASSUME NEW g \in Flows, NEW b \in BOOLEAN, CreateFlow(g, b)
          PROVE  flows'[f] = None
      BY <2>0, <2>2 DEF CreateFlow
    <2>3. ASSUME NEW r \in Reqs, Write(r) PROVE flows'[f] = None
      <3>1. CASE UpdateFinds(req[r].flow)
        <4>1. flows' = [flows EXCEPT ![req[r].flow] = req[r].snap]
          BY <2>3, <3>1 DEF Write
        <4> QED
          BY <2>0, <3>1, <4>1 DEF UpdateFinds
      <3>2. CASE ~UpdateFinds(req[r].flow)
        BY <2>3, <3>2 DEF Write
      <3> QED
        BY <3>1, <3>2
    <2>4. CASE DeleteExpired
      BY <2>4 DEF DeleteExpired
    <2>5. ASSUME NEW g \in Flows, NEW c \in Codes, ConsumeAuthCode(g, c)
          PROVE  flows'[f] = None
      BY <2>0, <2>5 DEF ConsumeAuthCode
    <2> QED
      BY <2>1, <2>2, <2>3, <2>4, <2>5, FlowChanges DEF vars
  <1>2. Spec => []IInv /\ [][Next]_vars
    BY Invariance, PTL DEF Spec
  <1>3. Spec => [][StaysGone]_vars
    BY <1>1, <1>2, PTL
  <1> QED
    BY <1>3 DEF NoResurrection

-----------------------------------------------------------------------------
(* A code is redeemed at most once.  Codes live in the store and in the    *)
(* copies requests carry; the argument is that a code has one place only.  *)

Stored(f)  == IF flows[f] = None THEN None ELSE flows[f].authCode
Carried(r) == IF req[r].pc \in {"readUser", "saveUser1", "write"}
              THEN req[r].snap.authCode ELSE None

OnePlace ==
    /\ redeemed \subseteq minted
    /\ \A f \in Flows : Stored(f) # None => Stored(f) \in minted \ redeemed
    /\ \A r \in Reqs : Carried(r) # None => Carried(r) \in minted \ redeemed
    /\ \A f, g \in Flows : f # g /\ Stored(f) # None => Stored(f) # Stored(g)
    /\ \A f \in Flows, r \in Reqs : Stored(f) # None => Stored(f) # Carried(r)
    /\ \A r, s \in Reqs : r # s /\ Carried(r) # None => Carried(r) # Carried(s)

(* Nothing is stored or picked up: places can only be vacated.             *)
LEMMA VacatedKeepsOnePlace ==
    ASSUME OnePlace, UNCHANGED redeemed, minted \subseteq minted',
           \A f \in Flows : Stored(f)' \in {Stored(f), None},
           \A r \in Reqs : Carried(r)' \in {Carried(r), None}
    PROVE  OnePlace'
  <1>1. \A f \in Flows : Stored(f)' # None => Stored(f)' = Stored(f)
    OBVIOUS
  <1>2. \A r \in Reqs : Carried(r)' # None => Carried(r)' = Carried(r)
    OBVIOUS
  <1> HIDE DEF Stored, Carried
  <1> QED
    BY <1>1, <1>2 DEF OnePlace

(* A request begins with a code of its own, or with none.                  *)
LEMMA BeginCarries ==
    ASSUME IInv, NEW r \in Reqs, NEW op, NEW f, NEW snap, NEW pc \in {"readUser", "write"},
           NEW u, Begin(r, op, f, snap, pc, u)
    PROVE  /\ Carried(r) = None
           /\ Carried(r)' = snap.authCode
           /\ \A s \in Reqs \ {r} : Carried(s)' = Carried(s)
           /\ \A g \in Flows : Stored(g)' = Stored(g)
           /\ UNCHANGED redeemed
  <1>1. req \in [Reqs -> Request]
    BY DEF IInv, TypeOK
  <1>2. req[r].pc = "idle" /\ UNCHANGED <<flows, redeemed>>
    BY DEF Begin
  <1>3. req'[r].pc = pc /\ req'[r].snap = snap
    BY <1>1 DEF Begin
  <1>4. \A s \in Reqs \ {r} : req'[s] = req[s]
    BY <1>1 DEF Begin
  <1> QED
    BY <1>2, <1>3, <1>4 DEF Carried, Stored

LEMMA BeginRequestOnePlace ==
    ASSUME IInv, OnePlace, NEW r \in Reqs, BeginRequest(r)
    PROVE  OnePlace'
  <1>1. ASSUME NEW f \in Flows, NEW c \in Codes, AuthorizeComplete(r, f, c)
        PROVE  OnePlace'
    <2> DEFINE snap == [flows[f] EXCEPT !.authCode = c]
    <2>1. /\ flows[f] # None /\ c \notin minted /\ minted' = minted \cup {c}
          /\ Begin(r, "authorizeComplete", f, snap, "write", None)
      BY <1>1 DEF AuthorizeComplete
    <2>2. snap.authCode = c
      BY <2>1, StoredRecord DEF FlowRecord
    <2>3. c # None
      BY NoneAssumption
    <2> HIDE DEF snap
    <2>4. /\ Carried(r) = None /\ Carried(r)' = c
          /\ \A s \in Reqs \ {r} : Carried(s)' = Carried(s)
          /\ \A g \in Flows : Stored(g)' = Stored(g)
          /\ UNCHANGED redeemed
      BY <2>1, <2>2, BeginCarries
    <2>5. \A s \in Reqs : s # r => Carried(s)' = Carried(s)
      BY <2>4
    <2> HIDE DEF Stored, Carried
    <2> QED
      BY <2>1, <2>3, <2>4, <2>5 DEF OnePlace
  <1>2. ASSUME NEW f \in Flows, NEW op, NEW snap, NEW pc \in {"readUser", "write"}, NEW u,
               Begin(r, op, f, snap, pc, u), snap.authCode = None, UNCHANGED minted
        PROVE  OnePlace'
    <2>1. /\ Carried(r)' = None /\ \A s \in Reqs \ {r} : Carried(s)' = Carried(s)
          /\ \A g \in Flows : Stored(g)' = Stored(g) /\ UNCHANGED redeemed
      BY <1>2, BeginCarries
    <2> HIDE DEF Stored, Carried
    <2> QED
      BY <1>2, <2>1, VacatedKeepsOnePlace
  <1>3. ASSUME NEW f \in Flows, flows[f] # None, flows[f].state # "complete"
        PROVE  /\ flows[f] \in FlowRecord /\ flows[f].authCode = None
               /\ \A by \in Approvals : Approved(flows[f], by).authCode = None
               /\ \A s \in States : MoveTo(flows[f], s).authCode = None
    <2>1. flows[f] \in FlowRecord /\ flows[f].authCode = None
      BY <1>3, StoredRecord DEF Consistent, Vouched
    <2>2. \A by \in Approvals : Approved(flows[f], by).authCode = None
      BY <2>1 DEF Approved, FlowRecord
    <2>3. \A s \in States : MoveTo(flows[f], s).authCode = None
      BY <2>1 DEF MoveTo, MarkTerminal, FlowRecord
    <2> QED
      BY <2>1, <2>2, <2>3
  <1>a. ASSUME NEW f \in Flows, NEW u \in Users, SelectUser(r, f, u) PROVE OnePlace'
    <2>1. flows[f] # None /\ flows[f].state # "complete"
      BY <1>a DEF SelectUser, CanTransition, validTransitions, States
    <2> QED
      BY <1>a, <2>1, <1>2, <1>3 DEF SelectUser
  <1>b. ASSUME NEW f \in Flows, NEW b \in BOOLEAN, VerifyMFA(r, f, b) PROVE OnePlace'
    <2> DEFINE tried == [flows[f] EXCEPT !.attempts = @ + 1]
               done  == Approved(tried, "verify")
    <2>1. flows[f] # None /\ flows[f].state # "complete"
      BY <1>b DEF VerifyMFA
    <2>2. flows[f] \in FlowRecord /\ flows[f].authCode = None
      BY <2>1, <1>3
    <2>3. tried.authCode = None /\ done.authCode = None
      BY <2>2 DEF Approved, FlowRecord
    <2>4. /\ UNCHANGED minted
          /\ \/ Begin(r, "verify", f, tried, "write", None)
             \/ Begin(r, "verify", f, done, "write", None)
      BY <1>b DEF VerifyMFA
    <2> HIDE DEF tried, done
    <2> QED
      BY <2>3, <2>4, <1>2
  <1>c. ASSUME NEW f \in Flows, Approve(r, f) \/ GetFlow(r, f) PROVE OnePlace'
    BY <1>c, <1>2, <1>3 DEF Approve, GetFlow, AutoAdvances, Approvals
  <1>d. ASSUME NEW f \in Flows, Deny(r, f) PROVE OnePlace'
    BY <1>d, <1>2, <1>3 DEF Deny, States
  <1>e. ASSUME NEW f \in Flows, LoginMFA(r, f) PROVE OnePlace'
    BY <1>e, <1>2, <1>3 DEF LoginMFA, AutoAdvances, Approvals, States
  <1>f. ASSUME NEW f \in Flows, NEW t \in Tokens, LoginMagic(r, f, t) PROVE OnePlace'
    <2> DEFINE used == [Approved(flows[f], "magic") EXCEPT !.magicLinkUsed = TRUE]
    <2>1. /\ flows[f] # None /\ flows[f].state = "mfa_pending" /\ UNCHANGED minted
          /\ Begin(r, "magic", f, used, "write", None)
      BY <1>f DEF LoginMagic
    <2>2. used.authCode = None
      BY <2>1, <1>3 DEF Approved, FlowRecord
    <2> HIDE DEF used
    <2> QED
      BY <2>1, <2>2, <1>2
  <1>g. ASSUME NEW f \in Flows, Notify(r, f) PROVE OnePlace'
    BY <1>g, <1>2, <1>3 DEF Notify, Pending
  <1>h. ASSUME NEW f \in Flows, NEW op \in RequestOps, WebAuthnCeremony(r, f, op)
        PROVE  OnePlace'
    <2>1. flows[f] # None /\ flows[f].state = "webauthn_pending"
      BY <1>h, StoredRecord DEF WebAuthnCeremony, Consistent, SessionWhilePending
    <2> QED
      BY <1>h, <2>1, <1>2, <1>3 DEF WebAuthnCeremony
  <1> QED
    BY <1>1, <1>a, <1>b, <1>c, <1>d, <1>e, <1>f, <1>g, <1>h DEF BeginRequest

(* A request that moves on without storing its flow keeps its code or      *)
(* drops it.                                                               *)
LEMMA ProceedVacates ==
    ASSUME IInv, NEW r \in Reqs, NEW q \in Request, req' = [req EXCEPT ![r] = q],
           \/ q.pc \notin {"readUser", "saveUser1", "write"}
           \/ /\ req[r].pc \in {"readUser", "saveUser1", "write"}
              /\ q.snap.authCode = req[r].snap.authCode
           \/ q.snap.authCode = None
    PROVE  \A s \in Reqs : Carried(s)' \in {Carried(s), None}
  <1>1. req \in [Reqs -> Request]
    BY DEF IInv, TypeOK
  <1>2. ASSUME NEW s \in Reqs PROVE Carried(s)' \in {Carried(s), None}
    <2>1. CASE s = r
      BY <1>1, <2>1 DEF Carried
    <2>2. CASE s # r
      BY <1>1, <2>2 DEF Carried
    <2> QED
      BY <2>1, <2>2
  <1> QED
    BY <1>2

LEMMA StepVacates ==
    ASSUME IInv, NEW r \in Reqs, NEW pc \in PCs,
           NEW snap \in FlowRecord \cup {None}, NEW usr \in UserRecord \cup {None},
           \/ Finish(r)
           \/ /\ Proceed(r, pc, snap, usr)
              /\ \/ pc \notin {"readUser", "saveUser1", "write"}
                 \/ /\ req[r].pc \in {"readUser", "saveUser1", "write"}
                    /\ snap.authCode = req[r].snap.authCode
                 \/ snap.authCode = None
    PROVE  \A s \in Reqs : Carried(s)' \in {Carried(s), None}
  <1>1. req[r] \in Request /\ req \in [Reqs -> Request]
    BY DEF IInv, TypeOK
  <1>2. CASE Finish(r)
    BY <1>2, IdleCarries, ProceedVacates DEF Finish, Idle
  <1>3. CASE Proceed(r, pc, snap, usr)
    <2> DEFINE p == [req[r] EXCEPT !.pc = pc, !.snap = snap, !.usr = usr]
    <2>1. p \in Request /\ p.pc = pc /\ p.snap = snap
      BY <1>1 DEF Request
    <2>2. req' = [req EXCEPT ![r] = p]
      BY <1>1, <1>3 DEF Proceed
    <2>3. CASE Finish(r)
      BY <1>2, <2>3
    <2> HIDE DEF p
    <2> QED
      BY <1>2, <2>1, <2>2, ProceedVacates
  <1> QED
    BY <1>2, <1>3

(* What a handler makes of its copy after reading the user keeps the code. *)
LEMMA SameCode ==
    ASSUME NEW rec \in FlowRecord, NEW u, NEW usr, NEW t
    PROVE  /\ Picked(rec, u, usr).authCode = rec.authCode
           /\ Notified(rec, usr, t).authCode = rec.authCode
           /\ [rec EXCEPT !.webAuthnSession = TRUE].authCode = rec.authCode
           /\ [rec EXCEPT !.webAuthnSession = FALSE].authCode = rec.authCode
           /\ Asserted(rec).authCode = rec.authCode
  BY DEF Asserted, Picked, MoveTo, MarkTerminal, Notified, Approved, FlowRecord

LEMMA StoreStepOnePlace ==
    ASSUME IInv, OnePlace, NEW r \in Reqs, Write(r)
    PROVE  OnePlace'
  <1> DEFINE snap == req[r].snap
  <1>0. PICK f \in Flows : f = req[r].flow
    BY DEF Write, IInv, RequestsCarry, Carries, CarriesFlow
  <1>1. /\ req[r].pc = "write" /\ UNCHANGED <<minted, redeemed>>
        /\ snap \in FlowRecord /\ Consistent(snap)
        /\ req \in [Reqs -> Request] /\ req[r] \in Request
        /\ flows \in [Flows -> FlowRecord \cup {None}]
    BY DEF Write, IInv, TypeOK, RequestsCarry, Carries, CarriesFlow
  <1>2. CASE ~UpdateFinds(f)
    <2>1. Finish(r) /\ UNCHANGED flows
      BY <1>0, <1>2 DEF Write
    <2>2. \A s \in Reqs : Carried(s)' \in {Carried(s), None}
      BY <1>1, <2>1, IdleCarries, ProceedVacates DEF Finish, Idle
    <2>3. \A g \in Flows : Stored(g)' \in {Stored(g), None}
      BY <2>1 DEF Stored
    <2> QED
      BY <1>1, <2>2, <2>3, VacatedKeepsOnePlace
  <1>3. CASE UpdateFinds(f)
    <2>1. flows' = [flows EXCEPT ![f] = snap]
      BY <1>0, <1>3 DEF Write
    <2>2. Stored(f)' = Carried(r)
      BY <1>1, <2>1, NoneAssumption DEF Stored, Carried
    <2>3. \A g \in Flows : g # f => Stored(g)' = Stored(g)
      BY <1>1, <2>1 DEF Stored
    <2>4. \/ /\ CompletesToo(req[r].op, snap)
             /\ Proceed(r, "write", MoveTo(snap, "complete"), None)
          \/ req' = [req EXCEPT ![r] = [req[r] EXCEPT !.pc = "loadUser", !.snap = None,
                                                     !.user = snap.userID]]
          \/ Finish(r)
      BY <1>0, <1>1, <1>3 DEF Write, AfterWrite
    <2>5. \A s \in Reqs : s # r => Carried(s)' = Carried(s)
      BY <1>1, <2>4 DEF Carried, Proceed, Finish
    <2>6. Carried(r)' = None
      <3>1. CASE /\ CompletesToo(req[r].op, snap)
                 /\ Proceed(r, "write", MoveTo(snap, "complete"), None)
        <4>1. snap.authCode = None
          BY <1>1, <3>1 DEF Consistent, Vouched, CompletesToo
        <4>2. MoveTo(snap, "complete").authCode = None
          BY <1>1, <4>1 DEF MoveTo, MarkTerminal, FlowRecord
        <4>3. req'[r].snap = MoveTo(snap, "complete") /\ req'[r].pc = "write"
          BY <1>1, <3>1 DEF Proceed, Request
        <4> QED
          BY <4>2, <4>3 DEF Carried
      <3>2. CASE req' = [req EXCEPT ![r] = [req[r] EXCEPT !.pc = "loadUser", !.snap = None,
                                                         !.user = snap.userID]]
        <4>1. req'[r].pc = "loadUser"
          BY <1>1, <3>2 DEF Request
        <4> QED
          BY <4>1 DEF Carried
      <3>3. CASE Finish(r)
        BY <1>1, <3>3 DEF Carried, Finish, Idle
      <3> QED
        BY <2>4, <3>1, <3>2, <3>3
    <2> HIDE DEF Stored, Carried, snap
    <2> QED
      BY <1>1, <2>2, <2>3, <2>5, <2>6 DEF OnePlace
  <1> QED
    BY <1>2, <1>3

LEMMA ContinueRequestOnePlace ==
    ASSUME IInv, OnePlace, NEW r \in Reqs, ContinueRequest(r)
    PROVE  OnePlace'
  <1>0. /\ req \in [Reqs -> Request] /\ req[r] \in Request /\ Carries(req[r])
    BY DEF IInv, TypeOK, RequestsCarry
  <1>1. ASSUME UNCHANGED <<flows, redeemed>>, minted \subseteq minted',
               \A s \in Reqs : Carried(s)' \in {Carried(s), None}
        PROVE  OnePlace'
    BY <1>1, VacatedKeepsOnePlace DEF Stored
  <1>2. CASE ~Write(r)
    <2>1. UNCHANGED <<flows, redeemed>> /\ minted \subseteq minted'
      BY <1>2 DEF ContinueRequest, PickUser, NotifyUser, CeremonyUser, GiveUp,
         SaveUserFirst, LoadUser, SaveUserLast
    <2>2. \A s \in Reqs : Carried(s)' \in {Carried(s), None}
      <3> DEFINE q   == req[r]
                 usr == users[q.user]
      <3>a. ASSUME PickUser(r) PROVE \A s \in Reqs : Carried(s)' \in {Carried(s), None}
        <4> DEFINE snap == Picked(q.snap, q.user, usr)
        <4>1. /\ q.pc = "readUser" /\ q.op = "selectUser" /\ usr # None
              /\ \/ Proceed(r, "saveUser1", snap, ResetNextFlow(usr))
                 \/ Proceed(r, "write", snap, None)
          BY <3>a DEF PickUser
        <4>2. /\ q.user \in Users /\ q.snap \in FlowRecord /\ Consistent(q.snap)
              /\ q.snap.state = "initiated"
          BY <1>0, <4>1 DEF Carries, CarriesFlow, CarriesUser, ReadState
        <4>3. usr \in UserRecord /\ ResetNextFlow(usr) \in UserRecord
          BY <4>1, <4>2, NextFlowAssumption DEF IInv, TypeOK, ResetNextFlow, UserRecord
        <4>4. snap \in FlowRecord
          BY <4>2, <4>3, PickedConsistent
        <4>5. snap.authCode = q.snap.authCode
          BY <4>2, SameCode
        <4> HIDE DEF snap, usr
        <4> QED
          BY <4>1, <4>3, <4>4, <4>5, StepVacates DEF PCs
      <3>b. ASSUME NEW t \in Tokens \cup {None}, NotifyUser(r, t)
            PROVE  \A s \in Reqs : Carried(s)' \in {Carried(s), None}
        <4> DEFINE snap == Notified(q.snap, usr, t)
        <4>1. /\ q.pc = "readUser" /\ NeedsSecret(q.snap, usr)
              /\ Proceed(r, "write", snap, None)
          BY <3>b DEF NotifyUser
        <4>2. q.user \in Users /\ q.snap \in FlowRecord /\ Consistent(q.snap)
          BY <1>0, <4>1 DEF Carries, CarriesFlow, CarriesUser
        <4>3. usr \in UserRecord
          BY <4>1, <4>2 DEF IInv, TypeOK, NeedsSecret
        <4>4. snap \in FlowRecord
          BY <4>1, <4>2, <4>3, NotifiedConsistent
        <4>5. snap.authCode = q.snap.authCode
          BY <4>2, SameCode
        <4> HIDE DEF snap, usr
        <4> QED
          BY <4>1, <4>4, <4>5, StepVacates DEF PCs
      <3>c. ASSUME CeremonyUser(r) PROVE \A s \in Reqs : Carried(s)' \in {Carried(s), None}
        <4> DEFINE begun == [q.snap EXCEPT !.webAuthnSession = TRUE]
                   ended == [q.snap EXCEPT !.webAuthnSession = FALSE]
                   done  == Asserted(q.snap)
                   keyed == [usr EXCEPT !.webAuthnCredentials = TRUE]
        <4>1. /\ q.pc = "readUser" /\ usr # None
              /\ \/ Proceed(r, "write", begun, None)
                 \/ Proceed(r, "saveUser1", ended, keyed)
                 \/ Proceed(r, "saveUser1", done, usr)
          BY <3>c DEF CeremonyUser
        <4>2. q.user \in Users /\ q.snap \in FlowRecord
          BY <1>0, <4>1 DEF Carries, CarriesFlow, CarriesUser
        <4>3. usr \in UserRecord /\ keyed \in UserRecord
          BY <4>1, <4>2 DEF IInv, TypeOK, UserRecord
        <4>4. begun \in FlowRecord /\ ended \in FlowRecord /\ done \in FlowRecord
          <5>1. begun \in FlowRecord
            BY <4>2 DEF FlowRecord
          <5>2. ended \in FlowRecord
            BY <4>2 DEF FlowRecord
          <5>3. Approved(q.snap, "webauthn") \in FlowRecord
            BY <4>2 DEF FlowRecord, Approved, States, Approvals
          <5>4. done \in FlowRecord
            BY <5>3 DEF FlowRecord, Asserted
          <5> QED
            BY <5>1, <5>2, <5>4
        <4>5. /\ begun.authCode = q.snap.authCode /\ ended.authCode = q.snap.authCode
              /\ done.authCode = q.snap.authCode
          BY <4>2, SameCode
        <4> HIDE DEF begun, ended, done, keyed, usr
        <4> QED
          BY <4>1, <4>3, <4>4, <4>5, StepVacates DEF PCs
      <3>d. ASSUME Finish(r) PROVE \A s \in Reqs : Carried(s)' \in {Carried(s), None}
        BY <1>0, <3>d, IdleCarries, ProceedVacates DEF Finish, Idle
      <3>e. ASSUME SaveUserFirst(r) PROVE \A s \in Reqs : Carried(s)' \in {Carried(s), None}
        <4>1. q.pc = "saveUser1" /\ (Finish(r) \/ Proceed(r, "write", q.snap, None))
          BY <3>e DEF SaveUserFirst
        <4>2. q.snap \in FlowRecord
          BY <1>0, <4>1 DEF Carries, CarriesFlow
        <4> QED
          BY <4>1, <4>2, StepVacates DEF PCs
      <3>f. ASSUME LoadUser(r) PROVE \A s \in Reqs : Carried(s)' \in {Carried(s), None}
        <4>1. \/ Finish(r)
              \/ /\ usr # None
                 /\ Proceed(r, "saveUser2", None, ResetNextFlow(usr))
          BY <3>f DEF LoadUser
        <4>2. q.user \in Users
          BY <1>0, <3>f DEF LoadUser, Carries, CarriesUser
        <4>3. usr # None => ResetNextFlow(usr) \in UserRecord
          BY <4>2, NextFlowAssumption DEF IInv, TypeOK, ResetNextFlow, UserRecord
        <4> HIDE DEF usr
        <4> QED
          BY <3>d, <4>1, <4>3, StepVacates DEF PCs
      <3> QED
        BY <1>2, <3>a, <3>b, <3>c, <3>d, <3>e, <3>f DEF ContinueRequest, GiveUp, SaveUserLast
    <2> QED
      BY <1>1, <2>1, <2>2
  <1> QED
    BY <1>2, StoreStepOnePlace

LEMMA EnvironmentOnePlace ==
    ASSUME IInv, OnePlace, Environment
    PROVE  OnePlace'
  <1>0. flows \in [Flows -> FlowRecord \cup {None}] /\ age \in [Flows -> Ages]
    BY DEF IInv, TypeOK
  <1>1. ASSUME UNCHANGED <<req, minted, redeemed>>,
               \A f \in Flows : Stored(f)' \in {Stored(f), None}
        PROVE  OnePlace'
    BY <1>1, VacatedKeepsOnePlace DEF Carried
  <1>a. ASSUME NEW f \in Flows, NEW b \in BOOLEAN, CreateFlow(f, b) PROVE OnePlace'
    <2>1. \A g \in Flows : Stored(g)' \in {Stored(g), None}
      BY <1>0, <1>a DEF CreateFlow, NewFlow, Stored
    <2> QED
      BY <1>a, <1>1, <2>1 DEF CreateFlow
  <1>b. ASSUME UNCHANGED <<flows, req, minted, redeemed>> PROVE OnePlace'
    BY <1>1, <1>b DEF Stored
  <1>c. ASSUME DeleteExpired PROVE OnePlace'
    BY <1>1, <1>c DEF DeleteExpired, Stored
  <1>d. ASSUME NEW f \in Flows, NEW c \in Codes, ConsumeAuthCode(f, c) PROVE OnePlace'
    <2>1. /\ Stored(f) = c /\ c # None /\ flows[f] \in FlowRecord
          /\ redeemed' = redeemed \cup {c} /\ UNCHANGED <<req, minted>>
      BY <1>0, <1>d, NoneAssumption DEF ConsumeAuthCode, Stored
    <2>2. flows'[f].authCode = None
      BY <1>0, <1>d, <2>1 DEF ConsumeAuthCode, FlowRecord
    <2>3. \A g \in Flows : g # f => flows'[g] = flows[g]
      BY <1>0, <1>d DEF ConsumeAuthCode
    <2>4. Stored(f)' = None /\ \A g \in Flows : g # f => Stored(g)' = Stored(g)
      BY <2>2, <2>3 DEF Stored
    <2>5. \A r \in Reqs : Carried(r)' = Carried(r)
      BY <2>1 DEF Carried
    <2> HIDE DEF Stored, Carried
    <2> QED
      BY <2>1, <2>4, <2>5 DEF OnePlace
  <1>e. ASSUME Crash PROVE OnePlace'
    <2>1. \A r \in Reqs : Carried(r)' = None
      BY <1>e DEF Crash, Carried, Idle
    <2> QED
      BY <1>e, <2>1, VacatedKeepsOnePlace DEF Crash, Stored
  <1> QED
    BY <1>a, <1>b, <1>c, <1>d, <1>e DEF Environment, TimePasses, PutUser, DeleteUser

(* An authorization code is accepted at most once, whatever requests hold  *)
(* copies of the flow: the copies that carry a code all carry a code of    *)
(* their own.                                                              *)
THEOREM CodeRedeemedOnce == Spec => []CodeOnce
  <1>1. Init => OnePlace
    BY DEF Init, OnePlace, Stored, Carried, Idle
  <1>2. IInv /\ OnePlace /\ [Next]_vars => OnePlace'
    <2> SUFFICES ASSUME IInv, OnePlace, [Next]_vars PROVE OnePlace'
      OBVIOUS
    <2>1. CASE Next
      BY <2>1, BeginRequestOnePlace, ContinueRequestOnePlace, EnvironmentOnePlace DEF Next
    <2>2. CASE UNCHANGED vars
      BY <2>2, VacatedKeepsOnePlace DEF vars, Stored, Carried
    <2> QED
      BY <2>1, <2>2
  <1>3. IInv /\ OnePlace => CodeOnce
    <2> SUFFICES ASSUME IInv, OnePlace, NEW f \in Flows, flows[f] # None
                 PROVE  flows[f].authCode \notin redeemed
      BY DEF CodeOnce
    <2>1. CASE flows[f].authCode = None
      BY <2>1, NoneAssumption DEF IInv, TypeOK
    <2>2. CASE flows[f].authCode # None
      BY <2>2 DEF OnePlace, Stored
    <2> QED
      BY <2>1, <2>2
  <1> QED
    BY <1>1, <1>2, <1>3, Invariance, PTL DEF Spec

-----------------------------------------------------------------------------
(* The life of a flow.  Handlers write whole records, so a stale copy can  *)
(* take a flow back to where it was, and what a client sees then is no     *)
(* path through validTransitions.  It is one as long as no two requests    *)
(* hold copies of the same flow: a copy then differs from the flow by what *)
(* its own request did, and by the code the token endpoint took away.      *)

OneRequestPerFlow ==
    \A r, s \in Reqs :
        r # s /\ req[r].pc \in HoldsCopy /\ req[s].pc \in HoldsCopy
            => req[r].flow # req[s].flow

OneAtATime == \E r : Reqs = {r}

(* One change a client can see, or none.                                   *)
Leads(old, new) ==
    \/ old = new
    \/ CanTransition(old, new)
    \/ CanTransition(old, "user_picked") /\ CanTransition("user_picked", new)

SamePick(rec, snap) ==
    /\ snap.userID = rec.userID
    /\ snap.method = rec.method
    /\ snap.scenario = rec.scenario

(* What writing the copy may do to the record and age of its flow.         *)
Current(q, rec, a) ==
    /\ a # "unborn"
    /\ q.pc # "readUser" => q.snap.state # "initiated"
    /\ rec # None =>
         /\ Leads(rec.state, q.snap.state)
         /\ q.pc = "readUser" => q.snap.state = rec.state
         /\ rec.userID # None => SamePick(rec, q.snap)

UnbornAbsent == \A f \in Flows : age[f] = "unborn" => flows[f] = None
UnpickedFirst ==
    \A f \in Flows :
        flows[f] # None /\ flows[f].state = "initiated" => flows[f].userID = None
CopiesCurrent ==
    \A r \in Reqs : req[r].pc \in HoldsCopy =>
        Current(req[r], flows[req[r].flow], age[req[r].flow])

LifeInv == UnbornAbsent /\ UnpickedFirst /\ CopiesCurrent

(* A step that leaves the flows alone and gives one request a copy that is *)
(* current.                                                                *)
LEMMA CopyKeepsCurrent ==
    ASSUME IInv, LifeInv, NEW r \in Reqs, NEW q,
           q.pc \in HoldsCopy => Current(q, flows[q.flow], age[q.flow]),
           req' = [req EXCEPT ![r] = q], UNCHANGED <<flows, age>>
    PROVE  LifeInv'
  <1>0. req \in [Reqs -> Request]
    BY DEF IInv, TypeOK
  <1>1. \A s \in Reqs : req'[s].pc \in HoldsCopy
            => Current(req'[s], flows[req'[s].flow], age[req'[s].flow])
    BY <1>0 DEF LifeInv, CopiesCurrent
  <1> QED
    BY <1>1 DEF LifeInv, UnbornAbsent, UnpickedFirst, CopiesCurrent

LEMMA BeginCurrent ==
    ASSUME IInv, LifeInv, NEW r \in Reqs, NEW op, NEW f \in Flows, NEW snap, NEW pc, NEW u,
           Begin(r, op, f, snap, pc, u), flows[f] # None,
           Leads(flows[f].state, snap.state),
           pc = "readUser" => snap.state = flows[f].state,
           pc # "readUser" => snap.state # "initiated",
           flows[f].userID # None => SamePick(flows[f], snap)
    PROVE  LifeInv'
  <1> DEFINE q == [pc |-> pc, op |-> op, flow |-> f, snap |-> snap, user |-> u, usr |-> None]
  <1>1. q.pc = pc /\ q.snap = snap /\ q.flow = f
    OBVIOUS
  <1>2. req' = [req EXCEPT ![r] = q] /\ UNCHANGED <<flows, age>>
    BY DEF Begin
  <1>3. age[f] # "unborn"
    BY DEF LifeInv, UnbornAbsent
  <1> HIDE DEF q
  <1>4. Current(q, flows[q.flow], age[q.flow])
    BY <1>1, <1>3 DEF Current
  <1> QED
    BY <1>2, <1>4, CopyKeepsCurrent

LEMMA ProceedCurrent ==
    ASSUME IInv, LifeInv, NEW r \in Reqs, NEW snap, NEW pc, NEW usr,
           Proceed(r, pc, snap, usr), UNCHANGED <<flows, age>>,
           req[r].pc \in HoldsCopy, pc # "readUser", snap.state # "initiated",
           LET rec == flows[req[r].flow]
           IN  rec # None => /\ Leads(rec.state, snap.state)
                             /\ rec.userID # None => SamePick(rec, snap)
    PROVE  LifeInv'
  <1> DEFINE q == [req[r] EXCEPT !.pc = pc, !.snap = snap, !.usr = usr]
  <1>1. req[r] \in Request
    BY DEF IInv, TypeOK
  <1>2. q.pc = pc /\ q.snap = snap /\ q.flow = req[r].flow
    BY <1>1 DEF Request
  <1>3. req' = [req EXCEPT ![r] = q]
    BY DEF Proceed
  <1>4. age[req[r].flow] # "unborn"
    BY DEF LifeInv, CopiesCurrent, Current
  <1> HIDE DEF q
  <1>5. Current(q, flows[q.flow], age[q.flow])
    BY <1>2, <1>4 DEF Current
  <1> QED
    BY <1>3, <1>5, CopyKeepsCurrent

LEMMA FinishCurrent ==
    ASSUME IInv, LifeInv, NEW r \in Reqs, Finish(r), UNCHANGED <<flows, age>>
    PROVE  LifeInv'
  <1>1. Idle.pc \notin HoldsCopy
    BY DEF Idle, HoldsCopy
  <1> QED
    BY <1>1, CopyKeepsCurrent DEF Finish

(* The changes the handlers make to the copies they read.                  *)
LEMMA StepsLead ==
    /\ \A s \in States : Leads(s, s)
    /\ \A s \in Pending : Leads(s, "mfa_approved") /\ Leads(s, "mfa_denied")
    /\ Leads("mfa_approved", "complete")
    /\ \A s \in {"error", "webauthn_pending", "mfa_pending", "complete"} :
          Leads("initiated", s)
  BY DEF Leads, CanTransition, validTransitions, States, Pending

LEMMA BeginRequestCurrent ==
    ASSUME IInv, LifeInv, NEW r \in Reqs, BeginRequest(r)
    PROVE  LifeInv'
  <1>1. PICK f \in Flows :
          \/ \E u \in Users : SelectUser(r, f, u)
          \/ \E codeGiven \in BOOLEAN : VerifyMFA(r, f, codeGiven)
          \/ Approve(r, f)
          \/ Deny(r, f)
          \/ GetFlow(r, f)
          \/ LoginMFA(r, f)
          \/ \E t \in Tokens : LoginMagic(r, f, t)
          \/ Notify(r, f)
          \/ \E op \in RequestOps : WebAuthnCeremony(r, f, op)
          \/ \E c \in Codes : AuthorizeComplete(r, f, c)
    BY DEF BeginRequest
  <1>2. flows[f] # None
    BY <1>1 DEF SelectUser, VerifyMFA, Approve, Deny, GetFlow, LoginMFA, LoginMagic, Notify,
       WebAuthnCeremony, AuthorizeComplete
  <1> DEFINE rec == flows[f]
  <1>3. rec \in FlowRecord /\ rec.state \in States /\ SamePick(rec, rec)
    BY <1>2, StoredRecord DEF FlowRecord, SamePick
  <1>4. ASSUME NEW op, NEW u, Begin(r, op, f, rec, "readUser", u) PROVE LifeInv'
    BY <1>2, <1>3, <1>4, StepsLead, BeginCurrent
  <1>5. ASSUME NEW op, NEW snap, Begin(r, op, f, snap, "write", None),
               Leads(rec.state, snap.state), snap.state # "initiated", SamePick(rec, snap)
        PROVE  LifeInv'
    BY <1>2, <1>5, BeginCurrent
  <1>6. ASSUME NEW by
        PROVE  SamePick(rec, Approved(rec, by)) /\ Approved(rec, by).state = "mfa_approved"
    BY <1>3 DEF SamePick, Approved, FlowRecord
  <1>7. ASSUME NEW s \in States
        PROVE  SamePick(rec, MoveTo(rec, s)) /\ MoveTo(rec, s).state = s
    BY <1>3 DEF SamePick, MoveTo, MarkTerminal, FlowRecord
  <1>a. ASSUME NEW u \in Users, SelectUser(r, f, u) PROVE LifeInv'
    BY <1>4, <1>a DEF SelectUser
  <1>b. ASSUME NEW given \in BOOLEAN, VerifyMFA(r, f, given) PROVE LifeInv'
    <2> DEFINE tried    == [rec EXCEPT !.attempts = @ + 1]
               rejected == \/ tried.scenario = "mfa_fail" /\ tried.attempts = 1
                           \/ ~given
               snap     == IF rejected THEN tried ELSE Approved(tried, "verify")
    <2>1. rec.state = "mfa_pending" /\ Begin(r, "verify", f, snap, "write", None)
      BY <1>b DEF VerifyMFA
    <2>2. SamePick(rec, tried) /\ tried.state = "mfa_pending"
      BY <1>3, <2>1 DEF SamePick, FlowRecord
    <2>3. /\ SamePick(rec, Approved(tried, "verify"))
          /\ Approved(tried, "verify").state = "mfa_approved"
      BY <1>3 DEF SamePick, Approved, FlowRecord
    <2>4. SamePick(rec, snap) /\ snap.state \in {"mfa_pending", "mfa_approved"}
      BY <2>2, <2>3
    <2> HIDE DEF snap
    <2>5. Leads(rec.state, snap.state) /\ snap.state # "initiated"
      BY <2>1, <2>4, StepsLead DEF Pending, States
    <2> QED
      BY <1>5, <2>1, <2>4, <2>5
  <1>c. ASSUME Approve(r, f) PROVE LifeInv'
    <2>1. Leads(rec.state, "mfa_approved")
      BY <1>c, StepsLead DEF Approve, Pending
    <2> QED
      BY <1>5, <1>6, <1>c, <2>1 DEF Approve
  <1>d. ASSUME Deny(r, f) PROVE LifeInv'
    <2>1. Leads(rec.state, "mfa_denied") /\ "mfa_denied" \in States
      BY <1>d, StepsLead DEF Deny, Pending, States
    <2> QED
      BY <1>5, <1>7, <1>d, <2>1 DEF Deny
  <1>e. ASSUME AutoAdvances(f, rec) PROVE Leads(rec.state, "mfa_approved")
    BY <1>e, StepsLead DEF AutoAdvances, Pending
  <1>f. ASSUME GetFlow(r, f) PROVE LifeInv'
    BY <1>5, <1>6, <1>e, <1>f DEF GetFlow
  <1>g. ASSUME LoginMFA(r, f) PROVE LifeInv'
    <2>1. CASE /\ AutoAdvances(f, rec)
               /\ Begin(r, "loginMFA", f, Approved(rec, "auto"), "write", None)
      BY <1>5, <1>6, <1>e, <2>1
    <2>2. CASE /\ rec.state = "mfa_approved"
               /\ Begin(r, "loginMFA", f, MoveTo(rec, "complete"), "write", None)
      BY <1>5, <1>7, <2>2, StepsLead DEF States
    <2> QED
      BY <1>g, <2>1, <2>2 DEF LoginMFA
  <1>h. ASSUME NEW t \in Tokens, LoginMagic(r, f, t) PROVE LifeInv'
    <2> DEFINE used == [Approved(rec, "magic") EXCEPT !.magicLinkUsed = TRUE]
    <2>1. rec.state = "mfa_pending" /\ Begin(r, "magic", f, used, "write", None)
      BY <1>h DEF LoginMagic
    <2>2. SamePick(rec, used) /\ used.state = "mfa_approved"
      BY <1>3 DEF SamePick, Approved, FlowRecord
    <2> HIDE DEF used
    <2> QED
      BY <1>5, <2>1, <2>2, StepsLead DEF Pending
  <1>i. ASSUME Notify(r, f) PROVE LifeInv'
    BY <1>4, <1>i DEF Notify
  <1>j. ASSUME NEW op \in RequestOps, WebAuthnCeremony(r, f, op) PROVE LifeInv'
    BY <1>4, <1>j DEF WebAuthnCeremony
  <1>k. ASSUME NEW c \in Codes, AuthorizeComplete(r, f, c) PROVE LifeInv'
    <2> DEFINE coded == [rec EXCEPT !.authCode = c]
    <2>1. rec.state = "complete" /\ Begin(r, "authorizeComplete", f, coded, "write", None)
      BY <1>k DEF AuthorizeComplete
    <2>2. SamePick(rec, coded) /\ coded.state = "complete"
      BY <1>3, <2>1 DEF SamePick, FlowRecord
    <2> HIDE DEF coded
    <2> QED
      BY <1>3, <1>5, <2>1, <2>2, StepsLead
  <1> QED
    BY <1>1, <1>a, <1>b, <1>c, <1>d, <1>f, <1>g, <1>h, <1>i, <1>j, <1>k

(* The store takes a copy; the copies of other requests are of other flows. *)
LEMMA WriteCurrent ==
    ASSUME IInv, LifeInv, OneRequestPerFlow, NEW r \in Reqs, Write(r)
    PROVE  LifeInv'
  <1> DEFINE f    == req[r].flow
             snap == req[r].snap
  <1>1. /\ req \in [Reqs -> Request] /\ flows \in [Flows -> FlowRecord \cup {None}]
        /\ req[r].pc = "write" /\ f \in Flows /\ snap \in FlowRecord
        /\ age' = age /\ age[f] # "unborn" /\ snap.state # "initiated"
    BY DEF IInv, TypeOK, RequestsCarry, Carries, CarriesFlow, Write, LifeInv, CopiesCurrent,
       Current, HoldsCopy
  <1>2. UnbornAbsent' /\ UnpickedFirst'
    <2>1. flows' = flows \/ flows' = [flows EXCEPT ![f] = snap]
      BY DEF Write
    <2> QED
      BY <1>1, <2>1 DEF LifeInv, UnbornAbsent, UnpickedFirst
  <1>3. ASSUME NEW q, req' = [req EXCEPT ![r] = q],
               q.pc \in HoldsCopy => Current(q, flows'[q.flow], age[q.flow]),
               flows' = flows \/ flows' = [flows EXCEPT ![f] = snap]
        PROVE  CopiesCurrent'
    <2> SUFFICES ASSUME NEW s \in Reqs, req'[s].pc \in HoldsCopy
                 PROVE  Current(req'[s], flows'[req'[s].flow], age'[req'[s].flow])
      BY DEF CopiesCurrent
    <2>1. CASE s = r
      BY <1>1, <1>3, <2>1
    <2>2. CASE s # r
      <3>1. req'[s] = req[s]
        BY <1>1, <1>3, <2>2
      <3>2. req[s].flow # f
        BY <1>1, <2>2, <3>1 DEF OneRequestPerFlow, HoldsCopy
      <3>3. req[s].flow \in Flows
        BY <2>2, <3>1 DEF IInv, RequestsCarry, Carries, CarriesFlow, HoldsCopy
      <3>4. flows'[req[s].flow] = flows[req[s].flow]
        BY <1>1, <1>3, <3>2, <3>3
      <3> QED
        BY <1>1, <3>1, <3>4 DEF LifeInv, CopiesCurrent
    <2> QED
      BY <2>1, <2>2
  <1>4. CASE Finish(r)
    <2>1. Idle.pc \notin HoldsCopy
      BY DEF Idle, HoldsCopy
    <2>2. flows' = flows \/ flows' = [flows EXCEPT ![f] = snap]
      BY DEF Write
    <2> QED
      BY <1>2, <1>3, <1>4, <2>1, <2>2 DEF Finish, LifeInv
  <1>5. CASE /\ flows' = [flows EXCEPT ![f] = snap]
             /\ CompletesToo(req[r].op, snap)
             /\ Proceed(r, "write", MoveTo(snap, "complete"), None)
    <2> DEFINE new == MoveTo(snap, "complete")
               q == [req[r] EXCEPT !.pc = "write", !.snap = new, !.usr = None]
    <2>1. SamePick(snap, new) /\ new.state = "complete" /\ snap.state = "mfa_approved"
      BY <1>1, <1>5 DEF SamePick, MoveTo, MarkTerminal, FlowRecord, CompletesToo
    <2>2. q.pc = "write" /\ q.snap = new /\ q.flow = f
      BY <1>1 DEF Request
    <2>3. req' = [req EXCEPT ![r] = q]
      BY <1>5 DEF Proceed
    <2>4. flows'[f] = snap
      BY <1>1, <1>5
    <2> HIDE DEF q, new
    <2>5. Current(q, flows'[q.flow], age[q.flow])
      BY <1>1, <2>1, <2>2, <2>4, StepsLead DEF Current
    <2> QED
      BY <1>2, <1>3, <1>5, <2>3, <2>5 DEF LifeInv
  <1>6. CASE /\ flows' = [flows EXCEPT ![f] = snap]
             /\ req' = [req EXCEPT ![r] = [@ EXCEPT !.pc = "loadUser", !.snap = None,
                                                    !.user = snap.userID]]
    <2> DEFINE q == [req[r] EXCEPT !.pc = "loadUser", !.snap = None, !.user = snap.userID]
    <2>1. q.pc \notin HoldsCopy
      BY <1>1 DEF Request, HoldsCopy
    <2>2. req' = [req EXCEPT ![r] = q]
      BY <1>6
    <2> HIDE DEF q
    <2> QED
      BY <1>2, <1>3, <1>6, <2>1, <2>2 DEF LifeInv
  <1> QED
    BY <1>4, <1>5, <1>6 DEF Write, AfterWrite

LEMMA ContinueRequestCurrent ==
    ASSUME IInv, LifeInv, OneRequestPerFlow, NEW r \in Reqs, ContinueRequest(r)
    PROVE  LifeInv'
  <1> DEFINE snap == req[r].snap
             rec  == flows[req[r].flow]
  <1>1. ASSUME req[r].pc \in {"readUser", "saveUser1"}
        PROVE  /\ snap \in FlowRecord /\ req[r].pc \in HoldsCopy
               /\ Current(req[r], rec, age[req[r].flow])
    BY <1>1 DEF IInv, RequestsCarry, Carries, CarriesFlow, LifeInv, CopiesCurrent, HoldsCopy
  <1>2. ASSUME req[r].pc = "readUser", NEW new, NEW pc, pc # "readUser", NEW usr,
               Proceed(r, pc, new, usr), UNCHANGED <<flows, age>>,
               new.state # "initiated", Leads(snap.state, new.state), SamePick(snap, new)
        PROVE  LifeInv'
    <2>1. rec # None => /\ Leads(rec.state, new.state)
                        /\ rec.userID # None => SamePick(rec, new)
      BY <1>1, <1>2 DEF Current, SamePick
    <2> QED
      BY <1>1, <1>2, <2>1, ProceedCurrent
  <1>a. ASSUME PickUser(r) PROVE LifeInv'
    <2> DEFINE usr == users[req[r].user]
               new == Picked(snap, req[r].user, usr)
    <2>1. /\ req[r].pc = "readUser" /\ snap.state = "initiated"
          /\ req[r].flow \in Flows /\ snap \in FlowRecord
      BY <1>a DEF PickUser, IInv, RequestsCarry, Carries, CarriesFlow, ReadState
    <2>2. new.state \in {"error", "webauthn_pending", "mfa_pending", "complete"}
      <3>1. \A sc, m : StateAfterPick(sc, m)
                \in {"error", "webauthn_pending", "mfa_pending", "complete"}
        BY DEF StateAfterPick
      <3> QED
        BY <2>1, <3>1 DEF Picked, MoveTo, MarkTerminal, FlowRecord
    <2>3. rec # None => rec.state = "initiated" /\ rec.userID = None
      BY <1>1, <2>1 DEF Current, LifeInv, UnpickedFirst
    <2>4. /\ UNCHANGED <<flows, age>>
          /\ \/ Proceed(r, "saveUser1", new, ResetNextFlow(usr))
             \/ Proceed(r, "write", new, None)
      BY <1>a DEF PickUser
    <2>5. new.state # "initiated" /\ Leads("initiated", new.state)
      BY <2>2, StepsLead
    <2>6. req[r].pc \in HoldsCopy
      BY <2>1 DEF HoldsCopy
    <2> HIDE DEF new, usr
    <2> QED
      BY <2>3, <2>4, <2>5, <2>6, ProceedCurrent
  <1>b. ASSUME NEW t \in Tokens \cup {None}, NotifyUser(r, t) PROVE LifeInv'
    <2> DEFINE new == Notified(snap, users[req[r].user], t)
    <2>1. /\ req[r].pc = "readUser" /\ snap.state \in Pending
          /\ UNCHANGED <<flows, age>> /\ Proceed(r, "write", new, None)
      BY <1>b DEF NotifyUser, IInv, RequestsCarry, Carries, ReadState
    <2>2. SamePick(snap, new) /\ new.state = snap.state
      BY <1>1, <2>1 DEF Notified, SamePick, FlowRecord
    <2> HIDE DEF new
    <2> QED
      BY <1>2, <2>1, <2>2, StepsLead DEF Pending, States
  <1>c. ASSUME CeremonyUser(r) PROVE LifeInv'
    <2>1. /\ req[r].pc = "readUser" /\ snap.state = "webauthn_pending"
          /\ UNCHANGED <<flows, age>>
      BY <1>c DEF CeremonyUser, IInv, RequestsCarry, Carries, ReadState
    <2>2. ASSUME NEW b \in BOOLEAN
          PROVE  LET new == [snap EXCEPT !.webAuthnSession = b]
                 IN  SamePick(snap, new) /\ new.state = "webauthn_pending"
      BY <1>1, <2>1 DEF SamePick, FlowRecord
    <2>3. SamePick(snap, Asserted(snap)) /\ Asserted(snap).state = "mfa_approved"
      BY <1>1, <2>1 DEF SamePick, Asserted, Approved, FlowRecord
    <2>4. \E usr : \E pc \in {"write", "saveUser1"} :
              \/ Proceed(r, pc, [snap EXCEPT !.webAuthnSession = TRUE], usr)
              \/ Proceed(r, pc, [snap EXCEPT !.webAuthnSession = FALSE], usr)
              \/ Proceed(r, pc, Asserted(snap), usr)
      BY <1>c DEF CeremonyUser
    <2>5. /\ Leads("webauthn_pending", "webauthn_pending")
          /\ Leads("webauthn_pending", "mfa_approved")
      BY StepsLead DEF Pending, States
    <2> DEFINE begun == [snap EXCEPT !.webAuthnSession = TRUE]
               ended == [snap EXCEPT !.webAuthnSession = FALSE]
               done  == Asserted(snap)
    <2>6. /\ SamePick(snap, begun) /\ begun.state = "webauthn_pending"
          /\ SamePick(snap, ended) /\ ended.state = "webauthn_pending"
      BY <2>2
    <2>7. SamePick(snap, done) /\ done.state = "mfa_approved"
      BY <2>3
    <2>8. PICK pc \in {"write", "saveUser1"} : \E usr :
             \/ Proceed(r, pc, begun, usr)
             \/ Proceed(r, pc, ended, usr)
             \/ Proceed(r, pc, done, usr)
      BY <2>4
    <2> HIDE DEF begun, ended, done
    <2> QED
      BY <1>2, <2>1, <2>5, <2>6, <2>7, <2>8
  <1>d. ASSUME GiveUp(r) PROVE LifeInv'
    BY <1>d, FinishCurrent DEF GiveUp
  <1>e. ASSUME SaveUserFirst(r) PROVE LifeInv'
    <2>1. /\ UNCHANGED <<flows, age>> /\ req[r].pc = "saveUser1"
          /\ Finish(r) \/ Proceed(r, "write", snap, None)
      BY <1>e DEF SaveUserFirst
    <2>2. /\ snap.state # "initiated"
          /\ rec # None => /\ Leads(rec.state, snap.state)
                           /\ rec.userID # None => SamePick(rec, snap)
      BY <1>1, <2>1 DEF Current
    <2> QED
      BY <1>1, <2>1, <2>2, FinishCurrent, ProceedCurrent
  <1>f. ASSUME LoadUser(r) PROVE LifeInv'
    <2>1. UNCHANGED <<flows, age>>
      BY <1>f DEF LoadUser
    <2>2. CASE Finish(r)
      BY <2>1, <2>2, FinishCurrent
    <2>3. ASSUME NEW usr, Proceed(r, "saveUser2", None, usr) PROVE LifeInv'
      <3> DEFINE q == [req[r] EXCEPT !.pc = "saveUser2", !.snap = None, !.usr = usr]
      <3>1. req[r] \in Request
        BY DEF IInv, TypeOK
      <3>2. q.pc \notin HoldsCopy
        BY <3>1 DEF Request, HoldsCopy
      <3>3. req' = [req EXCEPT ![r] = q]
        BY <2>3 DEF Proceed
      <3> HIDE DEF q
      <3> QED
        BY <2>1, <3>2, <3>3, CopyKeepsCurrent
    <2> QED
      BY <1>f, <2>2, <2>3 DEF LoadUser
  <1>g. ASSUME SaveUserLast(r) PROVE LifeInv'
    BY <1>g, FinishCurrent DEF SaveUserLast
  <1> QED
    BY <1>a, <1>b, <1>c, <1>d, <1>e, <1>f, <1>g, WriteCurrent DEF ContinueRequest

(* What happens around a request: flows are created and removed, codes are *)
(* taken away, and no flow becomes unborn again.                           *)
LEMMA EnvironmentCurrent ==
    ASSUME IInv, LifeInv, Environment
    PROVE  LifeInv'
  <1>0. /\ flows \in [Flows -> FlowRecord \cup {None}]
        /\ age \in [Flows -> Ages]
        /\ \A r \in Reqs : req[r].pc \in HoldsCopy => req[r].flow \in Flows
    BY DEF IInv, TypeOK, RequestsCarry, Carries, CarriesFlow, HoldsCopy
  <1>1. \A r \in Reqs : req'[r] = req[r] \/ req'[r] = Idle
    BY DEF Environment, CreateFlow, TimePasses, PutUser, DeleteUser, DeleteExpired,
       ConsumeAuthCode, Crash
  <1>2. ASSUME \A f \in Flows :
                  \/ flows'[f] = flows[f]
                  \/ flows'[f] = None
                  \/ /\ flows[f] # None
                     /\ flows'[f].state = flows[f].state
                     /\ SamePick(flows[f], flows'[f])
                  \/ /\ age[f] = "unborn" /\ age'[f] # "unborn"
                     /\ flows'[f].userID = None,
               \A f \in Flows : age'[f] = "unborn" => age[f] = "unborn"
        PROVE  LifeInv'
    <2>1. UnbornAbsent'
      BY <1>2 DEF LifeInv, UnbornAbsent
    <2>2. UnpickedFirst'
      BY <1>2 DEF LifeInv, UnpickedFirst, SamePick
    <2>3. ASSUME NEW r \in Reqs, req'[r].pc \in HoldsCopy
          PROVE  Current(req'[r], flows'[req'[r].flow], age'[req'[r].flow])
      <3>1. req'[r] = req[r]
        BY <1>1, <2>3 DEF Idle, HoldsCopy
      <3> DEFINE q == req[r]
                 f == q.flow
      <3>2. f \in Flows /\ Current(q, flows[f], age[f])
        BY <1>0, <2>3, <3>1 DEF LifeInv, CopiesCurrent
      <3>3. Current(q, flows'[f], age'[f])
        BY <1>2, <3>2 DEF Current, SamePick
      <3> QED
        BY <3>1, <3>3
    <2> QED
      BY <2>1, <2>2, <2>3 DEF LifeInv, CopiesCurrent
  <1>a. ASSUME NEW f \in Flows, NEW b \in BOOLEAN, CreateFlow(f, b) PROVE LifeInv'
    <2>1. flows'[f].userID = None /\ age[f] = "unborn" /\ age'[f] = "fresh"
      BY <1>0, <1>a DEF CreateFlow, NewFlow
    <2>2. \A g \in Flows : g # f => flows'[g] = flows[g] /\ age'[g] = age[g]
      BY <1>0, <1>a DEF CreateFlow
    <2> QED
      BY <1>2, <2>1, <2>2
  <1>b. ASSUME NEW f \in Flows, TimePasses(f) PROVE LifeInv'
    BY <1>0, <1>2, <1>b DEF TimePasses
  <1>c. ASSUME UNCHANGED <<flows, age>> PROVE LifeInv'
    BY <1>2, <1>c
  <1>d. ASSUME DeleteExpired PROVE LifeInv'
    BY <1>2, <1>d DEF DeleteExpired
  <1>e. ASSUME NEW f \in Flows, NEW c \in Codes, ConsumeAuthCode(f, c) PROVE LifeInv'
    <2>1. /\ flows[f] \in FlowRecord /\ age' = age
          /\ flows' = [flows EXCEPT ![f].authCode = None]
      BY <1>0, <1>e DEF ConsumeAuthCode
    <2>2. flows'[f].state = flows[f].state /\ SamePick(flows[f], flows'[f]) /\ flows[f] # None
      BY <1>0, <1>e, <2>1 DEF FlowRecord, SamePick, ConsumeAuthCode
    <2>3. \A g \in Flows : g # f => flows'[g] = flows[g]
      BY <1>0, <2>1
    <2> QED
      BY <1>2, <2>1, <2>2, <2>3
  <1> QED
    BY <1>a, <1>b, <1>c, <1>d, <1>e DEF Environment, PutUser, DeleteUser, Crash

(* Requests served one at a time never meet on a flow.                     *)
LEMMA OneAtATimeSuffices ==
    ASSUME OneAtATime
    PROVE  OneRequestPerFlow
  BY DEF OneAtATime, OneRequestPerFlow

LEMMA LifeInvariance == Spec /\ []OneRequestPerFlow => []LifeInv
  <1>1. Init => LifeInv
    BY DEF Init, LifeInv, UnbornAbsent, UnpickedFirst, CopiesCurrent, HoldsCopy, Idle
  <1>2. IInv /\ LifeInv /\ OneRequestPerFlow /\ [Next]_vars => LifeInv'
    <2> SUFFICES ASSUME IInv, LifeInv, OneRequestPerFlow, [Next]_vars PROVE LifeInv'
      OBVIOUS
    <2>1. CASE UNCHANGED vars
      BY <2>1 DEF vars, LifeInv, UnbornAbsent, UnpickedFirst, CopiesCurrent
    <2> QED
      BY <2>1, BeginRequestCurrent, ContinueRequestCurrent, EnvironmentCurrent DEF Next
  <1> QED
    BY <1>1, <1>2, Invariance, PTL DEF Spec

(* Without overlapping requests on it, a flow leads the life its package   *)
(* promises: what LoginFlow does to the flows, crashes included, is a      *)
(* behaviour of FlowLifecycle.                                             *)
THEOREM FlowsFollowLifecycle == Spec /\ []OneRequestPerFlow => FollowsLifecycle
  <1>1. Init => Lifecycle!LifecycleInit
    BY DEF Init, Lifecycle!LifecycleInit, status
  <1>2. IInv /\ LifeInv /\ [Next]_vars => [Lifecycle!LifecycleNext]_status
    <2> SUFFICES ASSUME IInv, LifeInv, [Next]_vars
                 PROVE  Lifecycle!LifecycleNext \/ status' = status
      OBVIOUS
    <2>0. flows \in [Flows -> FlowRecord \cup {None}] /\ age \in [Flows -> Ages]
      BY DEF IInv, TypeOK
    <2>1. /\ None \notin FlowRecord
          /\ \A rec \in FlowRecord : rec.state \in States
          /\ "absent" \notin States
      BY NoneAssumption DEF FlowRecord, States
    <2>2. \A f \in Flows : flows[f] # None =>
             flows[f] \in FlowRecord /\ status[f] = flows[f].state
      BY <2>0 DEF status
    <2>a. ASSUME NEW g \in Flows, NEW b \in BOOLEAN, CreateFlow(g, b)
          PROVE  Lifecycle!Start(g)
      <3>1. flows[g] = None /\ age[g] = "unborn"
        BY <2>a DEF CreateFlow, LifeInv, UnbornAbsent
      <3>2. /\ flows'[g] = NewFlow(b)
            /\ \A f \in Flows : f # g => flows'[f] = flows[f] /\ age'[f] = age[f]
        BY <2>0, <2>a DEF CreateFlow
      <3>3. NewFlow(b) # None /\ NewFlow(b).state = "initiated"
        BY <2>1, NewConsistent DEF NewFlow
      <3>4. status[g] = "absent"
        BY <3>1 DEF status
      <3>5. status' = [status EXCEPT ![g] = "initiated"]
        BY <3>2, <3>3 DEF status
      <3> QED
        BY <3>4, <3>5 DEF Lifecycle!Start
    <2>b. ASSUME NEW r \in Reqs, Write(r)
          PROVE  (\E f \in Flows : Lifecycle!Advance(f)) \/ status' = status
      <3> DEFINE f    == req[r].flow
                 snap == req[r].snap
      <3>1. /\ f \in Flows /\ snap \in FlowRecord /\ age' = age
            /\ Current(req[r], flows[f], age[f])
        BY <2>b DEF Write, IInv, RequestsCarry, Carries, CarriesFlow, LifeInv, CopiesCurrent,
           HoldsCopy
      <3>2. CASE flows' = flows
        BY <3>1, <3>2 DEF status
      <3>3. CASE flows[f] # None /\ flows' = [flows EXCEPT ![f] = snap]
        <4>1. Leads(flows[f].state, snap.state)
          BY <3>1, <3>3 DEF Current
        <4>2. snap # None /\ snap.state \in States
          BY <2>1, <3>1
        <4>3. status' = [status EXCEPT ![f] = snap.state]
          <5>1. flows'[f] = snap /\ \A g \in Flows : g # f => flows'[g] = flows[g]
            BY <2>0, <3>1, <3>3
          <5> QED
            BY <3>1, <4>2, <5>1 DEF status
        <4>4. status[f] = flows[f].state /\ status[f] \in States
          BY <2>1, <2>2, <3>1, <3>3
        <4>5. CASE snap.state = flows[f].state
          BY <3>1, <4>3, <4>4, <4>5 DEF status
        <4>6. CASE snap.state # flows[f].state
          BY <3>1, <4>1, <4>2, <4>3, <4>4, <4>6 DEF Leads, Lifecycle!Advance,
             Lifecycle!CanTransition, CanTransition, Lifecycle!validTransitions,
             validTransitions, Lifecycle!States, States, Lifecycle!Pending, Pending
        <4> QED
          BY <4>5, <4>6
      <3> QED
        BY <2>b, <3>2, <3>3 DEF Write, UpdateFinds
    <2>c. ASSUME DeleteExpired PROVE Lifecycle!LifecycleNext
      <3> DEFINE fs == {f \in Flows : flows[f] # None /\ age[f] = "expired"}
      <3>1. fs \in SUBSET Flows /\ fs # {}
        BY <2>c DEF DeleteExpired
      <3>2. \A f \in fs : status[f] \in States
        BY <2>1, <2>2
      <3>3. status' = [f \in Flows |-> IF f \in fs THEN "removed" ELSE status[f]]
        <4>1. /\ age' = age
              /\ \A f \in Flows : flows'[f] = IF age[f] = "expired" THEN None ELSE flows[f]
          BY <2>c DEF DeleteExpired
        <4> QED
          BY <4>1 DEF status
      <3> QED
        BY <3>1, <3>2, <3>3 DEF Lifecycle!LifecycleNext, Lifecycle!Remove,
           Lifecycle!States, States
    <2>d. ASSUME NEW f \in Flows, NEW c \in Codes, ConsumeAuthCode(f, c) PROVE status' = status
      <3>1. /\ flows[f] # None /\ flows[f] \in FlowRecord /\ age' = age
            /\ flows' = [flows EXCEPT ![f].authCode = None]
        BY <2>0, <2>d DEF ConsumeAuthCode
      <3>2. flows'[f].state = flows[f].state /\ flows'[f] \in FlowRecord
        BY <2>0, <3>1 DEF FlowRecord
      <3>3. \A g \in Flows : g # f => flows'[g] = flows[g]
        BY <2>0, <3>1
      <3> QED
        BY <2>1, <3>1, <3>2, <3>3 DEF status
    <2>e. ASSUME UNCHANGED flows, age' = age PROVE status' = status
      BY <2>e DEF status
    <2>f. ASSUME NEW f \in Flows, TimePasses(f) PROVE status' = status
      <3>1. flows' = flows /\ \A g \in Flows : (age'[g] = "unborn") <=> (age[g] = "unborn")
        BY <2>0, <2>f DEF TimePasses
      <3> QED
        BY <3>1 DEF status
    <2>g. \/ UNCHANGED <<flows, age>>
          \/ \E f \in Flows, b \in BOOLEAN : CreateFlow(f, b)
          \/ \E r \in Reqs : Write(r)
          \/ DeleteExpired
          \/ \E f \in Flows, c \in Codes : ConsumeAuthCode(f, c)
          \/ \E f \in Flows : TimePasses(f)
      <3>1. ASSUME NEW r \in Reqs, BeginRequest(r) PROVE UNCHANGED <<flows, age>>
        BY <3>1 DEF BeginRequest, SelectUser, VerifyMFA, Approve, Deny, GetFlow, LoginMFA,
           LoginMagic, Notify, WebAuthnCeremony, AuthorizeComplete, Begin
      <3>2. ASSUME NEW r \in Reqs, ContinueRequest(r)
            PROVE  UNCHANGED <<flows, age>> \/ Write(r)
        BY <3>2 DEF ContinueRequest, PickUser, NotifyUser, CeremonyUser, GiveUp,
           SaveUserFirst, LoadUser, SaveUserLast
      <3>3. ASSUME Environment
            PROVE  \/ UNCHANGED <<flows, age>>
                   \/ \E f \in Flows, b \in BOOLEAN : CreateFlow(f, b)
                   \/ DeleteExpired
                   \/ \E f \in Flows, c \in Codes : ConsumeAuthCode(f, c)
                   \/ \E f \in Flows : TimePasses(f)
        BY <3>3 DEF Environment, PutUser, DeleteUser, Crash
      <3> QED
        BY <3>1, <3>2, <3>3 DEF Next, vars
    <2> QED
      BY <2>a, <2>b, <2>c, <2>d, <2>e, <2>f, <2>g DEF Lifecycle!LifecycleNext
  <1> QED
    BY <1>1, <1>2, LifeInvariance, Invariance, PTL
       DEF Spec, FollowsLifecycle, Lifecycle!LifecycleSpec

(* How far a flow has come.  The two second factors are one stage.         *)
Stage ==
  [s \in Lifecycle!States \cup Lifecycle!Gone |->
     CASE s = "absent"       -> 0
       [] s = "initiated"    -> 1
       [] s = "user_picked"  -> 2
       [] s \in Pending      -> 3
       [] s = "mfa_approved" -> 4
       [] s \in Terminal     -> 5
       [] s = "removed"      -> 6]

MovesOn == \A f \in Flows : status'[f] # status[f] => Stage[status'[f]] > Stage[status[f]]

LEMMA TransitionsMoveOn ==
  ASSUME NEW from \in Lifecycle!States, NEW to, Lifecycle!CanTransition(from, to)
  PROVE  to \in Lifecycle!States /\ Stage[to] > Stage[from]
  BY DEF Lifecycle!CanTransition, Lifecycle!validTransitions, Lifecycle!States,
     Lifecycle!Pending, Lifecycle!Gone, Stage, Pending, Terminal

LEMMA LifecycleMovesOn ==
  ASSUME Lifecycle!LifecycleTypeOK, [Lifecycle!LifecycleNext]_status
  PROVE  Lifecycle!LifecycleTypeOK' /\ MovesOn
  <1> DEFINE All == Lifecycle!States \cup Lifecycle!Gone
  <1>1. /\ \A s \in All : Stage[s] \in 0..6
        /\ \A s \in Lifecycle!States : Stage[s] \in 1..5
        /\ Stage["absent"] = 0 /\ Stage["initiated"] = 1 /\ Stage["removed"] = 6
        /\ {"absent", "removed"} \subseteq All /\ "initiated" \in Lifecycle!States
    BY DEF Stage, Lifecycle!States, Lifecycle!Gone, Lifecycle!Pending, Pending, Terminal
  <1>2. status \in [Flows -> All]
    BY DEF Lifecycle!LifecycleTypeOK
  <1>3. ASSUME NEW f \in Flows, Lifecycle!Start(f)
        PROVE  Lifecycle!LifecycleTypeOK' /\ MovesOn
    <2>1. /\ status' = [status EXCEPT ![f] = "initiated"]
          /\ Stage[status[f]] < Stage["initiated"]
      BY <1>1, <1>3 DEF Lifecycle!Start
    <2> QED
      BY <1>1, <1>2, <2>1 DEF Lifecycle!LifecycleTypeOK, MovesOn
  <1>4. ASSUME NEW f \in Flows, Lifecycle!Advance(f)
        PROVE  Lifecycle!LifecycleTypeOK' /\ MovesOn
    <2>1. PICK s \in Lifecycle!States :
             /\ \/ Lifecycle!CanTransition(status[f], s)
                \/ /\ Lifecycle!CanTransition(status[f], "user_picked")
                   /\ Lifecycle!CanTransition("user_picked", s)
             /\ status' = [status EXCEPT ![f] = s]
      BY <1>4 DEF Lifecycle!Advance
    <2>2. status[f] \in Lifecycle!States
      BY <1>4 DEF Lifecycle!Advance
    <2>3. "user_picked" \in Lifecycle!States
      BY DEF Lifecycle!States
    <2>4. Stage[s] > Stage[status[f]]
      <3>1. CASE Lifecycle!CanTransition(status[f], s)
        BY <2>2, <3>1, TransitionsMoveOn
      <3>2. CASE /\ Lifecycle!CanTransition(status[f], "user_picked")
                 /\ Lifecycle!CanTransition("user_picked", s)
        <4>1. Stage["user_picked"] > Stage[status[f]] /\ Stage[s] > Stage["user_picked"]
          BY <2>2, <2>3, <3>2, TransitionsMoveOn
        <4> QED
          BY <1>1, <2>2, <2>3, <4>1
      <3> QED
        BY <2>1, <3>1, <3>2
    <2> QED
      BY <1>2, <2>1, <2>4 DEF Lifecycle!LifecycleTypeOK, MovesOn
  <1>5. ASSUME NEW fs \in SUBSET Flows, Lifecycle!Remove(fs)
        PROVE  Lifecycle!LifecycleTypeOK' /\ MovesOn
    <2>1. /\ status' = [f \in Flows |-> IF f \in fs THEN "removed" ELSE status[f]]
          /\ \A f \in fs : Stage["removed"] > Stage[status[f]]
      BY <1>1, <1>5 DEF Lifecycle!Remove
    <2> QED
      BY <1>1, <1>2, <2>1 DEF Lifecycle!LifecycleTypeOK, MovesOn
  <1>6. CASE status' = status
    BY <1>6 DEF Lifecycle!LifecycleTypeOK, MovesOn
  <1> QED
    BY <1>3, <1>4, <1>5, <1>6 DEF Lifecycle!LifecycleNext

(* What the abstract life says of the concrete flows: none ever returns to *)
(* a state it has left, so a flow changes its state six times at most,     *)
(* from its creation to its removal.                                       *)
THEOREM FlowsOnlyMoveOn == Spec /\ []OneRequestPerFlow => [][MovesOn]_status
  <1>1. Lifecycle!LifecycleInit => Lifecycle!LifecycleTypeOK
    BY DEF Lifecycle!LifecycleInit, Lifecycle!LifecycleTypeOK, Lifecycle!Gone
  <1>2. FollowsLifecycle => [][MovesOn]_status
    BY <1>1, LifecycleMovesOn, PTL DEF FollowsLifecycle, Lifecycle!LifecycleSpec
  <1> QED
    BY <1>2, FlowsFollowLifecycle, PTL

(* Who logs in, with what method and under what scenario, stays as it was  *)
(* picked, whatever the one request on the flow and the system around it   *)
(* do.                                                                     *)
THEOREM PicksAreFinal == Spec /\ []OneRequestPerFlow => PickIsFinal
  <1> DEFINE PickKept ==
        \A f \in Flows :
          flows[f] # None /\ flows[f].userID # None /\ flows'[f] # None =>
              /\ flows'[f].userID = flows[f].userID
              /\ flows'[f].method = flows[f].method
              /\ flows'[f].scenario = flows[f].scenario
  <1>1. IInv /\ LifeInv /\ [Next]_vars => PickKept
    <2> SUFFICES ASSUME IInv, LifeInv, [Next]_vars, NEW f \in Flows, flows[f] # None,
                        flows[f].userID # None, flows'[f] # None
                 PROVE  SamePick(flows[f], flows'[f])
      BY DEF SamePick
    <2>0. flows \in [Flows -> FlowRecord \cup {None}]
      BY DEF IInv, TypeOK
    <2>1. CASE UNCHANGED flows
      BY <2>1 DEF SamePick
    <2>2. ASSUME NEW g \in Flows, NEW b \in BOOLEAN, CreateFlow(g, b)
          PROVE  SamePick(flows[f], flows'[f])
      <3>1. f # g
        BY <2>2 DEF CreateFlow, LifeInv, UnbornAbsent
      <3> QED
        BY <2>0, <2>2, <3>1 DEF CreateFlow, SamePick
    <2>3. ASSUME NEW r \in Reqs, Write(r) PROVE SamePick(flows[f], flows'[f])
      <3>1. req[r].flow \in Flows /\ Current(req[r], flows[req[r].flow], age[req[r].flow])
        BY <2>3 DEF Write, IInv, RequestsCarry, Carries, CarriesFlow, LifeInv, CopiesCurrent,
           HoldsCopy
      <3>2. flows' = flows \/ flows' = [flows EXCEPT ![req[r].flow] = req[r].snap]
        BY <2>3 DEF Write
      <3> QED
        BY <2>0, <3>1, <3>2 DEF Current, SamePick
    <2>4. CASE DeleteExpired
      BY <2>4 DEF DeleteExpired, SamePick
    <2>5. ASSUME NEW g \in Flows, NEW c \in Codes, ConsumeAuthCode(g, c)
          PROVE  SamePick(flows[f], flows'[f])
      BY <2>0, <2>5 DEF ConsumeAuthCode, FlowRecord, SamePick
    <2> QED
      BY <2>1, <2>2, <2>3, <2>4, <2>5, FlowChanges DEF vars
  <1>2. Spec /\ []OneRequestPerFlow => [][PickKept]_vars
    BY <1>1, LifeInvariance, Invariance, PTL DEF Spec
  <1> QED
    BY <1>2 DEF PickIsFinal

-----------------------------------------------------------------------------
(* The scenario of a login is used up.  What is owed between two requests  *)
(* is nothing: a special login is stored either after its user was reset,  *)
(* or by the request that goes on to reset the user.                       *)

OrdinaryWrites == AdminWrites \subseteq Methods \X {"normal"}

(* A login that has to use its scenario up.                                *)
Special(rec) ==
    rec.state \in LoggedIn /\ rec.scenario # "normal" /\ rec.approvedBy # "auto"

(* The user is gone or back to normal, in the user store us.               *)
UsedUp(us, u) == us[u] # None => us[u].nextFlow = "normal"

(* The request still has to reset the user.                                *)
Owes(q, u) == q.pc \in {"loadUser", "saveUser2"} /\ q.user = u

Settled(fs, us, q) ==
    \A f \in Flows :
        fs[f] # None /\ Special(fs[f])
            => UsedUp(us, fs[f].userID) \/ Owes(q, fs[f].userID)

(* The request will store a special login and do nothing for it later.     *)
Unpaid(q) == Special(q.snap) /\ ~UsesUpScenario(q.op, q.snap)

(* The copies of a request undo no reset and store no unpaid login.        *)
KeepsSettled(fs, us, q) ==
    /\ q.pc = "saveUser2" => q.usr.nextFlow = "normal"
    /\ q.pc = "saveUser1" =>
          \/ q.usr.nextFlow = "normal"
          \/ \A f \in Flows : fs[f] # None /\ Special(fs[f]) => fs[f].userID # q.user
    /\ q.pc = "saveUser1" /\ Unpaid(q) =>
          q.usr.nextFlow = "normal" /\ q.user = q.snap.userID
    /\ q.pc = "write" /\ Unpaid(q) => UsedUp(us, q.snap.userID)

DebtInv ==
    \A r \in Reqs :
        Settled(flows, users, req[r]) /\ KeepsSettled(flows, users, req[r])

(* A step of the only request.                                             *)
LEMMA OneStep ==
    ASSUME OneAtATime, IInv, NEW r \in Reqs, NEW q, req' = [req EXCEPT ![r] = q],
           Settled(flows', users', q), KeepsSettled(flows', users', q)
    PROVE  DebtInv'
  <1>1. req' = [s \in Reqs |-> q]
    BY DEF OneAtATime, IInv, TypeOK
  <1> QED
    BY <1>1 DEF DebtInv

LEMMA BeginSettles ==
    ASSUME OneAtATime, IInv, DebtInv, NEW r \in Reqs, NEW op, NEW f, NEW snap, NEW u,
           NEW pc \in {"readUser", "write"}, Begin(r, op, f, snap, pc, u),
           pc = "write" /\ Special(snap) /\ ~UsesUpScenario(op, snap)
               => UsedUp(users, snap.userID)
    PROVE  DebtInv'
  <1> DEFINE q == [pc |-> pc, op |-> op, flow |-> f, snap |-> snap, user |-> u, usr |-> None]
  <1>1. q.pc = pc /\ q.snap = snap /\ q.op = op
    OBVIOUS
  <1>2. req[r].pc = "idle" /\ req' = [req EXCEPT ![r] = q] /\ UNCHANGED <<flows, users>>
    BY DEF Begin
  <1>3. Settled(flows, users, req[r])
    BY DEF DebtInv
  <1> HIDE DEF q
  <1>4. Settled(flows, users, q)
    BY <1>2, <1>3 DEF Settled, Owes
  <1>5. KeepsSettled(flows, users, q)
    BY <1>1 DEF KeepsSettled, Unpaid
  <1> QED
    BY <1>2, <1>4, <1>5, OneStep

LEMMA BeginRequestSettles ==
    ASSUME OneAtATime, IInv, DebtInv, NEW r \in Reqs, BeginRequest(r)
    PROVE  DebtInv'
  <1>1. PICK f \in Flows :
          \/ \E u \in Users : SelectUser(r, f, u)
          \/ \E codeGiven \in BOOLEAN : VerifyMFA(r, f, codeGiven)
          \/ Approve(r, f)
          \/ Deny(r, f)
          \/ GetFlow(r, f)
          \/ LoginMFA(r, f)
          \/ \E t \in Tokens : LoginMagic(r, f, t)
          \/ Notify(r, f)
          \/ \E op \in RequestOps : WebAuthnCeremony(r, f, op)
          \/ \E c \in Codes : AuthorizeComplete(r, f, c)
    BY DEF BeginRequest
  <1>2. flows[f] # None
    BY <1>1 DEF SelectUser, VerifyMFA, Approve, Deny, GetFlow, LoginMFA, LoginMagic, Notify,
       WebAuthnCeremony, AuthorizeComplete
  <1> DEFINE rec == flows[f]
  <1>3. rec \in FlowRecord
    BY <1>2, StoredRecord
  <1>4. ASSUME NEW op, NEW u, Begin(r, op, f, rec, "readUser", u) PROVE DebtInv'
    BY <1>4, BeginSettles
  <1>5. ASSUME NEW op, NEW snap, Begin(r, op, f, snap, "write", None),
               Special(snap) /\ ~UsesUpScenario(op, snap) => UsedUp(users, snap.userID)
        PROVE  DebtInv'
    BY <1>5, BeginSettles
  <1>6. ASSUME NEW op, NEW snap, Begin(r, op, f, snap, "write", None),
               Special(snap) => Special(rec), snap.userID = rec.userID
        PROVE  DebtInv'
    <2>1. Special(rec) => UsedUp(users, rec.userID)
      BY <1>2, <1>6 DEF DebtInv, Settled, Owes, Begin
    <2> QED
      BY <1>5, <1>6, <2>1
  <1>a. ASSUME NEW u \in Users, SelectUser(r, f, u) PROVE DebtInv'
    BY <1>4, <1>a DEF SelectUser
  <1>b. ASSUME NEW given \in BOOLEAN, VerifyMFA(r, f, given) PROVE DebtInv'
    <2> DEFINE tried    == [rec EXCEPT !.attempts = @ + 1]
               rejected == \/ tried.scenario = "mfa_fail" /\ tried.attempts = 1
                           \/ ~given
               snap     == IF rejected THEN tried ELSE Approved(tried, "verify")
    <2>1. rec.state = "mfa_pending" /\ Begin(r, "verify", f, snap, "write", None)
      BY <1>b DEF VerifyMFA
    <2>2. ~Special(tried)
      BY <1>3, <2>1 DEF Special, LoggedIn, FlowRecord
    <2>3. Approved(tried, "verify").state = "mfa_approved"
      BY <1>3 DEF Approved, FlowRecord
    <2>4. Special(snap) => UsesUpScenario("verify", snap)
      BY <2>2, <2>3 DEF Special, UsesUpScenario
    <2> HIDE DEF snap
    <2> QED
      BY <1>5, <2>1, <2>4
  <1>c. ASSUME Approve(r, f) PROVE DebtInv'
    <2> DEFINE snap == Approved(rec, "approve")
    <2>1. Begin(r, "approve", f, snap, "write", None)
      BY <1>c DEF Approve
    <2>2. snap.state = "mfa_approved"
      BY <1>3 DEF Approved, FlowRecord
    <2> HIDE DEF snap
    <2> QED
      BY <1>5, <2>1, <2>2 DEF Special, UsesUpScenario
  <1>d. ASSUME Deny(r, f) PROVE DebtInv'
    <2> DEFINE snap == MoveTo(rec, "mfa_denied")
    <2>1. Begin(r, "deny", f, snap, "write", None)
      BY <1>d DEF Deny
    <2>2. snap.state = "mfa_denied"
      BY <1>3 DEF MoveTo, MarkTerminal, FlowRecord
    <2> HIDE DEF snap
    <2> QED
      BY <1>5, <2>1, <2>2 DEF Special, LoggedIn
  <1>e. ~Special(Approved(rec, "auto"))
    BY <1>3 DEF Special, Approved, FlowRecord
  <1>f. ASSUME GetFlow(r, f) PROVE DebtInv'
    BY <1>5, <1>e, <1>f DEF GetFlow
  <1>g. ASSUME LoginMFA(r, f) PROVE DebtInv'
    <2> DEFINE snap == MoveTo(rec, "complete")
    <2>1. CASE Begin(r, "loginMFA", f, Approved(rec, "auto"), "write", None)
      BY <1>5, <1>e, <2>1
    <2>2. CASE rec.state = "mfa_approved" /\ Begin(r, "loginMFA", f, snap, "write", None)
      <3>1. /\ snap.userID = rec.userID /\ snap.scenario = rec.scenario
            /\ snap.approvedBy = rec.approvedBy
        BY <1>3 DEF MoveTo, MarkTerminal, FlowRecord
      <3> HIDE DEF snap
      <3> QED
        BY <1>6, <2>2, <3>1 DEF Special, LoggedIn
    <2> QED
      BY <1>g, <2>1, <2>2 DEF LoginMFA
  <1>h. ASSUME NEW t \in Tokens, LoginMagic(r, f, t) PROVE DebtInv'
    BY <1>5, <1>h DEF LoginMagic, UsesUpScenario
  <1>i. ASSUME Notify(r, f) PROVE DebtInv'
    BY <1>4, <1>i DEF Notify
  <1>j. ASSUME NEW op \in RequestOps, WebAuthnCeremony(r, f, op) PROVE DebtInv'
    BY <1>4, <1>j DEF WebAuthnCeremony
  <1>k. ASSUME NEW c \in Codes, AuthorizeComplete(r, f, c) PROVE DebtInv'
    <2> DEFINE coded == [rec EXCEPT !.authCode = c]
    <2>1. Begin(r, "authorizeComplete", f, coded, "write", None)
      BY <1>k DEF AuthorizeComplete
    <2>2. /\ coded.userID = rec.userID /\ coded.scenario = rec.scenario
          /\ coded.approvedBy = rec.approvedBy /\ coded.state = rec.state
      BY <1>3 DEF FlowRecord
    <2> HIDE DEF coded
    <2> QED
      BY <1>6, <2>1, <2>2 DEF Special
  <1> QED
    BY <1>1, <1>a, <1>b, <1>c, <1>d, <1>f, <1>g, <1>h, <1>i, <1>j, <1>k

(* The request goes on with a copy to save or to write.                    *)
LEMMA ProceedSettles ==
    ASSUME OneAtATime, IInv, NEW r \in Reqs, NEW snap, NEW usr,
           NEW pc \in {"saveUser1", "write", "saveUser2"}, Proceed(r, pc, snap, usr),
           UNCHANGED flows,
           pc # "saveUser2" => Settled(flows, users', Idle),
           pc = "saveUser2" => /\ Settled(flows, users', req[r])
                               /\ req[r].pc = "loadUser"
                               /\ usr.nextFlow = "normal",
           pc = "saveUser1" =>
              \/ usr.nextFlow = "normal"
              \/ \A f \in Flows : flows[f] # None /\ Special(flows[f])
                                    => flows[f].userID # req[r].user,
           pc = "saveUser1" /\ Special(snap) /\ ~UsesUpScenario(req[r].op, snap) =>
              usr.nextFlow = "normal" /\ req[r].user = snap.userID,
           pc = "write" /\ Special(snap) /\ ~UsesUpScenario(req[r].op, snap) =>
              UsedUp(users', snap.userID)
    PROVE  DebtInv'
  <1> DEFINE q == [req[r] EXCEPT !.pc = pc, !.snap = snap, !.usr = usr]
  <1>1. req[r] \in Request
    BY DEF IInv, TypeOK
  <1>2. /\ q.pc = pc /\ q.snap = snap /\ q.usr = usr
        /\ q.op = req[r].op /\ q.user = req[r].user
    BY <1>1 DEF Request
  <1>3. req' = [req EXCEPT ![r] = q]
    BY DEF Proceed
  <1> HIDE DEF q
  <1>4. Settled(flows', users', q)
    <2>1. CASE pc = "saveUser2"
      BY <1>2, <2>1 DEF Settled, Owes
    <2>2. CASE pc # "saveUser2"
      <3>1. Idle.pc = "idle"
        BY DEF Idle
      <3> QED
        BY <1>2, <2>2, <3>1 DEF Settled, Owes
    <2> QED
      BY <2>1, <2>2
  <1>5. KeepsSettled(flows', users', q)
    BY <1>2 DEF KeepsSettled, Unpaid
  <1> QED
    BY <1>3, <1>4, <1>5, OneStep

LEMMA FinishSettles ==
    ASSUME OneAtATime, IInv, NEW r \in Reqs, Finish(r), UNCHANGED flows,
           Settled(flows, users', Idle)
    PROVE  DebtInv'
  <1>1. Idle.pc = "idle"
    BY DEF Idle
  <1>2. KeepsSettled(flows', users', Idle)
    BY <1>1 DEF KeepsSettled
  <1>3. req' = [req EXCEPT ![r] = Idle] /\ Settled(flows', users', Idle)
    BY DEF Finish
  <1> HIDE DEF Idle
  <1> QED
    BY <1>2, <1>3, OneStep

(* Whatever is stored with its debt becomes the debt of the writer.        *)
LEMMA WriteSettles ==
    ASSUME OneAtATime, IInv, DebtInv, NEW r \in Reqs, Write(r)
    PROVE  DebtInv'
  <1> DEFINE f    == req[r].flow
             op   == req[r].op
             snap == req[r].snap
  <1>1. /\ req[r] \in Request /\ flows \in [Flows -> FlowRecord \cup {None}]
        /\ req[r].pc = "write" /\ f \in Flows /\ snap \in FlowRecord
        /\ users' = users
    BY DEF IInv, TypeOK, RequestsCarry, Carries, CarriesFlow, Write
  <1>2. \A g \in Flows : flows[g] # None /\ Special(flows[g]) => UsedUp(users, flows[g].userID)
    BY <1>1 DEF DebtInv, Settled, Owes
  <1>3. Special(snap) /\ ~UsesUpScenario(op, snap) => UsedUp(users, snap.userID)
    BY <1>1 DEF DebtInv, KeepsSettled, Unpaid
  <1>4. CASE Finish(r) /\ UNCHANGED flows
    <2>1. Settled(flows, users', Idle)
      BY <1>1, <1>2 DEF Settled
    <2> QED
      BY <1>4, <2>1, FinishSettles
  <1>5. CASE /\ flows' = [flows EXCEPT ![f] = snap]
             /\ \/ CompletesToo(op, snap) /\ Proceed(r, "write", MoveTo(snap, "complete"), None)
                \/ /\ UsesUpScenario(op, snap)
                   /\ req' = [req EXCEPT ![r] = [@ EXCEPT !.pc = "loadUser", !.snap = None,
                                                         !.user = snap.userID]]
                \/ ~UsesUpScenario(op, snap) /\ Finish(r)
    <2>1. flows'[f] = snap /\ \A g \in Flows : g # f => flows'[g] = flows[g]
      BY <1>1, <1>5
    <2>2. ASSUME NEW q, ~UsesUpScenario(op, snap) \/ Owes(q, snap.userID)
          PROVE  Settled(flows', users', q)
      BY <1>1, <1>2, <1>3, <2>1, <2>2 DEF Settled
    <2>3. CASE CompletesToo(op, snap) /\ Proceed(r, "write", MoveTo(snap, "complete"), None)
      <3> DEFINE new == MoveTo(snap, "complete")
                 q   == [req[r] EXCEPT !.pc = "write", !.snap = new, !.usr = None]
      <3>1. ~UsesUpScenario(op, snap) /\ op = "loginMFA" /\ snap.state = "mfa_approved"
        BY <2>3 DEF CompletesToo, UsesUpScenario
      <3>2. /\ new.userID = snap.userID /\ new.scenario = snap.scenario
            /\ new.approvedBy = snap.approvedBy
        BY <1>1 DEF MoveTo, MarkTerminal, FlowRecord
      <3>3. q.pc = "write" /\ q.snap = new /\ q.op = op
        BY <1>1 DEF Request
      <3>4. req' = [req EXCEPT ![r] = q]
        BY <2>3 DEF Proceed
      <3> HIDE DEF q, new
      <3>5. Special(new) => UsedUp(users', snap.userID)
        BY <1>1, <1>3, <3>1, <3>2 DEF Special, LoggedIn
      <3>6. Settled(flows', users', q)
        BY <2>2, <3>1
      <3>7. KeepsSettled(flows', users', q)
        BY <3>2, <3>3, <3>5 DEF KeepsSettled, Unpaid
      <3> QED
        BY <3>4, <3>6, <3>7, OneStep
    <2>4. CASE /\ UsesUpScenario(op, snap)
               /\ req' = [req EXCEPT ![r] = [@ EXCEPT !.pc = "loadUser", !.snap = None,
                                                      !.user = snap.userID]]
      <3> DEFINE q == [req[r] EXCEPT !.pc = "loadUser", !.snap = None, !.user = snap.userID]
      <3>1. q.pc = "loadUser" /\ q.user = snap.userID
        BY <1>1 DEF Request
      <3>2. req' = [req EXCEPT ![r] = q]
        BY <2>4
      <3> HIDE DEF q
      <3>3. Settled(flows', users', q)
        BY <2>2, <3>1 DEF Owes
      <3>4. KeepsSettled(flows', users', q)
        BY <3>1 DEF KeepsSettled
      <3> QED
        BY <3>2, <3>3, <3>4, OneStep
    <2>5. CASE ~UsesUpScenario(op, snap) /\ Finish(r)
      <3>1. Settled(flows', users', Idle) /\ req' = [req EXCEPT ![r] = Idle]
        BY <2>2, <2>5 DEF Finish
      <3>2. KeepsSettled(flows', users', Idle)
        BY DEF KeepsSettled, Idle
      <3> HIDE DEF Idle
      <3> QED
        BY <3>1, <3>2, OneStep
    <2> QED
      BY <1>5, <2>3, <2>4, <2>5
  <1> QED
    BY <1>4, <1>5 DEF Write, AfterWrite

LEMMA ContinueRequestSettles ==
    ASSUME OneAtATime, IInv, DebtInv, NEW r \in Reqs, ContinueRequest(r)
    PROVE  DebtInv'
  <1> DEFINE q    == req[r]
             snap == q.snap
             usr  == users[q.user]
  <1>0. /\ q \in Request /\ users \in [Users -> UserRecord \cup {None}]
        /\ Settled(flows, users, q) /\ KeepsSettled(flows, users, q)
        /\ Carries(q)
    BY DEF IInv, TypeOK, RequestsCarry, DebtInv
  <1>1. ASSUME q.pc \in {"readUser", "saveUser1"}
        PROVE  /\ snap \in FlowRecord /\ q.user \in Users
               /\ Settled(flows, users, Idle)
    BY <1>0, <1>1 DEF Carries, CarriesFlow, CarriesUser, Settled, Owes
  <1>a. ASSUME PickUser(r) PROVE DebtInv'
    <2> DEFINE new == Picked(snap, q.user, usr)
    <2>1. /\ q.pc = "readUser" /\ usr # None
          /\ UNCHANGED <<flows, users>>
          /\ \/ Proceed(r, "saveUser1", new, ResetNextFlow(usr))
             \/ /\ ~(new.state = "complete" /\ new.scenario # "normal")
                /\ Proceed(r, "write", new, None)
      BY <1>a DEF PickUser
    <2>2. usr \in UserRecord
      BY <1>0, <1>1, <2>1
    <2>3. ResetNextFlow(usr).nextFlow = "normal"
      BY <2>2 DEF ResetNextFlow, UserRecord
    <2>4. new.state # "mfa_approved" /\ new.userID = q.user
      <3>1. \A sc, m : StateAfterPick(sc, m) # "mfa_approved"
        BY DEF StateAfterPick
      <3> QED
        BY <1>1, <2>1, <3>1 DEF Picked, MoveTo, MarkTerminal, FlowRecord
    <2> DEFINE normal == ResetNextFlow(usr)
    <2> HIDE DEF new, normal
    <2>5. CASE Proceed(r, "saveUser1", new, normal)
      BY <1>1, <2>1, <2>3, <2>4, <2>5, ProceedSettles DEF normal
    <2>6. CASE /\ ~(new.state = "complete" /\ new.scenario # "normal")
               /\ Proceed(r, "write", new, None)
      <3>1. ~Special(new)
        BY <2>4, <2>6 DEF Special, LoggedIn
      <3> QED
        BY <1>1, <2>1, <2>6, <3>1, ProceedSettles
    <2> QED
      BY <2>1, <2>5, <2>6 DEF normal
  <1>b. ASSUME NEW t \in Tokens \cup {None}, NotifyUser(r, t) PROVE DebtInv'
    <2> DEFINE new == Notified(snap, usr, t)
    <2>1. /\ q.pc = "readUser" /\ snap.state \in Pending
          /\ UNCHANGED <<flows, users>> /\ Proceed(r, "write", new, None)
      BY <1>0, <1>b DEF NotifyUser, Carries, ReadState
    <2>2. new.state = snap.state
      BY <1>1, <2>1 DEF Notified, FlowRecord
    <2> HIDE DEF new
    <2>3. ~Special(new)
      BY <2>1, <2>2 DEF Special, LoggedIn, Pending
    <2> QED
      BY <1>1, <2>1, <2>3, ProceedSettles
  <1>c. ASSUME CeremonyUser(r) PROVE DebtInv'
    <2> DEFINE begun == [snap EXCEPT !.webAuthnSession = TRUE]
               ended == [snap EXCEPT !.webAuthnSession = FALSE]
               done  == Asserted(snap)
               keyed == [usr EXCEPT !.webAuthnCredentials = TRUE]
    <2>1. /\ q.pc = "readUser" /\ usr # None /\ UNCHANGED <<flows, users>>
          /\ \/ Proceed(r, "write", begun, None)
             \/ Proceed(r, "saveUser1", ended, keyed)
             \/ q.op = "assert" /\ Proceed(r, "saveUser1", done, usr)
          /\ q.op \in {"beginLogin", "beginRegister", "finishRegister", "assert"}
      BY <1>c DEF CeremonyUser
    <2>2. snap.state = "webauthn_pending"
      BY <1>0, <2>1 DEF Carries, ReadState
    <2>3. begun.state = "webauthn_pending" /\ ended.state = "webauthn_pending"
      BY <1>1, <2>1, <2>2 DEF FlowRecord
    <2>4. done.state = "mfa_approved"
      BY <1>1, <2>1 DEF Asserted, Approved, FlowRecord
    <2>5. keyed.nextFlow = usr.nextFlow
      BY <1>0, <1>1, <2>1 DEF UserRecord
    <2>6. \/ usr.nextFlow = "normal"
          \/ \A f \in Flows : flows[f] # None /\ Special(flows[f]) => flows[f].userID # q.user
      BY <1>0, <2>1 DEF Settled, Owes, UsedUp
    <2>7. Special(done) => UsesUpScenario("assert", done)
      BY <2>4 DEF Special, UsesUpScenario
    <2>8. Settled(flows, users', Idle)
      BY <1>1, <2>1
    <2> DEFINE u == usr
    <2> HIDE DEF begun, ended, done, keyed, u
    <2>9. ~Special(begun) /\ ~Special(ended)
      BY <2>3 DEF Special, LoggedIn
    <2>a. CASE Proceed(r, "write", begun, None)
      BY <2>1, <2>8, <2>9, <2>a, ProceedSettles
    <2>b. CASE Proceed(r, "saveUser1", ended, keyed)
      BY <2>1, <2>5, <2>6, <2>8, <2>9, <2>b, ProceedSettles
    <2>c. CASE q.op = "assert" /\ Proceed(r, "saveUser1", done, usr)
      BY <2>1, <2>6, <2>7, <2>8, <2>c, ProceedSettles
    <2> QED
      BY <2>1, <2>a, <2>b, <2>c
  <1>d. ASSUME GiveUp(r) PROVE DebtInv'
    BY <1>1, <1>d, FinishSettles DEF GiveUp
  <1>2. ASSUME StoreUser(r), q.pc \in {"saveUser1", "saveUser2"}
        PROVE  /\ \A u \in Users : u # q.user => users'[u] = users[u]
               /\ users'[q.user] = IF users[q.user] = None THEN None ELSE q.usr
    BY <1>0, <1>2 DEF StoreUser, Carries, CarriesUser
  <1>3. \A f \in Flows : flows[f] # None /\ Special(flows[f]) => flows[f].userID \in Users
    BY StoredRecord DEF Special, LoggedIn
  <1>e. ASSUME SaveUserFirst(r) PROVE DebtInv'
    <2>1. /\ q.pc = "saveUser1" /\ StoreUser(r) /\ UNCHANGED flows
          /\ Finish(r) \/ Proceed(r, "write", snap, None)
      BY <1>e DEF SaveUserFirst
    <2>2. Settled(flows, users', Idle)
      <3> SUFFICES ASSUME NEW f \in Flows, flows[f] # None, Special(flows[f])
                   PROVE  UsedUp(users', flows[f].userID)
        BY DEF Settled
      <3>1. UsedUp(users, flows[f].userID)
        BY <1>0, <2>1 DEF Settled, Owes
      <3>2. CASE flows[f].userID # q.user
        BY <1>2, <1>3, <2>1, <3>1, <3>2 DEF UsedUp
      <3>3. CASE flows[f].userID = q.user
        <4>1. q.usr.nextFlow = "normal"
          BY <1>0, <2>1, <3>3 DEF KeepsSettled
        <4> QED
          BY <1>2, <2>1, <3>3, <4>1 DEF UsedUp
      <3> QED
        BY <3>2, <3>3
    <2>3. Special(snap) /\ ~UsesUpScenario(q.op, snap) => UsedUp(users', snap.userID)
      BY <1>0, <1>2, <2>1 DEF KeepsSettled, Unpaid, UsedUp
    <2> QED
      BY <2>1, <2>2, <2>3, FinishSettles, ProceedSettles
  <1>f. ASSUME LoadUser(r) PROVE DebtInv'
    <2>1. /\ q.pc = "loadUser" /\ UNCHANGED <<flows, users>>
      BY <1>f DEF LoadUser
    <2>2. CASE usr = None /\ Finish(r)
      <3>1. Settled(flows, users', Idle)
        BY <1>0, <2>1, <2>2 DEF Settled, Owes, UsedUp
      <3> QED
        BY <2>1, <2>2, <3>1, FinishSettles
    <2>3. CASE usr # None /\ Proceed(r, "saveUser2", None, ResetNextFlow(usr))
      <3> DEFINE normal == ResetNextFlow(usr)
      <3>1. normal.nextFlow = "normal"
        <4>1. usr \in UserRecord
          BY <1>0, <2>1, <2>3 DEF Carries, CarriesUser
        <4> QED
          BY <4>1 DEF ResetNextFlow, UserRecord
      <3>2. Proceed(r, "saveUser2", None, normal)
        BY <2>3
      <3>3. Settled(flows, users', q)
        BY <1>0, <2>1
      <3> HIDE DEF normal
      <3> QED
        BY <2>1, <3>1, <3>2, <3>3, ProceedSettles
    <2> QED
      BY <1>f, <2>2, <2>3 DEF LoadUser
  <1>g. ASSUME SaveUserLast(r) PROVE DebtInv'
    <2>1. q.pc = "saveUser2" /\ StoreUser(r) /\ Finish(r) /\ UNCHANGED flows
      BY <1>g DEF SaveUserLast
    <2>2. Settled(flows, users', Idle)
      <3> SUFFICES ASSUME NEW f \in Flows, flows[f] # None, Special(flows[f])
                   PROVE  UsedUp(users', flows[f].userID)
        BY DEF Settled
      <3>1. CASE flows[f].userID = q.user
        <4>1. q.usr.nextFlow = "normal"
          BY <1>0, <2>1 DEF KeepsSettled
        <4> QED
          BY <1>2, <2>1, <3>1, <4>1 DEF UsedUp
      <3>2. CASE flows[f].userID # q.user
        BY <1>0, <1>2, <1>3, <2>1, <3>2 DEF Settled, Owes, UsedUp
      <3> QED
        BY <3>1, <3>2
    <2> QED
      BY <2>1, <2>2, FinishSettles
  <1> QED
    BY <1>a, <1>b, <1>c, <1>d, <1>e, <1>f, <1>g, WriteSettles DEF ContinueRequest

(* The administrator writes ordinary users only, and nothing else stores a *)
(* login.                                                                  *)
LEMMA EnvironmentSettles ==
    ASSUME OrdinaryWrites, "crash" \notin Ops, IInv, DebtInv, Environment
    PROVE  DebtInv'
  <1>0. /\ flows \in [Flows -> FlowRecord \cup {None}]
        /\ users \in [Users -> UserRecord \cup {None}]
    BY DEF IInv, TypeOK
  <1>1. ASSUME req' = req,
               \A f \in Flows :
                  \/ flows'[f] = flows[f]
                  \/ flows'[f] = None
                  \/ ~Special(flows'[f])
                  \/ /\ flows[f] # None /\ Special(flows[f])
                     /\ flows'[f].userID = flows[f].userID,
               \A u \in Users : UsedUp(users, u) => UsedUp(users', u)
        PROVE  DebtInv'
    <2> SUFFICES ASSUME NEW r \in Reqs
                 PROVE  Settled(flows', users', req[r]) /\ KeepsSettled(flows', users', req[r])
      BY <1>1 DEF DebtInv
    <2>1. Settled(flows, users, req[r]) /\ KeepsSettled(flows, users, req[r])
      BY DEF DebtInv
    <2>2. \A f \in Flows : flows[f] # None /\ Special(flows[f]) => flows[f].userID \in Users
      BY StoredRecord DEF Special, LoggedIn
    <2>3. req[r].pc = "write" /\ Unpaid(req[r]) => req[r].snap.userID \in Users
      BY DEF IInv, RequestsCarry, Carries, CarriesFlow, Unpaid, Special, LoggedIn,
         Consistent, UserPicked, FlowRecord
    <2>4. Settled(flows', users', req[r])
      BY <1>1, <2>1, <2>2 DEF Settled
    <2>5. KeepsSettled(flows', users', req[r])
      BY <1>1, <2>1, <2>3 DEF KeepsSettled
    <2> QED
      BY <2>4, <2>5
  <1>a. ASSUME NEW f \in Flows, NEW b \in BOOLEAN, CreateFlow(f, b) PROVE DebtInv'
    <2>1. ~Special(NewFlow(b))
      BY DEF Special, NewFlow, LoggedIn
    <2>2. /\ flows' = [flows EXCEPT ![f] = NewFlow(b)] /\ users' = users /\ req' = req
      BY <1>a DEF CreateFlow
    <2> HIDE DEF NewFlow
    <2> QED
      BY <1>0, <1>1, <2>1, <2>2
  <1>b. ASSUME UNCHANGED <<flows, users, req>> PROVE DebtInv'
    BY <1>1, <1>b
  <1>c. ASSUME NEW u \in Users, NEW m \in Methods, NEW n \in NextFlows, PutUser(u, m, n)
        PROVE  DebtInv'
    <2> DEFINE new == [mfaMethod |-> m, nextFlow |-> n, webAuthnCredentials |-> FALSE]
    <2>1. users' = [users EXCEPT ![u] = new] /\ UNCHANGED <<flows, req>>
      BY <1>c DEF PutUser
    <2>2. new.nextFlow = "normal"
      BY <1>c DEF PutUser, OrdinaryWrites
    <2> HIDE DEF new
    <2>3. \A v \in Users : UsedUp(users, v) => UsedUp(users', v)
      BY <1>0, <2>1, <2>2 DEF UsedUp
    <2> QED
      BY <1>1, <2>1, <2>3
  <1>d. ASSUME NEW u \in Users, DeleteUser(u) PROVE DebtInv'
    <2>1. users' = [users EXCEPT ![u] = None] /\ UNCHANGED <<flows, req>>
      BY <1>d DEF DeleteUser
    <2>2. \A v \in Users : UsedUp(users, v) => UsedUp(users', v)
      BY <1>0, <2>1 DEF UsedUp
    <2> QED
      BY <1>1, <2>1, <2>2
  <1>e. ASSUME DeleteExpired PROVE DebtInv'
    BY <1>1, <1>e DEF DeleteExpired
  <1>f. ASSUME NEW f \in Flows, NEW c \in Codes, ConsumeAuthCode(f, c) PROVE DebtInv'
    <2>1. /\ flows[f] \in FlowRecord /\ flows[f] # None
          /\ flows' = [flows EXCEPT ![f].authCode = None]
          /\ UNCHANGED <<users, req>>
      BY <1>0, <1>f DEF ConsumeAuthCode
    <2>2. /\ flows'[f].state = flows[f].state /\ flows'[f].userID = flows[f].userID
          /\ flows'[f].scenario = flows[f].scenario
          /\ flows'[f].approvedBy = flows[f].approvedBy
      BY <1>0, <2>1 DEF FlowRecord
    <2>3. \A g \in Flows : g # f => flows'[g] = flows[g]
      BY <1>0, <2>1
    <2>4. Special(flows'[f]) => Special(flows[f])
      BY <2>2 DEF Special
    <2> QED
      BY <1>1, <2>1, <2>2, <2>3, <2>4
  <1> QED
    BY <1>a, <1>b, <1>c, <1>d, <1>e, <1>f DEF Environment, TimePasses, Crash

(* One request at a time, no crash, an administrator who sets up no new    *)
(* scenario: then no login leaves the scenario it used behind, and the     *)
(* next login of the user is an ordinary one.                              *)
THEOREM ScenariosAreUsedUp ==
    OneAtATime /\ OrdinaryWrites /\ "crash" \notin Ops /\ Spec => []ScenarioUsedUp
  <1> SUFFICES ASSUME OneAtATime, OrdinaryWrites, "crash" \notin Ops
               PROVE  Spec => []ScenarioUsedUp
    OBVIOUS
  <1>1. Init => DebtInv
    BY DEF Init, DebtInv, Settled, KeepsSettled, Idle
  <1>2. IInv /\ DebtInv /\ [Next]_vars => DebtInv'
    <2> SUFFICES ASSUME IInv, DebtInv, [Next]_vars PROVE DebtInv'
      OBVIOUS
    <2>1. CASE UNCHANGED vars
      BY <2>1 DEF vars, DebtInv
    <2> QED
      BY <2>1, BeginRequestSettles, ContinueRequestSettles, EnvironmentSettles DEF Next
  <1>3. DebtInv => ScenarioUsedUp
    <2> SUFFICES ASSUME DebtInv, \A r \in Reqs : req[r] = Idle, NEW f \in Flows,
                        flows[f] # None, Special(flows[f])
                 PROVE  UsedUp(users, flows[f].userID)
      BY DEF ScenarioUsedUp, Special, UsedUp
    <2>1. PICK r \in Reqs : TRUE
      BY DEF OneAtATime
    <2>2. ~Owes(req[r], flows[f].userID)
      BY DEF Owes, Idle
    <2> QED
      BY <2>2 DEF DebtInv, Settled
  <1> QED
    BY <1>1, <1>2, <1>3, Invariance, PTL DEF Spec
=============================================================================
