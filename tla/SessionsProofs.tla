---------------------------- MODULE SessionsProofs ----------------------------
(***************************************************************************)
(* What TLAPS proves of Sessions for every number of users, flows, codes,  *)
(* tokens and overlapping requests, and for both back ends: its types, and *)
(* that neither an exchanged refresh token nor a redeemed code is ever     *)
(* good for a session again.  The argument is one of places: every token   *)
(* and every code handed out is in one place, the store or one request.    *)
(***************************************************************************)
EXTENDS Sessions, TLAPS

(* What a request carries at each point of its handler.                    *)
RequestShape(r) ==
    /\ req[r].pc = "findUser" =>
          /\ req[r].op \in {"code", "refresh", "saml"}
          /\ req[r].user # None
          /\ req[r].token = None
    /\ req[r].pc \in {"findUser", "create"} /\ req[r].op # "refresh" => req[r].flow # None
    /\ req[r].pc = "create" => req[r].op \in {"code", "saml"} /\ req[r].user # None
    /\ req[r].op = "saml" => req[r].token = None /\ req[r].code = None
    /\ req[r].pc = "update" => req[r].op = "refresh" /\ req[r].token # None
    /\ req[r].op = "refresh" => req[r].copy # None /\ req[r].copy.token # None
    /\ req[r].op = "refresh" => req[r].id \in 1..clock
    /\ req[r].pc \in {"drop", "delete"} => req[r].id # None
    /\ req[r].pc = "next" => req[r].op \in {"logoutUser", "logoutName", "signOut"}
    /\ req[r].pc = "delete" => req[r].op \in {"logoutUser", "logoutName", "signOut"}
    /\ req[r].op # "refresh" => req[r].copy = None
    /\ req[r].op # "code" => req[r].code = None

(* The names given so far, and the session without one.                    *)
NamesGiven ==
    /\ \A id \in Ids : Stored(id) => id <= clock
    /\ Stored(Unnamed) => sessions[Unnamed].token = None /\ sessions[Unnamed].code = None

Shape ==
    /\ TypeOK
    /\ \A r \in Reqs : RequestShape(r)
    /\ NamesGiven

(* Where a token can be.                                                   *)
TokenPlaces ==
    /\ \A id \in Ids : Stored(id) /\ sessions[id].token # None
          => /\ sessions[id].token \in minted \ exchanged
             /\ \A other \in Ids : Stored(other) /\ sessions[other].token = sessions[id].token
                   => other = id
             /\ \A r \in Reqs : req[r].op = "refresh" /\ req[r].copy.token = sessions[id].token
                   => req[r].id = id
             /\ \A r \in Reqs : req[r].token # sessions[id].token
    /\ \A r \in Reqs : req[r].token # None
          => /\ req[r].token \in minted \ exchanged
             /\ \A s \in Reqs : req[s].op = "refresh" => req[s].copy.token # req[r].token
             /\ \A s \in Reqs : req[s].token = req[r].token => s = r
    /\ \A r \in Reqs : req[r].op = "refresh" => req[r].copy.token \in minted
    /\ exchanged \subseteq minted

(* Where a code can be, and that a refresh does not move it.               *)
CodePlaces ==
    /\ \A f \in Flows : codeOf[f] # None
          => /\ codeOf[f] \in minted
             /\ \A g \in Flows : codeOf[g] = codeOf[f] => g = f
             /\ \A r \in Reqs : req[r].code # codeOf[f]
             /\ \A id \in Ids : Stored(id) => sessions[id].code # codeOf[f]
    /\ \A r \in Reqs : req[r].code # None
          => /\ req[r].code \in minted
             /\ \A s \in Reqs : req[s].code = req[r].code => s = r
             /\ \A id \in Ids : Stored(id) => sessions[id].code # req[r].code
    /\ \A id \in Ids : Stored(id) /\ sessions[id].code # None
          => /\ sessions[id].code \in minted
             /\ \A other \in Ids : Stored(other) /\ sessions[other].code = sessions[id].code
                   => other = id
    /\ \A r \in Reqs : req[r].op = "refresh" /\ Stored(req[r].id)
          => sessions[req[r].id].code = req[r].copy.code

-----------------------------------------------------------------------------
(* Types and shapes.                                                       *)

USE DEF Ids, Unnamed, Stored

(* A record for a request, and a request that has ended.                   *)
LEMMA IdleIsRequest == Idle \in Request
BY DEF Idle, Request, RequestOps

(* What a handler reads of the store is a session.                         *)
LEMMA StoredIsSession ==
    ASSUME TypeOK, NEW id \in Ids, Stored(id)
    PROVE  sessions[id] \in Session
BY DEF TypeOK

(* The sessions a logout lists.                                            *)
LEMMA ListingTyped ==
    ASSUME TypeOK
    PROVE  ListedSessions \subseteq Listed
BY StoredIsSession DEF ListedSessions, Listed, Session

(* A request moves and nothing else changes its shape or the names.        *)
LEMMA OthersKeepShape ==
    ASSUME NEW r \in Reqs, NEW q, Shape, q \in Request, req' = [req EXCEPT ![r] = q],
           clock' \in {clock, clock + 1}, RequestShape(r)'
    PROVE  /\ req' \in [Reqs -> Request]
           /\ \A s \in Reqs : RequestShape(s)'
<1>1. req' \in [Reqs -> Request]
  BY DEF Shape, TypeOK
<1>2. ASSUME NEW s \in Reqs, s # r
      PROVE  RequestShape(s)'
  <2>1. req'[s] = req[s] /\ RequestShape(s)
    BY <1>2 DEF Shape, TypeOK
  <2>2. 1..clock \subseteq 1..clock'
    BY DEF Shape, TypeOK
  <2> QED BY <2>1, <2>2 DEF RequestShape
<1> QED BY <1>1, <1>2

(* A handler that begins, goes on or ends and writes no session.           *)
LEMMA ReadingKeepsShape ==
    ASSUME NEW r \in Reqs, NEW q, Shape, q \in Request, req' = [req EXCEPT ![r] = q],
           RequestShape(r)', UNCHANGED <<sessions, clock, users, login, exchanged>>,
           minted' \subseteq Codes \cup Tokens, codeOf' \in [Flows -> Codes \cup {None}]
    PROVE  Shape'
<1>1. /\ req' \in [Reqs -> Request]
      /\ \A s \in Reqs : RequestShape(s)'
  BY OthersKeepShape
<1>2. TypeOK'
  BY <1>1 DEF Shape, TypeOK
<1>3. NamesGiven'
  BY DEF Shape, NamesGiven
<1> QED BY <1>1, <1>2, <1>3 DEF Shape

(* A handler that writes sessions under names already given.               *)
LEMMA WritingKeepsShape ==
    ASSUME NEW r \in Reqs, NEW q, Shape, q \in Request, req' = [req EXCEPT ![r] = q],
           RequestShape(r)', UNCHANGED <<clock, users, login, codeOf, minted>>,
           exchanged' \subseteq Tokens,
           sessions' \in [Ids -> Session \cup {None}],
           \A id \in Ids : sessions'[id] # None => id <= clock,
           sessions'[Unnamed] # None
               => sessions'[Unnamed].token = None /\ sessions'[Unnamed].code = None
    PROVE  Shape'
<1>1. /\ req' \in [Reqs -> Request]
      /\ \A s \in Reqs : RequestShape(s)'
  BY OthersKeepShape
<1>2. TypeOK'
  BY <1>1 DEF Shape, TypeOK
<1>3. NamesGiven'
  BY DEF Shape, NamesGiven
<1> QED BY <1>1, <1>2, <1>3 DEF Shape

(* The environment writes no request.                                      *)
LEMMA WaitingKeepsShape ==
    ASSUME Shape, UNCHANGED <<req, clock>>
    PROVE  \A s \in Reqs : RequestShape(s)'
BY DEF Shape, RequestShape

LEMMA FinishKeepsShape ==
    ASSUME NEW r \in Reqs, Shape, Finish(r)
    PROVE  /\ Idle \in Request
           /\ req' = [req EXCEPT ![r] = Idle]
           /\ RequestShape(r)'
<1>1. req'[r] = Idle
  BY DEF Finish, Shape, TypeOK
<1> QED BY <1>1, IdleIsRequest DEF Finish, RequestShape, Idle

LEMMA RedeemCodeShape ==
    ASSUME Shape, NEW r \in Reqs, NEW f \in Flows, RedeemCode(r, f)
    PROVE  Shape'
<1> DEFINE q == [Idle EXCEPT !.pc = "findUser", !.op = "code", !.user = login[f],
                             !.flow = f, !.code = codeOf[f]]
<1>1. CASE Start(r, q)
  <2>1. login[f] \in Users /\ codeOf[f] \in Codes
    BY DEF RedeemCode, Shape, TypeOK
  <2>2. q \in Request
    BY <2>1 DEF Idle, Request, RequestOps
  <2>3. req'[r] = q
    BY <1>1 DEF Start, Shape, TypeOK
  <2>4. RequestShape(r)'
    BY <2>1, <2>3, NoneAssumption DEF RequestShape, Idle
  <2>5. codeOf' \in [Flows -> Codes \cup {None}]
    BY DEF RedeemCode, Shape, TypeOK
  <2>6. minted' \subseteq Codes \cup Tokens
    BY DEF RedeemCode, Shape, TypeOK
  <2> HIDE DEF q
  <2> QED BY <1>1, <2>2, <2>4, <2>5, <2>6, ReadingKeepsShape DEF RedeemCode, Start
<1>2. CASE UNCHANGED req
  <2>1. TypeOK'
    BY <1>2 DEF RedeemCode, Shape, TypeOK
  <2>2. NamesGiven'
    BY DEF RedeemCode, Shape, NamesGiven
  <2> QED BY <1>2, <2>1, <2>2, WaitingKeepsShape DEF RedeemCode, Shape
<1> QED BY <1>1, <1>2 DEF RedeemCode

LEMMA SamlLoginShape ==
    ASSUME Shape, NEW r \in Reqs, NEW f \in Flows, SamlLogin(r, f)
    PROVE  Shape'
<1> DEFINE q == [Idle EXCEPT !.pc = "findUser", !.op = "saml", !.user = login[f],
                             !.flow = f]
<1>1. login[f] \in Users
  BY DEF Shape, TypeOK
<1>2. q \in Request
  BY <1>1 DEF Idle, Request, RequestOps
<1>3. req'[r] = q
  BY DEF SamlLogin, Start, Shape, TypeOK
<1>4. RequestShape(r)'
  BY <1>1, <1>3, NoneAssumption DEF RequestShape, Idle
<1> HIDE DEF q
<1>5. minted' \subseteq Codes \cup Tokens /\ codeOf' \in [Flows -> Codes \cup {None}]
  BY DEF SamlLogin, Shape, TypeOK
<1>6. req' = [req EXCEPT ![r] = q]
  BY DEF SamlLogin, Start, q
<1> QED BY <1>2, <1>4, <1>5, <1>6, ReadingKeepsShape DEF SamlLogin

LEMMA RefreshGrantShape ==
    ASSUME Shape, NEW r \in Reqs, NEW id \in Ids, RefreshGrant(r, id)
    PROVE  Shape'
<1>1. sessions[id] \in Session /\ sessions[id].token # None
  BY StoredIsSession DEF RefreshGrant, Shape
<1>2. id \in 1..clock
  BY BoundAssumption DEF RefreshGrant, Shape, NamesGiven, TypeOK
<1>3. RefreshWith(id) \in Request
  BY <1>1 DEF RefreshWith, Idle, Request, RequestOps, Session
<1>4. req'[r] = RefreshWith(id)
  BY DEF RefreshGrant, Start, Shape, TypeOK
<1>5. id # None /\ sessions[id].user # None
  BY <1>1, BoundAssumption, NoneAssumption DEF Session
<1>6. RequestShape(r)'
  <2>1. UNCHANGED clock
    BY DEF RefreshGrant
  <2>2. /\ req'[r].pc \in {"drop", "findUser"}
        /\ req'[r].op = "refresh"
        /\ req'[r].user = sessions[id].user
        /\ req'[r].id = id
        /\ req'[r].copy = sessions[id]
        /\ req'[r].token = None
        /\ req'[r].code = None
    BY <1>4 DEF RefreshWith, Idle
  <2> QED BY <1>1, <1>2, <1>5, <2>1, <2>2, SessionAssumption DEF RequestShape
<1>7. minted' \subseteq Codes \cup Tokens /\ codeOf' \in [Flows -> Codes \cup {None}]
  BY DEF RefreshGrant, Shape, TypeOK
<1> QED BY <1>3, <1>6, <1>7, ReadingKeepsShape DEF RefreshGrant, Start

LEMMA SignOutShape ==
    ASSUME Shape, NEW r \in Reqs, NEW op, NEW u \in Users \cup {None}, SignOut(r, op, u)
    PROVE  Shape'
<1>1. PICK found \in SUBSET Listed :
          Start(r, [Idle EXCEPT !.pc = "next", !.op = op, !.user = u, !.todo = found,
                                !.listed = IF op = "logoutUser" THEN found ELSE {}])
  BY ListingTyped DEF SignOut, Shape
<1> DEFINE q == [Idle EXCEPT !.pc = "next", !.op = op, !.user = u, !.todo = found,
                             !.listed = IF op = "logoutUser" THEN found ELSE {}]
<1>2. op \in {"logoutUser", "logoutName", "signOut"}
  BY DEF SignOut
<1>3. q \in Request
  BY <1>2 DEF Idle, Request, RequestOps
<1>4. req'[r] = q
  BY <1>1 DEF Start, Shape, TypeOK
<1>5. RequestShape(r)'
  BY <1>2, <1>4 DEF RequestShape, Idle
<1>6. req' = [req EXCEPT ![r] = q]
  BY <1>1 DEF Start
<1> HIDE DEF q
<1>7. minted' \subseteq Codes \cup Tokens /\ codeOf' \in [Flows -> Codes \cup {None}]
  BY DEF SignOut, Shape, TypeOK
<1> QED BY <1>3, <1>5, <1>6, <1>7, ReadingKeepsShape DEF SignOut

LEMMA FindUserShape ==
    ASSUME Shape, NEW r \in Reqs, NEW t \in Tokens \cup {None}, FindUser(r, t)
    PROVE  Shape'
<1>1. req[r] \in Request /\ RequestShape(r)
  BY DEF Shape, TypeOK
<1>2. CASE req[r].op = "saml" /\ UNCHANGED minted /\ req' = [req EXCEPT ![r].pc = "create"]
  <2> DEFINE q == [req[r] EXCEPT !.pc = "create"]
  <2>1. req' = [req EXCEPT ![r] = q] /\ req'[r] = q
    BY <1>2 DEF Shape, TypeOK
  <2>2. q \in Request
    BY <1>1 DEF Request
  <2>3. RequestShape(r)'
    BY <1>1, <1>2, <2>1 DEF FindUser, RequestShape, Request
  <2> HIDE DEF q
  <2>4. minted' \subseteq Codes \cup Tokens /\ codeOf' \in [Flows -> Codes \cup {None}]
    BY <1>2 DEF FindUser, Shape, TypeOK
  <2> QED BY <2>1, <2>2, <2>3, <2>4, ReadingKeepsShape DEF FindUser
<1>3. CASE /\ req[r].op \in {"code", "refresh"}
           /\ t \in Tokens \ minted
           /\ minted' = minted \cup {t}
           /\ req' = [req EXCEPT ![r].pc = IF req[r].op = "code" THEN "create" ELSE "update",
                                 ![r].token = t]
  <2>0. PICK pc \in {"create", "update"} :
            pc = IF req[r].op = "code" THEN "create" ELSE "update"
    OBVIOUS
  <2> DEFINE q == [req[r] EXCEPT !.pc = pc, !.token = t]
  <2>1. req' = [req EXCEPT ![r] = q] /\ req'[r] = q
    BY <1>3, <2>0 DEF Shape, TypeOK
  <2>2. q \in Request
    BY <1>1 DEF Request
  <2>3. t # None
    BY <1>3, NoneAssumption
  <2>4. RequestShape(r)'
    <3>1. /\ q.pc = pc
          /\ q.token = t
          /\ q.op = req[r].op
          /\ q.user = req[r].user
      BY <1>1 DEF Request
    <3>4. /\ q.flow = req[r].flow
          /\ q.code = req[r].code
          /\ q.id = req[r].id
          /\ q.copy = req[r].copy
      BY <1>1 DEF Request
    <3> HIDE DEF q
    <3>2. req[r].pc = "findUser" /\ UNCHANGED clock
      BY DEF FindUser
    <3>3. \/ req[r].op = "code" /\ pc = "create"
          \/ req[r].op = "refresh" /\ pc = "update"
      BY <1>3, <2>0
    <3> QED BY <1>1, <2>1, <2>3, <3>1, <3>2, <3>3, <3>4 DEF RequestShape
  <2> HIDE DEF q
  <2>5. minted' \subseteq Codes \cup Tokens /\ codeOf' \in [Flows -> Codes \cup {None}]
    BY <1>3 DEF FindUser, Shape, TypeOK
  <2> QED BY <2>1, <2>2, <2>4, <2>5, ReadingKeepsShape DEF FindUser
<1> QED BY <1>2, <1>3 DEF FindUser

LEMMA UserGoneShape ==
    ASSUME Shape, NEW r \in Reqs, UserGone(r)
    PROVE  Shape'
<1>1. Finish(r)
  BY DEF UserGone
<1>2. minted' \subseteq Codes \cup Tokens /\ codeOf' \in [Flows -> Codes \cup {None}]
  BY DEF UserGone, Shape, TypeOK
<1> QED BY <1>1, <1>2, FinishKeepsShape, ReadingKeepsShape DEF UserGone

(* The session a login stores.                                             *)
LEMMA NewSessionTyped ==
    ASSUME Shape, NEW r \in Reqs, CreateSession(r)
    PROVE  /\ [user |-> req[r].user, flow |-> req[r].flow, token |-> req[r].token,
               expired |-> FALSE, created |-> clock + 1, code |-> req[r].code] \in Session
           /\ clock + 1 \in 1..MaxSessions
           /\ clock' = clock + 1
           /\ SessionName(req[r].op) \in Ids
           /\ SessionName(req[r].op) = Unnamed
                  => req[r].token = None /\ req[r].code = None
<1>1. req[r] \in Request /\ RequestShape(r)
  BY DEF Shape, TypeOK
<1>2. clock + 1 \in 1..MaxSessions /\ clock' = clock + 1
  BY BoundAssumption DEF CreateSession, Shape, TypeOK
<1>3. req[r].user \in Users /\ req[r].flow \in Flows
  BY <1>1 DEF CreateSession, RequestShape, Request
<1>4. SessionName(req[r].op) \in Ids
  BY <1>2, BoundAssumption DEF SessionName
<1>5. SessionName(req[r].op) = Unnamed => req[r].op = "saml"
  BY <1>2 DEF SessionName
<1>6. req[r].token \in Tokens \cup {None} /\ req[r].code \in Codes \cup {None}
  BY <1>1 DEF Request
<1>7. req[r].op = "saml" => req[r].token = None /\ req[r].code = None
  BY <1>1 DEF RequestShape
<1>8. clock + 1 \in Ids
  BY <1>2
<1> QED BY <1>2, <1>3, <1>4, <1>5, <1>6, <1>7, <1>8 DEF Session

LEMMA CreateSessionShape ==
    ASSUME Shape, NEW r \in Reqs, CreateSession(r)
    PROVE  Shape'
<1> DEFINE new == [user |-> req[r].user, flow |-> req[r].flow, token |-> req[r].token,
                   expired |-> FALSE, created |-> clock + 1, code |-> req[r].code]
           name == SessionName(req[r].op)
<1>1. /\ new \in Session
      /\ clock + 1 \in 1..MaxSessions
      /\ clock' = clock + 1
      /\ name \in Ids
      /\ name = Unnamed => req[r].token = None /\ req[r].code = None
  BY NewSessionTyped
<1>2. sessions' \in {[sessions EXCEPT ![name] = new], sessions}
  BY DEF CreateSession, Created
<1>3. new.token = req[r].token /\ new.code = req[r].code
  OBVIOUS
<1>4. name <= clock + 1
  BY <1>1 DEF SessionName
<1> HIDE DEF new, name
<1>5. sessions' \in [Ids -> Session \cup {None}]
  BY <1>1, <1>2 DEF Shape, TypeOK
<1>6. NamesGiven'
  <2>1. ASSUME NEW id \in Ids, sessions'[id] # None
        PROVE  id <= clock'
    <3>1. id = name \/ sessions[id] # None
      BY <1>2, <2>1 DEF Shape, TypeOK
    <3> QED BY <1>1, <1>4, <3>1, BoundAssumption DEF Shape, NamesGiven, TypeOK
  <2>2. ASSUME sessions'[Unnamed] # None
        PROVE  sessions'[Unnamed].token = None /\ sessions'[Unnamed].code = None
    <3>1. Unnamed \in Ids
      BY BoundAssumption
    <3>2. CASE sessions'[Unnamed] = sessions[Unnamed]
      BY <2>2, <3>2 DEF Shape, NamesGiven
    <3>3. CASE sessions'[Unnamed] # sessions[Unnamed]
      <4>1. name = Unnamed /\ sessions'[Unnamed] = new
        BY <1>1, <1>2, <3>1, <3>3 DEF Shape, TypeOK
      <4> QED BY <1>1, <1>3, <4>1
    <3> QED BY <3>2, <3>3
  <2> QED BY <2>1, <2>2 DEF NamesGiven
<1>7. req' \in [Reqs -> Request] /\ \A s \in Reqs : RequestShape(s)'
  <2>1. Finish(r)
    BY DEF CreateSession
  <2> QED BY <1>1, <2>1, FinishKeepsShape, OthersKeepShape
<1>8. TypeOK'
  <2>1. clock' \in Ids
    BY <1>1
  <2> QED BY <2>1, <1>5, <1>7 DEF CreateSession, Shape, TypeOK
<1> QED BY <1>6, <1>7, <1>8 DEF Shape

(* What a refresh stores, if the session is still there.                   *)
LEMMA RotatedTyped ==
    ASSUME Shape, NEW r \in Reqs, UpdateSession(r)
    PROVE  /\ req[r].id \in 1..clock
           /\ req[r].token \in Tokens
           /\ req[r].copy.token \in Tokens
           /\ Rotated(req[r].copy, req[r].token) \in Session
           /\ Rotated(req[r].copy, req[r].token).token = req[r].token
           /\ Rotated(req[r].copy, req[r].token).code = req[r].copy.code
<1>1. req[r] \in Request /\ RequestShape(r)
  BY DEF Shape, TypeOK
<1>2. /\ req[r].id \in 1..clock
      /\ req[r].token # None
      /\ req[r].copy # None
      /\ req[r].copy.token # None
  BY <1>1 DEF UpdateSession, RequestShape
<1>3. req[r].copy \in Session /\ req[r].token \in Tokens
  BY <1>1, <1>2 DEF Request
<1>4. Rotated(req[r].copy, req[r].token) \in Session
  BY <1>3 DEF Rotated, Session
<1>5. /\ Rotated(req[r].copy, req[r].token).token = req[r].token
      /\ Rotated(req[r].copy, req[r].token).code = req[r].copy.code
  BY <1>3 DEF Rotated, Session
<1>6. req[r].copy.token \in Tokens
  BY <1>2, <1>3 DEF Session
<1> QED BY <1>2, <1>3, <1>4, <1>5, <1>6

LEMMA UpdateSessionShape ==
    ASSUME Shape, NEW r \in Reqs, UpdateSession(r)
    PROVE  Shape'
<1> DEFINE new == Rotated(req[r].copy, req[r].token)
<1>1. /\ req[r].id \in 1..clock
      /\ req[r].copy.token \in Tokens
      /\ new \in Session
  BY RotatedTyped
<1>2. \/ sessions' = [sessions EXCEPT ![req[r].id] = new] /\ sessions[req[r].id] # None
      \/ sessions' = sessions
  BY DEF UpdateSession, Updated
<1> HIDE DEF new
<1>3. req[r].id \in Ids /\ req[r].id # Unnamed
  BY <1>1, BoundAssumption DEF Shape, TypeOK
<1>4. sessions' \in [Ids -> Session \cup {None}]
  BY <1>1, <1>2, <1>3 DEF Shape, TypeOK
<1>5. \A id \in Ids : sessions'[id] # None => id <= clock
  BY <1>2, <1>3 DEF Shape, TypeOK, NamesGiven
<1>6. sessions'[Unnamed] = sessions[Unnamed]
  BY <1>2, <1>3, BoundAssumption DEF Shape, TypeOK
<1>7. exchanged' \subseteq Tokens
  BY <1>1 DEF UpdateSession, Shape, TypeOK
<1>8. Finish(r)
  BY DEF UpdateSession
<1>9. sessions'[Unnamed] # None
          => sessions'[Unnamed].token = None /\ sessions'[Unnamed].code = None
  BY <1>6 DEF Shape, NamesGiven
<1> QED BY <1>4, <1>5, <1>7, <1>8, <1>9, FinishKeepsShape, WritingKeepsShape
           DEF UpdateSession

(* Deleting sessions.                                                      *)
LEMMA DeletedSessions ==
    ASSUME Shape, NEW ids, sessions' = Deleted(ids)
    PROVE  /\ sessions' \in [Ids -> Session \cup {None}]
           /\ \A id \in Ids : sessions'[id] \in {sessions[id], None}
           /\ \A id \in Ids : sessions'[id] # None => id <= clock
           /\ sessions'[Unnamed] # None
                  => sessions'[Unnamed].token = None /\ sessions'[Unnamed].code = None
<1>1. \A id \in Ids : sessions'[id] \in {sessions[id], None}
  BY DEF Deleted
<1>2. sessions' \in [Ids -> Session \cup {None}]
  BY DEF Deleted, Shape, TypeOK
<1>3. Unnamed \in Ids
  BY BoundAssumption
<1> QED BY <1>1, <1>2, <1>3 DEF Shape, NamesGiven

LEMMA DropExpiredShape ==
    ASSUME Shape, NEW r \in Reqs, DropExpired(r)
    PROVE  Shape'
<1>1. Finish(r) /\ exchanged' \subseteq Tokens /\ sessions' = Deleted({req[r].id})
  BY DEF DropExpired, Shape, TypeOK
<1> QED BY <1>1, DeletedSessions, FinishKeepsShape, WritingKeepsShape DEF DropExpired

LEMMA NextSessionShape ==
    ASSUME Shape, NEW r \in Reqs, NextSession(r)
    PROVE  Shape'
<1>0. minted' \subseteq Codes \cup Tokens /\ codeOf' \in [Flows -> Codes \cup {None}]
  BY DEF NextSession, Shape, TypeOK
<1>1. CASE Finish(r)
  BY <1>0, <1>1, FinishKeepsShape, ReadingKeepsShape DEF NextSession
<1>2. ASSUME NEW l \in req[r].todo,
             req' = [req EXCEPT
                        ![r].todo = @ \ {l},
                        ![r].pc = IF IsToBeDeleted(r, l) THEN "delete" ELSE "next",
                        ![r].id = IF IsToBeDeleted(r, l) THEN l.id ELSE None]
      PROVE  Shape'
  <2>1. req[r] \in Request /\ RequestShape(r) /\ req[r].pc = "next"
    BY DEF NextSession, Shape, TypeOK
  <2>2. l.id \in Ids
    BY <2>1 DEF Request, Listed
  <2>a. PICK pc \in {"delete", "next"}, id \in Ids \cup {None} :
            /\ pc = IF IsToBeDeleted(r, l) THEN "delete" ELSE "next"
            /\ id = IF IsToBeDeleted(r, l) THEN l.id ELSE None
    BY <2>2
  <2> DEFINE q == [req[r] EXCEPT !.todo = @ \ {l}, !.pc = pc, !.id = id]
  <2>3. q \in Request
    <3>1. req[r].todo \ {l} \in SUBSET Listed
      BY <2>1 DEF Request
    <3> DEFINE rest == req[r].todo \ {l}
    <3>2. rest \in SUBSET Listed
      BY <3>1
    <3> HIDE DEF rest
    <3>3. [req[r] EXCEPT !.todo = rest, !.pc = pc, !.id = id] \in Request
      BY <2>1, <3>2 DEF Request
    <3> QED BY <3>3 DEF rest
  <2>4. req' = [req EXCEPT ![r] = q] /\ req'[r] = q
    BY <1>2, <2>a DEF Shape, TypeOK
  <2>5. q.pc = "delete" => q.id # None
    BY <2>1, <2>2, <2>a, BoundAssumption DEF Request
  <2>6. /\ q.pc \in {"delete", "next"}
        /\ q.op = req[r].op
        /\ q.token = req[r].token
        /\ q.copy = req[r].copy
        /\ q.code = req[r].code
    BY <2>1 DEF Request
  <2> HIDE DEF q
  <2>7. RequestShape(r)'
    BY <2>1, <2>4, <2>5, <2>6 DEF NextSession, RequestShape
  <2> QED BY <1>0, <2>3, <2>4, <2>7, ReadingKeepsShape DEF NextSession
<1> QED BY <1>1, <1>2 DEF NextSession

LEMMA DeleteSessionShape ==
    ASSUME Shape, NEW r \in Reqs, DeleteSession(r)
    PROVE  Shape'
<1> DEFINE q == [req[r] EXCEPT !.pc = "next", !.id = None]
<1>1. req[r] \in Request /\ RequestShape(r)
  BY DEF Shape, TypeOK
<1>2. q \in Request
  BY <1>1 DEF Request
<1>3. req' = [req EXCEPT ![r] = q] /\ req'[r] = q
  BY DEF DeleteSession, Shape, TypeOK
<1>4. RequestShape(r)'
  BY <1>1, <1>3 DEF DeleteSession, RequestShape, Request
<1> HIDE DEF q
<1>5. exchanged' \subseteq Tokens /\ sessions' = Deleted({req[r].id})
  BY DEF DeleteSession, Shape, TypeOK
<1> QED BY <1>2, <1>3, <1>4, <1>5, DeletedSessions, WritingKeepsShape DEF DeleteSession

LEMMA EnvironmentShape ==
    ASSUME Shape, Environment
    PROVE  Shape'
<1>1. ASSUME NEW f \in Flows, NEW c \in Codes, IssueCode(f, c)
      PROVE  Shape'
  <2>1. TypeOK'
    BY <1>1 DEF IssueCode, Shape, TypeOK
  <2> QED BY <1>1, <2>1, WaitingKeepsShape DEF IssueCode, Shape, NamesGiven
<1>2. ASSUME NEW id \in Ids, Expire(id)
      PROVE  Shape'
  <2>1. sessions[id] \in Session
    BY <1>2, StoredIsSession DEF Expire, Shape
  <2> DEFINE new == [sessions[id] EXCEPT !.expired = TRUE]
  <2>2. /\ new \in Session
        /\ new.token = sessions[id].token
        /\ new.code = sessions[id].code
    BY <2>1 DEF Session
  <2>3. sessions' = [sessions EXCEPT ![id] = new]
    BY <1>2 DEF Expire, Shape, TypeOK
  <2> HIDE DEF new
  <2>4. TypeOK'
    BY <1>2, <2>2, <2>3 DEF Expire, Shape, TypeOK
  <2>5. NamesGiven'
    BY <1>2, <2>2, <2>3 DEF Expire, Shape, TypeOK, NamesGiven
  <2> QED BY <1>2, <2>4, <2>5, WaitingKeepsShape DEF Expire, Shape
<1>3. CASE DeleteExpired
  <2>1. /\ sessions' \in [Ids -> Session \cup {None}]
        /\ \A id \in Ids : sessions'[id] # None => id <= clock
        /\ sessions'[Unnamed] # None
              => sessions'[Unnamed].token = None /\ sessions'[Unnamed].code = None
    <3>1. sessions' = Deleted({id \in Ids : Stored(id) /\ sessions[id].expired})
      BY <1>3 DEF DeleteExpired
    <3> QED BY <3>1, DeletedSessions
  <2>2. TypeOK'
    BY <1>3, <2>1 DEF DeleteExpired, Shape, TypeOK
  <2>3. NamesGiven'
    BY <1>3, <2>1 DEF DeleteExpired, NamesGiven
  <2> QED BY <1>3, <2>2, <2>3, WaitingKeepsShape DEF DeleteExpired, Shape
<1>4. ASSUME NEW u \in Users, DeleteUser(u) \/ PutUser(u)
      PROVE  Shape'
  <2>1. TypeOK'
    BY <1>4 DEF DeleteUser, PutUser, Shape, TypeOK
  <2> QED BY <1>4, <2>1, WaitingKeepsShape DEF DeleteUser, PutUser, Shape, NamesGiven
<1> QED BY <1>1, <1>2, <1>3, <1>4 DEF Environment

LEMMA InitShape == Init => Shape
<1> SUFFICES ASSUME Init PROVE Shape
  OBVIOUS
<1>1. TypeOK
  BY IdleIsRequest, BoundAssumption DEF Init, TypeOK
<1>2. \A r \in Reqs : RequestShape(r)
  BY DEF Init, RequestShape, Idle
<1>3. NamesGiven
  BY BoundAssumption DEF Init, NamesGiven
<1> QED BY <1>1, <1>2, <1>3 DEF Shape

LEMMA NextShape == Shape /\ [Next]_vars => Shape'
<1> SUFFICES ASSUME Shape, [Next]_vars PROVE Shape'
  OBVIOUS
<1>1. ASSUME NEW r \in Reqs, BeginRequest(r)
      PROVE  Shape'
  BY <1>1, RedeemCodeShape, SamlLoginShape, RefreshGrantShape, SignOutShape
     DEF BeginRequest
<1>2. ASSUME NEW r \in Reqs, ContinueRequest(r)
      PROVE  Shape'
  BY <1>2, FindUserShape, UserGoneShape, CreateSessionShape, UpdateSessionShape,
     DropExpiredShape, NextSessionShape, DeleteSessionShape DEF ContinueRequest
<1>3. CASE Environment
  BY <1>3, EnvironmentShape
<1>4. CASE UNCHANGED vars
  BY <1>4, WaitingKeepsShape DEF vars, Shape, TypeOK, NamesGiven
<1> QED BY <1>1, <1>2, <1>3, <1>4 DEF Next

(* Every reachable state is well typed: sessions, requests and what they   *)
(* carry between two store operations (oidc/router.go, saml/router.go).    *)
THEOREM TypeCorrect == Spec => []TypeOK
<1>1. Spec => []Shape
  BY InitShape, NextShape, PTL DEF Spec
<1>2. Shape => TypeOK
  BY DEF Shape
<1> QED BY <1>1, <1>2, PTL

-----------------------------------------------------------------------------
(* Places.                                                                 *)

(* What most steps do: a request keeps what it carries or drops it, and no *)
(* session gets another token or code.                                     *)
KeepTokens == \A s \in Reqs : req'[s].token \in {None, req[s].token}

KeepCodes == \A s \in Reqs : req'[s].code \in {None, req[s].code}

KeepCopies ==
    \A s \in Reqs :
        req'[s].op = "refresh" =>
            req[s].op = "refresh" /\ req'[s].copy = req[s].copy /\ req'[s].id = req[s].id

RequestsKeep == KeepTokens /\ KeepCodes /\ KeepCopies

SessionsKeepTokens ==
    \A id \in Ids :
        sessions'[id] # None =>
            sessions[id] # None /\ sessions'[id].token = sessions[id].token

SessionsKeepCodes ==
    \A id \in Ids :
        sessions'[id] # None =>
            sessions[id] # None /\ sessions'[id].code = sessions[id].code

SessionsKeep == SessionsKeepTokens /\ SessionsKeepCodes

CodesKept == \A f \in Flows : codeOf'[f] \in {None, codeOf[f]}

Places == Shape /\ TokenPlaces /\ CodePlaces

LEMMA KeepingTokens ==
    ASSUME TokenPlaces, KeepTokens, KeepCopies, SessionsKeepTokens, UNCHANGED exchanged,
           minted \subseteq minted'
    PROVE  TokenPlaces'
BY DEF TokenPlaces, KeepTokens, KeepCopies, SessionsKeepTokens

LEMMA KeepingCodes ==
    ASSUME Shape, CodePlaces, KeepCodes, KeepCopies, SessionsKeepCodes, CodesKept,
           minted \subseteq minted'
    PROVE  CodePlaces'
<1>1. \A f \in Flows : codeOf'[f] # None
          => /\ codeOf'[f] \in minted'
             /\ \A g \in Flows : codeOf'[g] = codeOf'[f] => g = f
             /\ \A r \in Reqs : req'[r].code # codeOf'[f]
             /\ \A id \in Ids : sessions'[id] # None => sessions'[id].code # codeOf'[f]
  BY DEF CodePlaces, KeepCodes, SessionsKeepCodes, CodesKept
<1>2. \A r \in Reqs : req'[r].code # None
          => /\ req'[r].code \in minted'
             /\ \A s \in Reqs : req'[s].code = req'[r].code => s = r
             /\ \A id \in Ids : sessions'[id] # None => sessions'[id].code # req'[r].code
  BY DEF CodePlaces, KeepCodes, SessionsKeepCodes
<1>3. \A id \in Ids : sessions'[id] # None /\ sessions'[id].code # None
          => /\ sessions'[id].code \in minted'
             /\ \A other \in Ids : /\ sessions'[other] # None
                                   /\ sessions'[other].code = sessions'[id].code
                   => other = id
  BY DEF CodePlaces, SessionsKeepCodes
<1>4. \A r \in Reqs : req'[r].op = "refresh" /\ sessions'[req'[r].id] # None
          => sessions'[req'[r].id].code = req'[r].copy.code
  <2> SUFFICES ASSUME NEW r \in Reqs, req'[r].op = "refresh", sessions'[req'[r].id] # None
               PROVE  sessions'[req'[r].id].code = req'[r].copy.code
    OBVIOUS
  <2>1. req[r].op = "refresh" /\ req'[r].copy = req[r].copy /\ req'[r].id = req[r].id
    BY DEF KeepCopies
  <2>2. req[r].id \in Ids
    BY <2>1, BoundAssumption DEF Shape, TypeOK, RequestShape
  <2> QED BY <2>1, <2>2 DEF CodePlaces, SessionsKeepCodes
<1> QED BY <1>1, <1>2, <1>3, <1>4 DEF CodePlaces

(* A request that ends or turns to a logout carries nothing.               *)
LEMMA DroppingKeeps ==
    ASSUME Shape, NEW r \in Reqs, NEW q, req' = [req EXCEPT ![r] = q],
           q.token \in {None, req[r].token}, q.code \in {None, req[r].code},
           q.op = "refresh" =>
               req[r].op = "refresh" /\ q.copy = req[r].copy /\ q.id = req[r].id
    PROVE  RequestsKeep
BY DEF Shape, TypeOK, RequestsKeep, KeepTokens, KeepCodes, KeepCopies

LEMMA FinishKeeps ==
    ASSUME Shape, NEW r \in Reqs, Finish(r)
    PROVE  RequestsKeep
<1>1. Idle.token = None /\ Idle.code = None /\ Idle.op = "none"
  BY DEF Idle
<1> QED BY <1>1, DroppingKeeps DEF Finish

LEMMA DeletingKeeps ==
    ASSUME NEW ids, sessions' = Deleted(ids)
    PROVE  SessionsKeep
BY DEF Deleted, SessionsKeep, SessionsKeepTokens, SessionsKeepCodes

LEMMA NotWritingKeeps ==
    ASSUME UNCHANGED sessions
    PROVE  SessionsKeep
BY DEF SessionsKeep, SessionsKeepTokens, SessionsKeepCodes

(* The steps that only drop.                                               *)
LEMMA SamlLoginKeeps ==
    ASSUME Shape, NEW r \in Reqs, NEW f \in Flows, SamlLogin(r, f)
    PROVE  RequestsKeep
<1> DEFINE q == [Idle EXCEPT !.pc = "findUser", !.op = "saml", !.user = login[f],
                             !.flow = f]
<1>1. q.token = None /\ q.code = None /\ q.op = "saml"
  BY DEF Idle
<1>2. req' = [req EXCEPT ![r] = q]
  BY DEF SamlLogin, Start
<1> HIDE DEF q
<1> QED BY <1>1, <1>2, DroppingKeeps

LEMMA SignOutKeeps ==
    ASSUME Shape, NEW r \in Reqs, NEW op, NEW u, SignOut(r, op, u)
    PROVE  RequestsKeep
<1>1. PICK found :
          Start(r, [Idle EXCEPT !.pc = "next", !.op = op, !.user = u, !.todo = found,
                                !.listed = IF op = "logoutUser" THEN found ELSE {}])
  BY DEF SignOut
<1> DEFINE q == [Idle EXCEPT !.pc = "next", !.op = op, !.user = u, !.todo = found,
                             !.listed = IF op = "logoutUser" THEN found ELSE {}]
<1>2. q.token = None /\ q.code = None /\ q.op # "refresh"
  BY DEF Idle, SignOut
<1>3. req' = [req EXCEPT ![r] = q]
  BY <1>1 DEF Start
<1> HIDE DEF q
<1> QED BY <1>2, <1>3, DroppingKeeps

LEMMA NextSessionKeeps ==
    ASSUME Shape, NEW r \in Reqs, NextSession(r)
    PROVE  RequestsKeep
<1>1. CASE Finish(r)
  BY <1>1, FinishKeeps
<1>2. ASSUME NEW todo, NEW pc, NEW id,
             req' = [req EXCEPT ![r].todo = todo, ![r].pc = pc, ![r].id = id]
      PROVE  RequestsKeep
  <2>1. req[r] \in Request /\ RequestShape(r) /\ req[r].pc = "next"
    BY DEF NextSession, Shape, TypeOK
  <2>2. req[r].op # "refresh"
    BY <2>1 DEF RequestShape
  <2>3. /\ req'[r].token = req[r].token
        /\ req'[r].code = req[r].code
        /\ req'[r].op = req[r].op
        /\ \A s \in Reqs \ {r} : req'[s] = req[s]
    BY <1>2, <2>1 DEF Shape, TypeOK, Request
  <2> QED BY <2>2, <2>3 DEF RequestsKeep, KeepTokens, KeepCodes, KeepCopies
<1>3. ASSUME NEW l \in req[r].todo,
             req' = [req EXCEPT
                        ![r].todo = @ \ {l},
                        ![r].pc = IF IsToBeDeleted(r, l) THEN "delete" ELSE "next",
                        ![r].id = IF IsToBeDeleted(r, l) THEN l.id ELSE None]
      PROVE  RequestsKeep
  <2>1. PICK todo, pc, id :
            req' = [req EXCEPT ![r].todo = todo, ![r].pc = pc, ![r].id = id]
    BY <1>3
  <2> QED BY <1>2, <2>1
<1> QED BY <1>1, <1>3 DEF NextSession

LEMMA DeleteSessionKeeps ==
    ASSUME Shape, NEW r \in Reqs, DeleteSession(r)
    PROVE  RequestsKeep
<1>1. req[r] \in Request /\ RequestShape(r) /\ req[r].pc = "delete"
  BY DEF DeleteSession, Shape, TypeOK
<1>2. req[r].op # "refresh"
  BY <1>1 DEF RequestShape
<1>3. /\ req'[r].token = req[r].token
      /\ req'[r].code = req[r].code
      /\ req'[r].op = req[r].op
      /\ \A s \in Reqs \ {r} : req'[s] = req[s]
  BY <1>1 DEF DeleteSession, Shape, TypeOK, Request
<1> QED BY <1>2, <1>3 DEF RequestsKeep, KeepTokens, KeepCodes, KeepCopies

(* The steps that move a token or a code.                                  *)
LEMMA PlacesWhenDropping ==
    ASSUME Places, RequestsKeep, SessionsKeep, CodesKept, UNCHANGED exchanged,
           minted \subseteq minted'
    PROVE  TokenPlaces' /\ CodePlaces'
BY KeepingTokens, KeepingCodes DEF Places, RequestsKeep, SessionsKeep

LEMMA RedeemCodePlaces ==
    ASSUME Places, NEW r \in Reqs, NEW f \in Flows, RedeemCode(r, f)
    PROVE  TokenPlaces' /\ CodePlaces'
<1>1. codeOf' = [codeOf EXCEPT ![f] = None] /\ codeOf[f] # None
  BY DEF RedeemCode
<1>2. CodesKept
  BY <1>1 DEF Places, Shape, TypeOK, CodesKept
<1>3. SessionsKeep
  BY NotWritingKeeps DEF RedeemCode
<1>4. CASE UNCHANGED req
  <2>1. RequestsKeep
    BY <1>4 DEF RequestsKeep, KeepTokens, KeepCodes, KeepCopies
  <2> QED BY <1>2, <1>3, <2>1, PlacesWhenDropping DEF RedeemCode
<1>5. ASSUME NEW q, q.token = None, q.code = codeOf[f], q.op = "code",
             req' = [req EXCEPT ![r] = q]
      PROVE  TokenPlaces' /\ CodePlaces'
  <2>1. req'[r] = q /\ \A s \in Reqs \ {r} : req'[s] = req[s]
    BY <1>5 DEF Places, Shape, TypeOK
  <2>2. KeepTokens /\ KeepCopies
    BY <1>5, <2>1 DEF KeepTokens, KeepCopies
  <2>3. TokenPlaces'
    BY <1>3, <2>2, KeepingTokens DEF RedeemCode, Places, SessionsKeep
  <2>4. UNCHANGED <<sessions, minted>>
    BY DEF RedeemCode
  <2>5. \A g \in Flows : codeOf'[g] # None => g # f /\ codeOf'[g] = codeOf[g]
    BY <1>1 DEF Places, Shape, TypeOK
  <2>6. \A s \in Reqs : req'[s].code # None =>
            req'[s].code = IF s = r THEN codeOf[f] ELSE req[s].code
    BY <1>5, <2>1
  <2>7. CodePlaces'
    <3>1. \A g \in Flows : codeOf'[g] # None
          => /\ codeOf'[g] \in minted'
             /\ \A h \in Flows : codeOf'[h] = codeOf'[g] => h = g
             /\ \A s \in Reqs : req'[s].code # codeOf'[g]
             /\ \A id \in Ids : sessions'[id] # None => sessions'[id].code # codeOf'[g]
      BY <2>4, <2>5, <2>6 DEF Places, CodePlaces
    <3>2. \A s \in Reqs : req'[s].code # None
          => /\ req'[s].code \in minted'
             /\ \A t \in Reqs : req'[t].code = req'[s].code => t = s
             /\ \A id \in Ids : sessions'[id] # None => sessions'[id].code # req'[s].code
      BY <1>1, <2>4, <2>6 DEF Places, CodePlaces
    <3>3. \A s \in Reqs : req'[s].op = "refresh" /\ sessions'[req'[s].id] # None
          => sessions'[req'[s].id].code = req'[s].copy.code
      BY <2>2, <2>4 DEF Places, CodePlaces, KeepCopies
    <3> QED BY <2>4, <3>1, <3>2, <3>3 DEF Places, CodePlaces
  <2> QED BY <2>3, <2>7
<1>6. CASE req' # req
  <2> DEFINE q == [Idle EXCEPT !.pc = "findUser", !.op = "code", !.user = login[f],
                               !.flow = f, !.code = codeOf[f]]
  <2>1. req' = [req EXCEPT ![r] = q]
    BY <1>6 DEF RedeemCode, Start
  <2>2. q.token = None /\ q.code = codeOf[f] /\ q.op = "code"
    BY DEF Idle
  <2> HIDE DEF q
  <2> QED BY <1>5, <2>1, <2>2
<1> QED BY <1>4, <1>6

LEMMA RefreshGrantPlaces ==
    ASSUME Places, NEW r \in Reqs, NEW id \in Ids, RefreshGrant(r, id)
    PROVE  TokenPlaces' /\ CodePlaces'
<1>1. /\ sessions[id] # None
      /\ sessions[id].token # None
      /\ UNCHANGED <<sessions, minted, exchanged, codeOf>>
  BY DEF RefreshGrant
<1>2. /\ req'[r].op = "refresh"
      /\ req'[r].id = id
      /\ req'[r].copy = sessions[id]
      /\ req'[r].token = None
      /\ req'[r].code = None
      /\ \A s \in Reqs \ {r} : req'[s] = req[s]
  BY DEF RefreshGrant, Start, RefreshWith, Idle, Places, Shape, TypeOK
<1>3. TokenPlaces'
  <2>1. \A i \in Ids : sessions[i] # None /\ sessions[i].token # None
          => /\ sessions[i].token \in minted \ exchanged
             /\ \A other \in Ids : sessions[other] # None
                                   /\ sessions[other].token = sessions[i].token => other = i
             /\ \A s \in Reqs : req'[s].op = "refresh" /\ req'[s].copy.token = sessions[i].token
                   => req'[s].id = i
             /\ \A s \in Reqs : req'[s].token # sessions[i].token
    BY <1>1, <1>2 DEF Places, TokenPlaces
  <2>2. \A s \in Reqs : req'[s].token # None
          => /\ req'[s].token \in minted \ exchanged
             /\ \A t \in Reqs : req'[t].op = "refresh" => req'[t].copy.token # req'[s].token
             /\ \A t \in Reqs : req'[t].token = req'[s].token => t = s
    BY <1>1, <1>2 DEF Places, TokenPlaces
  <2>3. \A s \in Reqs : req'[s].op = "refresh" => req'[s].copy.token \in minted
    BY <1>1, <1>2 DEF Places, TokenPlaces
  <2> QED BY <1>1, <2>1, <2>2, <2>3 DEF Places, TokenPlaces
<1>4. CodePlaces'
  <2>1. KeepCodes
    BY <1>2 DEF KeepCodes
  <2>2. \A s \in Reqs : req'[s].op = "refresh" /\ sessions[req'[s].id] # None
          => sessions[req'[s].id].code = req'[s].copy.code
    BY <1>1, <1>2 DEF Places, CodePlaces
  <2> QED BY <1>1, <2>1, <2>2 DEF Places, CodePlaces, KeepCodes
<1> QED BY <1>3, <1>4

LEMMA FindUserPlaces ==
    ASSUME Places, NEW r \in Reqs, NEW t \in Tokens \cup {None}, FindUser(r, t)
    PROVE  TokenPlaces' /\ CodePlaces'
<1>1. req[r] \in Request /\ UNCHANGED <<sessions, codeOf, exchanged>>
  BY DEF FindUser, Places, Shape, TypeOK
<1>2. SessionsKeep /\ CodesKept
  BY <1>1, NotWritingKeeps DEF CodesKept
<1>3. CASE UNCHANGED minted /\ req' = [req EXCEPT ![r].pc = "create"]
  <2>1. RequestsKeep
    BY <1>1, <1>3 DEF Places, Shape, TypeOK, Request, RequestsKeep, KeepTokens, KeepCodes,
       KeepCopies
  <2> QED BY <1>1, <1>2, <1>3, <2>1, PlacesWhenDropping
<1>4. ASSUME NEW pc, t \in Tokens \ minted, minted' = minted \cup {t},
             req' = [req EXCEPT ![r].pc = pc, ![r].token = t]
      PROVE  TokenPlaces' /\ CodePlaces'
  <2>1. /\ req'[r].token = t
        /\ req'[r].code = req[r].code
        /\ req'[r].op = req[r].op
        /\ req'[r].copy = req[r].copy
        /\ req'[r].id = req[r].id
        /\ \A s \in Reqs \ {r} : req'[s] = req[s]
    BY <1>1, <1>4 DEF Places, Shape, TypeOK, Request
  <2>2. KeepCodes /\ KeepCopies
    BY <2>1 DEF KeepCodes, KeepCopies
  <2>3. CodePlaces'
    BY <1>2, <1>4, <2>2, KeepingCodes DEF Places, SessionsKeep
  <2>4. t # None /\ t \notin minted
    BY <1>4, NoneAssumption
  <2>5. TokenPlaces'
    <3>1. \A s \in Reqs :
             /\ req'[s].op = req[s].op
             /\ req'[s].copy = req[s].copy
             /\ req'[s].id = req[s].id
             /\ s = r => req'[s].token = t
             /\ s # r => req'[s].token = req[s].token
      BY <2>1
    <3>fresh. minted \subseteq minted' /\ t \in minted' /\ t \notin exchanged
      BY <1>4, <2>4 DEF Places, TokenPlaces
    <3>apart. /\ \A i \in Ids : sessions[i] # None => sessions[i].token # t
              /\ \A s \in Reqs : req[s].token # t
              /\ \A s \in Reqs : req[s].op = "refresh" => req[s].copy.token # t
      BY <2>4 DEF Places, TokenPlaces
    <3>2. \A i \in Ids : sessions[i] # None /\ sessions[i].token # None
          => /\ sessions[i].token \in minted' \ exchanged
             /\ \A other \in Ids : sessions[other] # None
                                   /\ sessions[other].token = sessions[i].token => other = i
             /\ \A s \in Reqs : req'[s].op = "refresh" /\ req'[s].copy.token = sessions[i].token
                   => req'[s].id = i
             /\ \A s \in Reqs : req'[s].token # sessions[i].token
      BY <2>4, <3>1, <3>fresh, <3>apart DEF Places, TokenPlaces
    <3>3. \A s \in Reqs : req'[s].token # None
          => /\ req'[s].token \in minted' \ exchanged
             /\ \A o \in Reqs : req'[o].op = "refresh" => req'[o].copy.token # req'[s].token
             /\ \A o \in Reqs : req'[o].token = req'[s].token => o = s
      BY <2>4, <3>1, <3>fresh, <3>apart DEF Places, TokenPlaces
    <3>4. \A s \in Reqs : req'[s].op = "refresh" => req'[s].copy.token \in minted'
      BY <3>1, <3>fresh DEF Places, TokenPlaces
    <3>5. exchanged \subseteq minted'
      BY <1>4 DEF Places, TokenPlaces
    <3> QED BY <1>1, <3>2, <3>3, <3>4, <3>5 DEF TokenPlaces
  <2> QED BY <2>3, <2>5
<1> QED BY <1>3, <1>4 DEF FindUser

LEMMA CreateSessionPlaces ==
    ASSUME Places, NEW r \in Reqs, CreateSession(r)
    PROVE  TokenPlaces' /\ CodePlaces'
<1> DEFINE new == [user |-> req[r].user, flow |-> req[r].flow, token |-> req[r].token,
                   expired |-> FALSE, created |-> clock + 1, code |-> req[r].code]
           name == SessionName(req[r].op)
<1>1. /\ new \in Session
      /\ clock + 1 \in 1..MaxSessions
      /\ name \in Ids
      /\ name = Unnamed => req[r].token = None /\ req[r].code = None
  BY NewSessionTyped DEF Places
<1>2. sessions' \in {[sessions EXCEPT ![name] = new], sessions}
  BY DEF CreateSession, Created
<1>3. new.token = req[r].token /\ new.code = req[r].code
  OBVIOUS
<1>4. name \in {Unnamed, clock + 1}
  BY DEF SessionName
<1> HIDE DEF new, name
<1>5. /\ UNCHANGED <<minted, exchanged, codeOf>>
      /\ RequestsKeep
      /\ CodesKept
  BY FinishKeeps DEF CreateSession, Places, CodesKept
<1>6. req'[r].token = None /\ req'[r].code = None /\ req'[r].op # "refresh"
  BY DEF CreateSession, Finish, Idle, Places, Shape, TypeOK
<1>7. \A id \in Ids : sessions'[id] # None =>
          \/ sessions[id] # None /\ sessions'[id] = sessions[id]
          \/ id = name /\ sessions'[id] = new
  BY <1>1, <1>2 DEF Places, Shape, TypeOK
<1>8. CASE req[r].token = None /\ req[r].code = None
  <2>1. TokenPlaces'
    <3>1. \A id \in Ids : sessions'[id] # None /\ sessions'[id].token # None
             => sessions[id] # None /\ sessions'[id] = sessions[id]
      BY <1>3, <1>7, <1>8
    <3> QED BY <1>5, <3>1 DEF Places, TokenPlaces, RequestsKeep, KeepTokens, KeepCopies
  <2>2. CodePlaces'
    <3>1. \A id \in Ids : sessions'[id] # None /\ sessions'[id].code # None
             => sessions[id] # None /\ sessions'[id] = sessions[id]
      BY <1>3, <1>7, <1>8
    <3>2. \A s \in Reqs : req'[s].op = "refresh" /\ sessions'[req'[s].id] # None
             => sessions'[req'[s].id].code = req'[s].copy.code
      <4> SUFFICES ASSUME NEW s \in Reqs, req'[s].op = "refresh",
                          sessions'[req'[s].id] # None
                   PROVE  sessions'[req'[s].id].code = req'[s].copy.code
        OBVIOUS
      <4>1. req[s].op = "refresh" /\ req'[s].copy = req[s].copy /\ req'[s].id = req[s].id
        BY <1>5 DEF RequestsKeep, KeepCopies
      <4>2. req[s].id \in 1..clock
        BY <4>1 DEF Places, Shape, RequestShape
      <4>3. req[s].id # name /\ req[s].id \in Ids
        BY <1>4, <4>2, BoundAssumption DEF Places, Shape, TypeOK
      <4> QED BY <1>7, <4>1, <4>3 DEF Places, CodePlaces
    <3>3. \A f \in Flows : codeOf[f] # None
          => /\ codeOf[f] \in minted
             /\ \A g \in Flows : codeOf[g] = codeOf[f] => g = f
             /\ \A s \in Reqs : req'[s].code # codeOf[f]
             /\ \A id \in Ids : sessions'[id] # None => sessions'[id].code # codeOf[f]
      BY <1>5, <3>1 DEF Places, CodePlaces, RequestsKeep, KeepCodes
    <3>4. \A s \in Reqs : req'[s].code # None
          => /\ req'[s].code \in minted
             /\ \A o \in Reqs : req'[o].code = req'[s].code => o = s
             /\ \A id \in Ids : sessions'[id] # None => sessions'[id].code # req'[s].code
      BY <1>5, <3>1 DEF Places, CodePlaces, RequestsKeep, KeepCodes
    <3>5. \A id \in Ids : sessions'[id] # None /\ sessions'[id].code # None
          => /\ sessions'[id].code \in minted
             /\ \A other \in Ids : sessions'[other] # None
                                   /\ sessions'[other].code = sessions'[id].code => other = id
      BY <3>1 DEF Places, CodePlaces
    <3> QED BY <1>5, <3>2, <3>3, <3>4, <3>5 DEF CodePlaces
  <2> QED BY <2>1, <2>2
<1>9. CASE ~(req[r].token = None /\ req[r].code = None)
  <2>1. name = clock + 1 /\ sessions[name] = None
    BY <1>1, <1>4, <1>9, BoundAssumption DEF Places, Shape, TypeOK, NamesGiven
  <2>2. \A s \in Reqs \ {r} : req'[s] = req[s]
    BY DEF CreateSession, Finish, Places, Shape, TypeOK
  <2>3. \A id \in Ids : sessions'[id] # None =>
            \/ id # name /\ sessions[id] # None /\ sessions'[id] = sessions[id]
            \/ id = name /\ sessions'[id] = new
    BY <1>7, <2>1
  <2>4. \A s \in Reqs : req'[s].op = "refresh" => s # r /\ req[s].id # name /\ req[s].id \in Ids
    <3> SUFFICES ASSUME NEW s \in Reqs, req'[s].op = "refresh"
                 PROVE  s # r /\ req[s].id # name /\ req[s].id \in Ids
      OBVIOUS
    <3>1. s # r /\ req[s].op = "refresh"
      BY <1>6, <2>2
    <3>2. req[s].id \in 1..clock
      BY <3>1 DEF Places, Shape, RequestShape
    <3> QED BY <2>1, <3>1, <3>2, BoundAssumption DEF Places, Shape, TypeOK
  <2>5. TokenPlaces'
    <3>1. \A i \in Ids : sessions'[i] # None /\ sessions'[i].token # None
          => /\ sessions'[i].token \in minted \ exchanged
             /\ \A other \in Ids : sessions'[other] # None
                                   /\ sessions'[other].token = sessions'[i].token => other = i
             /\ \A s \in Reqs : req'[s].op = "refresh" /\ req'[s].copy.token = sessions'[i].token
                   => req'[s].id = i
             /\ \A s \in Reqs : req'[s].token # sessions'[i].token
      BY <1>3, <1>6, <2>2, <2>3, <2>4 DEF Places, TokenPlaces
    <3>2. \A s \in Reqs : req'[s].token # None
          => /\ req'[s].token \in minted \ exchanged
             /\ \A o \in Reqs : req'[o].op = "refresh" => req'[o].copy.token # req'[s].token
             /\ \A o \in Reqs : req'[o].token = req'[s].token => o = s
      BY <1>6, <2>2 DEF Places, TokenPlaces
    <3>3. \A s \in Reqs : req'[s].op = "refresh" => req'[s].copy.token \in minted
      BY <1>6, <2>2 DEF Places, TokenPlaces
    <3> QED BY <1>5, <3>1, <3>2, <3>3 DEF Places, TokenPlaces
  <2>6. CodePlaces'
    <3>1. \A f \in Flows : codeOf[f] # None
          => /\ codeOf[f] \in minted
             /\ \A g \in Flows : codeOf[g] = codeOf[f] => g = f
             /\ \A s \in Reqs : req'[s].code # codeOf[f]
             /\ \A id \in Ids : sessions'[id] # None => sessions'[id].code # codeOf[f]
      BY <1>3, <1>6, <2>2, <2>3 DEF Places, CodePlaces
    <3>2. \A s \in Reqs : req'[s].code # None
          => /\ req'[s].code \in minted
             /\ \A o \in Reqs : req'[o].code = req'[s].code => o = s
             /\ \A id \in Ids : sessions'[id] # None => sessions'[id].code # req'[s].code
      BY <1>3, <1>6, <2>2, <2>3 DEF Places, CodePlaces
    <3>3. \A id \in Ids : sessions'[id] # None /\ sessions'[id].code # None
          => /\ sessions'[id].code \in minted
             /\ \A other \in Ids : sessions'[other] # None
                                   /\ sessions'[other].code = sessions'[id].code => other = id
      BY <1>3, <2>3 DEF Places, CodePlaces
    <3>4. \A s \in Reqs : req'[s].op = "refresh" /\ sessions'[req'[s].id] # None
          => sessions'[req'[s].id].code = req'[s].copy.code
      BY <2>2, <2>3, <2>4 DEF Places, CodePlaces
    <3> QED BY <1>5, <3>1, <3>2, <3>3, <3>4 DEF CodePlaces
  <2> QED BY <2>5, <2>6
<1> QED BY <1>8, <1>9

LEMMA UpdateSessionPlaces ==
    ASSUME Places, NEW r \in Reqs, UpdateSession(r)
    PROVE  TokenPlaces' /\ CodePlaces'
<1> DEFINE new == Rotated(req[r].copy, req[r].token)
           name == req[r].id
           old == req[r].copy.token
           t == req[r].token
<1>1. /\ name \in 1..clock
      /\ t \in Tokens
      /\ new.token = t
      /\ new.code = req[r].copy.code
  BY RotatedTyped DEF Places
<1>2. \/ sessions' = [sessions EXCEPT ![name] = new] /\ sessions[name] # None
      \/ sessions' = sessions /\ sessions[name] = None
  BY DEF UpdateSession, Updated
<1>3. req[r].op = "refresh"
  BY DEF UpdateSession, Places, Shape, RequestShape
<1>4. /\ UNCHANGED <<minted, codeOf>>
      /\ exchanged' = exchanged \cup {old}
      /\ RequestsKeep
      /\ CodesKept
  BY FinishKeeps DEF UpdateSession, Places, CodesKept
<1>5. /\ req'[r].token = None
      /\ req'[r].op # "refresh"
      /\ \A s \in Reqs \ {r} : req'[s] = req[s]
  BY DEF UpdateSession, Finish, Idle, Places, Shape, TypeOK
<1>6. t # None
  BY <1>1, NoneAssumption
<1>7. name \in Ids
  BY <1>1, BoundAssumption DEF Places, Shape, TypeOK
<1> HIDE DEF new
<1>8. \A id \in Ids : sessions'[id] # None =>
          /\ sessions[id] # None
          /\ id = name => sessions'[id] = new
          /\ id # name => sessions'[id] = sessions[id]
  <2>1. CASE sessions' = sessions /\ sessions[name] = None
    BY <2>1
  <2>2. CASE sessions' = [sessions EXCEPT ![name] = new] /\ sessions[name] # None
    BY <1>7, <2>2 DEF Places, Shape, TypeOK
  <2> QED BY <1>2, <2>1, <2>2
<1>9. SessionsKeepCodes
  BY <1>1, <1>3, <1>8 DEF SessionsKeepCodes, Places, CodePlaces
<1>10. CodePlaces'
  BY <1>4, <1>9, KeepingCodes DEF Places, RequestsKeep
<1>11. TokenPlaces'
  <2>1. /\ t \in minted \ exchanged
        /\ \A s \in Reqs : req[s].op = "refresh" => req[s].copy.token # t
        /\ \A s \in Reqs : req[s].token = t => s = r
        /\ \A id \in Ids : sessions[id] # None => sessions[id].token # t
    BY <1>6 DEF Places, TokenPlaces
  <2>2. t # old /\ old \in minted
    BY <1>3, <2>1 DEF Places, TokenPlaces
  <2>3. \A id \in Ids : sessions'[id] # None /\ sessions'[id].token # None
          => /\ sessions'[id].token \in minted \ exchanged'
             /\ \A other \in Ids : sessions'[other] # None
                                   /\ sessions'[other].token = sessions'[id].token
                   => other = id
             /\ \A s \in Reqs : /\ req'[s].op = "refresh"
                                /\ req'[s].copy.token = sessions'[id].token
                   => req'[s].id = id
             /\ \A s \in Reqs : req'[s].token # sessions'[id].token
    <3> SUFFICES ASSUME NEW id \in Ids, sessions'[id] # None, sessions'[id].token # None
                 PROVE  /\ sessions'[id].token \in minted \ exchanged'
                        /\ \A other \in Ids : /\ sessions'[other] # None
                                              /\ sessions'[other].token = sessions'[id].token
                              => other = id
                        /\ \A s \in Reqs : /\ req'[s].op = "refresh"
                                           /\ req'[s].copy.token = sessions'[id].token
                              => req'[s].id = id
                        /\ \A s \in Reqs : req'[s].token # sessions'[id].token
      OBVIOUS
    <3>1. CASE id = name
      <4>1. sessions'[id].token = t
        BY <1>1, <1>8, <3>1
      <4>2. \A other \in Ids : sessions'[other] # None /\ sessions'[other].token = t
               => other = id
        BY <1>8, <2>1, <3>1
      <4> QED BY <1>4, <1>5, <1>6, <2>1, <2>2, <4>1, <4>2
    <3>2. CASE id # name
      <4>1. sessions[id] # None /\ sessions'[id] = sessions[id]
        BY <1>8, <3>2
      <4>2. sessions[id].token # old
        BY <1>3, <3>2, <4>1 DEF Places, TokenPlaces
      <4>3. \A other \in Ids : sessions'[other] # None
                               /\ sessions'[other].token = sessions[id].token
               => other = id
        BY <1>1, <1>8, <2>1, <4>1 DEF Places, TokenPlaces
      <4> QED BY <1>4, <1>5, <4>1, <4>2, <4>3 DEF Places, TokenPlaces
    <3> QED BY <3>1, <3>2
  <2>4. \A s \in Reqs : req'[s].token # None
          => /\ req'[s].token \in minted \ exchanged'
             /\ \A o \in Reqs : req'[o].op = "refresh" => req'[o].copy.token # req'[s].token
             /\ \A o \in Reqs : req'[o].token = req'[s].token => o = s
    BY <1>3, <1>4, <1>5 DEF Places, TokenPlaces
  <2>5. \A s \in Reqs : req'[s].op = "refresh" => req'[s].copy.token \in minted
    BY <1>5 DEF Places, TokenPlaces
  <2>6. exchanged' \subseteq minted
    BY <1>4, <2>2 DEF Places, TokenPlaces
  <2> QED BY <1>4, <2>3, <2>4, <2>5, <2>6 DEF TokenPlaces
<1> QED BY <1>10, <1>11

LEMMA BeginRequestPlaces ==
    ASSUME Places, NEW r \in Reqs, BeginRequest(r)
    PROVE  TokenPlaces' /\ CodePlaces'
<1>1. ASSUME NEW f \in Flows, SamlLogin(r, f)
      PROVE  TokenPlaces' /\ CodePlaces'
  <2>1. RequestsKeep /\ SessionsKeep /\ CodesKept
    BY <1>1, SamlLoginKeeps, NotWritingKeeps DEF SamlLogin, Places, CodesKept
  <2> QED BY <1>1, <2>1, PlacesWhenDropping DEF SamlLogin
<1>2. ASSUME NEW op, NEW u, SignOut(r, op, u)
      PROVE  TokenPlaces' /\ CodePlaces'
  <2>1. RequestsKeep /\ SessionsKeep /\ CodesKept
    <3>1. UNCHANGED <<sessions, codeOf>>
      BY <1>2 DEF SignOut
    <3> QED BY <1>2, <3>1, SignOutKeeps, NotWritingKeeps DEF Places, CodesKept
  <2> QED BY <1>2, <2>1, PlacesWhenDropping DEF SignOut
<1> QED BY <1>1, <1>2, RedeemCodePlaces, RefreshGrantPlaces DEF BeginRequest

LEMMA ContinueRequestPlaces ==
    ASSUME Places, NEW r \in Reqs, ContinueRequest(r)
    PROVE  TokenPlaces' /\ CodePlaces'
<1>1. CASE UserGone(r)
  <2>1. RequestsKeep /\ SessionsKeep /\ CodesKept
    BY <1>1, FinishKeeps, NotWritingKeeps DEF UserGone, Places, CodesKept
  <2> QED BY <1>1, <2>1, PlacesWhenDropping DEF UserGone
<1>2. CASE DropExpired(r)
  <2>1. RequestsKeep /\ SessionsKeep /\ CodesKept
    BY <1>2, FinishKeeps, DeletingKeeps DEF DropExpired, Places, CodesKept
  <2> QED BY <1>2, <2>1, PlacesWhenDropping DEF DropExpired
<1>3. CASE NextSession(r)
  <2>1. RequestsKeep /\ SessionsKeep /\ CodesKept
    BY <1>3, NextSessionKeeps, NotWritingKeeps DEF NextSession, Places, CodesKept
  <2> QED BY <1>3, <2>1, PlacesWhenDropping DEF NextSession
<1>4. CASE DeleteSession(r)
  <2>1. RequestsKeep /\ SessionsKeep /\ CodesKept
    BY <1>4, DeleteSessionKeeps, DeletingKeeps DEF DeleteSession, Places, CodesKept
  <2> QED BY <1>4, <2>1, PlacesWhenDropping DEF DeleteSession
<1> QED BY <1>1, <1>2, <1>3, <1>4, FindUserPlaces, CreateSessionPlaces,
           UpdateSessionPlaces DEF ContinueRequest

LEMMA EnvironmentPlaces ==
    ASSUME Places, Environment
    PROVE  TokenPlaces' /\ CodePlaces'
<1>0. UNCHANGED req /\ RequestsKeep
  BY DEF Environment, IssueCode, Expire, DeleteExpired, DeleteUser, PutUser, RequestsKeep,
     KeepTokens, KeepCodes, KeepCopies
<1>1. ASSUME NEW f \in Flows, NEW c \in Codes, IssueCode(f, c)
      PROVE  TokenPlaces' /\ CodePlaces'
  <2>1. /\ c \notin minted
        /\ minted' = minted \cup {c}
        /\ codeOf' = [codeOf EXCEPT ![f] = c]
        /\ UNCHANGED <<sessions, exchanged>>
    BY <1>1 DEF IssueCode
  <2>2. TokenPlaces'
    BY <1>0, <2>1, NotWritingKeeps, KeepingTokens DEF Places, RequestsKeep, SessionsKeep
  <2>3. /\ c # None
        /\ \A g \in Flows : codeOf'[g] = IF g = f THEN c ELSE codeOf[g]
        /\ \A g \in Flows : codeOf[g] # c
        /\ \A r \in Reqs : req[r].code # c
        /\ \A id \in Ids : sessions[id] # None => sessions[id].code # c
    BY <2>1, NoneAssumption DEF Places, Shape, TypeOK, CodePlaces
  <2>4. CodePlaces'
    BY <1>0, <2>1, <2>3 DEF Places, CodePlaces
  <2> QED BY <2>2, <2>4
<1>2. ASSUME NEW id \in Ids, Expire(id)
      PROVE  TokenPlaces' /\ CodePlaces'
  <2>1. sessions[id] \in Session
    BY <1>2, StoredIsSession DEF Expire, Places, Shape
  <2> DEFINE new == [sessions[id] EXCEPT !.expired = TRUE]
  <2>2. new.token = sessions[id].token /\ new.code = sessions[id].code
    BY <2>1 DEF Session
  <2>3. sessions' = [sessions EXCEPT ![id] = new] /\ sessions[id] # None
    BY <1>2 DEF Expire, Places, Shape, TypeOK
  <2> HIDE DEF new
  <2>4. SessionsKeep
    BY <2>2, <2>3 DEF Places, Shape, TypeOK, SessionsKeep, SessionsKeepTokens,
       SessionsKeepCodes
  <2> QED BY <1>0, <1>2, <2>4, PlacesWhenDropping DEF Expire, CodesKept
<1>3. CASE DeleteExpired
  <2>1. SessionsKeep /\ CodesKept
    BY <1>3, DeletingKeeps DEF DeleteExpired, CodesKept
  <2> QED BY <1>0, <1>3, <2>1, PlacesWhenDropping DEF DeleteExpired
<1>4. ASSUME NEW u \in Users, DeleteUser(u) \/ PutUser(u)
      PROVE  TokenPlaces' /\ CodePlaces'
  <2>1. SessionsKeep /\ CodesKept
    BY <1>4, NotWritingKeeps DEF DeleteUser, PutUser, CodesKept
  <2> QED BY <1>0, <1>4, <2>1, PlacesWhenDropping DEF DeleteUser, PutUser
<1> QED BY <1>1, <1>2, <1>3, <1>4 DEF Environment

(* The inductive invariant: every token and every code handed out is in    *)
(* one place, and exchanged tokens are in none that matters.               *)
THEOREM Invariance == Spec => []Places
<1>1. Init => Places
  <2> SUFFICES ASSUME Init PROVE Places
    OBVIOUS
  <2>1. Shape
    BY InitShape
  <2>2. TokenPlaces /\ CodePlaces
    BY DEF Init, Idle, TokenPlaces, CodePlaces
  <2> QED BY <2>1, <2>2 DEF Places
<1>2. Places /\ [Next]_vars => Places'
  <2> SUFFICES ASSUME Places, [Next]_vars PROVE Places'
    OBVIOUS
  <2>1. Shape'
    BY NextShape DEF Places
  <2>2. CASE UNCHANGED vars
    <3>1. RequestsKeep /\ SessionsKeep /\ CodesKept
      BY <2>2, NotWritingKeeps DEF vars, CodesKept, RequestsKeep, KeepTokens, KeepCodes,
         KeepCopies
    <3> QED BY <2>1, <2>2, <3>1, PlacesWhenDropping DEF vars, Places
  <2>3. ASSUME NEW r \in Reqs, BeginRequest(r) \/ ContinueRequest(r)
        PROVE  TokenPlaces' /\ CodePlaces'
    BY <2>3, BeginRequestPlaces, ContinueRequestPlaces
  <2>4. CASE Environment
    BY <2>1, <2>4, EnvironmentPlaces DEF Places
  <2> QED BY <2>1, <2>2, <2>3, <2>4 DEF Next, Places
<1> QED BY <1>1, <1>2, PTL DEF Spec

(* A refresh token that was exchanged is stored with no session, whatever  *)
(* copies of the session overlapping refreshes write back                  *)
(* (oidc/router.go, handleRefreshGrant).                                   *)
THEOREM RotationIsFinal == Spec => []ExchangedIsDead
<1>1. Places => ExchangedIsDead
  <2> SUFFICES ASSUME Places, NEW id \in Ids, Stored(id)
               PROVE  sessions[id].token \notin exchanged
    BY DEF ExchangedIsDead
  <2>1. CASE sessions[id].token = None
    BY <2>1, NoneAssumption DEF Places, Shape, TypeOK
  <2>2. CASE sessions[id].token # None
    BY <2>2 DEF Places, TokenPlaces
  <2> QED BY <2>1, <2>2
<1> QED BY <1>1, Invariance, PTL

(* An authorization code starts at most one session, however redemptions,  *)
(* refreshes and logouts overlap (oidc/router.go, handleAuthCodeGrant).    *)
THEOREM CodeStartsOneSession == Spec => []OneSessionPerCode
<1>1. Places => OneSessionPerCode
  BY DEF Places, CodePlaces, OneSessionPerCode
<1> QED BY <1>1, Invariance, PTL

(* A session that was ended is not brought back by a refresh that read it  *)
(* before (store/memory/sessions.go and store/sqlite/sessions.go, Update). *)
THEOREM EndIsFinal == Spec => EndedStaysEnded
<1>1. Places /\ [Next]_vars
         => [\A id \in 1..MaxSessions : id <= clock /\ ~Stored(id) => sessions'[id] = None]_vars
  <2> SUFFICES ASSUME Places, Next, NEW id \in 1..MaxSessions, id <= clock, sessions[id] = None
               PROVE  sessions'[id] = None
    OBVIOUS
  <2>1. id \in Ids
    BY BoundAssumption
  <2>2. CASE SessionsKeep
    BY <2>1, <2>2 DEF SessionsKeep, SessionsKeepTokens
  <2>3. ASSUME NEW r \in Reqs, CreateSession(r)
        PROVE  sessions'[id] = None
    <3>1. SessionName(req[r].op) # id
      BY <2>1, BoundAssumption DEF SessionName, Places, Shape, TypeOK
    <3> QED BY <2>1, <2>3, <3>1 DEF CreateSession, Created, Places, Shape, TypeOK
  <2>4. ASSUME NEW r \in Reqs, UpdateSession(r)
        PROVE  sessions'[id] = None
    BY <2>1, <2>4 DEF UpdateSession, Updated, Places, Shape, TypeOK
  <2>5. ASSUME NEW ids, sessions' = Deleted(ids)
        PROVE  sessions'[id] = None
    BY <2>1, <2>2, <2>5, DeletingKeeps
  <2>6. ASSUME NEW other \in Ids, Expire(other)
        PROVE  sessions'[id] = None
    BY <2>1, <2>6 DEF Expire, Places, Shape, TypeOK
  <2>7. ASSUME NEW r \in Reqs, BeginRequest(r)
        PROVE  sessions'[id] = None
    BY <2>7 DEF BeginRequest, RedeemCode, RefreshGrant, SamlLogin, SignOut
  <2>8. ASSUME NEW r \in Reqs, ContinueRequest(r)
        PROVE  sessions'[id] = None
    BY <2>3, <2>4, <2>5, <2>8 DEF ContinueRequest, FindUser, UserGone, DropExpired,
       NextSession, DeleteSession
  <2>9. CASE Environment
    BY <2>5, <2>6, <2>9 DEF Environment, IssueCode, DeleteExpired, DeleteUser, PutUser
  <2> QED BY <2>7, <2>8, <2>9 DEF Next
<1> QED BY <1>1, Invariance, PTL DEF Spec, EndedStaysEnded

-----------------------------------------------------------------------------
(* A logout by user.  What it lists is known by name and time stamp; the   *)
(* stamps only grow, so what it has deleted is not mistaken for a session  *)
(* that was given the same name later.                                     *)

Stamped ==
    /\ \A id \in Ids : Stored(id) => sessions[id].created <= clock
    /\ \A id \in Ids \ {0} : Stored(id) => sessions[id].created = id
    /\ \A r \in Reqs : req[r].op = "refresh" => req[r].copy.created = req[r].id
    /\ \A r \in Reqs : \A l \in req[r].listed : l.created <= clock

(* A session is kept with its stamp or is new.                             *)
KeptOrNew ==
    /\ clock' \in {clock, clock + 1}
    /\ \A id \in Ids : sessions'[id] # None =>
          \/ Stored(id) /\ sessions'[id].created = sessions[id].created
          \/ /\ clock' = clock + 1 /\ sessions'[id].created = clock + 1
             /\ id \in {0, clock + 1}

LEMMA StoreStamps ==
    ASSUME Shape, Stamped, [Next]_vars
    PROVE  KeptOrNew
<1>0. /\ sessions \in [Ids -> Session \cup {None}] /\ clock \in Nat
      /\ req \in [Reqs -> Request]
  BY BoundAssumption DEF Shape, TypeOK
<1>1. ASSUME NEW ids, sessions' = Deleted(ids), clock' = clock PROVE KeptOrNew
  BY <1>0, <1>1 DEF KeptOrNew, Deleted
<1>2. ASSUME sessions' = sessions, clock' = clock PROVE KeptOrNew
  BY <1>2 DEF KeptOrNew
<1>3. ASSUME NEW r \in Reqs, CreateSession(r) PROVE KeptOrNew
  <2> DEFINE name == SessionName(req[r].op)
             new == [user |-> req[r].user, flow |-> req[r].flow, token |-> req[r].token,
                     expired |-> FALSE, created |-> clock + 1, code |-> req[r].code]
  <2>1. name \in {0, clock + 1} /\ new.created = clock + 1 /\ clock' = clock + 1
    BY <1>3 DEF SessionName, CreateSession
  <2>2. sessions' = sessions \/ sessions' = [sessions EXCEPT ![name] = new]
    BY <1>3 DEF CreateSession, Created
  <2> HIDE DEF new, name
  <2> QED BY <1>0, <2>1, <2>2 DEF KeptOrNew
<1>4. ASSUME NEW r \in Reqs, UpdateSession(r) PROVE KeptOrNew
  <2> DEFINE copy == req[r].copy
             id   == req[r].id
             new  == Rotated(copy, req[r].token)
  <2>0. req[r].pc = "update" /\ RequestShape(r) /\ req[r] \in Request /\ clock <= MaxSessions
    BY <1>0, <1>4, BoundAssumption DEF UpdateSession, Shape, TypeOK
  <2>1. /\ id \in 1..clock /\ copy \in Session /\ copy.created = id
        /\ Stored(id) => sessions[id].created = id
    <3>1. req[r].op = "refresh" /\ id \in 1..clock /\ copy # None
      BY <2>0 DEF RequestShape
    <3>2. copy \in Session
      BY <2>0, <3>1 DEF Request
    <3>3. id \in Ids \ {0}
      BY <1>0, <2>0, <3>1, BoundAssumption
    <3> QED BY <3>1, <3>2, <3>3 DEF Stamped
  <2>2. new.created = id
    BY <2>1 DEF Rotated, Session
  <2>3. /\ clock' = clock
        /\ sessions' = IF Stored(id) THEN [sessions EXCEPT ![id] = new] ELSE sessions
    BY <1>4 DEF UpdateSession, Updated
  <2> HIDE DEF new, copy
  <2> QED BY <1>0, <2>1, <2>2, <2>3 DEF KeptOrNew
<1>5. ASSUME NEW id \in Ids, Expire(id) PROVE KeptOrNew
  <2>1. /\ sessions' = [sessions EXCEPT ![id].expired = TRUE] /\ clock' = clock
        /\ sessions[id] \in Session /\ Stored(id)
    BY <1>0, <1>5 DEF Expire
  <2>2. sessions'[id].created = sessions[id].created
    BY <1>0, <2>1 DEF Session
  <2> QED BY <1>0, <2>1, <2>2 DEF KeptOrNew
<1>6. ASSUME NEW r \in Reqs, BeginRequest(r) PROVE KeptOrNew
  BY <1>2, <1>6 DEF BeginRequest, RedeemCode, RefreshGrant, SamlLogin, SignOut
<1>7. ASSUME NEW r \in Reqs, ContinueRequest(r) PROVE KeptOrNew
  BY <1>1, <1>2, <1>3, <1>4, <1>7 DEF ContinueRequest, FindUser, UserGone, DropExpired,
     NextSession, DeleteSession
<1>8. CASE Environment
  BY <1>1, <1>2, <1>5, <1>8 DEF Environment, IssueCode, DeleteExpired, DeleteUser, PutUser
<1> QED BY <1>2, <1>6, <1>7, <1>8 DEF Next, vars

(* What a step makes of the requests.                                      *)
RequestGoesOn(r) ==
    \/ req'[r] = req[r]
    \/ req'[r] = Idle
    \/ /\ req'[r].op \in {"code", "saml"} /\ req'[r].listed = {}
    \/ /\ req'[r].op = "refresh" /\ req'[r].listed = {}
       /\ Stored(req'[r].id) /\ req'[r].id # 0
       /\ req'[r].copy.created = sessions[req'[r].id].created
    \/ /\ req'[r].op \in {"logoutUser", "logoutName", "signOut"}
       /\ req'[r].listed \subseteq ListedSessions
       /\ req'[r].todo = req'[r].listed \/ req'[r].op # "logoutUser"
    \/ /\ req'[r].op = req[r].op /\ req'[r].copy = req[r].copy /\ req'[r].id = req[r].id
       /\ req[r].op \in {"code", "saml", "refresh"}
       /\ req'[r].listed = req[r].listed
    \/ /\ req'[r].op = req[r].op /\ req'[r].listed = req[r].listed
       /\ req[r].op # "refresh"
       /\ NextSession(r) \/ DeleteSession(r)

LEMMA RequestsGoOn ==
    ASSUME Shape, [Next]_vars, NEW r \in Reqs
    PROVE  RequestGoesOn(r)
<1>0. /\ req \in [Reqs -> Request] /\ req[r] \in Request
      /\ Idle \in Request /\ Idle.listed = {} /\ RequestShape(r)
  BY IdleIsRequest DEF Shape, TypeOK, Idle
<1>1. CASE req'[r] = req[r]
  BY <1>1 DEF RequestGoesOn
<1>2. ASSUME BeginRequest(r) PROVE RequestGoesOn(r)
  <2>1. ASSUME NEW f \in Flows, RedeemCode(r, f) \/ SamlLogin(r, f) PROVE RequestGoesOn(r)
    <3>1. ASSUME NEW pc, NEW op \in {"code", "saml"}, NEW u, NEW c,
                 req' = [req EXCEPT ![r] = [Idle EXCEPT !.pc = pc, !.op = op, !.user = u,
                                                        !.flow = f, !.code = c]]
          PROVE  RequestGoesOn(r)
      <4>1. req'[r].op = op /\ req'[r].listed = {}
        BY <1>0, <3>1 DEF Request
      <4> QED BY <4>1 DEF RequestGoesOn
    <3>2. ASSUME NEW pc, NEW op \in {"code", "saml"}, NEW u,
                 req' = [req EXCEPT ![r] = [Idle EXCEPT !.pc = pc, !.op = op, !.user = u,
                                                        !.flow = f]]
          PROVE  RequestGoesOn(r)
      <4>1. req'[r].op = op /\ req'[r].listed = {}
        BY <1>0, <3>2 DEF Request
      <4> QED BY <4>1 DEF RequestGoesOn
    <3>3. CASE RedeemCode(r, f)
      <4>1. req'[r] = req[r] \/ req' = [req EXCEPT ![r] =
                [Idle EXCEPT !.pc = "findUser", !.op = "code", !.user = login[f],
                             !.flow = f, !.code = codeOf[f]]]
        BY <3>3 DEF RedeemCode, Start
      <4> QED BY <1>1, <3>1, <4>1
    <3>4. CASE SamlLogin(r, f)
      <4>1. req' = [req EXCEPT ![r] =
                [Idle EXCEPT !.pc = "findUser", !.op = "saml", !.user = login[f], !.flow = f]]
        BY <3>4 DEF SamlLogin, Start
      <4> QED BY <3>2, <4>1
    <3> QED BY <2>1, <3>3, <3>4
  <2>2. ASSUME NEW id \in Ids, RefreshGrant(r, id) PROVE RequestGoesOn(r)
    <3>1. /\ req'[r] = RefreshWith(id) /\ Stored(id) /\ sessions[id].token # None
      BY <1>0, <2>2 DEF RefreshGrant, Start
    <3>2. /\ RefreshWith(id).op = "refresh" /\ RefreshWith(id).listed = {}
          /\ RefreshWith(id).id = id /\ RefreshWith(id).copy = sessions[id]
      BY <1>0 DEF RefreshWith, Request
    <3>3. id # 0
      BY <3>1 DEF Shape, NamesGiven
    <3> QED BY <3>1, <3>2, <3>3 DEF RequestGoesOn
  <2>3. ASSUME NEW op, NEW u, SignOut(r, op, u) PROVE RequestGoesOn(r)
    <3> DEFINE found == IF op = "logoutUser"
                        THEN {l \in ListedSessions : l.user = u}
                        ELSE ListedSessions
               q == [Idle EXCEPT !.pc = "next", !.op = op, !.user = u, !.todo = found,
                                 !.listed = IF op = "logoutUser" THEN found ELSE {}]
    <3>1. req' = [req EXCEPT ![r] = q] /\ op \in {"logoutUser", "logoutName", "signOut"}
      BY <2>3 DEF SignOut, Start
    <3>2. /\ q.op = op /\ q.todo = found
          /\ q.listed = IF op = "logoutUser" THEN found ELSE {}
      BY <1>0 DEF Request
    <3>3. found \subseteq ListedSessions
      OBVIOUS
    <3> HIDE DEF q, found
    <3>4. req'[r] = q
      BY <1>0, <3>1
    <3> QED BY <3>1, <3>2, <3>3, <3>4 DEF RequestGoesOn
  <2> QED BY <1>2, <2>1, <2>2, <2>3 DEF BeginRequest
<1>3. ASSUME ContinueRequest(r) PROVE RequestGoesOn(r)
  <2>1. ASSUME Finish(r) PROVE RequestGoesOn(r)
    BY <1>0, <2>1 DEF Finish, RequestGoesOn
  <2>2. ASSUME NEW t, FindUser(r, t) PROVE RequestGoesOn(r)
    <3>1. /\ req'[r].op = req[r].op /\ req'[r].copy = req[r].copy
          /\ req'[r].id = req[r].id /\ req'[r].listed = req[r].listed
      BY <1>0, <2>2 DEF FindUser, Request
    <3>2. req[r].op \in {"code", "saml", "refresh"}
      BY <2>2 DEF FindUser
    <3> QED BY <3>1, <3>2 DEF RequestGoesOn
  <2>3. ASSUME NextSession(r) PROVE RequestGoesOn(r)
    <3>1. CASE Finish(r)
      BY <2>1, <3>1
    <3>2. CASE ~Finish(r)
      <4>1. req'[r].op = req[r].op /\ req'[r].listed = req[r].listed
        <5>1. PICK l \in req[r].todo :
                 req' = [req EXCEPT
                           ![r].todo = @ \ {l},
                           ![r].pc = IF IsToBeDeleted(r, l) THEN "delete" ELSE "next",
                           ![r].id = IF IsToBeDeleted(r, l) THEN l.id ELSE None]
          BY <2>3, <3>2 DEF NextSession
        <5> DEFINE del == IsToBeDeleted(r, l)
        <5> HIDE DEF del
        <5>2. req' = [req EXCEPT ![r].todo = @ \ {l},
                                 ![r].pc = IF del THEN "delete" ELSE "next",
                                 ![r].id = IF del THEN l.id ELSE None]
          BY <5>1 DEF del
        <5> QED BY <1>0, <5>2 DEF Request
      <4>2. req[r].op # "refresh"
        BY <1>0, <2>3 DEF NextSession, RequestShape
      <4> QED BY <2>3, <4>1, <4>2 DEF RequestGoesOn
    <3> QED BY <3>1, <3>2
  <2>4. ASSUME DeleteSession(r) PROVE RequestGoesOn(r)
    <3>1. req'[r].op = req[r].op /\ req'[r].listed = req[r].listed
      BY <1>0, <2>4 DEF DeleteSession, Request
    <3>2. req[r].op # "refresh"
      BY <1>0, <2>4 DEF DeleteSession, RequestShape
    <3> QED BY <2>4, <3>1, <3>2 DEF RequestGoesOn
  <2> QED BY <1>3, <2>1, <2>2, <2>3, <2>4 DEF ContinueRequest, UserGone, CreateSession,
             UpdateSession, DropExpired
<1>4. ASSUME NEW s \in Reqs, s # r, BeginRequest(s) \/ ContinueRequest(s)
      PROVE  req'[r] = req[r]
  <2>1. \E q : req' = [req EXCEPT ![s] = q] \/ req' = req
    BY <1>4 DEF BeginRequest, ContinueRequest, RedeemCode, SamlLogin, RefreshGrant, SignOut,
       Start, Finish, FindUser, UserGone, CreateSession, UpdateSession, DropExpired,
       NextSession, DeleteSession
  <2> QED BY <1>0, <1>4, <2>1
<1>5. CASE Environment
  BY <1>1, <1>5 DEF Environment, IssueCode, Expire, DeleteExpired, DeleteUser, PutUser
<1> QED BY <1>1, <1>2, <1>3, <1>4, <1>5 DEF Next, vars

LEMMA StampedStep ==
    ASSUME Shape, Stamped, [Next]_vars
    PROVE  Stamped'
<1>0. /\ KeptOrNew /\ \A r \in Reqs : RequestGoesOn(r)
      /\ clock \in Nat /\ sessions \in [Ids -> Session \cup {None}] /\ Idle.listed = {}
      /\ Idle.op = "none" /\ \A r \in Reqs : RequestShape(r)
  BY StoreStamps, RequestsGoOn, BoundAssumption DEF Shape, TypeOK, Idle
<1>1. \A id \in Ids : sessions'[id] # None =>
          \/ sessions[id] # None /\ sessions'[id].created = sessions[id].created
          \/ sessions'[id].created = clock' /\ id \in {0, clock'}
  BY <1>0 DEF KeptOrNew
<1>2. clock' \in Nat /\ clock <= clock'
  BY <1>0 DEF KeptOrNew
<1>3. \A id \in Ids : Stored(id) => sessions[id].created \in Nat
  BY <1>0, BoundAssumption DEF Session
<1>4. \A id \in Ids : sessions'[id] # None => sessions'[id].created <= clock'
  BY <1>0, <1>1, <1>2, <1>3 DEF Stamped
<1>5. \A id \in Ids \ {0} : sessions'[id] # None => sessions'[id].created = id
  BY <1>1 DEF Stamped
<1>6. ASSUME NEW r \in Reqs, req'[r].op = "refresh"
      PROVE  req'[r].copy.created = req'[r].id
  <2>1. \A id \in Ids \ {0} : Stored(id) => sessions[id].created = id
    BY DEF Stamped
  <2>2. req' \in [Reqs -> Request] /\ RequestShape(r)'
    BY NextShape DEF Shape, TypeOK
  <2>3. req'[r].id \in Ids
    BY <1>6, <2>2, NextShape, BoundAssumption DEF RequestShape, Shape, TypeOK
  <2> QED BY <1>0, <1>6, <2>1, <2>3 DEF RequestGoesOn, Stamped
<1>7. ASSUME NEW r \in Reqs, NEW l \in req'[r].listed PROVE l.created <= clock'
  <2>1. \A k \in ListedSessions : k.created <= clock /\ k.created \in Nat
    BY <1>0, <1>3 DEF ListedSessions, Stamped
  <2>2. req[r].listed \subseteq Listed
    BY DEF Shape, TypeOK, Request
  <2>3. l \in req[r].listed \/ l \in ListedSessions
    BY <1>0, <1>7 DEF RequestGoesOn
  <2>4. l.created <= clock /\ l.created \in Nat
    BY <2>1, <2>2, <2>3, BoundAssumption DEF Stamped, Listed
  <2> QED BY <1>0, <1>2, <2>4
<1> QED BY <1>4, <1>5, <1>6, <1>7 DEF Stamped

LEMMA LogoutStep ==
    ASSUME Shape, Stamped, LogoutCompletes, [Next]_vars
    PROVE  LogoutCompletes'
<1>0. /\ KeptOrNew /\ \A r \in Reqs : RequestGoesOn(r)
      /\ clock \in Nat /\ req \in [Reqs -> Request] /\ Idle.op = "none"
      /\ sessions \in [Ids -> Session \cup {None}]
  BY StoreStamps, RequestsGoOn, BoundAssumption DEF Shape, TypeOK, Idle
<1> SUFFICES ASSUME NEW r \in Reqs, req'[r].op = "logoutUser", NEW l \in req'[r].listed,
                    sessions'[l.id] # None, sessions'[l.id].created = l.created
             PROVE  l \in req'[r].todo \/ (req'[r].pc = "delete" /\ req'[r].id = l.id)
  BY DEF LogoutCompletes
<1>1. CASE req'[r].listed \subseteq ListedSessions /\ req'[r].todo = req'[r].listed
  BY <1>1
<1>2. ASSUME req[r].op = "logoutUser", req'[r].listed = req[r].listed
      PROVE  Stored(l.id) /\ sessions[l.id].created = l.created
  <2>1. l \in Listed /\ l.created <= clock
    BY <1>0, <1>2 DEF Stamped, Request
  <2> QED BY <1>0, <2>1, BoundAssumption DEF KeptOrNew, Listed
<1>3. ASSUME req[r].op = "logoutUser", req'[r].listed = req[r].listed
      PROVE  l \in req[r].todo \/ (req[r].pc = "delete" /\ req[r].id = l.id)
  BY <1>2, <1>3 DEF LogoutCompletes
<1>4. CASE req'[r] = req[r]
  BY <1>3, <1>4
<1>5. ASSUME req[r].op = "logoutUser", req'[r].listed = req[r].listed, NextSession(r),
             req'[r].op # "none"
      PROVE  l \in req'[r].todo \/ (req'[r].pc = "delete" /\ req'[r].id = l.id)
  <2>1. l \in req[r].todo
    BY <1>3, <1>5 DEF NextSession
  <2>2. ~Finish(r)
    BY <1>0, <1>5 DEF Finish
  <2>3. PICK k \in req[r].todo :
           req' = [req EXCEPT ![r].todo = @ \ {k},
                              ![r].pc = IF IsToBeDeleted(r, k) THEN "delete" ELSE "next",
                              ![r].id = IF IsToBeDeleted(r, k) THEN k.id ELSE None]
    BY <1>5, <2>2 DEF NextSession
  <2>4. IsToBeDeleted(r, k)
    BY <1>5 DEF IsToBeDeleted
  <2>5. /\ req'[r].todo = req[r].todo \ {k} /\ req'[r].pc = "delete" /\ req'[r].id = k.id
    <3>1. req' = [req EXCEPT ![r].todo = @ \ {k}, ![r].pc = "delete", ![r].id = k.id]
      BY <2>3, <2>4
    <3> QED BY <1>0, <3>1 DEF Request
  <2> QED BY <2>1, <2>5
<1>6. ASSUME req[r].op = "logoutUser", req'[r].listed = req[r].listed, DeleteSession(r)
      PROVE  l \in req'[r].todo
  <2>1. l \in Listed /\ l.id \in Ids
    BY <1>0, <1>6 DEF Request, Listed
  <2>2. req[r].id # l.id
    BY <1>6, <2>1 DEF DeleteSession, Deleted
  <2>3. req'[r].todo = req[r].todo
    BY <1>0, <1>6 DEF DeleteSession, Request
  <2> QED BY <1>3, <1>6, <2>2, <2>3
<1> QED BY <1>0, <1>1, <1>4, <1>5, <1>6 DEF RequestGoesOn

(* When the logout of a user answers, every session it found for the user  *)
(* is gone, whatever refreshes, logins and other logouts overlap it        *)
(* (oidc/router.go, /oauth2/logout).                                       *)
THEOREM LogoutsComplete == Spec => []LogoutCompletes
<1>1. Init => Stamped /\ LogoutCompletes
  BY DEF Init, Idle, Stamped, LogoutCompletes
<1>2. Shape /\ Stamped /\ LogoutCompletes /\ [Next]_vars => Stamped' /\ LogoutCompletes'
  BY StampedStep, LogoutStep
<1>3. Spec => []Shape
  <2>1. Places => Shape
    BY DEF Places
  <2> QED BY <2>1, Invariance, PTL
<1> QED BY <1>1, <1>2, <1>3, PTL DEF Spec
=============================================================================
