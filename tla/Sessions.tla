------------------------------- MODULE Sessions -------------------------------
(***************************************************************************)
(* The session store and what creates, rotates and ends a session: the     *)
(* authorization-code and refresh-token grants of the token endpoint, the  *)
(* SAML response, SAML single logout, the WS-Federation sign-out and the   *)
(* cleanup tick.                                                           *)
(*                                                                         *)
(* As in LoginFlow a store operation is atomic and a handler is a process  *)
(* between two of them.  Which flows have completed, and for whom, is      *)
(* given; LoginFlow says how they get there.                               *)
(***************************************************************************)
EXTENDS Naturals, FiniteSets

CONSTANTS
    Users,        \* identities of users
    Flows,        \* flows whose login has completed
    Codes,        \* authorization codes, 16 random bytes each
    Tokens,       \* refresh tokens, 32 random bytes each, stored as a keyed hash
    Reqs,         \* HTTP requests in progress at the same time
    MaxSessions,  \* bound on the sessions ever created
    Backend,      \* "memory" or "sqlite"
    Ops,          \* the operations this instance exercises
    None          \* absent session, user, flow, code or token

RequestOps == {"code", "refresh", "saml", "logoutUser", "logoutName", "signOut"}

EnvironmentOps == {"expire", "cleanup", "putUser", "deleteUser"}

ASSUME NoneAssumption == None \notin Users \cup Flows \cup Codes \cup Tokens
ASSUME BoundAssumption == MaxSessions \in Nat /\ None \notin Nat
ASSUME BackendAssumption == Backend \in {"memory", "sqlite"}
ASSUME OpsAssumption == Ops \subseteq RequestOps \cup EnvironmentOps

(* Sessions of the token endpoint are named by the clock.  A SAML session  *)
(* is given no name at all, which is a name like any other to the store.   *)
Unnamed == 0
Ids == 0..MaxSessions

Session ==
    [user    : Users,
     flow    : Flows,
     token   : Tokens \cup {None},    \* the refresh token whose hash is stored
     expired : BOOLEAN,
     created : Ids,
     code    : Codes \cup {None}]     \* history: the code that started the session

ASSUME SessionAssumption == None \notin Session

(* What the logouts use of the sessions they list.                         *)
Listed == [id : Ids, user : Users, created : Ids]

VARIABLES
    sessions,   \* the session store
    clock,      \* the time stamp of the last session
    users,      \* the users who exist
    login,      \* who logged in on a flow
    codeOf,     \* the code a flow carries
    req,        \* the requests in progress
    minted,     \* codes and tokens handed out by the random generator
    exchanged   \* history: refresh tokens exchanged for new ones

vars == <<sessions, clock, users, login, codeOf, req, minted, exchanged>>

Request ==
    [pc     : {"idle", "findUser", "create", "update", "drop", "next", "delete"},
     op     : RequestOps \cup {"none"},
     user   : Users \cup {None},
     flow   : Flows \cup {None},
     code   : Codes \cup {None},
     token  : Tokens \cup {None},      \* the new refresh token
     id     : Ids \cup {None},         \* the session at hand
     copy   : Session \cup {None},     \* the copy read of it
     todo   : SUBSET Listed,           \* listed sessions not yet dealt with
     listed : SUBSET Listed]           \* history: all that a logout by user has listed

Idle == [pc |-> "idle", op |-> "none", user |-> None, flow |-> None, code |-> None,
         token |-> None, id |-> None, copy |-> None, todo |-> {}, listed |-> {}]

(* One type invariant for the module.                                      *)
TypeOK ==
    /\ sessions \in [Ids -> Session \cup {None}]
    /\ clock \in Ids
    /\ users \subseteq Users
    /\ login \in [Flows -> Users]
    /\ codeOf \in [Flows -> Codes \cup {None}]
    /\ req \in [Reqs -> Request]
    /\ minted \subseteq Codes \cup Tokens
    /\ exchanged \subseteq Tokens

Init ==
    /\ sessions = [id \in Ids |-> None]
    /\ clock = 0
    /\ users = Users
    /\ login \in [Flows -> Users]
    /\ codeOf = [f \in Flows |-> None]
    /\ req = [r \in Reqs |-> Idle]
    /\ minted = {}
    /\ exchanged = {}

-----------------------------------------------------------------------------
(* The store.                                                              *)

Stored(id) == sessions[id] # None

(* An occupied name is overwritten in memory and refused by the table; the *)
(* callers ignore the refusal.                                             *)
Created(id, session) ==
    IF Backend = "memory" \/ ~Stored(id)
    THEN [sessions EXCEPT ![id] = session]
    ELSE sessions

(* Slip: Update inserts a session that is not there.                       *)
UpdatedInserts(id, session) == [sessions EXCEPT ![id] = session]

(* Update of a session that is gone fails, and the caller ignores that.    *)
Updated(id, session) ==
    IF Stored(id) THEN [sessions EXCEPT ![id] = session] ELSE sessions

Deleted(ids) == [id \in Ids |-> IF id \in ids THEN None ELSE sessions[id]]

ListedSessions ==
    {[id |-> i, user |-> sessions[i].user, created |-> sessions[i].created] :
        i \in {j \in Ids : Stored(j)}}

Start(r, request) ==
    /\ req[r].pc = "idle"
    /\ req' = [req EXCEPT ![r] = request]

Finish(r) == req' = [req EXCEPT ![r] = Idle]

-----------------------------------------------------------------------------
(* The grants.                                                             *)

(* /authorize/complete, which may be asked again for the same flow.        *)
IssueCode(f, c) ==
    /\ "code" \in Ops
    /\ c \notin minted
    /\ minted' = minted \cup {c}
    /\ codeOf' = [codeOf EXCEPT ![f] = c]
    /\ UNCHANGED <<sessions, clock, users, login, req, exchanged>>

(* Slip: the code is looked up and not used up.                            *)
RedeemCodeAgain(r, f) ==
    /\ "code" \in Ops
    /\ codeOf[f] # None
    /\ Start(r, [Idle EXCEPT !.pc = "findUser", !.op = "code", !.user = login[f],
                             !.flow = f, !.code = codeOf[f]])
    /\ UNCHANGED <<sessions, clock, users, login, codeOf, minted, exchanged>>

(* ConsumeAuthCode comes first: a wrong redirect_uri or verifier, or an    *)
(* expired flow, uses the code up too.                                     *)
RedeemCode(r, f) ==
    /\ "code" \in Ops
    /\ codeOf[f] # None
    /\ codeOf' = [codeOf EXCEPT ![f] = None]
    /\ \/ Start(r, [Idle EXCEPT !.pc = "findUser", !.op = "code", !.user = login[f],
                                !.flow = f, !.code = codeOf[f]])
       \/ req[r].pc = "idle" /\ UNCHANGED req
    /\ UNCHANGED <<sessions, clock, users, login, minted, exchanged>>

(* An expired session goes to be deleted.                                  *)
RefreshWith(id) ==
    [Idle EXCEPT !.pc = IF sessions[id].expired THEN "drop" ELSE "findUser",
                 !.op = "refresh", !.user = sessions[id].user, !.id = id,
                 !.copy = sessions[id]]

(* Slip: an empty token finds the session that stores none.                *)
RefreshGrantUnguarded(r, id) ==
    /\ "refresh" \in Ops
    /\ Stored(id)
    /\ Start(r, RefreshWith(id))
    /\ UNCHANGED <<sessions, clock, users, login, codeOf, minted, exchanged>>

(* GetByRefreshToken finds the session that stores the token's hash.       *)
RefreshGrant(r, id) ==
    /\ "refresh" \in Ops
    /\ Stored(id)
    /\ sessions[id].token # None
    /\ Start(r, RefreshWith(id))
    /\ UNCHANGED <<sessions, clock, users, login, codeOf, minted, exchanged>>

(* GET /saml/sso with the completed flow, any number of times.             *)
SamlLogin(r, f) ==
    /\ "saml" \in Ops
    /\ Start(r, [Idle EXCEPT !.pc = "findUser", !.op = "saml", !.user = login[f],
                             !.flow = f])
    /\ UNCHANGED <<sessions, clock, users, login, codeOf, minted, exchanged>>

(* users.GetByID, then the tokens or the assertion are made.               *)
FindUser(r, t) ==
    /\ req[r].pc = "findUser"
    /\ req[r].user \in users
    /\ \/ /\ req[r].op = "saml"
          /\ t = None
          /\ req' = [req EXCEPT ![r].pc = "create"]
          /\ UNCHANGED minted
       \/ /\ req[r].op \in {"code", "refresh"}
          /\ t \in Tokens \ minted
          /\ minted' = minted \cup {t}
          /\ req' = [req EXCEPT ![r].pc = IF req[r].op = "code" THEN "create" ELSE "update",
                                ![r].token = t]
    /\ UNCHANGED <<sessions, clock, users, login, codeOf, exchanged>>

UserGone(r) ==
    /\ req[r].pc = "findUser"
    /\ req[r].user \notin users
    /\ Finish(r)
    /\ UNCHANGED <<sessions, clock, users, login, codeOf, minted, exchanged>>

SessionName(op) == IF op = "saml" THEN Unnamed ELSE clock + 1

CreateSession(r) ==
    /\ req[r].pc = "create"
    /\ clock < MaxSessions
    /\ clock' = clock + 1
    /\ sessions' = Created(SessionName(req[r].op),
                           [user |-> req[r].user, flow |-> req[r].flow,
                            token |-> req[r].token, expired |-> FALSE,
                            created |-> clock + 1, code |-> req[r].code])
    /\ Finish(r)
    /\ UNCHANGED <<users, login, codeOf, minted, exchanged>>

(* Slip: the new token is handed out but not stored.                       *)
RotatedForgets(copy, t) == [copy EXCEPT !.expired = FALSE]

Rotated(copy, t) == [copy EXCEPT !.token = t, !.expired = FALSE]

(* The new tokens are answered whether or not the session was still there. *)
UpdateSession(r) ==
    /\ req[r].pc = "update"
    /\ sessions' = Updated(req[r].id, Rotated(req[r].copy, req[r].token))
    /\ exchanged' = exchanged \cup {req[r].copy.token}
    /\ Finish(r)
    /\ UNCHANGED <<clock, users, login, codeOf, minted>>

DropExpired(r) ==
    /\ req[r].pc = "drop"
    /\ sessions' = Deleted({req[r].id})
    /\ Finish(r)
    /\ UNCHANGED <<clock, users, login, codeOf, minted, exchanged>>

-----------------------------------------------------------------------------
(* Ending sessions: list them all, then delete one after the other.        *)

SignOut(r, op, u) ==
    /\ op \in Ops \cap {"logoutUser", "logoutName", "signOut"}
    /\ (op = "signOut") = (u = None)
    /\ LET found == IF op = "logoutUser"
                    THEN {l \in ListedSessions : l.user = u}
                    ELSE ListedSessions
       IN  Start(r, [Idle EXCEPT !.pc = "next", !.op = op, !.user = u, !.todo = found,
                                 !.listed = IF op = "logoutUser" THEN found ELSE {}])
    /\ UNCHANGED <<sessions, clock, users, login, codeOf, minted, exchanged>>

(* The name of a LogoutRequest is compared with the user of each session,  *)
(* looked up now; the session of a user who is gone is passed over.        *)
IsToBeDeleted(r, l) ==
    req[r].op = "logoutName" => l.user \in users /\ l.user = req[r].user

(* The sessions are listed in the order of their names.                    *)
NextSession(r) ==
    /\ req[r].pc = "next"
    /\ \/ req[r].todo = {} /\ Finish(r)
       \/ \E l \in req[r].todo :
             /\ \A other \in req[r].todo : l.id <= other.id
             /\ req' = [req EXCEPT
                           ![r].todo = @ \ {l},
                           ![r].pc = IF IsToBeDeleted(r, l) THEN "delete" ELSE "next",
                           ![r].id = IF IsToBeDeleted(r, l) THEN l.id ELSE None]
    /\ UNCHANGED <<sessions, clock, users, login, codeOf, minted, exchanged>>

DeleteSession(r) ==
    /\ req[r].pc = "delete"
    /\ sessions' = Deleted({req[r].id})
    /\ req' = [req EXCEPT ![r].pc = "next", ![r].id = None]
    /\ UNCHANGED <<clock, users, login, codeOf, minted, exchanged>>

-----------------------------------------------------------------------------
(* Time, the cleanup tick and the administrator.                           *)

Expire(id) ==
    /\ "expire" \in Ops
    /\ Stored(id) /\ ~sessions[id].expired
    /\ sessions' = [sessions EXCEPT ![id].expired = TRUE]
    /\ UNCHANGED <<clock, users, login, codeOf, req, minted, exchanged>>

DeleteExpired ==
    /\ "cleanup" \in Ops
    /\ sessions' = Deleted({id \in Ids : Stored(id) /\ sessions[id].expired})
    /\ UNCHANGED <<clock, users, login, codeOf, req, minted, exchanged>>

DeleteUser(u) ==
    /\ "deleteUser" \in Ops
    /\ users' = users \ {u}
    /\ UNCHANGED <<sessions, clock, login, codeOf, req, minted, exchanged>>

PutUser(u) ==
    /\ "putUser" \in Ops
    /\ users' = users \cup {u}
    /\ UNCHANGED <<sessions, clock, login, codeOf, req, minted, exchanged>>

-----------------------------------------------------------------------------
BeginRequest(r) ==
    \/ \E f \in Flows : RedeemCode(r, f) \/ SamlLogin(r, f)
    \/ \E id \in Ids : RefreshGrant(r, id)
    \/ \E op \in RequestOps, u \in Users \cup {None} : SignOut(r, op, u)

ContinueRequest(r) ==
    \/ \E t \in Tokens \cup {None} : FindUser(r, t)
    \/ UserGone(r)
    \/ CreateSession(r)
    \/ UpdateSession(r)
    \/ DropExpired(r)
    \/ NextSession(r)
    \/ DeleteSession(r)

Environment ==
    \/ \E f \in Flows, c \in Codes : IssueCode(f, c)
    \/ \E id \in Ids : Expire(id)
    \/ DeleteExpired
    \/ \E u \in Users : DeleteUser(u) \/ PutUser(u)

Next ==
    \/ \E r \in Reqs : BeginRequest(r) \/ ContinueRequest(r)
    \/ Environment

Spec == Init /\ [][Next]_vars

-----------------------------------------------------------------------------
(* Properties of the store, whatever requests overlap.                     *)

(* A refresh token that has been exchanged is never accepted again,        *)
(* although overlapping refreshes write whole copies of the session.       *)
ExchangedIsDead ==
    \A id \in Ids : Stored(id) => sessions[id].token \notin exchanged

(* Every code starts at most one session.                                  *)
OneSessionPerCode ==
    \A i, j \in Ids :
        i # j /\ Stored(i) /\ Stored(j) /\ sessions[i].code # None
            => sessions[i].code # sessions[j].code

(* A session of the token endpoint that was ended, by a logout or by the   *)
(* cleanup, is not brought back by a refresh that was under way.           *)
EndedStaysEnded ==
    [][\A id \in 1..MaxSessions : id <= clock /\ ~Stored(id) => sessions'[id] = None]_vars

(* While a user is logged out, what remains of the sessions found for them *)
(* is what the logout still has to delete, also when refreshes and other   *)
(* logins go on: when it answers, all of them are gone.                    *)
LogoutCompletes ==
    \A r \in Reqs :
        req[r].op = "logoutUser" =>
            \A l \in req[r].listed :
                Stored(l.id) /\ sessions[l.id].created = l.created
                    => \/ l \in req[r].todo
                       \/ req[r].pc = "delete" /\ req[r].id = l.id
=============================================================================
