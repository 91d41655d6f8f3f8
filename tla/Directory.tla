------------------------------ MODULE Directory ------------------------------
(***************************************************************************)
(* The users and the groups, and everybody who writes them: the management *)
(* API (/api/v1/users, /api/v1/groups) and the SCIM server (/scim/v2).     *)
(*                                                                         *)
(* A membership is kept twice, in the group list of the user and in the    *)
(* member list of the group.  The user handlers of the management API      *)
(* reconcile the groups after they have written the user, reading and      *)
(* writing one group after the other; SCIM and the group handlers do not   *)
(* reconcile.  A store operation is atomic; a handler is a request in req  *)
(* between two of them, with the copies it carries.  A request refused     *)
(* before it wrote anything is not a step.  What handlers tell the audit   *)
(* log and the SCIM client is left out.                                    *)
(***************************************************************************)
EXTENDS Naturals, FiniteSets

CONSTANTS
    Users,        \* identities of users
    Groups,       \* identities of groups
    Made,         \* those the server makes, of its clock; clients choose the others
    Emails,
    Reqs,         \* HTTP requests in progress at the same time
    MaxRequests,  \* bound on the requests clients begin
    None          \* absent record, identity or list

(* Names, claims, phone numbers and the like are left out.                 *)
UserRecord == [email : Emails, groups : SUBSET Groups]

Request ==
    [pc      : {"idle", "update", "sync", "syncStore", "scimCreate", "scimUpdate", "groupStore"},
     id      : Users \cup {None},
     user    : UserRecord \cup {None},      \* the record to be stored
     adds    : SUBSET Groups,               \* groups the user has joined
     drops   : SUBSET Groups,               \* groups the user has left
     group   : Groups \cup {None},          \* the group being written
     members : SUBSET Users]                \* its new member list

ASSUME NoneAssumption ==
    /\ None \notin Users \cup Groups \cup Emails
    /\ \A user \in UserRecord : user # None
    /\ \A members \in SUBSET Users : members # None
ASSUME MadeAssumption == Made \subseteq Users \cup Groups
ASSUME BoundAssumption == MaxRequests \in Nat

VARIABLES
    backend,  \* "memory" or "sqlite"
    users,    \* the user store
    groups,   \* the group store: the member list of each group
    req,      \* the requests in progress
    begun,    \* how many requests clients have begun
    used,     \* history: identities users and groups have had
    mixed     \* history: memberships were written by more than user handlers in turn

vars == <<backend, users, groups, req, begun, used, mixed>>

Idle ==
    [pc |-> "idle", id |-> None, user |-> None, adds |-> {}, drops |-> {},
     group |-> None, members |-> {}]

TypeOK ==
    /\ backend \in {"memory", "sqlite"}
    /\ users \in [Users -> UserRecord \cup {None}]
    /\ groups \in [Groups -> (SUBSET Users) \cup {None}]
    /\ req \in [Reqs -> Request]
    /\ begun \in Nat
    /\ used \in SUBSET (Users \cup Groups)
    /\ mixed \in BOOLEAN

Init ==
    /\ backend \in {"memory", "sqlite"}
    /\ users = [u \in Users |-> None]
    /\ groups \in [Groups -> {{}, None}]
    /\ \A g \in Made \cap Groups : groups[g] = None
    /\ req = [r \in Reqs |-> Idle]
    /\ begun = 0
    /\ used = {g \in Groups : groups[g] # None}
    /\ mixed = FALSE

-----------------------------------------------------------------------------
(* The stores.                                                             *)

Exists(u) == users[u] # None

EmailTaken(e, others) == \E v \in others : Exists(v) /\ users[v].email = e

(* Memory overwrites an occupied identity, the table refuses it.           *)
CanCreateUser(u, user) ==
    /\ ~EmailTaken(user.email, Users)
    /\ backend = "sqlite" => ~Exists(u)

(* Slip: emails are compared on creation only, in the table too.           *)
CanUpdateUserAnyEmail(u, user) == Exists(u)

(* Slip: an update is an upsert.                                           *)
CanUpdateUserUpsert(u, user) ==
    backend = "sqlite" => ~EmailTaken(user.email, Users \ {u})

(* Memory does not look at the emails of others.                           *)
CanUpdateUser(u, user) ==
    /\ Exists(u)
    /\ backend = "sqlite" => ~EmailTaken(user.email, Users \ {u})

(* An identity the server makes is new, and nobody else names it before it *)
(* is stored.                                                              *)
NewIds == Made \ (used \cup {req[r].id : r \in Reqs})

ClientId(id) == id \notin Made \/ id \in used

-----------------------------------------------------------------------------
(* Requests.                                                               *)

Busy(others) == \E q \in others : req[q].pc # "idle"

(* A request r begins; muddles says that it writes memberships on its own. *)
Begin(r, muddles) ==
    /\ req[r].pc = "idle"
    /\ mixed' = (mixed \/ muddles \/ Busy(Reqs \ {r}))
    /\ UNCHANGED backend

Proceed(r, request) == req' = [req EXCEPT ![r] = request]

Finish(r) == Proceed(r, Idle)

(* syncGroupMembership: the groups joined, then the groups left.           *)
Sync(r, u, adds, drops) ==
    Proceed(r, [Idle EXCEPT !.pc = "sync", !.id = u, !.adds = adds, !.drops = drops])

-----------------------------------------------------------------------------
(* Users, management API.                                                  *)

(* POST /users: the store, and then the groups.                            *)
CreateUser(r, u, user) ==
    /\ Begin(r, u \in used)
    /\ ClientId(u) \/ u \in NewIds
    /\ CanCreateUser(u, user)
    /\ users' = [users EXCEPT ![u] = user]
    /\ used' = used \cup {u}
    /\ Sync(r, u, user.groups, {})
    /\ UNCHANGED groups

(* PUT /users/{id} reads the groups the user is in, none when the user is  *)
(* not there, which the update finds out.                                  *)
GroupsOf(u) == IF Exists(u) THEN users[u].groups ELSE {}

(* Slip: groups the user has left are forgotten.                           *)
BeginUpdateUserNoDrops(r, u, user) ==
    /\ Begin(r, FALSE)
    /\ Proceed(r, [Idle EXCEPT !.pc = "update", !.id = u, !.user = user,
                               !.adds = user.groups \ GroupsOf(u)])
    /\ UNCHANGED <<users, groups, used>>

BeginUpdateUser(r, u, user) ==
    /\ Begin(r, FALSE)
    /\ Proceed(r, [Idle EXCEPT !.pc = "update", !.id = u, !.user = user,
                               !.adds = user.groups \ GroupsOf(u),
                               !.drops = GroupsOf(u) \ user.groups])
    /\ UNCHANGED <<users, groups, used>>

UpdateUser(r) ==
    /\ req[r].pc = "update"
    /\ IF CanUpdateUser(req[r].id, req[r].user)
       THEN /\ users' = [users EXCEPT ![req[r].id] = req[r].user]
            /\ Sync(r, req[r].id, req[r].adds, req[r].drops)
       ELSE Finish(r) /\ UNCHANGED users
    /\ UNCHANGED <<backend, groups, used, mixed>>

(* Also the SCIM handler.  The groups keep the user as a member.           *)
DeleteUser(r, u) ==
    /\ Begin(r, FALSE)
    /\ Exists(u)
    /\ users' = [users EXCEPT ![u] = None]
    /\ UNCHANGED <<groups, req, used>>

(* The next group to reconcile is read; one that is not there, or already  *)
(* has the user it is to get, is passed over.                              *)
SyncGroup(r, g) ==
    LET u == req[r].id
        joins == g \in req[r].adds
        rest == [req[r] EXCEPT !.adds = @ \ {g}, !.drops = @ \ {g}]
    IN  /\ req[r].pc = "sync"
        /\ joins \/ (req[r].adds = {} /\ g \in req[r].drops)
        /\ IF groups[g] = None \/ (joins /\ u \in groups[g])
           THEN Proceed(r, rest)
           ELSE Proceed(r, [rest EXCEPT
                              !.pc = "syncStore", !.group = g,
                              !.members = IF joins THEN groups[g] \cup {u}
                                                   ELSE groups[g] \ {u}])
        /\ UNCHANGED <<backend, users, groups, used, mixed>>

(* groups.Update of the copy; the error of a group deleted meanwhile is    *)
(* dropped.                                                                *)
StoreSyncedGroup(r) ==
    LET g == req[r].group
    IN  /\ req[r].pc = "syncStore"
        /\ groups' = IF groups[g] = None THEN groups
                     ELSE [groups EXCEPT ![g] = req[r].members]
        /\ Sync(r, req[r].id, req[r].adds, req[r].drops)
        /\ UNCHANGED <<backend, users, used, mixed>>

(* The audit event, the push to the SCIM client, the answer.               *)
AnswerUser(r) ==
    /\ req[r].pc = "sync"
    /\ req[r].adds \cup req[r].drops = {}
    /\ Finish(r)
    /\ UNCHANGED <<backend, users, groups, used, mixed>>

-----------------------------------------------------------------------------
(* Users, SCIM.                                                            *)

(* The name is looked up in the list of all users; the record gets the     *)
(* primary email, which may be another than the name, and no groups.       *)
ScimBeginCreateUser(r, name, u, e) ==
    /\ Begin(r, FALSE)
    /\ ~EmailTaken(name, Users)
    /\ u \in NewIds
    /\ Proceed(r, [Idle EXCEPT !.pc = "scimCreate", !.id = u,
                               !.user = [email |-> e, groups |-> {}]])
    /\ UNCHANGED <<users, groups, used>>

ScimCreateUser(r) ==
    /\ req[r].pc = "scimCreate"
    /\ IF CanCreateUser(req[r].id, req[r].user)
       THEN /\ users' = [users EXCEPT ![req[r].id] = req[r].user]
            /\ used' = used \cup {req[r].id}
       ELSE UNCHANGED <<users, used>>
    /\ Finish(r)
    /\ UNCHANGED <<backend, groups, mixed>>

(* PUT and PATCH change a copy of the user found; the groups stay.         *)
ScimReadUser(r, u, e) ==
    /\ Begin(r, FALSE)
    /\ Exists(u)
    /\ Proceed(r, [Idle EXCEPT !.pc = "scimUpdate", !.id = u,
                               !.user = [users[u] EXCEPT !.email = e]])
    /\ UNCHANGED <<users, groups, used>>

ScimUpdateUser(r) ==
    /\ req[r].pc = "scimUpdate"
    /\ users' = IF CanUpdateUser(req[r].id, req[r].user)
                THEN [users EXCEPT ![req[r].id] = req[r].user]
                ELSE users
    /\ Finish(r)
    /\ UNCHANGED <<backend, groups, used, mixed>>

-----------------------------------------------------------------------------
(* Groups, management API and SCIM.                                        *)

(* POST /groups with the client's identity: memory overwrites.             *)
CreateGroup(r, g, members) ==
    /\ Begin(r, TRUE)
    /\ ClientId(g) \/ g \in NewIds
    /\ backend = "sqlite" => groups[g] = None
    /\ groups' = [groups EXCEPT ![g] = members]
    /\ used' = used \cup {g}
    /\ UNCHANGED <<users, req>>

ScimCreateGroup(r, g, members) ==
    /\ Begin(r, TRUE)
    /\ g \in NewIds
    /\ groups' = [groups EXCEPT ![g] = members]
    /\ used' = used \cup {g}
    /\ UNCHANGED <<users, req>>

UpdateGroup(r, g, members) ==
    /\ Begin(r, TRUE)
    /\ groups[g] # None
    /\ groups' = [groups EXCEPT ![g] = members]
    /\ UNCHANGED <<users, req, used>>

DeleteGroup(r, g) ==
    /\ Begin(r, FALSE)
    /\ groups[g] # None
    /\ groups' = [groups EXCEPT ![g] = None]
    /\ UNCHANGED <<users, req, used>>

(* PUT and PATCH of SCIM: the group is read and its members replaced,      *)
(* added to or removed from, on the copy.                                  *)
ScimReadGroup(r, g, members) ==
    /\ Begin(r, TRUE)
    /\ groups[g] # None
    /\ Proceed(r, [Idle EXCEPT !.pc = "groupStore", !.group = g, !.members = members])
    /\ UNCHANGED <<users, groups, used>>

ScimStoreGroup(r) ==
    LET g == req[r].group
    IN  /\ req[r].pc = "groupStore"
        /\ groups' = IF groups[g] = None THEN groups
                     ELSE [groups EXCEPT ![g] = req[r].members]
        /\ Finish(r)
        /\ UNCHANGED <<backend, users, used, mixed>>

-----------------------------------------------------------------------------
(* The process ends and starts again: the table keeps what was written,    *)
(* memory nothing.                                                         *)
Restart ==
    /\ users' = IF backend = "sqlite" THEN users ELSE [u \in Users |-> None]
    /\ groups' = IF backend = "sqlite" THEN groups ELSE [g \in Groups |-> None]
    /\ req' = [r \in Reqs |-> Idle]
    /\ mixed' = (mixed \/ Busy(Reqs))
    /\ UNCHANGED <<backend, used>>

BeginRequest(r) ==
    \/ \E u \in Users, user \in UserRecord :
          CreateUser(r, u, user) \/ BeginUpdateUser(r, u, user)
    \/ \E name, e \in Emails, u \in Users : ScimBeginCreateUser(r, name, u, e)
    \/ \E u \in Users : DeleteUser(r, u) \/ \E e \in Emails : ScimReadUser(r, u, e)
    \/ \E g \in Groups, members \in SUBSET Users :
          \/ CreateGroup(r, g, members)
          \/ ScimCreateGroup(r, g, members)
          \/ UpdateGroup(r, g, members)
          \/ ScimReadGroup(r, g, members)
    \/ \E g \in Groups : DeleteGroup(r, g)

ContinueRequest(r) ==
    \/ UpdateUser(r)
    \/ \E g \in Groups : SyncGroup(r, g)
    \/ StoreSyncedGroup(r)
    \/ AnswerUser(r)
    \/ ScimCreateUser(r)
    \/ ScimUpdateUser(r)
    \/ ScimStoreGroup(r)

Next ==
    \/ /\ begun < MaxRequests
       /\ begun' = begun + 1
       /\ (\E r \in Reqs : BeginRequest(r)) \/ Restart
    \/ /\ \E r \in Reqs : ContinueRequest(r)
       /\ UNCHANGED begun

Spec == Init /\ [][Next]_vars

-----------------------------------------------------------------------------
(* Two users never share an email in the table, whatever the order of the  *)
(* look-ups and the writes of overlapping creations and updates.           *)
EmailUnique ==
    backend = "sqlite" =>
        \A u, v \in Users :
            Exists(u) /\ Exists(v) /\ users[u].email = users[v].email => u = v

(* A user who has been deleted does not come back by a handler that read   *)
(* the record before: only POST /users with the same identity creates it.  *)
NoRevival ==
    [][\A u \in used \cap Users : ~Exists(u) /\ Exists(u)' =>
          \E r \in Reqs : req[r].pc = "idle" /\ req'[r].pc = "sync" /\ req'[r].id = u]_vars

(* Both sides of every membership agree when no handler is at work, as     *)
(* long as memberships are changed by user handlers one after the other,   *)
(* users are not created again under an old identity and no crash comes    *)
(* between the writes.                                                     *)
MembershipAgrees ==
    ~mixed /\ ~Busy(Reqs) =>
        \A u \in Users, g \in Groups :
            Exists(u) /\ groups[g] # None => (u \in groups[g] <=> g \in users[u].groups)
=============================================================================
