---------------------------- MODULE DirectoryProofs ----------------------------
(***************************************************************************)
(* Proofs about Directory, alone and with the Operator beside its clients. *)
(* A request that is the only one at work knows what both sides of the     *)
(* memberships lack: Debt names the pairs it has still to write, and all   *)
(* other pairs agree.  The operator adds a slot whose request can be       *)
(* handed over to another one, so the lemmas are about Step, which allows  *)
(* that too.                                                               *)
(***************************************************************************)
EXTENDS Operator, TLAPS

(* A request carries what its next store operation needs.                  *)
Shape(r) ==
    /\ req[r].pc \in {"update", "sync", "syncStore", "scimCreate", "scimUpdate"} => req[r].id \in Users
    /\ req[r].pc \in {"update", "scimCreate", "scimUpdate"} => req[r].user \in UserRecord
    /\ req[r].pc \in {"syncStore", "groupStore"} => req[r].group \in Groups

(* The identity of a user about to be created by SCIM is reserved.         *)
Reserved(r) ==
    req[r].pc = "scimCreate" =>
        /\ req[r].id \in Made \ used
        /\ \A q \in Reqs \ {r} : req[q].pc = "scimCreate" => req[q].id # req[r].id

(* What request r has still to write of the pair u, g.                     *)
Debt(r, u, g) ==
    \/ /\ req[r].pc \in {"sync", "syncStore"}
       /\ req[r].id = u
       /\ g \in req[r].adds \cup req[r].drops
    \/ req[r].pc = "syncStore" /\ req[r].group = g

Copies(r) ==
    /\ req[r].pc = "update" =>
          /\ req[r].adds = req[r].user.groups \ GroupsOf(req[r].id)
          /\ req[r].drops = GroupsOf(req[r].id) \ req[r].user.groups
    /\ req[r].pc \in {"sync", "syncStore"} => req[r].id \in used
    /\ req[r].pc \in {"sync", "syncStore"} /\ Exists(req[r].id) =>
          /\ req[r].adds \subseteq users[req[r].id].groups
          /\ req[r].drops \cap users[req[r].id].groups = {}
    /\ req[r].pc = "syncStore" =>
          /\ req[r].members \subseteq used
          /\ \A u \in Users : Exists(u) =>
                (u \in req[r].members <=> req[r].group \in users[u].groups)
    /\ req[r].pc = "scimUpdate" =>
          Exists(req[r].id) /\ req[r].user.groups = users[req[r].id].groups
    /\ req[r].pc = "scimCreate" => req[r].user.groups = {}
    /\ req[r].pc # "groupStore"

Alone == \A r, q \in Reqs : req[r].pc # "idle" /\ req[q].pc # "idle" => r = q

Known == \A g \in Groups : groups[g] # None => groups[g] \subseteq used

Settled ==
    \A u \in Users, g \in Groups :
        Exists(u) /\ groups[g] # None =>
            \/ u \in groups[g] <=> g \in users[u].groups
            \/ \E r \in Reqs : Debt(r, u, g)

Orderly ==
    /\ Alone
    /\ Known
    /\ Settled
    /\ \A r \in Reqs : Copies(r)

IInv ==
    /\ TypeOK
    /\ \A r \in Reqs : Shape(r)
    /\ \A r \in Reqs : Reserved(r)
    /\ \A u \in Users : Exists(u) => u \in used
    /\ EmailUnique
    /\ ~mixed => Orderly

(* A request goes on in another slot.                                      *)
HandOver ==
    /\ \E p, q \in Reqs :
          /\ p # q /\ req[q].pc = "idle"
          /\ req' = [req EXCEPT ![q] = req[p], ![p] = Idle]
    /\ UNCHANGED <<backend, users, groups, used, mixed>>

(* What may happen to the directory, whoever counts the requests.          *)
Step ==
    /\ begun' \in Nat
    /\ \/ \E r \in Reqs : BeginRequest(r) \/ ContinueRequest(r)
       \/ Restart
       \/ HandOver
       \/ UNCHANGED <<backend, users, groups, req, used, mixed>>

-----------------------------------------------------------------------------
(* What a step does to the requests: at most one changes.                  *)

LEMMA IdleTyped == Idle \in Request
BY DEF Idle, Request

(* Proceed replaces one request and leaves the others.                     *)
LEMMA ProceedEffect ==
    ASSUME req \in [Reqs -> Request], NEW r \in Reqs, NEW request \in Request, Proceed(r, request)
    PROVE  /\ req' \in [Reqs -> Request]
           /\ req'[r] = request
           /\ \A q \in Reqs \ {r} : req'[q] = req[q]
BY DEF Proceed

LEMMA SyncEffect ==
    ASSUME req \in [Reqs -> Request], NEW r \in Reqs, NEW u, NEW adds, NEW drops, Sync(r, u, adds, drops)
    PROVE  /\ req'[r].pc = "sync" /\ req'[r].id = u
           /\ req'[r].adds = adds /\ req'[r].drops = drops
           /\ \A q \in Reqs \ {r} : req'[q] = req[q]
BY DEF Sync, Proceed, Idle

LEMMA FinishEffect ==
    ASSUME req \in [Reqs -> Request], NEW r \in Reqs, Finish(r)
    PROVE  req'[r].pc = "idle" /\ \A q \in Reqs \ {r} : req'[q] = req[q]
BY DEF Finish, Proceed, Idle

(* Reconciling a group passes it over or takes a copy of its members.      *)
LEMMA SyncGroupEffect ==
    ASSUME TypeOK, NEW r \in Reqs, NEW g \in Groups, SyncGroup(r, g)
    PROVE  /\ \A q \in Reqs \ {r} : req'[q] = req[q]
           /\ req'[r].id = req[r].id
           /\ req'[r].adds = req[r].adds \ {g} /\ req'[r].drops = req[r].drops \ {g}
           /\ \/ /\ groups[g] = None \/ (g \in req[r].adds /\ req[r].id \in groups[g])
                 /\ req'[r].pc = "sync"
              \/ /\ groups[g] # None
                 /\ req'[r].pc = "syncStore" /\ req'[r].group = g
                 /\ req'[r].members = IF g \in req[r].adds THEN groups[g] \cup {req[r].id}
                                                            ELSE groups[g] \ {req[r].id}
<1> DEFINE passed == groups[g] = None \/ (g \in req[r].adds /\ req[r].id \in groups[g])
           members == IF g \in req[r].adds THEN groups[g] \cup {req[r].id} ELSE groups[g] \ {req[r].id}
<1>1. req[r] \in Request /\ req[r].pc = "sync" BY DEF TypeOK, SyncGroup
<1>2. CASE passed
  <2>1. req' = [req EXCEPT ![r] = [req[r] EXCEPT !.adds = @ \ {g}, !.drops = @ \ {g}]]
    BY <1>2 DEF SyncGroup, Proceed
  <2> QED BY <1>1, <1>2, <2>1 DEF TypeOK, Request
<1>3. CASE ~passed
  <2> HIDE DEF members
  <2>1. req' = [req EXCEPT ![r] = [req[r] EXCEPT !.adds = @ \ {g}, !.drops = @ \ {g},
                                                 !.pc = "syncStore", !.group = g, !.members = members]]
    BY <1>1, <1>3 DEF SyncGroup, Proceed, Request, members
  <2>2. /\ req'[r].id = req[r].id /\ req'[r].adds = req[r].adds \ {g} /\ req'[r].drops = req[r].drops \ {g}
        /\ req'[r].pc = "syncStore" /\ req'[r].group = g /\ req'[r].members = members
        /\ \A q \in Reqs \ {r} : req'[q] = req[q]
    BY <1>1, <2>1 DEF TypeOK, Request
  <2> QED BY <1>3, <2>2 DEF members
<1> QED BY <1>2, <1>3

(* The records handlers put together are requests.                         *)
LEMMA UserRequestsTyped ==
    ASSUME NEW u \in Users, NEW user \in UserRecord, NEW adds \in SUBSET Groups,
           NEW drops \in SUBSET Groups
    PROVE  [Idle EXCEPT !.pc = "update", !.id = u, !.user = user, !.adds = adds, !.drops = drops] \in Request
BY DEF Idle, Request

LEMMA SyncRequestsTyped ==
    ASSUME NEW u \in Users, NEW adds \in SUBSET Groups, NEW drops \in SUBSET Groups
    PROVE  [Idle EXCEPT !.pc = "sync", !.id = u, !.adds = adds, !.drops = drops] \in Request
BY DEF Idle, Request

LEMMA ScimRequestsTyped ==
    ASSUME NEW u \in Users, NEW user \in UserRecord
    PROVE  /\ [Idle EXCEPT !.pc = "scimCreate", !.id = u, !.user = user] \in Request
           /\ [Idle EXCEPT !.pc = "scimUpdate", !.id = u, !.user = user] \in Request
BY DEF Idle, Request

LEMMA GroupRequestsTyped ==
    ASSUME NEW g \in Groups, NEW members \in SUBSET Users
    PROVE  [Idle EXCEPT !.pc = "groupStore", !.group = g, !.members = members] \in Request
BY DEF Idle, Request

(* What is read of a user who may not be there.                            *)
LEMMA GroupsOfTyped == ASSUME TypeOK, NEW u \in Users PROVE GroupsOf(u) \in SUBSET Groups
BY DEF TypeOK, GroupsOf, Exists, UserRecord

(* A step keeps types and shapes.                                          *)
LEMMA TypeStep ==
    ASSUME TypeOK, \A r \in Reqs : Shape(r), Step
    PROVE  TypeOK' /\ \A r \in Reqs : Shape(r)'
<1> USE NoneAssumption, MadeAssumption
<1>b. begun' \in Nat BY DEF Step
<1>0. CASE UNCHANGED <<backend, users, groups, req, used, mixed>>
  BY <1>b, <1>0 DEF TypeOK, Shape
<1>1. ASSUME NEW r \in Reqs, BeginRequest(r) PROVE TypeOK' /\ \A q \in Reqs : Shape(q)'
  <2>0. begun' \in Nat BY <1>b
  <2>1. ASSUME NEW u \in Users, NEW user \in UserRecord, CreateUser(r, u, user)
        PROVE TypeOK' /\ \A q \in Reqs : Shape(q)'
    <3>1. user.groups \in SUBSET Groups BY DEF UserRecord
    <3>2. /\ req' \in [Reqs -> Request]
          /\ req'[r] = [Idle EXCEPT !.pc = "sync", !.id = u, !.adds = user.groups, !.drops = {}]
          /\ \A q \in Reqs \ {r} : req'[q] = req[q]
      <4> DEFINE request == [Idle EXCEPT !.pc = "sync", !.id = u, !.adds = user.groups, !.drops = {}]
      <4>1. request \in Request BY <3>1, SyncRequestsTyped
      <4>2. Proceed(r, request) BY <2>1 DEF CreateUser, Sync
      <4> HIDE DEF request
      <4>3. /\ req' \in [Reqs -> Request] /\ req'[r] = request
            /\ \A q \in Reqs \ {r} : req'[q] = req[q]
        BY <4>1, <4>2, ProceedEffect DEF TypeOK
      <4> QED BY <4>3 DEF request
    <3>3. TypeOK' BY <2>0, <2>1, <3>2 DEF CreateUser, Begin, TypeOK
    <3>4. req'[r].pc = "sync" /\ req'[r].id = u BY <3>2 DEF Idle
    <3> QED BY <2>1, <3>2, <3>3, <3>4 DEF Shape
  <2>2. ASSUME NEW u \in Users, NEW user \in UserRecord, BeginUpdateUser(r, u, user)
        PROVE TypeOK' /\ \A q \in Reqs : Shape(q)'
    <3>1. user.groups \ GroupsOf(u) \in SUBSET Groups /\ GroupsOf(u) \ user.groups \in SUBSET Groups
      BY GroupsOfTyped DEF UserRecord
    <3>2. /\ req' \in [Reqs -> Request]
          /\ req'[r] = [Idle EXCEPT !.pc = "update", !.id = u, !.user = user,
                               !.adds = user.groups \ GroupsOf(u), !.drops = GroupsOf(u) \ user.groups]
          /\ \A q \in Reqs \ {r} : req'[q] = req[q]
      <4> DEFINE request == [Idle EXCEPT !.pc = "update", !.id = u, !.user = user, !.adds = user.groups \ GroupsOf(u), !.drops = GroupsOf(u) \ user.groups]
      <4>1. request \in Request BY <3>1, UserRequestsTyped
      <4>2. Proceed(r, request) BY <2>2 DEF BeginUpdateUser
      <4> HIDE DEF request
      <4>3. /\ req' \in [Reqs -> Request] /\ req'[r] = request
            /\ \A q \in Reqs \ {r} : req'[q] = req[q]
        BY <4>1, <4>2, ProceedEffect DEF TypeOK
      <4> QED BY <4>3 DEF request
    <3>3. TypeOK' BY <2>0, <2>2, <3>2 DEF BeginUpdateUser, Begin, TypeOK
    <3>4. req'[r].pc = "update" /\ req'[r].id = u /\ req'[r].user = user BY <3>2 DEF Idle
    <3> QED BY <2>2, <3>2, <3>3, <3>4 DEF Shape
  <2>3. ASSUME NEW name \in Emails, NEW e \in Emails, NEW u \in Users, ScimBeginCreateUser(r, name, u, e)
        PROVE TypeOK' /\ \A q \in Reqs : Shape(q)'
    <3>1. [email |-> e, groups |-> {}] \in UserRecord BY DEF UserRecord
    <3>2. /\ req' \in [Reqs -> Request]
          /\ req'[r] = [Idle EXCEPT !.pc = "scimCreate", !.id = u,
                               !.user = [email |-> e, groups |-> {}]]
          /\ \A q \in Reqs \ {r} : req'[q] = req[q]
      <4> DEFINE request == [Idle EXCEPT !.pc = "scimCreate", !.id = u, !.user = [email |-> e, groups |-> {}]]
      <4>1. request \in Request BY <3>1, ScimRequestsTyped
      <4>2. Proceed(r, request) BY <2>3 DEF ScimBeginCreateUser
      <4> HIDE DEF request
      <4>3. /\ req' \in [Reqs -> Request] /\ req'[r] = request
            /\ \A q \in Reqs \ {r} : req'[q] = req[q]
        BY <4>1, <4>2, ProceedEffect DEF TypeOK
      <4> QED BY <4>3 DEF request
    <3>3. TypeOK' BY <2>0, <2>3, <3>2 DEF ScimBeginCreateUser, Begin, TypeOK
    <3>4. req'[r].pc = "scimCreate" /\ req'[r].id = u /\ req'[r].user = [email |-> e, groups |-> {}] BY <3>2 DEF Idle
    <3> QED BY <2>3, <3>1, <3>2, <3>3, <3>4 DEF Shape
  <2>4. ASSUME NEW u \in Users, DeleteUser(r, u) PROVE TypeOK' /\ \A q \in Reqs : Shape(q)'
    BY <2>0, <2>4 DEF DeleteUser, Begin, TypeOK, Shape
  <2>5. ASSUME NEW u \in Users, NEW e \in Emails, ScimReadUser(r, u, e)
        PROVE TypeOK' /\ \A q \in Reqs : Shape(q)'
    <3>1. [users[u] EXCEPT !.email = e] \in UserRecord BY <2>5 DEF ScimReadUser, Exists, TypeOK, UserRecord
    <3>2. /\ req' \in [Reqs -> Request]
          /\ req'[r] = [Idle EXCEPT !.pc = "scimUpdate", !.id = u, !.user = [users[u] EXCEPT !.email = e]]
          /\ \A q \in Reqs \ {r} : req'[q] = req[q]
      <4> DEFINE request == [Idle EXCEPT !.pc = "scimUpdate", !.id = u, !.user = [users[u] EXCEPT !.email = e]]
      <4>1. request \in Request BY <3>1, ScimRequestsTyped
      <4>2. Proceed(r, request) BY <2>5 DEF ScimReadUser
      <4> HIDE DEF request
      <4>3. /\ req' \in [Reqs -> Request] /\ req'[r] = request
            /\ \A q \in Reqs \ {r} : req'[q] = req[q]
        BY <4>1, <4>2, ProceedEffect DEF TypeOK
      <4> QED BY <4>3 DEF request
    <3>3. TypeOK' BY <2>0, <2>5, <3>2 DEF ScimReadUser, Begin, TypeOK
    <3>4. req'[r].pc = "scimUpdate" /\ req'[r].id = u /\ req'[r].user = [users[u] EXCEPT !.email = e] BY <3>2 DEF Idle
    <3> QED BY <2>5, <3>1, <3>2, <3>3, <3>4 DEF Shape
  <2>6. ASSUME NEW g \in Groups, NEW members \in SUBSET Users,
               CreateGroup(r, g, members) \/ ScimCreateGroup(r, g, members) \/ UpdateGroup(r, g, members)
        PROVE TypeOK' /\ \A q \in Reqs : Shape(q)'
    BY <2>0, <2>6 DEF CreateGroup, ScimCreateGroup, UpdateGroup, Begin, TypeOK, Shape
  <2>7. ASSUME NEW g \in Groups, NEW members \in SUBSET Users, ScimReadGroup(r, g, members)
        PROVE TypeOK' /\ \A q \in Reqs : Shape(q)'
    <3>1. /\ req' \in [Reqs -> Request]
          /\ req'[r] = [Idle EXCEPT !.pc = "groupStore", !.group = g, !.members = members]
          /\ \A q \in Reqs \ {r} : req'[q] = req[q]
      <4> DEFINE request == [Idle EXCEPT !.pc = "groupStore", !.group = g, !.members = members]
      <4>1. request \in Request BY GroupRequestsTyped
      <4>2. Proceed(r, request) BY <2>7 DEF ScimReadGroup
      <4> HIDE DEF request
      <4>3. /\ req' \in [Reqs -> Request] /\ req'[r] = request
            /\ \A q \in Reqs \ {r} : req'[q] = req[q]
        BY <4>1, <4>2, ProceedEffect DEF TypeOK
      <4> QED BY <4>3 DEF request
    <3>2. TypeOK' BY <2>0, <2>7, <3>1 DEF ScimReadGroup, Begin, TypeOK
    <3>3. req'[r].pc = "groupStore" /\ req'[r].group = g BY <3>1 DEF Idle
    <3> QED BY <2>7, <3>1, <3>2, <3>3 DEF Shape
  <2>8. ASSUME NEW g \in Groups, DeleteGroup(r, g) PROVE TypeOK' /\ \A q \in Reqs : Shape(q)'
    BY <2>0, <2>8 DEF DeleteGroup, Begin, TypeOK, Shape
  <2> QED BY <1>1, <2>1, <2>2, <2>3, <2>4, <2>5, <2>6, <2>7, <2>8 DEF BeginRequest
<1>2. ASSUME NEW r \in Reqs, ContinueRequest(r) PROVE TypeOK' /\ \A q \in Reqs : Shape(q)'
  <2>0. req[r] \in Request /\ Shape(r) BY DEF TypeOK
  <2>1. CASE UpdateUser(r)
    <3>1. req[r].id \in Users /\ req[r].user \in UserRecord BY <2>0, <2>1 DEF UpdateUser, Shape
    <3>2. [Idle EXCEPT !.pc = "sync", !.id = req[r].id, !.adds = req[r].adds, !.drops = req[r].drops] \in Request
      <4>1. req[r].adds \in SUBSET Groups /\ req[r].drops \in SUBSET Groups BY <2>0 DEF Request
      <4> QED BY <3>1, <4>1, SyncRequestsTyped
    <3>3. PICK request \in {Idle, [Idle EXCEPT !.pc = "sync", !.id = req[r].id, !.adds = req[r].adds,
                                           !.drops = req[r].drops]} : Proceed(r, request)
      BY <2>1 DEF UpdateUser, Sync, Finish
    <3>4. /\ req' \in [Reqs -> Request]
          /\ req'[r] = request
          /\ \A q \in Reqs \ {r} : req'[q] = req[q]
      BY <3>2, <3>3, IdleTyped, ProceedEffect DEF TypeOK
    <3>5. TypeOK' BY <1>b, <2>1, <3>1, <3>4 DEF UpdateUser, TypeOK
    <3>6. Shape(r)'
      <4>1. CASE request = Idle BY <3>4, <4>1 DEF Shape, Idle
      <4>2. CASE request # Idle
        <5>1. request.pc = "sync" /\ request.id = req[r].id BY <3>3, <4>2 DEF Idle
        <5> QED BY <3>1, <3>4, <5>1 DEF Shape
      <4> QED BY <4>1, <4>2
    <3> QED BY <3>4, <3>5, <3>6 DEF Shape
  <2>2. ASSUME NEW g \in Groups, SyncGroup(r, g) PROVE TypeOK' /\ \A q \in Reqs : Shape(q)'
    <3> DEFINE rest == [req[r] EXCEPT !.adds = @ \ {g}, !.drops = @ \ {g}]
               members == IF g \in req[r].adds THEN groups[g] \cup {req[r].id} ELSE groups[g] \ {req[r].id}
               next == IF groups[g] = None \/ (g \in req[r].adds /\ req[r].id \in groups[g]) THEN rest
                       ELSE [rest EXCEPT !.pc = "syncStore", !.group = g, !.members = members]
    <3>1. req[r].id \in Users BY <2>0, <2>2 DEF SyncGroup, Shape
    <3>2. rest \in Request BY <2>0 DEF Request
    <3>3. next \in Request
      <4>1. CASE groups[g] = None BY <4>1, <3>2
      <4>2. CASE groups[g] # None
        <5>1. members \in SUBSET Users BY <3>1, <4>2 DEF TypeOK
        <5>2. [rest EXCEPT !.pc = "syncStore", !.group = g, !.members = members] \in Request
          <6> HIDE DEF rest, members
          <6> QED BY <3>2, <5>1 DEF Request
        <5> QED BY <3>2, <5>2
      <4> QED BY <4>1, <4>2
    <3>4. Proceed(r, next) BY <2>2 DEF SyncGroup
    <3>5. /\ req' \in [Reqs -> Request]
          /\ req'[r] = next
          /\ \A q \in Reqs \ {r} : req'[q] = req[q]
      <4> HIDE DEF next
      <4> QED BY <3>3, <3>4, ProceedEffect DEF TypeOK
    <3>6. TypeOK' BY <1>b, <2>2, <3>5 DEF SyncGroup, TypeOK
    <3>7. Shape(r)'
      <4>1. /\ req'[r].id = req[r].id /\ req'[r].pc \in {"sync", "syncStore"}
            /\ req'[r].pc = "syncStore" => req'[r].group = g
        BY <2>2, SyncGroupEffect
      <4> QED BY <3>1, <4>1 DEF Shape
    <3> QED BY <3>5, <3>6, <3>7 DEF Shape
  <2>3. CASE StoreSyncedGroup(r)
    <3>1. req[r].id \in Users /\ req[r].group \in Groups BY <2>0, <2>3 DEF StoreSyncedGroup, Shape
    <3>2. [Idle EXCEPT !.pc = "sync", !.id = req[r].id, !.adds = req[r].adds, !.drops = req[r].drops] \in Request
      <4>1. req[r].adds \in SUBSET Groups /\ req[r].drops \in SUBSET Groups BY <2>0 DEF Request
      <4> QED BY <3>1, <4>1, SyncRequestsTyped
    <3>3. /\ req' \in [Reqs -> Request]
          /\ req'[r] = [Idle EXCEPT !.pc = "sync", !.id = req[r].id, !.adds = req[r].adds, !.drops = req[r].drops]
          /\ \A q \in Reqs \ {r} : req'[q] = req[q]
      <4> DEFINE request == [Idle EXCEPT !.pc = "sync", !.id = req[r].id, !.adds = req[r].adds, !.drops = req[r].drops]
      <4>1. request \in Request BY <3>2
      <4>2. Proceed(r, request) BY <2>3 DEF StoreSyncedGroup, Sync
      <4> HIDE DEF request
      <4>3. /\ req' \in [Reqs -> Request] /\ req'[r] = request
            /\ \A q \in Reqs \ {r} : req'[q] = req[q]
        BY <4>1, <4>2, ProceedEffect DEF TypeOK
      <4> QED BY <4>3 DEF request
    <3>4. req[r].members \in SUBSET Users BY <2>0 DEF Request
    <3>5. TypeOK' BY <1>b, <2>3, <3>1, <3>3, <3>4 DEF StoreSyncedGroup, TypeOK
    <3>6. Shape(r)' BY <3>1, <3>3 DEF Shape, Idle
    <3> QED BY <3>3, <3>5, <3>6 DEF Shape
  <2>4. CASE AnswerUser(r)
    <3>1. /\ req' \in [Reqs -> Request]
          /\ req'[r] = Idle
          /\ \A q \in Reqs \ {r} : req'[q] = req[q]
      BY <2>4, IdleTyped, ProceedEffect DEF AnswerUser, Finish, TypeOK
    <3> QED BY <1>b, <2>4, <3>1 DEF AnswerUser, TypeOK, Shape, Idle
  <2>5. CASE ScimCreateUser(r) \/ ScimUpdateUser(r)
    <3>1. /\ req' \in [Reqs -> Request]
          /\ req'[r] = Idle
          /\ \A q \in Reqs \ {r} : req'[q] = req[q]
      BY <2>5, IdleTyped, ProceedEffect DEF ScimCreateUser, ScimUpdateUser, Finish, TypeOK
    <3>2. req[r].id \in Users /\ req[r].user \in UserRecord
      BY <2>0, <2>5 DEF ScimCreateUser, ScimUpdateUser, Shape
    <3>3. TypeOK' BY <1>b, <2>5, <3>1, <3>2 DEF ScimCreateUser, ScimUpdateUser, TypeOK
    <3> QED BY <3>1, <3>3 DEF Shape, Idle
  <2>6. CASE ScimStoreGroup(r)
    <3>1. /\ req' \in [Reqs -> Request]
          /\ req'[r] = Idle
          /\ \A q \in Reqs \ {r} : req'[q] = req[q]
      BY <2>6, IdleTyped, ProceedEffect DEF ScimStoreGroup, Finish, TypeOK
    <3>2. req[r].group \in Groups /\ req[r].members \in SUBSET Users
      BY <2>0, <2>6 DEF ScimStoreGroup, Shape, Request
    <3>3. TypeOK' BY <1>b, <2>6, <3>1, <3>2 DEF ScimStoreGroup, TypeOK
    <3> QED BY <3>1, <3>3 DEF Shape, Idle
  <2> QED BY <1>2, <2>1, <2>2, <2>3, <2>4, <2>5, <2>6 DEF ContinueRequest
<1>3. CASE Restart
  BY <1>b, <1>3, IdleTyped DEF Restart, TypeOK, Shape, Idle
<1>4. CASE HandOver
  BY <1>b, <1>4, IdleTyped DEF HandOver, TypeOK, Shape, Idle
<1> QED BY <1>0, <1>1, <1>2, <1>3, <1>4 DEF Step

-----------------------------------------------------------------------------
(* Users: who exists, under which email, and which identities are taken.   *)

UsersInv ==
    /\ \A r \in Reqs : Reserved(r)
    /\ \A u \in Users : Exists(u) => u \in used
    /\ EmailUnique

(* A store operation writes the record of one user, which may be written.  *)
LEMMA StoreUser ==
    ASSUME TypeOK, UsersInv, NEW u \in Users, NEW user \in UserRecord,
           users' = [users EXCEPT ![u] = user], used' = used \cup {u}, UNCHANGED backend,
           backend = "sqlite" => ~EmailTaken(user.email, Users \ {u})
    PROVE  (\A v \in Users : Exists(v) => v \in used)' /\ EmailUnique'
<1>1. (\A v \in Users : Exists(v) => v \in used)' BY DEF TypeOK, UsersInv, Exists
<1>2. ASSUME backend' = "sqlite", NEW v \in Users, NEW w \in Users, Exists(v)', Exists(w)',
             users'[v].email = users'[w].email
      PROVE v = w
  <2>1. ~EmailTaken(user.email, Users \ {u}) BY <1>2
  <2>2. \A x \in Users \ {u} : users'[x] = users[x] BY DEF TypeOK
  <2>3. users'[u] = user BY DEF TypeOK
  <2>4. CASE v # u /\ w # u BY <1>2, <2>2, <2>4 DEF UsersInv, EmailUnique, Exists
  <2>5. CASE v = u \/ w = u BY <1>2, <2>1, <2>2, <2>3, <2>5 DEF EmailTaken, Exists
  <2> QED BY <2>4, <2>5
<1> QED BY <1>1, <1>2 DEF EmailUnique

LEMMA KeepUsers ==
    ASSUME UsersInv, UNCHANGED <<backend, users>>, used \subseteq used'
    PROVE  (\A v \in Users : Exists(v) => v \in used)' /\ EmailUnique'
BY DEF UsersInv, EmailUnique, Exists

LEMMA DropUsers ==
    ASSUME UsersInv, UNCHANGED <<backend, used>>, \A v \in Users : users'[v] \in {users[v], None}
    PROVE  (\A v \in Users : Exists(v) => v \in used)' /\ EmailUnique'
<1>1. \A v \in Users : Exists(v)' => Exists(v) /\ users'[v] = users[v] BY DEF Exists
<1> QED BY <1>1 DEF UsersInv, EmailUnique

(* Reservations stay when no reserved identity is stored and a new one is  *)
(* nobody else's.                                                          *)
LEMMA KeepReserved ==
    ASSUME TypeOK, \A q \in Reqs : Reserved(q), NEW r \in Reqs,
           \A q \in Reqs \ {r} : req'[q] = req[q],
           \A q \in Reqs \ {r} : req[q].pc = "scimCreate" => req[q].id \notin used' \ used,
           req'[r].pc = "scimCreate" => req'[r] = req[r] /\ used' = used
    PROVE  \A q \in Reqs : Reserved(q)'
BY DEF Reserved

(* An identity that may be stored by a client is not reserved.             *)
LEMMA StoredNotReserved ==
    ASSUME NEW q \in Reqs, Reserved(q), req[q].pc = "scimCreate", NEW id, ClientId(id) \/ id \in NewIds
    PROVE  req[q].id # id
BY DEF Reserved, ClientId, NewIds

LEMMA UsersStep ==
    ASSUME TypeOK, \A r \in Reqs : Shape(r), UsersInv, Step
    PROVE  UsersInv'
<1> USE NoneAssumption
<1>0. CASE UNCHANGED <<backend, users, groups, req, used, mixed>>
  BY <1>0 DEF UsersInv, Reserved, EmailUnique, Exists
<1>1. ASSUME NEW r \in Reqs, BeginRequest(r) PROVE UsersInv'
  <2>0. req[r].pc = "idle"
    BY <1>1 DEF BeginRequest, CreateUser, BeginUpdateUser, ScimBeginCreateUser, DeleteUser, ScimReadUser,
                CreateGroup, ScimCreateGroup, UpdateGroup, ScimReadGroup, DeleteGroup, Begin
  <2>1. ASSUME NEW u \in Users, NEW user \in UserRecord, CreateUser(r, u, user) PROVE UsersInv'
    <3>1. (\A v \in Users : Exists(v) => v \in used)' /\ EmailUnique'
      BY <2>1, StoreUser DEF CreateUser, Begin, CanCreateUser, EmailTaken
    <3>2. req'[r].pc = "sync" /\ \A q \in Reqs \ {r} : req'[q] = req[q]
      BY <2>1 DEF CreateUser, Sync, Proceed, Idle, TypeOK
    <3>3. \A q \in Reqs : req[q].pc = "scimCreate" => req[q].id # u
      BY <2>1, StoredNotReserved DEF CreateUser, UsersInv
    <3>4. \A q \in Reqs : Reserved(q)'
      BY <2>1, <3>2, <3>3, KeepReserved DEF CreateUser, UsersInv
    <3> QED BY <3>1, <3>4 DEF UsersInv
  <2>2. ASSUME NEW u \in Users, NEW user \in UserRecord, BeginUpdateUser(r, u, user) PROVE UsersInv'
    <3>1. req'[r].pc = "update" /\ \A q \in Reqs \ {r} : req'[q] = req[q]
      BY <2>2 DEF BeginUpdateUser, Proceed, Idle, TypeOK
    <3>2. \A q \in Reqs : Reserved(q)' BY <2>2, <3>1, KeepReserved DEF BeginUpdateUser, UsersInv
    <3> QED BY <2>2, <3>2, KeepUsers DEF BeginUpdateUser, Begin, UsersInv
  <2>3. ASSUME NEW name \in Emails, NEW e \in Emails, NEW u \in Users, ScimBeginCreateUser(r, name, u, e)
        PROVE UsersInv'
    <3>1. /\ req'[r].pc = "scimCreate" /\ req'[r].id = u
          /\ \A q \in Reqs \ {r} : req'[q] = req[q]
      BY <2>3 DEF ScimBeginCreateUser, Proceed, Idle, TypeOK
    <3>2. u \in Made \ used /\ \A q \in Reqs : req[q].id # u BY <2>3 DEF ScimBeginCreateUser, NewIds
    <3>3. \A q \in Reqs : Reserved(q)'
      BY <2>3, <3>1, <3>2 DEF ScimBeginCreateUser, Reserved, UsersInv
    <3> QED BY <2>3, <3>3, KeepUsers DEF ScimBeginCreateUser, Begin, UsersInv
  <2>4. ASSUME NEW u \in Users, DeleteUser(r, u) PROVE UsersInv'
    <3>1. \A q \in Reqs : Reserved(q)' BY <2>4 DEF DeleteUser, UsersInv, Reserved
    <3>2. \A v \in Users : users'[v] \in {users[v], None} BY <2>4 DEF DeleteUser, TypeOK
    <3> QED BY <2>4, <3>1, <3>2, DropUsers DEF DeleteUser, Begin, UsersInv
  <2>5. ASSUME NEW u \in Users, NEW e \in Emails, ScimReadUser(r, u, e) PROVE UsersInv'
    <3>1. req'[r].pc = "scimUpdate" /\ \A q \in Reqs \ {r} : req'[q] = req[q]
      BY <2>5 DEF ScimReadUser, Proceed, Idle, TypeOK
    <3>2. \A q \in Reqs : Reserved(q)' BY <2>5, <3>1, KeepReserved DEF ScimReadUser, UsersInv
    <3> QED BY <2>5, <3>2, KeepUsers DEF ScimReadUser, Begin, UsersInv
  <2>6. ASSUME NEW g \in Groups, NEW members \in SUBSET Users,
               CreateGroup(r, g, members) \/ ScimCreateGroup(r, g, members)
        PROVE UsersInv'
    <3>1. \A q \in Reqs : req[q].pc = "scimCreate" => req[q].id # g
      BY <2>6, StoredNotReserved DEF CreateGroup, ScimCreateGroup, UsersInv
    <3>2. UNCHANGED <<backend, users, req>> /\ used' = used \cup {g}
      BY <2>6 DEF CreateGroup, ScimCreateGroup, Begin
    <3>3. \A q \in Reqs : Reserved(q)' BY <3>1, <3>2 DEF Reserved, UsersInv
    <3> QED BY <3>2, <3>3, KeepUsers DEF UsersInv
  <2>7. ASSUME NEW g \in Groups, NEW members \in SUBSET Users,
               UpdateGroup(r, g, members) \/ DeleteGroup(r, g)
        PROVE UsersInv'
    <3>1. UNCHANGED <<backend, users, req, used>> BY <2>7 DEF UpdateGroup, DeleteGroup, Begin
    <3>2. \A q \in Reqs : Reserved(q)' BY <3>1 DEF Reserved, UsersInv
    <3> QED BY <3>1, <3>2, KeepUsers DEF UsersInv
  <2>8. ASSUME NEW g \in Groups, NEW members \in SUBSET Users, ScimReadGroup(r, g, members) PROVE UsersInv'
    <3>1. req'[r].pc = "groupStore" /\ \A q \in Reqs \ {r} : req'[q] = req[q]
      BY <2>8 DEF ScimReadGroup, Proceed, Idle, TypeOK
    <3>2. \A q \in Reqs : Reserved(q)' BY <2>8, <3>1, KeepReserved DEF ScimReadGroup, UsersInv
    <3> QED BY <2>8, <3>2, KeepUsers DEF ScimReadGroup, Begin, UsersInv
  <2> QED BY <1>1, <2>1, <2>2, <2>3, <2>4, <2>5, <2>6, <2>7, <2>8 DEF BeginRequest
<1>2. ASSUME NEW r \in Reqs, ContinueRequest(r) PROVE UsersInv'
  <2>1. CASE UpdateUser(r)
    <3>0. req[r].id \in Users /\ req[r].user \in UserRecord BY <2>1 DEF UpdateUser, Shape
    <3>1. req'[r].pc # "scimCreate" /\ \A q \in Reqs \ {r} : req'[q] = req[q]
      BY <2>1, SyncEffect, FinishEffect DEF UpdateUser, TypeOK
    <3>2. \A q \in Reqs : Reserved(q)' BY <2>1, <3>1, KeepReserved DEF UpdateUser, UsersInv
    <3>3. CASE CanUpdateUser(req[r].id, req[r].user)
      <4>1. used' = used \cup {req[r].id} BY <2>1, <3>0, <3>3 DEF UpdateUser, CanUpdateUser, UsersInv
      <4> QED BY <2>1, <3>0, <3>2, <3>3, <4>1, StoreUser DEF UpdateUser, CanUpdateUser, UsersInv
    <3>4. CASE ~CanUpdateUser(req[r].id, req[r].user)
      BY <2>1, <3>2, <3>4, KeepUsers DEF UpdateUser, UsersInv
    <3> QED BY <3>3, <3>4
  <2>2. ASSUME NEW g \in Groups, SyncGroup(r, g) PROVE UsersInv'
    <3>1. req'[r].pc # "scimCreate" /\ \A q \in Reqs \ {r} : req'[q] = req[q]
      BY <2>2, SyncGroupEffect
    <3>2. \A q \in Reqs : Reserved(q)' BY <2>2, <3>1, KeepReserved DEF SyncGroup, UsersInv
    <3> QED BY <2>2, <3>2, KeepUsers DEF SyncGroup, UsersInv
  <2>3. CASE StoreSyncedGroup(r) \/ AnswerUser(r) \/ ScimStoreGroup(r)
    <3>1. req'[r].pc # "scimCreate" /\ \A q \in Reqs \ {r} : req'[q] = req[q]
      BY <2>3, SyncEffect, FinishEffect DEF StoreSyncedGroup, AnswerUser, ScimStoreGroup, TypeOK
    <3>2. UNCHANGED <<backend, users, used>> BY <2>3 DEF StoreSyncedGroup, AnswerUser, ScimStoreGroup
    <3>3. \A q \in Reqs : Reserved(q)' BY <3>1, <3>2, KeepReserved DEF UsersInv
    <3> QED BY <3>2, <3>3, KeepUsers DEF UsersInv
  <2>4. CASE ScimCreateUser(r)
    <3>0. req[r].id \in Users /\ req[r].user \in UserRecord BY <2>4 DEF ScimCreateUser, Shape
    <3>1. req'[r].pc # "scimCreate" /\ \A q \in Reqs \ {r} : req'[q] = req[q]
      BY <2>4 DEF ScimCreateUser, Finish, Proceed, Idle, TypeOK
    <3>2. \A q \in Reqs \ {r} : req[q].pc = "scimCreate" => req[q].id # req[r].id
      BY <2>4 DEF ScimCreateUser, UsersInv, Reserved
    <3>3. \A q \in Reqs : Reserved(q)' BY <2>4, <3>1, <3>2, KeepReserved DEF ScimCreateUser, UsersInv
    <3>4. CASE CanCreateUser(req[r].id, req[r].user)
      BY <2>4, <3>0, <3>3, <3>4, StoreUser DEF ScimCreateUser, CanCreateUser, EmailTaken, UsersInv
    <3>5. CASE ~CanCreateUser(req[r].id, req[r].user)
      BY <2>4, <3>3, <3>5, KeepUsers DEF ScimCreateUser, UsersInv
    <3> QED BY <3>4, <3>5
  <2>5. CASE ScimUpdateUser(r)
    <3>0. req[r].id \in Users /\ req[r].user \in UserRecord BY <2>5 DEF ScimUpdateUser, Shape
    <3>1. req'[r].pc # "scimCreate" /\ \A q \in Reqs \ {r} : req'[q] = req[q]
      BY <2>5 DEF ScimUpdateUser, Finish, Proceed, Idle, TypeOK
    <3>2. \A q \in Reqs : Reserved(q)' BY <2>5, <3>1, KeepReserved DEF ScimUpdateUser, UsersInv
    <3>3. CASE CanUpdateUser(req[r].id, req[r].user)
      <4>1. used' = used \cup {req[r].id} BY <2>5, <3>0, <3>3 DEF ScimUpdateUser, CanUpdateUser, UsersInv
      <4> QED BY <2>5, <3>0, <3>2, <3>3, <4>1, StoreUser DEF ScimUpdateUser, CanUpdateUser, UsersInv
    <3>4. CASE ~CanUpdateUser(req[r].id, req[r].user)
      BY <2>5, <3>2, <3>4, KeepUsers DEF ScimUpdateUser, UsersInv
    <3> QED BY <3>3, <3>4
  <2> QED BY <1>2, <2>1, <2>2, <2>3, <2>4, <2>5 DEF ContinueRequest
<1>3. CASE Restart
  <2>1. \A v \in Users : users'[v] \in {users[v], None} BY <1>3 DEF Restart, TypeOK
  <2>2. \A q \in Reqs : Reserved(q)' BY <1>3 DEF Restart, Reserved, Idle
  <2> QED BY <1>3, <2>1, <2>2, DropUsers DEF Restart, UsersInv
<1>4. CASE HandOver
  <2>1. UNCHANGED <<backend, users, used>> BY <1>4 DEF HandOver
  <2>2. \A q \in Reqs : Reserved(q)'
    <3>1. PICK a, b \in Reqs : a # b /\ req[b].pc = "idle" /\ req' = [req EXCEPT ![b] = req[a], ![a] = Idle]
      BY <1>4 DEF HandOver
    <3>2. /\ req'[a].pc = "idle" /\ req'[b] = req[a]
          /\ \A q \in Reqs \ {a, b} : req'[q] = req[q]
      BY <3>1 DEF TypeOK, Idle
    <3> SUFFICES ASSUME NEW q \in Reqs, req'[q].pc = "scimCreate"
                 PROVE  /\ req'[q].id \in Made \ used
                        /\ \A o \in Reqs \ {q} : req'[o].pc = "scimCreate" => req'[o].id # req'[q].id
      BY <2>1 DEF Reserved
    <3>3. q # a BY <3>2
    <3>4. CASE q = b
      <4>1. req[a].pc = "scimCreate" /\ Reserved(a) BY <3>2, <3>4 DEF UsersInv
      <4> QED BY <3>2, <3>4, <4>1 DEF Reserved
    <3>5. CASE q # b
      <4>1. req[q].pc = "scimCreate" /\ Reserved(q) /\ req'[q] = req[q] BY <3>2, <3>3, <3>5 DEF UsersInv
      <4> QED BY <3>2, <3>3, <3>5, <4>1 DEF Reserved
    <3> QED BY <3>4, <3>5
  <2> QED BY <2>1, <2>2, KeepUsers DEF UsersInv
<1> QED BY <1>0, <1>1, <1>2, <1>3, <1>4 DEF Step

-----------------------------------------------------------------------------
(* Memberships.                                                            *)

(* A request that begins while no other is at work, and leaves everything  *)
(* else as it is, keeps the order if its copies are right.                 *)
LEMMA OrderlyRead ==
    ASSUME TypeOK, Orderly, NEW r \in Reqs, \A q \in Reqs : req[q].pc # "idle" => q = r,
           \A q \in Reqs \ {r} : req'[q] = req[q],
           UNCHANGED <<users, groups, used>>,
           \A u \in Users, g \in Groups : Exists(u) /\ groups[g] # None /\ Debt(r, u, g) =>
               (u \in groups[g] <=> g \in users[u].groups) \/ Debt(r, u, g)',
           Copies(r)'
    PROVE  Orderly'
<1>1. \A q \in Reqs \ {r} : req'[q].pc = "idle" OBVIOUS
<1>2. Alone' BY <1>1 DEF Alone
<1>3. Known' BY DEF Orderly, Known
<1>4. Settled'
  <2> SUFFICES ASSUME NEW u \in Users, NEW g \in Groups, Exists(u), groups[g] # None,
                      ~(u \in groups[g] <=> g \in users[u].groups)
               PROVE  \E q \in Reqs : Debt(q, u, g)'
    BY DEF Settled, Exists
  <2>1. PICK q \in Reqs : Debt(q, u, g) BY DEF Orderly, Settled
  <2>2. q = r BY <2>1 DEF Debt
  <2> QED BY <2>1, <2>2
<1>5. \A q \in Reqs : Copies(q)' BY <1>1 DEF Copies
<1> QED BY <1>2, <1>3, <1>4, <1>5 DEF Orderly

(* After a step that leaves only r at work.                                *)
LEMMA OrderlyWrite ==
    ASSUME NEW r \in Reqs, \A q \in Reqs \ {r} : req'[q].pc = "idle", Known', Settled', Copies(r)'
    PROVE  Orderly'
<1>1. Alone' BY DEF Alone
<1>2. \A q \in Reqs : Copies(q)' BY DEF Copies
<1> QED BY <1>1, <1>2 DEF Orderly

(* While nobody is at work both sides agree.                               *)
LEMMA Quiet ==
    ASSUME Orderly, \A q \in Reqs : req[q].pc = "idle", NEW u \in Users, NEW g \in Groups,
           Exists(u), groups[g] # None
    PROVE  u \in groups[g] <=> g \in users[u].groups
BY DEF Orderly, Settled, Debt

LEMMA BeginOrderly ==
    ASSUME TypeOK, UsersInv, ~mixed => Orderly, NEW r \in Reqs, BeginRequest(r), ~mixed'
    PROVE  Orderly'
<1> USE NoneAssumption
<1>0. req[r].pc = "idle" /\ ~mixed /\ ~Busy(Reqs \ {r})
  BY DEF BeginRequest, CreateUser, BeginUpdateUser, ScimBeginCreateUser, DeleteUser, ScimReadUser,
         CreateGroup, ScimCreateGroup, UpdateGroup, ScimReadGroup, DeleteGroup, Begin
<1>1. Orderly /\ \A q \in Reqs : req[q].pc = "idle" BY <1>0 DEF Busy
<1>2. \A u \in Users, g \in Groups : ~Debt(r, u, g) BY <1>1 DEF Debt
<1>3. ASSUME NEW u \in Users, NEW user \in UserRecord, CreateUser(r, u, user) PROVE Orderly'
  <2>1. u \notin used BY <1>3 DEF CreateUser, Begin
  <2>2. /\ req'[r].pc = "sync" /\ req'[r].id = u
        /\ req'[r].adds = user.groups /\ req'[r].drops = {}
        /\ \A q \in Reqs \ {r} : req'[q] = req[q]
    BY <1>3, SyncEffect DEF CreateUser, TypeOK
  <2>3. users'[u] = user /\ \A v \in Users \ {u} : users'[v] = users[v] BY <1>3 DEF CreateUser, TypeOK
  <2>4. UNCHANGED groups /\ used' = used \cup {u} BY <1>3 DEF CreateUser
  <2>5. Known' BY <1>1, <2>4 DEF Orderly, Known
  <2>6. Settled'
    <3> SUFFICES ASSUME NEW v \in Users, NEW g \in Groups, Exists(v)', groups[g] # None
                 PROVE  (v \in groups[g] <=> g \in users'[v].groups) \/ Debt(r, v, g)'
      BY <2>4 DEF Settled
    <3>1. CASE v # u BY <1>1, <2>3, <3>1, Quiet DEF Exists
    <3>2. CASE v = u /\ g \in user.groups BY <2>2, <3>2 DEF Debt
    <3>3. CASE v = u /\ g \notin user.groups BY <1>1, <2>1, <2>3, <3>3 DEF Orderly, Known
    <3> QED BY <3>1, <3>2, <3>3
  <2>7. Copies(r)' BY <2>2, <2>3, <2>4 DEF Copies
  <2> QED BY <1>1, <2>2, <2>5, <2>6, <2>7, OrderlyWrite
<1>4. ASSUME NEW u \in Users, NEW user \in UserRecord, BeginUpdateUser(r, u, user) PROVE Orderly'
  <2>1. /\ req'[r].pc = "update" /\ req'[r].id = u /\ req'[r].user = user
        /\ req'[r].adds = user.groups \ GroupsOf(u) /\ req'[r].drops = GroupsOf(u) \ user.groups
        /\ \A q \in Reqs \ {r} : req'[q] = req[q]
    BY <1>4 DEF BeginUpdateUser, Proceed, Idle, TypeOK
  <2>2. UNCHANGED <<users, groups, used>> BY <1>4 DEF BeginUpdateUser
  <2>3. Copies(r)' BY <2>1, <2>2 DEF Copies, GroupsOf, Exists
  <2> QED BY <1>1, <1>2, <2>1, <2>2, <2>3, OrderlyRead
<1>5. ASSUME NEW name \in Emails, NEW e \in Emails, NEW u \in Users, ScimBeginCreateUser(r, name, u, e)
      PROVE Orderly'
  <2>1. /\ req'[r].pc = "scimCreate" /\ req'[r].user.groups = {}
        /\ \A q \in Reqs \ {r} : req'[q] = req[q]
    BY <1>5 DEF ScimBeginCreateUser, Proceed, Idle, TypeOK
  <2>2. UNCHANGED <<users, groups, used>> BY <1>5 DEF ScimBeginCreateUser
  <2>3. Copies(r)' BY <2>1 DEF Copies
  <2> QED BY <1>1, <1>2, <2>1, <2>2, <2>3, OrderlyRead
<1>6. ASSUME NEW u \in Users, DeleteUser(r, u) PROVE Orderly'
  <2>1. UNCHANGED <<groups, req, used>> /\ \A v \in Users : users'[v] \in {users[v], None}
    BY <1>6 DEF DeleteUser, TypeOK
  <2>2. \A v \in Users : Exists(v)' => Exists(v) /\ users'[v] = users[v] BY <2>1 DEF Exists
  <2>3. Settled' BY <1>1, <2>1, <2>2, Quiet DEF Settled
  <2>4. Known' BY <1>1, <2>1 DEF Orderly, Known
  <2>5. Copies(r)' BY <1>1, <2>1 DEF Copies
  <2> QED BY <1>1, <2>1, <2>3, <2>4, <2>5, OrderlyWrite
<1>7. ASSUME NEW u \in Users, NEW e \in Emails, ScimReadUser(r, u, e) PROVE Orderly'
  <2>1. /\ req'[r].pc = "scimUpdate" /\ req'[r].id = u /\ req'[r].user = [users[u] EXCEPT !.email = e]
        /\ \A q \in Reqs \ {r} : req'[q] = req[q]
    BY <1>7 DEF ScimReadUser, Proceed, Idle, TypeOK
  <2>2. UNCHANGED <<users, groups, used>> /\ Exists(u) BY <1>7 DEF ScimReadUser
  <2>3. req'[r].user.groups = users'[u].groups BY <2>1, <2>2 DEF Exists, TypeOK, UserRecord
  <2>4. Copies(r)' BY <2>1, <2>2, <2>3 DEF Copies, Exists
  <2> QED BY <1>1, <1>2, <2>1, <2>2, <2>4, OrderlyRead
<1>8. ASSUME NEW g \in Groups, NEW members \in SUBSET Users,
             \/ CreateGroup(r, g, members) \/ ScimCreateGroup(r, g, members)
             \/ UpdateGroup(r, g, members) \/ ScimReadGroup(r, g, members)
      PROVE FALSE
  BY <1>8 DEF CreateGroup, ScimCreateGroup, UpdateGroup, ScimReadGroup, Begin
<1>9. ASSUME NEW g \in Groups, DeleteGroup(r, g) PROVE Orderly'
  <2>1. UNCHANGED <<users, req, used>> /\ \A h \in Groups : groups'[h] \in {groups[h], None}
    BY <1>9 DEF DeleteGroup, TypeOK
  <2>2. Settled' BY <1>1, <2>1, Quiet DEF Settled, Exists
  <2>3. Known' BY <1>1, <2>1 DEF Orderly, Known
  <2>4. Copies(r)' BY <1>1, <2>1 DEF Copies
  <2> QED BY <1>1, <2>1, <2>2, <2>3, <2>4, OrderlyWrite
<1> QED BY <1>3, <1>4, <1>5, <1>6, <1>7, <1>8, <1>9 DEF BeginRequest

LEMMA ContinueOrderly ==
    ASSUME TypeOK, \A r \in Reqs : Shape(r), UsersInv, ~mixed => Orderly,
           NEW r \in Reqs, ContinueRequest(r), ~mixed'
    PROVE  Orderly'
<1> USE NoneAssumption
<1>0. Orderly
  BY DEF ContinueRequest, UpdateUser, SyncGroup, StoreSyncedGroup, AnswerUser, ScimCreateUser,
         ScimUpdateUser, ScimStoreGroup
<1>1. req[r].pc # "idle"
  BY DEF ContinueRequest, UpdateUser, SyncGroup, StoreSyncedGroup, AnswerUser, ScimCreateUser,
         ScimUpdateUser, ScimStoreGroup
<1>2. \A q \in Reqs \ {r} : req[q].pc = "idle" BY <1>0, <1>1 DEF Orderly, Alone
<1>3. Copies(r) BY <1>0 DEF Orderly
<1>4. ASSUME NEW u \in Users, NEW g \in Groups, Exists(u), groups[g] # None, ~Debt(r, u, g)
      PROVE  u \in groups[g] <=> g \in users[u].groups
  BY <1>0, <1>2, <1>4 DEF Orderly, Settled, Debt
<1>5. CASE UpdateUser(r)
  <2> DEFINE u == req[r].id
             user == req[r].user
  <2>0. req[r].pc = "update" /\ u \in Users /\ user \in UserRecord BY <1>5 DEF UpdateUser, Shape
  <2>1. \A v \in Users, g \in Groups : ~Debt(r, v, g) BY <2>0 DEF Debt
  <2>2. CASE CanUpdateUser(u, user)
    <3>1. /\ req'[r].pc = "sync" /\ req'[r].id = u
          /\ req'[r].adds = req[r].adds /\ req'[r].drops = req[r].drops
          /\ \A q \in Reqs \ {r} : req'[q] = req[q]
      BY <1>5, <2>2, SyncEffect DEF UpdateUser, TypeOK
    <3>2. users'[u] = user /\ \A v \in Users \ {u} : users'[v] = users[v]
      BY <1>5, <2>0, <2>2 DEF UpdateUser, TypeOK
    <3>3. UNCHANGED <<groups, used>> BY <1>5 DEF UpdateUser
    <3>4. Exists(u) /\ u \in used BY <2>0, <2>2 DEF CanUpdateUser, UsersInv
    <3>5. /\ req[r].adds = user.groups \ users[u].groups
          /\ req[r].drops = users[u].groups \ user.groups
      BY <1>3, <2>0, <3>4 DEF Copies, GroupsOf
    <3> HIDE DEF u, user
    <3>6. Settled'
      <4> SUFFICES ASSUME NEW v \in Users, NEW g \in Groups, Exists(v)', groups[g] # None
                   PROVE  (v \in groups[g] <=> g \in users'[v].groups) \/ Debt(r, v, g)'
        BY <3>3 DEF Settled
      <4>1. CASE v # u BY <1>4, <2>1, <3>2, <4>1 DEF Exists
      <4>2. CASE v = u
        <5>1. v \in groups[g] <=> g \in users[u].groups BY <1>4, <2>1, <3>4, <4>2
        <5>2. CASE g \in req[r].adds \cup req[r].drops BY <3>1, <4>2, <5>2 DEF Debt
        <5>3. CASE g \notin req[r].adds \cup req[r].drops BY <3>2, <3>5, <4>2, <5>1, <5>3
        <5> QED BY <5>2, <5>3
      <4> QED BY <4>1, <4>2
    <3>7. Known' BY <1>0, <3>3 DEF Orderly, Known
    <3>8. Copies(r)' BY <3>1, <3>2, <3>3, <3>4, <3>5 DEF Copies
    <3> QED BY <1>2, <3>1, <3>6, <3>7, <3>8, OrderlyWrite
  <2>3. CASE ~CanUpdateUser(u, user)
    <3>1. /\ req'[r].pc = "idle" /\ \A q \in Reqs \ {r} : req'[q] = req[q]
          /\ UNCHANGED <<users, groups, used>>
      BY <1>5, <2>3, FinishEffect DEF UpdateUser, TypeOK
    <3>2. Copies(r)' BY <3>1 DEF Copies
    <3> QED BY <1>0, <1>2, <2>1, <3>1, <3>2, OrderlyRead
  <2> QED BY <2>2, <2>3
<1>6. ASSUME NEW g \in Groups, SyncGroup(r, g) PROVE Orderly'
  <2> DEFINE u == req[r].id
  <2>0. /\ req[r].pc = "sync" /\ u \in Users
        /\ g \in req[r].adds \/ g \in req[r].drops
        /\ UNCHANGED <<users, groups, used>>
    BY <1>6 DEF SyncGroup, Shape
  <2>1. /\ \A q \in Reqs \ {r} : req'[q] = req[q]
        /\ req'[r].id = u /\ req'[r].pc \in {"sync", "syncStore"}
        /\ req'[r].adds = req[r].adds \ {g} /\ req'[r].drops = req[r].drops \ {g}
    BY <1>6, SyncGroupEffect
  <2>2. req'[r].pc = "sync" => groups[g] = None \/ (g \in req[r].adds /\ u \in groups[g])
    BY <1>6, SyncGroupEffect
  <2>3. req'[r].pc = "syncStore" =>
           /\ groups[g] # None /\ req'[r].group = g
           /\ req'[r].members = IF g \in req[r].adds THEN groups[g] \cup {u} ELSE groups[g] \ {u}
    BY <1>6, SyncGroupEffect
  <2>4. /\ u \in used
        /\ Exists(u) => req[r].adds \subseteq users[u].groups /\ req[r].drops \cap users[u].groups = {}
    BY <1>3, <2>0 DEF Copies
  <2> HIDE DEF u
  <2>5. ASSUME NEW v \in Users, NEW h \in Groups, Exists(v), groups[h] # None, Debt(r, v, h)
        PROVE  (v \in groups[h] <=> h \in users[v].groups) \/ Debt(r, v, h)'
    <3>1. v = u /\ h \in req[r].adds \cup req[r].drops BY <2>0, <2>5 DEF Debt, u
    <3>2. CASE h # g BY <2>1, <3>1, <3>2 DEF Debt
    <3>3. CASE h = g /\ req'[r].pc = "sync" BY <2>2, <2>4, <2>5, <3>1, <3>3
    <3>4. CASE h = g /\ req'[r].pc = "syncStore" BY <2>3, <3>4 DEF Debt
    <3> QED BY <2>1, <3>2, <3>3, <3>4
  <2>6. req'[r].pc = "syncStore" => req'[r].members \subseteq used
    BY <1>0, <2>3, <2>4 DEF Orderly, Known
  <2>7. ASSUME req'[r].pc = "syncStore", NEW v \in Users, Exists(v)
        PROVE  v \in req'[r].members <=> g \in users[v].groups
    <3>1. CASE v # u
      <4>1. ~Debt(r, v, g) BY <2>0, <3>1 DEF Debt, u
      <4> QED BY <1>4, <2>3, <2>7, <3>1, <4>1
    <3>2. CASE v = u BY <2>0, <2>3, <2>4, <2>7, <3>2
    <3> QED BY <3>1, <3>2
  <2>8. Copies(r)' BY <2>0, <2>1, <2>3, <2>4, <2>6, <2>7 DEF Copies, Exists
  <2> QED BY <1>0, <1>2, <2>0, <2>1, <2>5, <2>8, OrderlyRead
<1>7. CASE StoreSyncedGroup(r)
  <2> DEFINE g == req[r].group
  <2>0. req[r].pc = "syncStore" /\ g \in Groups /\ UNCHANGED <<users, used>>
    BY <1>7 DEF StoreSyncedGroup, Shape
  <2>1. /\ req'[r].pc = "sync" /\ req'[r].id = req[r].id
        /\ req'[r].adds = req[r].adds /\ req'[r].drops = req[r].drops
        /\ \A q \in Reqs \ {r} : req'[q] = req[q]
    BY <1>7, SyncEffect DEF StoreSyncedGroup, TypeOK
  <2>2. /\ \A h \in Groups \ {g} : groups'[h] = groups[h]
        /\ groups'[g] # None => groups'[g] = req[r].members
    BY <1>7, <2>0 DEF StoreSyncedGroup, TypeOK
  <2>3. /\ req[r].members \subseteq used
        /\ \A v \in Users : Exists(v) => (v \in req[r].members <=> g \in users[v].groups)
    BY <1>3, <2>0 DEF Copies
  <2> HIDE DEF g
  <2>4. Known' BY <1>0, <2>0, <2>2, <2>3 DEF Orderly, Known
  <2>5. Settled'
    <3> SUFFICES ASSUME NEW v \in Users, NEW h \in Groups, Exists(v), groups'[h] # None
                 PROVE  (v \in groups'[h] <=> h \in users[v].groups) \/ Debt(r, v, h)'
      BY <2>0 DEF Settled, Exists
    <3>1. CASE h = g BY <2>2, <2>3, <3>1
    <3>2. CASE h # g /\ Debt(r, v, h) BY <2>0, <2>1, <3>2 DEF Debt, g
    <3>3. CASE h # g /\ ~Debt(r, v, h) BY <1>4, <2>2, <3>3
    <3> QED BY <3>1, <3>2, <3>3
  <2>6. Copies(r)' BY <1>3, <2>0, <2>1 DEF Copies, Exists
  <2> QED BY <1>2, <2>1, <2>4, <2>5, <2>6, OrderlyWrite
<1>8. CASE AnswerUser(r)
  <2>1. /\ req'[r].pc = "idle" /\ \A q \in Reqs \ {r} : req'[q] = req[q]
        /\ UNCHANGED <<users, groups, used>>
    BY <1>8, FinishEffect DEF AnswerUser, TypeOK
  <2>2. \A v \in Users, g \in Groups : ~Debt(r, v, g) BY <1>8 DEF AnswerUser, Debt
  <2>3. Copies(r)' BY <2>1 DEF Copies
  <2> QED BY <1>0, <1>2, <2>1, <2>2, <2>3, OrderlyRead
<1>9. CASE ScimCreateUser(r) \/ ScimUpdateUser(r)
  <2> DEFINE u == req[r].id
  <2>0. u \in Users BY <1>9 DEF ScimCreateUser, ScimUpdateUser, Shape
  <2>1. /\ req'[r].pc = "idle" /\ \A q \in Reqs \ {r} : req'[q] = req[q]
        /\ UNCHANGED groups /\ used \subseteq used'
    BY <1>9, FinishEffect DEF ScimCreateUser, ScimUpdateUser, TypeOK
  <2>2. \A v \in Users, g \in Groups : ~Debt(r, v, g) BY <1>9 DEF ScimCreateUser, ScimUpdateUser, Debt
  <2>3. \A v \in Users \ {u} : users'[v] = users[v] BY <1>9 DEF ScimCreateUser, ScimUpdateUser, TypeOK
  <2>4. ASSUME NEW g \in Groups, users'[u] # None, groups[g] # None
        PROVE  u \in groups[g] <=> g \in users'[u].groups
    <3>1. CASE users'[u] = users[u] BY <1>4, <2>0, <2>2, <2>4, <3>1 DEF Exists
    <3>2. CASE users'[u] # users[u]
      <4>1. users'[u] = req[r].user BY <1>9, <2>0, <3>2 DEF ScimCreateUser, ScimUpdateUser, TypeOK
      <4>2. CASE ScimCreateUser(r)
        <5>1. req[r].user.groups = {} BY <1>3, <4>2 DEF Copies, ScimCreateUser
        <5>2. u \notin used BY <4>2 DEF ScimCreateUser, UsersInv, Reserved
        <5> QED BY <1>0, <2>4, <4>1, <5>1, <5>2 DEF Orderly, Known
      <4>3. CASE ScimUpdateUser(r)
        <5>1. Exists(u) /\ req[r].user.groups = users[u].groups
          BY <1>3, <4>3 DEF Copies, ScimUpdateUser
        <5> HIDE DEF u
        <5> QED BY <1>4, <2>0, <2>2, <2>4, <4>1, <5>1
      <4> QED BY <1>9, <4>2, <4>3
    <3> QED BY <3>1, <3>2
  <2> HIDE DEF u
  <2>5. Settled'
    <3> SUFFICES ASSUME NEW v \in Users, NEW g \in Groups, Exists(v)', groups[g] # None
                 PROVE  v \in groups[g] <=> g \in users'[v].groups
      BY <2>1 DEF Settled
    <3>1. CASE v = u BY <2>4, <3>1 DEF Exists
    <3>2. CASE v # u BY <1>4, <2>2, <2>3, <3>2 DEF Exists
    <3> QED BY <3>1, <3>2
  <2>6. Known' BY <1>0, <2>1 DEF Orderly, Known
  <2>7. Copies(r)' BY <2>1 DEF Copies
  <2> QED BY <1>2, <2>1, <2>5, <2>6, <2>7, OrderlyWrite
<1>10. CASE ScimStoreGroup(r) BY <1>3, <1>10 DEF ScimStoreGroup, Copies
<1> QED BY <1>5, <1>6, <1>7, <1>8, <1>9, <1>10 DEF ContinueRequest

LEMMA RestartOrderly ==
    ASSUME TypeOK, ~mixed => Orderly, Restart, ~mixed'
    PROVE  Orderly'
<1> USE NoneAssumption
<1>1. Orderly /\ \A q \in Reqs : req[q].pc = "idle" BY DEF Restart, Busy
<1>2. \A q \in Reqs : req'[q].pc = "idle" BY DEF Restart, Idle
<1>3. /\ \A v \in Users : Exists(v)' => Exists(v) /\ users'[v] = users[v]
      /\ \A g \in Groups : groups'[g] # None => groups[g] # None /\ groups'[g] = groups[g]
      /\ UNCHANGED used
  BY DEF Restart, Exists
<1>4. Settled' BY <1>1, <1>3, Quiet DEF Settled
<1>5. Known' BY <1>1, <1>3 DEF Orderly, Known
<1>6. Alone' /\ \A q \in Reqs : Copies(q)' BY <1>2 DEF Alone, Copies
<1> QED BY <1>4, <1>5, <1>6 DEF Orderly

LEMMA HandOverOrderly ==
    ASSUME TypeOK, ~mixed => Orderly, HandOver, ~mixed'
    PROVE  Orderly'
<1>1. Orderly /\ UNCHANGED <<users, groups, used>> BY DEF HandOver
<1>2. PICK a, b \in Reqs : a # b /\ req[b].pc = "idle" /\ req' = [req EXCEPT ![b] = req[a], ![a] = Idle]
  BY DEF HandOver
<1>3. /\ req'[a].pc = "idle" /\ req'[b] = req[a]
      /\ \A q \in Reqs \ {a, b} : req'[q] = req[q]
  BY <1>2 DEF TypeOK, Idle
<1>4. Alone'
  <2> SUFFICES ASSUME NEW q \in Reqs, NEW o \in Reqs, req'[q].pc # "idle", req'[o].pc # "idle"
               PROVE  q = o
    BY DEF Alone
  <2>1. q # a /\ o # a BY <1>3
  <2>0. \A i, j \in Reqs : req[i].pc # "idle" /\ req[j].pc # "idle" => i = j
    BY <1>1 DEF Orderly, Alone
  <2>2. CASE q = b /\ o # b
    <3>1. req[a].pc # "idle" /\ req[o].pc # "idle" BY <1>3, <2>1, <2>2
    <3> QED BY <2>0, <2>1, <3>1
  <2>3. CASE q # b /\ o = b
    <3>1. req[a].pc # "idle" /\ req[q].pc # "idle" BY <1>3, <2>1, <2>3
    <3> QED BY <2>0, <2>1, <3>1
  <2>4. CASE q # b /\ o # b
    <3>1. req[o].pc # "idle" /\ req[q].pc # "idle" BY <1>3, <2>1, <2>4
    <3> QED BY <2>0, <3>1
  <2> QED BY <2>2, <2>3, <2>4
<1>5. Known' BY <1>1 DEF Orderly, Known
<1>6. Settled'
  <2> SUFFICES ASSUME NEW u \in Users, NEW g \in Groups, Exists(u), groups[g] # None,
                      ~(u \in groups[g] <=> g \in users[u].groups)
               PROVE  \E q \in Reqs : Debt(q, u, g)'
    BY <1>1 DEF Settled, Exists
  <2>1. PICK q \in Reqs : Debt(q, u, g) BY <1>1 DEF Orderly, Settled
  <2>2. q # b BY <1>2, <2>1 DEF Debt
  <2>3. CASE q = a BY <1>3, <2>1, <2>3 DEF Debt
  <2>4. CASE q # a BY <1>3, <2>1, <2>2, <2>4 DEF Debt
  <2> QED BY <2>3, <2>4
<1>7. \A q \in Reqs : Copies(q)'
  <2>1. Copies(a)' BY <1>3 DEF Copies
  <2>2. Copies(b)' BY <1>1, <1>3 DEF Orderly, Copies, GroupsOf, Exists
  <2>3. ASSUME NEW q \in Reqs \ {a, b} PROVE Copies(q)'
    BY <1>1, <1>3, <2>3 DEF Orderly, Copies, GroupsOf, Exists
  <2> QED BY <2>1, <2>2, <2>3
<1> QED BY <1>4, <1>5, <1>6, <1>7 DEF Orderly

-----------------------------------------------------------------------------
(* The theorems.                                                           *)

LEMMA Initially == Init => IInv
<1> SUFFICES ASSUME Init PROVE IInv OBVIOUS
<1> USE NoneAssumption
<1>1. TypeOK BY IdleTyped DEF Init, TypeOK
<1>2. \A r \in Reqs : req[r] = Idle /\ Shape(r) /\ Reserved(r) BY DEF Init, Shape, Reserved, Idle
<1>3. (\A u \in Users : ~Exists(u)) /\ EmailUnique BY DEF Init, Exists, EmailUnique
<1>4. Known BY DEF Init, Known
<1>5. Orderly BY <1>2, <1>3, <1>4 DEF Orderly, Alone, Settled, Copies, Idle
<1> QED BY <1>1, <1>2, <1>3, <1>5 DEF IInv

LEMMA InductiveStep == IInv /\ Step => IInv'
<1> SUFFICES ASSUME IInv, Step PROVE IInv' OBVIOUS
<1>1. TypeOK' /\ \A r \in Reqs : Shape(r)' BY TypeStep DEF IInv
<1>2. UsersInv' BY UsersStep DEF IInv, UsersInv
<1>3. ASSUME ~mixed' PROVE Orderly'
  <2>1. CASE UNCHANGED <<backend, users, groups, req, used, mixed>>
    BY <1>3, <2>1 DEF IInv, Orderly, Alone, Known, Settled, Debt, Copies, GroupsOf, Exists
  <2>2. CASE \E r \in Reqs : BeginRequest(r) BY <1>3, <2>2, BeginOrderly DEF IInv, UsersInv
  <2>3. CASE \E r \in Reqs : ContinueRequest(r) BY <1>3, <2>3, ContinueOrderly DEF IInv, UsersInv
  <2>4. CASE Restart BY <1>3, <2>4, RestartOrderly DEF IInv
  <2>5. CASE HandOver BY <1>3, <2>5, HandOverOrderly DEF IInv
  <2> QED BY <2>1, <2>2, <2>3, <2>4, <2>5 DEF Step
<1> QED BY <1>1, <1>2, <1>3 DEF IInv, UsersInv

(* Nobody comes back but by POST /users.                                   *)
CreatedOnly ==
    \A u \in used \cap Users : ~Exists(u) /\ Exists(u)' =>
        \E r \in Reqs : req[r].pc = "idle" /\ req'[r].pc = "sync" /\ req'[r].id = u

LEMMA RevivalStep == IInv /\ Step => CreatedOnly
<1> SUFFICES ASSUME IInv, Step, NEW u \in Users, u \in used, ~Exists(u), Exists(u)'
             PROVE \E r \in Reqs : req[r].pc = "idle" /\ req'[r].pc = "sync" /\ req'[r].id = u
  BY DEF CreatedOnly
<1>1. ASSUME NEW r \in Reqs, BeginRequest(r) PROVE \E v \in Users, user \in UserRecord : CreateUser(r, v, user)
  BY <1>1, NoneAssumption
     DEF BeginRequest, BeginUpdateUser, ScimBeginCreateUser, DeleteUser, ScimReadUser, CreateGroup,
         ScimCreateGroup, UpdateGroup, ScimReadGroup, DeleteGroup, Exists, IInv, TypeOK
<1>2. ASSUME NEW r \in Reqs, NEW v \in Users, NEW user \in UserRecord, CreateUser(r, v, user)
      PROVE  req[r].pc = "idle" /\ req'[r].pc = "sync" /\ req'[r].id = u
  <2>1. req[r].pc = "idle" /\ req'[r].pc = "sync" /\ req'[r].id = v
    BY <1>2, SyncEffect DEF CreateUser, Begin, IInv, TypeOK
  <2>2. v = u BY <1>2 DEF CreateUser, Exists, IInv, TypeOK
  <2> QED BY <2>1, <2>2
<1>3. ASSUME NEW r \in Reqs, ContinueRequest(r) PROVE FALSE
  <2>1. CASE UpdateUser(r) \/ ScimUpdateUser(r)
    BY <2>1 DEF UpdateUser, ScimUpdateUser, CanUpdateUser, Exists, IInv, TypeOK
  <2>2. CASE ScimCreateUser(r)
    <3>1. req[r].id \notin used BY <2>2 DEF ScimCreateUser, IInv, Reserved
    <3> QED BY <2>2, <3>1 DEF ScimCreateUser, Exists, IInv, TypeOK
  <2> QED BY <1>3, <2>1, <2>2
          DEF ContinueRequest, SyncGroup, StoreSyncedGroup, AnswerUser, ScimStoreGroup, Exists
<1>4. ~Restart /\ ~HandOver /\ ~UNCHANGED users BY DEF Restart, HandOver, Exists, IInv, TypeOK
<1> QED BY <1>1, <1>2, <1>3, <1>4 DEF Step

-----------------------------------------------------------------------------
(* The directory with clients only.                                        *)

LEMMA NextIsStep == IInv /\ [Next]_vars => Step
BY DEF Next, vars, Step, IInv, TypeOK

LEMMA Inductive == Spec => []IInv
<1>1. IInv /\ [Next]_vars => IInv' BY NextIsStep, InductiveStep
<1> QED BY <1>1, Initially, PTL DEF Spec

(* The stores hold what they are declared to hold.                         *)
THEOREM DirectoryTypes == Spec => []TypeOK
BY Inductive, PTL DEF IInv

(* Emails stay unique in the table, for any number of overlapping          *)
(* creations and updates.                                                  *)
THEOREM EmailsAreUnique == Spec => []EmailUnique
BY Inductive, PTL DEF IInv

LEMMA OrderAgrees == IInv => MembershipAgrees
BY Quiet DEF IInv, MembershipAgrees, Busy

(* When nobody is at work and nobody has muddled, both sides of every      *)
(* membership agree.                                                       *)
THEOREM MembershipsAgree == Spec => []MembershipAgrees
BY OrderAgrees, Inductive, PTL

(* Nobody comes back but by POST /users.                                   *)
THEOREM NobodyRevives == Spec => NoRevival
<1>1. IInv /\ [Next]_vars => [CreatedOnly]_vars BY NextIsStep, RevivalStep
<1>2. Spec => [][CreatedOnly]_vars BY <1>1, Inductive, PTL DEF Spec
<1> QED BY <1>2 DEF NoRevival, CreatedOnly

-----------------------------------------------------------------------------
(* The directory with the operator beside its clients.                     *)

(* The controller holds an email while it is about to send it.             *)
CtlInv == ctl.pc \in {"finalize", "put", "post"} => ctl.email \in Emails

OperatorIInv == IInv /\ OperatorTypeOK /\ CtlInv

(* Every step of the operator and of the faults is a step of the           *)
(* directory: a request of the controller is a request like others'.       *)
LEMMA OperatorTakesSteps ==
    ASSUME OperatorIInv, [OperatorNext]_operatorVars
    PROVE  Step
<1>0. begun \in Nat /\ Ctl \in Reqs BY ControllerAssumption DEF OperatorIInv, IInv, TypeOK
<1>1. CASE UNCHANGED vars BY <1>0, <1>1 DEF vars, Step
<1>2. CASE Put
  <2>1. UNCHANGED begun /\ (ctl.email \in Emails) BY <1>2 DEF Put, OperatorIInv, CtlInv
  <2>2. CASE ScimReadUser(Ctl, Name, ctl.email)
    BY <1>0, <2>1, <2>2, ControllerAssumption DEF Step, BeginRequest
  <2>3. CASE ScimReadGroup(Ctl, GroupName, {})
    BY <1>0, <2>1, <2>3, ControllerAssumption DEF Step, BeginRequest
  <2> QED BY <1>1, <1>2, <2>2, <2>3 DEF Put
<1>3. CASE Post
  <2>1. UNCHANGED begun /\ (ctl.email \in Emails) BY <1>3 DEF Post, OperatorIInv, CtlInv
  <2>2. ASSUME NEW u \in Users, ScimBeginCreateUser(Ctl, ctl.email, u, ctl.email) PROVE Step
    BY <1>0, <2>1, <2>2 DEF Step, BeginRequest
  <2>3. ASSUME NEW g \in Groups, ScimCreateGroup(Ctl, g, {}) PROVE Step
    <3>1. {} \in SUBSET Users OBVIOUS
    <3> QED BY <1>0, <2>1, <2>3, <3>1 DEF Step, BeginRequest
  <2> QED BY <1>1, <1>3, <2>2, <2>3 DEF Post
<1>4. CASE Served BY <1>0, <1>4 DEF Served, Step
<1>5. CASE ScimDelete \/ AnswerLost
  <2>1. UNCHANGED begun BY <1>5 DEF ScimDelete, AnswerLost, Disturbed
  <2>2. CASE DeleteUser(Ctl, Name) BY <1>0, <2>1, <2>2, ControllerAssumption DEF Step, BeginRequest
  <2>3. CASE DeleteGroup(Ctl, GroupName) BY <1>0, <2>1, <2>3, ControllerAssumption DEF Step, BeginRequest
  <2> QED BY <1>1, <1>5, <2>2, <2>3 DEF ScimDelete, AnswerLost
<1>6. CASE RequestTimeout
  <2>1. HandOver BY <1>0, <1>6 DEF RequestTimeout, HandOver
  <2> QED BY <1>0, <1>6, <2>1 DEF RequestTimeout, Disturbed, Step
<1>7. CASE ServerRestart BY <1>0, <1>7 DEF ServerRestart, Step
<1>8. CASE Others BY <1>0, <1>8 DEF Others, Step
<1>9. CASE \/ \E e \in Emails : Apply(e)
           \/ Delete \/ Get \/ AddFinalizer \/ RemoveFinalizer \/ RequestLost
           \/ UNCHANGED operatorVars
  <2>1. UNCHANGED vars
    BY <1>9 DEF Apply, Delete, Edit, Get, AddFinalizer, RemoveFinalizer, RequestLost, operatorVars
  <2> QED BY <1>1, <2>1
<1> QED BY <1>2, <1>3, <1>4, <1>5, <1>6, <1>7, <1>8, <1>9 DEF OperatorNext, Reconcile

(* What the steps do to the reconciliation.                                *)
LEMMA EditEffect ==
    ASSUME ctl \in Reconciliation, NEW resource, Edit(resource)
    PROVE  /\ cr' = resource /\ UNCHANGED <<vars, kind>>
           /\ ctl' \in Reconciliation
           /\ ctl'.pc = ctl.pc /\ ctl'.email = ctl.email /\ ctl'.begun = ctl.begun
<1> DEFINE stale == ctl.pc \in {"finalize", "delete", "release"}
<1>1. ctl' = [ctl EXCEPT !.stale = stale] BY DEF Edit
<1>2. stale \in BOOLEAN OBVIOUS
<1> HIDE DEF stale
<1>3. /\ ctl' \in Reconciliation
      /\ ctl'.pc = ctl.pc /\ ctl'.email = ctl.email /\ ctl'.begun = ctl.begun
  BY <1>1, <1>2 DEF Reconciliation
<1> QED BY <1>3 DEF Edit

LEMMA GotoEffect ==
    ASSUME ctl \in Reconciliation, NEW pc \in {"put", "putting", "post", "posting", "delete"}, Goto(pc)
    PROVE  ctl' \in Reconciliation /\ ctl'.pc = pc /\ ctl'.email = ctl.email
BY DEF Goto, Reconciliation

LEMMA ReleaseEffect ==
    ASSUME ctl \in Reconciliation, begun \in Nat, ctl' = [ctl EXCEPT !.pc = "release", !.begun = begun]
    PROVE  ctl' \in Reconciliation /\ ctl'.pc = "release" /\ ctl'.begun = begun
BY DEF Reconciliation

LEMMA RestEffect ==
    /\ AtRest \in Reconciliation /\ AtRest.pc = "idle"
    /\ Rest => ctl' \in Reconciliation /\ ctl'.pc = "idle"
<1>1. AtRest \in Reconciliation /\ AtRest.pc = "idle" BY DEF AtRest, Reconciliation
<1> QED BY <1>1 DEF Rest

LEMMA GetEffect ==
    ASSUME cr \in Resource, ctl \in Reconciliation, Get
    PROVE  /\ ctl' \in Reconciliation
           /\ ctl'.pc \in {"delete", "put", "finalize"}
           /\ ctl'.pc \in {"put", "finalize"} => ctl'.email \in Emails
<1>1. CASE Goto("delete") BY <1>1, GotoEffect
<1>2. CASE ctl' = [AtRest EXCEPT !.pc = IF cr.finalizer THEN "put" ELSE "finalize", !.email = cr.email]
  <2> DEFINE pc == IF cr.finalizer THEN "put" ELSE "finalize"
  <2>1. pc \in {"put", "finalize"} /\ cr.email \in Emails BY DEF Resource
  <2>2. ctl' = [AtRest EXCEPT !.pc = pc, !.email = cr.email] BY <1>2
  <2> HIDE DEF pc
  <2>3. ctl' \in Reconciliation /\ ctl'.pc = pc /\ ctl'.email = cr.email
    BY <2>1, <2>2 DEF AtRest, Reconciliation
  <2> QED BY <2>1, <2>3
<1> QED BY <1>1, <1>2 DEF Get

LEMMA OperatorTyped ==
    ASSUME OperatorIInv, [OperatorNext]_operatorVars, TypeOK'
    PROVE  OperatorTypeOK' /\ CtlInv'
<1>0. /\ kind \in {"user", "group"} /\ cr \in Resource /\ ctl \in Reconciliation
      /\ disturbances \in 0..MaxDisturbances /\ begun \in Nat /\ CtlInv
      /\ MaxDisturbances \in Nat
  BY ControllerAssumption DEF OperatorIInv, OperatorTypeOK, TypeOK
<1>1. cr.email \in Emails /\ cr.finalizer \in BOOLEAN /\ ctl.stale \in BOOLEAN
  BY <1>0 DEF Resource, Reconciliation
<1>2. disturbances' \in 0..MaxDisturbances
  <2>1. disturbances' = disturbances \/ (disturbances < MaxDisturbances /\ disturbances' = disturbances + 1)
    BY DEF OperatorNext, Reconcile, Apply, Delete, Get, AddFinalizer, Put, Post, Served, ScimDelete,
       RemoveFinalizer, RequestLost, RequestTimeout, AnswerLost, ServerRestart, Disturbed, MayDisturb,
       Others, operatorVars
  <2> QED BY <1>0, <2>1
<1>3. kind' \in {"user", "group"}
  BY <1>0 DEF OperatorNext, Reconcile, Apply, Delete, Edit, Get, AddFinalizer, Put, Post, Served, ScimDelete,
     RemoveFinalizer, RequestLost, RequestTimeout, AnswerLost, ServerRestart, Disturbed,
     Others, operatorVars
<1>4. ASSUME cr' \in Resource, ctl' \in Reconciliation,
             ctl'.pc \in {"finalize", "put", "post"} => ctl'.email \in Emails
      PROVE  OperatorTypeOK' /\ CtlInv'
  BY <1>2, <1>3, <1>4 DEF OperatorTypeOK, CtlInv
<1>5. ASSUME NEW e \in Emails, Apply(e) PROVE OperatorTypeOK' /\ CtlInv'
  <2>1. [cr EXCEPT !.phase = "present", !.email = e] \in Resource BY <1>0 DEF Resource
  <2> QED BY <1>0, <1>4, <1>5, <2>1, EditEffect DEF Apply, CtlInv
<1>6. CASE Delete
  <2>1. [cr EXCEPT !.phase = IF cr.finalizer THEN "deleting" ELSE "absent"] \in Resource
    BY <1>0 DEF Resource
  <2> QED BY <1>0, <1>4, <1>6, <2>1, EditEffect DEF Delete, CtlInv
<1>7. CASE Rest /\ cr' \in Resource
  BY <1>4, <1>7, RestEffect
<1>8. ASSUME NEW pc \in {"put", "putting", "post", "posting", "delete"}, Goto(pc), cr' \in Resource,
             pc \in {"put", "post"} => ctl.pc \in {"finalize", "put"}
      PROVE  OperatorTypeOK' /\ CtlInv'
  BY <1>0, <1>4, <1>8, GotoEffect DEF CtlInv
<1>9. CASE Get
  <2>1. UNCHANGED cr BY <1>9 DEF Get
  <2> QED BY <1>0, <1>4, <1>9, <2>1, GetEffect
<1>10. CASE AddFinalizer
  <2>1. [cr EXCEPT !.finalizer = TRUE] \in Resource BY <1>0 DEF Resource
  <2> QED BY <1>0, <1>7, <1>8, <1>10, <2>1 DEF AddFinalizer
<1>11. CASE Put
  BY <1>0, <1>8, <1>11 DEF Put
<1>12. CASE Post
  BY <1>0, <1>7, <1>8, <1>12 DEF Post
<1>13. CASE Served \/ RequestLost \/ RequestTimeout \/ AnswerLost
  BY <1>0, <1>7, <1>13 DEF Served, RequestLost, RequestTimeout, AnswerLost, Disturbed
<1>14. CASE ScimDelete
  BY <1>0, <1>4, <1>14, ReleaseEffect DEF ScimDelete
<1>15. CASE RemoveFinalizer
  <2>1. [cr EXCEPT !.phase = "absent", !.finalizer = FALSE] \in Resource BY <1>0 DEF Resource
  <2> QED BY <1>0, <1>7, <1>15, <2>1 DEF RemoveFinalizer
<1>16. CASE UNCHANGED <<cr, ctl>>
  BY <1>0, <1>4, <1>16 DEF CtlInv
<1>17. CASE ServerRestart
  BY <1>0, <1>7, <1>16, <1>17 DEF ServerRestart, Rest
<1> QED
  BY <1>5, <1>6, <1>9, <1>10, <1>11, <1>12, <1>13, <1>14, <1>15, <1>16, <1>17
     DEF OperatorNext, Reconcile, Others, operatorVars

LEMMA OperatorInductive == OperatorSpec => []OperatorIInv
<1>1. OperatorInit => OperatorIInv
  <2> SUFFICES ASSUME OperatorInit PROVE OperatorIInv OBVIOUS
  <2>1. IInv BY Initially DEF OperatorInit
  <2>2. cr \in Resource
    <3>1. (CHOOSE e \in Emails : TRUE) \in Emails BY ControllerAssumption
    <3> QED BY <3>1 DEF OperatorInit, Resource
  <2>3. OperatorTypeOK /\ CtlInv
    <3>1. 0 \in 0..MaxDisturbances BY ControllerAssumption
    <3> QED BY <2>1, <2>2, <3>1, RestEffect DEF OperatorInit, OperatorTypeOK, CtlInv, IInv
  <2> QED BY <2>1, <2>3 DEF OperatorIInv
<1>2. OperatorIInv /\ [OperatorNext]_operatorVars => OperatorIInv'
  <2> SUFFICES ASSUME OperatorIInv, [OperatorNext]_operatorVars PROVE OperatorIInv' OBVIOUS
  <2>1. IInv' BY OperatorTakesSteps, InductiveStep DEF OperatorIInv
  <2> QED BY <2>1, OperatorTyped DEF OperatorIInv, IInv
<1> QED BY <1>1, <1>2, PTL DEF OperatorSpec

(* The operator, its resource and the directory beside it hold what they   *)
(* are declared to hold, faults included.                                  *)
THEOREM OperatorTypes == OperatorSpec => []OperatorTypeOK
BY OperatorInductive, PTL DEF OperatorIInv

(* Emails stay unique and memberships agree with the operator at work, its *)
(* requests lost, repeated, or going on after it has given them up.        *)
THEOREM OperatorKeepsOrder == OperatorSpec => [](EmailUnique /\ MembershipAgrees)
<1>1. OperatorIInv => EmailUnique /\ MembershipAgrees BY OrderAgrees DEF OperatorIInv, IInv
<1> QED BY <1>1, OperatorInductive, PTL

(* Nor does the operator bring back a user by a copy it read.              *)
THEOREM OperatorRevivesNobody == OperatorSpec => NoRevival
<1>1. OperatorIInv /\ [OperatorNext]_operatorVars => [CreatedOnly]_vars
  BY OperatorTakesSteps, RevivalStep DEF OperatorIInv
<1>2. OperatorSpec => [][CreatedOnly]_vars BY <1>1, OperatorInductive, PTL DEF OperatorSpec
<1> QED BY <1>2 DEF NoRevival, CreatedOnly

-----------------------------------------------------------------------------
(* What the finalizer guarantees: of the name, nothing more.               *)

(* Nothing is left under the name of the resource.                         *)
NameFree == IF kind = "user" THEN ~Exists(Name) ELSE groups[GroupName] = None

(* Once the controller has deleted the name, it is free, or clients have   *)
(* begun a request since; none of those begun earlier can take the name.   *)
ReleaseInv ==
    ctl.pc = "release" =>
        /\ ctl.begun <= begun
        /\ ctl.begun = begun => NameFree

(* Only a request that begins can take a name that no server makes: those  *)
(* in progress write what is there, or what the server named.              *)
LEMMA NameStaysFree ==
    ASSUME IInv, NameFree, UNCHANGED kind,
           \/ \E r \in Reqs : ContinueRequest(r)
           \/ Restart
           \/ UNCHANGED <<users, groups>>
    PROVE  NameFree'
<1>0. TypeOK /\ Name \in Users \ Made /\ GroupName \in Groups \ Made
  BY ControllerAssumption DEF IInv
<1>1. ASSUME NEW r \in Reqs, ContinueRequest(r) PROVE NameFree'
  <2>1. ASSUME ~Exists(Name) PROVE ~Exists(Name)'
    <3>1. CASE UpdateUser(r) \/ ScimUpdateUser(r)
      BY <1>0, <2>1, <3>1 DEF UpdateUser, ScimUpdateUser, CanUpdateUser, Exists, TypeOK
    <3>2. CASE ScimCreateUser(r)
      <4>1. req[r].id \in Made BY <3>2 DEF ScimCreateUser, IInv, Reserved
      <4> QED BY <1>0, <2>1, <3>2, <4>1 DEF ScimCreateUser, Exists, TypeOK
    <3> QED BY <1>1, <2>1, <3>1, <3>2
            DEF ContinueRequest, SyncGroup, StoreSyncedGroup, AnswerUser, ScimStoreGroup, Exists
  <2>2. ASSUME groups[GroupName] = None PROVE groups'[GroupName] = None
    BY <1>0, <1>1, <2>2 DEF ContinueRequest, UpdateUser, SyncGroup, StoreSyncedGroup, AnswerUser,
       ScimCreateUser, ScimUpdateUser, ScimStoreGroup, TypeOK
  <2> QED BY <2>1, <2>2 DEF NameFree
<1>2. CASE Restart BY <1>0, <1>2 DEF Restart, NameFree, Exists, TypeOK
<1>3. CASE UNCHANGED <<users, groups>> BY <1>3 DEF NameFree, Exists
<1> QED BY <1>1, <1>2, <1>3

LEMMA ReleaseKept ==
    ASSUME OperatorIInv, ReleaseInv, [OperatorNext]_operatorVars
    PROVE  ReleaseInv'
<1>0. ctl \in Reconciliation /\ begun \in Nat /\ ctl.begun \in Nat /\ ctl.stale \in BOOLEAN
  BY DEF OperatorIInv, OperatorTypeOK, TypeOK, Reconciliation
<1>1. ASSUME ctl'.pc # "release" PROVE ReleaseInv' BY <1>1 DEF ReleaseInv
<1>2. CASE ScimDelete
  <2>1. ctl'.begun = begun /\ UNCHANGED <<begun, kind>> BY <1>0, <1>2, ReleaseEffect DEF ScimDelete
  <2>2. NameFree'
    <3>0. TypeOK /\ Name \in Users /\ GroupName \in Groups
      BY ControllerAssumption DEF OperatorIInv, IInv
    <3>1. CASE kind = "user" /\ DeleteUser(Ctl, Name)
      BY <2>1, <3>0, <3>1 DEF DeleteUser, NameFree, Exists, TypeOK
    <3>2. CASE kind = "group" /\ DeleteGroup(Ctl, GroupName)
      BY <2>1, <3>0, <3>2 DEF DeleteGroup, NameFree, TypeOK
    <3>3. CASE (IF kind = "user" THEN ~Exists(Name) ELSE groups[GroupName] = None) /\ UNCHANGED vars
      BY <2>1, <3>3 DEF NameFree, Exists, vars
    <3> QED BY <1>2, <3>1, <3>2, <3>3 DEF ScimDelete
  <2> QED BY <1>0, <2>1, <2>2 DEF ReleaseInv
<1>3. ASSUME UNCHANGED kind, ctl'.pc = "release" => ctl.pc = "release" /\ ctl'.begun = ctl.begun,
             \/ begun' = begun + 1
             \/ /\ UNCHANGED begun
                /\ \/ \E r \in Reqs : ContinueRequest(r)
                   \/ Restart
                   \/ UNCHANGED <<users, groups>>
      PROVE  ReleaseInv'
  BY <1>0, <1>3, NameStaysFree DEF ReleaseInv, OperatorIInv
<1>4. CASE \/ \E e \in Emails : Apply(e)
           \/ Delete
  <2>1. UNCHANGED vars /\ UNCHANGED kind /\ ctl'.pc = ctl.pc /\ ctl'.begun = ctl.begun
    BY <1>0, <1>4, EditEffect DEF Apply, Delete
  <2> QED BY <1>3, <2>1 DEF vars
<1>5. CASE Get \/ AddFinalizer \/ Put \/ Post \/ Served \/ RemoveFinalizer
           \/ RequestLost \/ RequestTimeout \/ AnswerLost
  <2>1. ctl'.pc # "release"
    <3>1. \A pc \in {"put", "putting", "post", "posting", "delete"} : Goto(pc) => ctl'.pc = pc
      BY <1>0, GotoEffect
    <3>2. Rest => ctl'.pc = "idle" BY RestEffect
    <3>3. Get => ctl'.pc # "release" BY <1>0, GetEffect DEF OperatorIInv, OperatorTypeOK
    <3> QED BY <1>5, <3>1, <3>2, <3>3
            DEF AddFinalizer, Put, Post, Served, RemoveFinalizer, RequestLost, RequestTimeout,
                AnswerLost, Disturbed
  <2> QED BY <1>1, <2>1
<1>6. CASE ServerRestart
  <2>1. UNCHANGED begun /\ UNCHANGED kind /\ Restart BY <1>6 DEF ServerRestart
  <2>2. ctl'.pc = "release" => ctl' = ctl BY <1>6, RestEffect DEF ServerRestart
  <2> QED BY <1>3, <2>1, <2>2
<1>7. CASE Others BY <1>3, <1>7 DEF Others
<1>8. CASE UNCHANGED operatorVars BY <1>3, <1>8 DEF operatorVars, vars
<1> QED BY <1>2, <1>4, <1>5, <1>6, <1>7, <1>8 DEF OperatorNext, Reconcile

(* A resource is let go only when the directory has let go of its name,    *)
(* unless somebody has asked for the name again: whatever is lost or       *)
(* repeated on the way, for any number of clients and requests.  It says   *)
(* nothing of what the controller created, which never bears that name.    *)
THEOREM NamesAreReleased == OperatorSpec => NameReleased
<1> DEFINE Clean ==
             cr.phase = "deleting" /\ cr'.phase = "absent" =>
                \/ IF kind = "user" THEN ~Exists(Name) ELSE groups[GroupName] = None
                \/ begun # ctl.begun
<1>1. OperatorInit => ReleaseInv BY RestEffect DEF OperatorInit, ReleaseInv
<1>2. OperatorSpec => []ReleaseInv BY <1>1, ReleaseKept, OperatorInductive, PTL DEF OperatorSpec
<1>3. OperatorIInv /\ ReleaseInv /\ [OperatorNext]_operatorVars => [Clean]_operatorVars
  <2> SUFFICES ASSUME OperatorIInv, ReleaseInv, OperatorNext, cr.phase = "deleting", cr'.phase = "absent"
               PROVE  NameFree \/ begun # ctl.begun
    BY DEF NameFree
  <2>0. cr \in Resource /\ ctl \in Reconciliation BY DEF OperatorIInv, OperatorTypeOK
  <2>1. ~AddFinalizer
    BY <2>0 DEF AddFinalizer, Resource
  <2>2. RemoveFinalizer
    BY <2>1
       DEF OperatorNext, Reconcile, Apply, Delete, Get, Put, Post, Served, ScimDelete,
           RequestLost, RequestTimeout, AnswerLost, ServerRestart, Disturbed, Others
  <2> QED BY <2>2 DEF RemoveFinalizer, ReleaseInv
<1>4. OperatorSpec => [][Clean]_operatorVars
  BY <1>2, <1>3, OperatorInductive, PTL DEF OperatorSpec
<1> QED BY <1>4 DEF NameReleased
=============================================================================
