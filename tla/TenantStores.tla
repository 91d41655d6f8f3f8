---------------------------- MODULE TenantStores ----------------------------
(***************************************************************************)
(* One store behind many views.  A tenant's wrapper puts the tenant in     *)
(* front of every identity and shows only what begins with it; the         *)
(* management API and the login page reach the store through the           *)
(* dispatcher, the protocol servers and the seeding at start reach it raw, *)
(* and the SCIM server holds the default tenant's wrapper.                 *)
(*                                                                         *)
(* An identity is the sequence of its parts between the separators "::",   *)
(* so a prefix is a prefix, and the raw view is the one whose prefix is    *)
(* empty.  Groups and audit events are wrapped as users are.               *)
(***************************************************************************)
EXTENDS Naturals, Sequences

CONSTANTS
    Parts,       \* what identities are made of
    Tenants,     \* the configured tenants and the default one
    Default,     \* the tenant of a request without one
    Multi,       \* tenancy: multi, where API keys stand for tenants
    UserIds,     \* identities clients choose for users
    FlowIds,     \* identities made from the clock, of one part
    Emails,
    Seeds,       \* the seed users, each with an id of one part and an email
    Backend,     \* "memory" or "sqlite"
    None         \* absent user, flow or session; a caller without a key

Raw == <<>>

Views == Tenants \cup {Raw}

Ids == UserIds \cup FlowIds \cup {seed.id : seed \in Seeds}

(* Slip: every wrapper is built for the default tenant.                    *)
addDefaultPrefix(view, id) == IF view = Raw THEN id ELSE Default \o id

addPrefix(view, id) == view \o id

(* Slip: the prefix is taken for granted.                                  *)
hasAnyPrefix(view, name) == Len(view) < Len(name)

hasPrefix(view, name) ==
    /\ Len(view) <= Len(name)
    /\ \A i \in 1..Len(view) : name[i] = view[i]

stripPrefix(view, name) == SubSeq(name, Len(view) + 1, Len(name))

Names == {addPrefix(view, id) : view \in Views, id \in Ids}

Flow == [state : {"initiated", "complete"}, user : Ids \cup {None}]

ASSUME TenantAssumption ==
    /\ Default \in Tenants
    /\ \A t \in Tenants : t # Raw
    /\ Tenants \cup Ids \subseteq Seq(Parts)
    /\ None \notin Emails \cup Ids /\ None \notin Flow
ASSUME SeedAssumption ==
    /\ \A s \in Seeds : s.email \in Emails
    /\ \A s, t \in Seeds : s.id = t.id \/ s.email = t.email => s = t
ASSUME ModeAssumption ==
    Multi \in BOOLEAN /\ Backend \in {"memory", "sqlite"}

VARIABLES
    users,     \* the user store: the email of each user
    flows,     \* the flow store
    sessions,  \* the session store: the user of each session, by flow
    answer     \* the last answer: to whose key, from which view, and what it said

vars == <<users, flows, sessions, answer>>

TypeOK ==
    /\ users \in [Names -> Emails \cup {None}]
    /\ flows \in [Names -> Flow \cup {None}]
    /\ sessions \in [Names -> Ids \cup {None}]
    /\ answer \in [by : Tenants \cup {None}, view : Views,
                   said : {"none", "ok", "conflict", "notFound", "cleaned"}]

(* seedUsers writes to the raw store.                                      *)
Init ==
    /\ users = [n \in Names |-> IF \E s \in Seeds : s.id = n
                                THEN (CHOOSE s \in Seeds : s.id = n).email
                                ELSE None]
    /\ flows = [n \in Names |-> None]
    /\ sessions = [n \in Names |-> None]
    /\ answer = [by |-> None, view |-> Raw, said |-> "none"]

put(view, id, table, value) == [table EXCEPT ![addPrefix(view, id)] = value]

Answer(by, view, said) == answer' = [by |-> by, view |-> view, said |-> said]

-----------------------------------------------------------------------------
(* Views: what ForContext gives to the callers of the management API, whose *)
(* keys stand for tenants in multi mode, and to the public pages, which    *)
(* ask for no key.                                                         *)

ApiViews == IF Multi THEN Tenants ELSE {Default}

LoginView == Default

ProtocolView == Raw

(* The SCIM server lets every tenant's key in, and was given the default   *)
(* tenant's stores once and for all.                                       *)
ScimView == Default

(* The views in which a tenant's key works on users: its own through the   *)
(* API, and that of the SCIM server.                                       *)
UserViews(by) == {by, ScimView}

(* Who makes and completes flows: a tenant through the API, and in the     *)
(* views of public pages anybody.                                          *)
WorksOnFlows(by, view, public) ==
    \/ by \in ApiViews /\ view = by
    \/ by = None /\ view \in public

(* What a view shows of a store, and the identities it shows it under.     *)
Own(view, table) == {n \in Names : table[n] # None /\ hasPrefix(view, n)}

Shown(view, table) == {stripPrefix(view, n) : n \in Own(view, table)}

Found(view, id, table) ==
    addPrefix(view, id) \in Names /\ table[addPrefix(view, id)] # None

-----------------------------------------------------------------------------
(* Users, through the API or SCIM.                                         *)

EmailTaken(e) == \E n \in Names : users[n] = e

IdTaken(view, id) == Backend = "sqlite" /\ Found(view, id, users)

CreateUser(by, view, id, e) ==
    /\ by \in ApiViews /\ view \in UserViews(by)
    /\ IF EmailTaken(e) \/ IdTaken(view, id)
       THEN Answer(by, view, "conflict") /\ UNCHANGED users
       ELSE Answer(by, view, "ok") /\ users' = put(view, id, users, e)
    /\ UNCHANGED <<flows, sessions>>

(* Only the table refuses the email of somebody else.                      *)
UpdateUser(by, view, id, e) ==
    /\ by \in ApiViews /\ view \in UserViews(by)
    /\ Found(view, id, users)
    /\ IF Backend = "sqlite" /\ \E n \in Names : n # addPrefix(view, id) /\ users[n] = e
       THEN Answer(by, view, "conflict") /\ UNCHANGED users
       ELSE Answer(by, view, "ok") /\ users' = put(view, id, users, e)
    /\ UNCHANGED <<flows, sessions>>

DeleteUser(by, view, id) ==
    /\ by \in ApiViews /\ view \in UserViews(by)
    /\ Found(view, id, users)
    /\ users' = put(view, id, users, None)
    /\ Answer(by, view, "ok")
    /\ UNCHANGED <<flows, sessions>>

-----------------------------------------------------------------------------
(* Flows: created by the API, the login page or /authorize, completed on   *)
(* the login page or through the API, handed to the protocol server.       *)

CreateFlow(by, view, id) ==
    /\ WorksOnFlows(by, view, {LoginView, ProtocolView})
    /\ \A v \in Views : ~Found(v, id, flows)
    /\ flows' = put(view, id, flows, [state |-> "initiated", user |-> None])
    /\ Answer(by, view, "ok")
    /\ UNCHANGED <<users, sessions>>

(* Slip: the identity kept is the one of the store behind the view.        *)
PickedPrefixed(view, user) == [state |-> "complete", user |-> addPrefix(view, user)]

Picked(view, user) == [state |-> "complete", user |-> user]

(* The user is looked up in the same view as the flow.                     *)
SelectUser(by, view, id, user) ==
    /\ WorksOnFlows(by, view, {LoginView})
    /\ Found(view, id, flows)
    /\ flows[addPrefix(view, id)].state = "initiated"
    /\ IF Found(view, user, users)
       THEN /\ flows' = put(view, id, flows, Picked(view, user))
            /\ Answer(by, view, "ok")
       ELSE Answer(by, view, "notFound") /\ UNCHANGED flows
    /\ UNCHANGED <<users, sessions>>

(* The protocol server turns a flow into a session of its user when it     *)
(* finds both in its view and the flow is complete.                        *)
CompleteFlow(id) ==
    /\ id \in FlowIds
    /\ LET flow == flows[addPrefix(ProtocolView, id)]
       IN  IF /\ Found(ProtocolView, id, flows)
              /\ flow.state = "complete"
              /\ Found(ProtocolView, flow.user, users)
           THEN /\ sessions' = put(ProtocolView, id, sessions, flow.user)
                /\ Answer(None, ProtocolView, "ok")
           ELSE Answer(None, ProtocolView, "notFound") /\ UNCHANGED sessions
    /\ UNCHANGED <<users, flows>>

(* The cleanup reaches every tenant's flows, and says so.                  *)
DeleteExpired ==
    /\ \E expired \in SUBSET {n \in Names : flows[n] # None} :
          flows' = [n \in Names |-> IF n \in expired THEN None ELSE flows[n]]
    /\ Answer(None, Raw, "cleaned")
    /\ UNCHANGED <<users, sessions>>

Next ==
    \/ \E by, view \in Tenants, id \in UserIds, e \in Emails :
          CreateUser(by, view, id, e) \/ UpdateUser(by, view, id, e)
    \/ \E by, view \in Tenants, id \in Ids : DeleteUser(by, view, id)
    \/ \E by \in Tenants \cup {None}, view \in Views, id \in FlowIds :
          CreateFlow(by, view, id) \/ \E user \in Ids : SelectUser(by, view, id, user)
    \/ \E id \in FlowIds : CompleteFlow(id)
    \/ DeleteExpired

Spec == Init /\ [][Next]_vars

-----------------------------------------------------------------------------
(* What a view shows of users and flows.                                   *)
Contents(view) ==
    <<[n \in Own(view, users) |-> users[n]], [n \in Own(view, flows) |-> flows[n]]>>

(* configuration.md: each tenant's API key scopes all store operations to  *)
(* that tenant.  So it is for all tenants but the default one: what such a *)
(* tenant sees is changed by requests with its own key, through its own    *)
(* view, and by the cleanup, and by nothing another tenant, the login page *)
(* or the protocol servers do.  What the default tenant sees the login     *)
(* page changes too, and the SCIM server does with the key of any tenant   *)
(* (router.go:434, app.go:177), against that sentence.                     *)
TenantIsolated ==
    [][\A t \in Tenants :
          Contents(t)' # Contents(t) =>
              \/ answer'.said = "cleaned"
              \/ answer'.view = t /\ (answer'.by = t \/ t = Default)]_vars

(* What a tenant is given when it lists a store.                           *)
Listed(t, table) == [id \in Shown(t, table) |-> table[addPrefix(t, id)]]

Private ==
    INSTANCE PrivateStores WITH users <- [t \in Tenants |-> Listed(t, users)],
                                flows <- [t \in Tenants |-> Listed(t, flows)]

(* One store behind prefixes does for its tenants what a store for each of *)
(* them would: what they are shown in lists changes as their own requests, *)
(* accepted on what they can fetch, change it, and by the cleanup.         *)
ActsAsPrivateStores == Private!StoresSpec

(* api-reference.md: /authorize starts an authorization and redirects to   *)
(* the login page, which has to find its flow.                             *)
LoginFindsFlow ==
    \A id \in FlowIds : Found(ProtocolView, id, flows) => Found(LoginView, id, flows)
=============================================================================
