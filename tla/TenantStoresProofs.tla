-------------------------- MODULE TenantStoresProofs --------------------------
(***************************************************************************)
(* What TLAPS proves of TenantStores: its types; that tenants but the      *)
(* default one see their own changes only; and that the shared store does  *)
(* for its tenants what a store for each of them would.  The last two need *)
(* that no tenant's identity begins another's and that no client's         *)
(* identity begins with a tenant's, neither of which the code asks of the  *)
(* configuration or of its clients.                                        *)
(***************************************************************************)
EXTENDS TenantStores, TLAPS

PrefixFree == \A t, u \in Tenants : t # u => ~hasPrefix(t, u)

Unprefixed == \A t \in Tenants, id \in Ids : ~hasPrefix(t, id)

(* What begins with two tenants has one of them at the start of the other. *)
LEMMA OneOwner ==
    ASSUME PrefixFree, NEW t \in Tenants, NEW u \in Tenants, t # u, NEW id \in Ids
    PROVE  ~hasPrefix(t, addPrefix(u, id))
<1>1. t \in Seq(Parts) /\ u \in Seq(Parts) /\ id \in Seq(Parts)
    BY TenantAssumption
<1>2. /\ Len(u \o id) = Len(u) + Len(id)
      /\ \A i \in 1..Len(u) : (u \o id)[i] = u[i]
    BY <1>1
<1>3. ASSUME hasPrefix(t, u \o id), Len(t) <= Len(u) PROVE FALSE
    <2>1. hasPrefix(t, u)
        BY <1>1, <1>2, <1>3 DEF hasPrefix
    <2> QED
        BY <2>1 DEF PrefixFree
<1>4. ASSUME hasPrefix(t, u \o id), Len(u) <= Len(t) PROVE FALSE
    <2>1. hasPrefix(u, t)
        BY <1>1, <1>2, <1>4 DEF hasPrefix
    <2> QED
        BY <2>1 DEF PrefixFree
<1> QED
    BY <1>1, <1>3, <1>4 DEF addPrefix

(* A view that is not the tenant's has no name that begins with it.        *)
LEMMA NotMine ==
    ASSUME PrefixFree, Unprefixed, NEW t \in Tenants, NEW view \in Views, view # t,
           NEW id \in Ids
    PROVE  ~hasPrefix(t, addPrefix(view, id))
<1>1. CASE view \in Tenants
    BY <1>1, OneOwner
<1>2. CASE view = Raw
    <2>1. id \in Seq(Parts)
        BY TenantAssumption
    <2>2. addPrefix(view, id) = id
        BY <1>2, <2>1 DEF addPrefix, Raw
    <2> QED
        BY <2>2 DEF Unprefixed
<1> QED
    BY <1>1, <1>2 DEF Views

LEMMA Named ==
    ASSUME NEW view \in Views, NEW id \in Ids
    PROVE  addPrefix(view, id) \in Names
BY DEF Names

(* The prefix that was put in front is the one that is taken off.          *)
LEMMA StripInvertsAdd ==
    ASSUME NEW view \in Views, NEW id \in Ids
    PROVE  /\ hasPrefix(view, addPrefix(view, id))
           /\ stripPrefix(view, addPrefix(view, id)) = id
<1>1. view \in Seq(Parts) /\ id \in Seq(Parts)
    <2>1. Raw \in Seq(Parts)
        BY DEF Raw
    <2> QED
        BY <2>1, TenantAssumption DEF Views
<1>2. /\ Len(view \o id) = Len(view) + Len(id)
      /\ \A i \in 1..Len(view) : (view \o id)[i] = view[i]
      /\ \A i \in 1..Len(id) : (view \o id)[Len(view) + i] = id[i]
    BY <1>1
<1>3. SubSeq(view \o id, Len(view) + 1, Len(view \o id)) = id
    <2> DEFINE rest == SubSeq(view \o id, Len(view) + 1, Len(view \o id))
    <2>1. rest \in Seq(Parts) /\ Len(rest) = Len(id)
        BY <1>1, <1>2
    <2>2. \A i \in 1..Len(id) : rest[i] = id[i]
        BY <1>1, <1>2
    <2> QED
        BY <1>1, <2>1, <2>2
<1> QED
    BY <1>2, <1>3 DEF hasPrefix, addPrefix, stripPrefix

(* Of every table, whatever is in it: a tenant is shown the identities it  *)
(* can get.                                                                *)
LEMMA ShownIsFound ==
    ASSUME PrefixFree, Unprefixed, NEW t \in Tenants, NEW table
    PROVE  Shown(t, table) = {id \in Ids : Found(t, id, table)}
<1>1. t \in Views
    BY DEF Views
<1>2. ASSUME NEW n \in Own(t, table)
      PROVE  stripPrefix(t, n) \in Ids /\ Found(t, stripPrefix(t, n), table)
    <2>1. PICK view \in Views, id \in Ids : n = addPrefix(view, id)
        BY <1>2 DEF Own, Names
    <2>2. view = t
        BY <1>2, <2>1, NotMine DEF Own
    <2>3. stripPrefix(t, n) = id
        BY <1>1, <2>1, <2>2, StripInvertsAdd
    <2> QED
        BY <1>2, <2>1, <2>2, <2>3 DEF Own, Found
<1>3. ASSUME NEW id \in Ids, Found(t, id, table)
      PROVE  id \in Shown(t, table)
    <2>1. addPrefix(t, id) \in Own(t, table)
        BY <1>1, <1>3, StripInvertsAdd DEF Own, Found
    <2> QED
        BY <1>1, <2>1, StripInvertsAdd DEF Shown
<1> QED
    BY <1>2, <1>3 DEF Shown

-----------------------------------------------------------------------------
LEMMA InitTypes == Init => TypeOK
<1> SUFFICES ASSUME Init PROVE TypeOK
    OBVIOUS
<1>1. users \in [Names -> Emails \cup {None}]
    BY SeedAssumption DEF Init
<1>2. flows \in [Names -> Flow \cup {None}] /\ sessions \in [Names -> Ids \cup {None}]
    BY DEF Init
<1>3. answer \in [by : Tenants \cup {None}, view : Views,
                  said : {"none", "ok", "conflict", "notFound", "cleaned"}]
    BY DEF Init, Views
<1> QED
    BY <1>1, <1>2, <1>3 DEF TypeOK

(* A write under a name of the store keeps the store's type.               *)
LEMMA PutTyped ==
    ASSUME NEW S, NEW table \in [Names -> S], NEW value \in S,
           NEW view \in Views, NEW id \in Ids,
           NEW new, new = table \/ new = put(view, id, table, value)
    PROVE  new \in [Names -> S]
BY Named DEF put

LEMMA StepTypes == TypeOK /\ [Next]_vars => TypeOK'
<1> SUFFICES ASSUME TypeOK, [Next]_vars PROVE TypeOK'
    OBVIOUS
<1> DEFINE Said == {"none", "ok", "conflict", "notFound", "cleaned"}
<1>1. /\ UserIds \subseteq Ids /\ FlowIds \subseteq Ids
      /\ Raw \in Views /\ Tenants \subseteq Views
    BY DEF Ids, Views
<1>2. ASSUME NEW by \in Tenants \cup {None}, NEW view \in Views, NEW said \in Said,
             Answer(by, view, said)
      PROVE  answer' \in [by : Tenants \cup {None}, view : Views, said : Said]
    BY <1>2 DEF Answer
<1>3. ASSUME NEW by \in Tenants, NEW view \in Views, NEW id \in UserIds,
             NEW e \in Emails,
             CreateUser(by, view, id, e) \/ UpdateUser(by, view, id, e)
      PROVE  TypeOK'
    <2>1. users' = users \/ users' = put(view, id, users, e)
        BY <1>3 DEF CreateUser, UpdateUser
    <2>2. users' \in [Names -> Emails \cup {None}]
        <3>1. users \in [Names -> Emails \cup {None}] /\ e \in Emails \cup {None} /\ id \in Ids
            BY <1>1 DEF TypeOK
        <3> QED
            BY <2>1, <3>1, PutTyped
    <2>3. Answer(by, view, "ok") \/ Answer(by, view, "conflict")
        BY <1>3 DEF CreateUser, UpdateUser
    <2> QED
        BY <1>2, <1>3, <2>2, <2>3 DEF TypeOK, CreateUser, UpdateUser
<1>4. ASSUME NEW by \in Tenants, NEW view \in Views, NEW id \in Ids, DeleteUser(by, view, id)
      PROVE  TypeOK'
    <2>1. users' \in [Names -> Emails \cup {None}]
        BY <1>4, PutTyped DEF TypeOK, DeleteUser
    <2> QED
        BY <1>2, <1>4, <2>1 DEF TypeOK, DeleteUser
<1>5. ASSUME NEW by \in Tenants \cup {None}, NEW view \in Views, NEW id \in FlowIds,
             CreateFlow(by, view, id)
      PROVE  TypeOK'
    <2>1. [state |-> "initiated", user |-> None] \in Flow
        BY DEF Flow
    <2>2. flows' \in [Names -> Flow \cup {None}]
        BY <1>1, <1>5, <2>1, PutTyped DEF TypeOK, CreateFlow
    <2> QED
        BY <1>2, <1>5, <2>2 DEF TypeOK, CreateFlow
<1>6. ASSUME NEW by \in Tenants \cup {None}, NEW view \in Views, NEW id \in FlowIds,
             NEW user \in Ids,
             SelectUser(by, view, id, user)
      PROVE  TypeOK'
    <2>1. Picked(view, user) \in Flow
        BY DEF Flow, Picked
    <2>2. flows' = flows \/ flows' = put(view, id, flows, Picked(view, user))
        BY <1>6 DEF SelectUser
    <2>3. flows' \in [Names -> Flow \cup {None}]
        <3>1. flows \in [Names -> Flow \cup {None}] /\ id \in Ids
            BY <1>1 DEF TypeOK
        <3>2. Picked(view, user) \in Flow \cup {None}
            BY <2>1
        <3> QED
            BY <2>2, <3>1, <3>2, PutTyped
    <2>4. Answer(by, view, "ok") \/ Answer(by, view, "notFound")
        BY <1>6 DEF SelectUser
    <2> QED
        BY <1>2, <1>6, <2>3, <2>4 DEF TypeOK, SelectUser
<1>7. ASSUME NEW id \in FlowIds, CompleteFlow(id)
      PROVE  TypeOK'
    <2> DEFINE flow == flows[addPrefix(ProtocolView, id)]
               found == Found(ProtocolView, id, flows) /\ Found(ProtocolView, flow.user, users)
    <2>1. sessions' = sessions \/ (found /\ sessions' = put(ProtocolView, id, sessions, flow.user))
        BY <1>7 DEF CompleteFlow
    <2>2. found => flow \in Flow
        BY DEF Found, TypeOK
    <2>3. found => flow.user \in Ids \cup {None}
        BY <2>2 DEF Flow
    <2>4. sessions' \in [Names -> Ids \cup {None}]
        <3>1. sessions \in [Names -> Ids \cup {None}] /\ id \in Ids /\ ProtocolView \in Views
            BY <1>1 DEF TypeOK, ProtocolView
        <3> QED
            BY <2>1, <2>3, <3>1, PutTyped
    <2>5. Answer(None, Raw, "ok") \/ Answer(None, Raw, "notFound")
        BY <1>7 DEF CompleteFlow, ProtocolView
    <2> QED
        BY <1>1, <1>2, <1>7, <2>4, <2>5 DEF TypeOK, CompleteFlow
<1>8. CASE DeleteExpired
    <2>1. flows' \in [Names -> Flow \cup {None}]
        BY <1>8 DEF DeleteExpired, TypeOK
    <2> QED
        BY <1>1, <1>2, <1>8, <2>1 DEF TypeOK, DeleteExpired
<1>9. CASE UNCHANGED vars
    BY <1>9 DEF TypeOK, vars
<1> QED
    BY <1>3, <1>4, <1>5, <1>6, <1>7, <1>8, <1>9 DEF Next, Views

(* Every reachable state of the stores behind all their views is well      *)
(* typed: no view writes under a name of another form, and a flow keeps an *)
(* identity of its own view, never the prefixed one.                       *)
THEOREM TypeCorrect == Spec => []TypeOK
<1>1. Init => TypeOK
    BY InitTypes
<1>2. TypeOK /\ [Next]_vars => TypeOK'
    BY StepTypes
<1> QED
    BY <1>1, <1>2, PTL DEF Spec

-----------------------------------------------------------------------------
(* A write a tenant does not own leaves what it owns.                      *)
LEMMA PutElsewhere ==
    ASSUME PrefixFree, Unprefixed, NEW t \in Tenants, NEW view \in Views, view # t,
           NEW id \in Ids, NEW table, DOMAIN table = Names, NEW value
    PROVE  /\ Own(t, put(view, id, table, value)) = Own(t, table)
           /\ \A n \in Own(t, table) : put(view, id, table, value)[n] = table[n]
<1>1. ~hasPrefix(t, addPrefix(view, id))
    BY NotMine
<1>2. \A n \in Names : hasPrefix(t, n) => put(view, id, table, value)[n] = table[n]
    BY <1>1 DEF put
<1> QED
    BY <1>2 DEF Own

(* What a step of another view leaves of a tenant's contents: all of it.   *)
LEMMA Kept ==
    ASSUME NEW t \in Tenants,
           Own(t, users)' = Own(t, users),
           \A n \in Own(t, users) : users'[n] = users[n],
           Own(t, flows)' = Own(t, flows),
           \A n \in Own(t, flows) : flows'[n] = flows[n]
    PROVE  Contents(t)' = Contents(t)
<1>1. [n \in Own(t, users) |-> users[n]]' = [n \in Own(t, users) |-> users[n]]
    OBVIOUS
<1>2. [n \in Own(t, flows) |-> flows[n]]' = [n \in Own(t, flows) |-> flows[n]]
    OBVIOUS
<1> QED
    BY <1>1, <1>2 DEF Contents

LEMMA StepIsolates ==
    ASSUME PrefixFree, Unprefixed, TypeOK, [Next]_vars, NEW t \in Tenants,
           ~(answer'.view = t /\ (answer'.by = t \/ t = Default)),
           answer'.said # "cleaned"
    PROVE  Contents(t)' = Contents(t)
<1>1. /\ UserIds \subseteq Ids /\ FlowIds \subseteq Ids
      /\ Raw \in Views /\ Tenants \subseteq Views /\ Raw # t
    BY TenantAssumption DEF Ids, Views
<1>2. ASSUME NEW by, NEW view, NEW said, Answer(by, view, said)
      PROVE  said # "cleaned" /\ (view = t => by # t /\ t # Default)
    BY <1>2 DEF Answer
<1>3. ASSUME NEW view \in Views, view # t, NEW id \in Ids, NEW value,
             users' = users \/ users' = put(view, id, users, value), flows' = flows
      PROVE  Contents(t)' = Contents(t)
    <2>1. DOMAIN users = Names
        BY DEF TypeOK
    <2>2. /\ Own(t, put(view, id, users, value)) = Own(t, users)
          /\ \A n \in Own(t, users) : put(view, id, users, value)[n] = users[n]
        BY <1>3, <2>1, PutElsewhere
    <2>3. Own(t, users') = Own(t, users) /\ \A n \in Own(t, users) : users'[n] = users[n]
        BY <1>3, <2>2
    <2>4. Own(t, flows') = Own(t, flows) /\ \A n \in Own(t, flows) : flows'[n] = flows[n]
        BY <1>3
    <2> QED
        BY <2>3, <2>4, Kept DEF Own
<1>4. ASSUME NEW view \in Views, view # t, NEW id \in Ids, NEW value,
             flows' = flows \/ flows' = put(view, id, flows, value), users' = users
      PROVE  Contents(t)' = Contents(t)
    <2>1. DOMAIN flows = Names
        BY DEF TypeOK
    <2>2. /\ Own(t, put(view, id, flows, value)) = Own(t, flows)
          /\ \A n \in Own(t, flows) : put(view, id, flows, value)[n] = flows[n]
        BY <1>4, <2>1, PutElsewhere
    <2>3. Own(t, flows') = Own(t, flows) /\ \A n \in Own(t, flows) : flows'[n] = flows[n]
        BY <1>4, <2>2
    <2>4. Own(t, users') = Own(t, users) /\ \A n \in Own(t, users) : users'[n] = users[n]
        BY <1>4
    <2> QED
        BY <2>3, <2>4, Kept DEF Own
<1>5. ASSUME NEW by \in Tenants, NEW view \in Views, NEW id \in UserIds,
             NEW e \in Emails,
             CreateUser(by, view, id, e) \/ UpdateUser(by, view, id, e)
      PROVE  Contents(t)' = Contents(t)
    <2>1. users' = users \/ users' = put(view, id, users, e)
        BY <1>5 DEF CreateUser, UpdateUser
    <2>2. flows' = flows
        BY <1>5 DEF CreateUser, UpdateUser
    <2>3. view # t
        BY <1>2, <1>5 DEF CreateUser, UpdateUser, UserViews, ScimView
    <2> QED
        BY <1>1, <1>3, <2>1, <2>2, <2>3
<1>6. ASSUME NEW by \in Tenants, NEW view \in Views, NEW id \in Ids, DeleteUser(by, view, id)
      PROVE  Contents(t)' = Contents(t)
    BY <1>2, <1>3, <1>6 DEF DeleteUser, UserViews, ScimView
<1>7. ASSUME NEW by \in Tenants \cup {None}, NEW view \in Views, NEW id \in FlowIds,
             CreateFlow(by, view, id)
      PROVE  Contents(t)' = Contents(t)
    BY <1>1, <1>2, <1>4, <1>7 DEF CreateFlow, WorksOnFlows, LoginView, ProtocolView
<1>8. ASSUME NEW by \in Tenants \cup {None}, NEW view \in Views, NEW id \in FlowIds,
             NEW user \in Ids,
             SelectUser(by, view, id, user)
      PROVE  Contents(t)' = Contents(t)
    <2>1. flows' = flows \/ flows' = put(view, id, flows, Picked(view, user))
        BY <1>8 DEF SelectUser
    <2>2. users' = users /\ view # t
        BY <1>2, <1>8 DEF SelectUser, WorksOnFlows, LoginView
    <2> QED
        BY <1>1, <1>4, <2>1, <2>2
<1>9. ASSUME users' = users, flows' = flows
      PROVE  Contents(t)' = Contents(t)
    BY <1>9 DEF Contents, Own
<1>10. ASSUME NEW id \in FlowIds, CompleteFlow(id)
       PROVE  Contents(t)' = Contents(t)
    BY <1>9, <1>10 DEF CompleteFlow
<1>11. ~DeleteExpired
    BY <1>1, <1>2 DEF DeleteExpired
<1>12. CASE UNCHANGED vars
    BY <1>9, <1>12 DEF vars
<1> QED
    BY <1>5, <1>6, <1>7, <1>8, <1>10, <1>11, <1>12 DEF Next, Views

(* Whatever other tenants' keys, the login page and the protocol servers   *)
(* do, what a tenant other than the default one sees of users and flows    *)
(* does not change, provided tenants' identities are prefix free and       *)
(* clients' carry no tenant.  For the default tenant it is shown that only *)
(* what works in its view changes it: the SCIM server works there for      *)
(* every tenant's key, the login page for everybody.                       *)
THEOREM TenantsIsolated == PrefixFree /\ Unprefixed /\ Spec => TenantIsolated
<1> SUFFICES ASSUME PrefixFree, Unprefixed PROVE Spec => TenantIsolated
    OBVIOUS
<1>1. Spec => []TypeOK
    BY TypeCorrect
<1>2. TypeOK /\ [Next]_vars =>
        [\A t \in Tenants :
            Contents(t)' # Contents(t) =>
                \/ answer'.said = "cleaned"
                \/ answer'.view = t /\ (answer'.by = t \/ t = Default)]_vars
    BY StepIsolates
<1> QED
    BY <1>1, <1>2, PTL DEF Spec, TenantIsolated

-----------------------------------------------------------------------------
(* What a tenant is given by a table, one identity at a time.              *)
LEMMA ListedFound ==
    ASSUME PrefixFree, Unprefixed, NEW t \in Tenants, NEW table
    PROVE  /\ DOMAIN Listed(t, table) = {id \in Ids : Found(t, id, table)}
           /\ \A id \in DOMAIN Listed(t, table) :
                 /\ addPrefix(t, id) \in Names
                 /\ Listed(t, table)[id] = table[addPrefix(t, id)]
           /\ Listed(t, table) =
                 [id \in {i \in Ids : Found(t, i, table)} |-> table[addPrefix(t, id)]]
<1>1. Shown(t, table) = {id \in Ids : Found(t, id, table)}
    BY ShownIsFound
<1> QED
    BY <1>1 DEF Listed, Found

(* The names of two identities of a view are two.                          *)
LEMMA Apart ==
    ASSUME NEW view \in Views, NEW i \in Ids, NEW j \in Ids, i # j
    PROVE  addPrefix(view, i) # addPrefix(view, j)
BY StripInvertsAdd

(* A write of a view is to its own list what it is to a private store...   *)
LEMMA ListedPut ==
    ASSUME PrefixFree, Unprefixed, NEW t \in Tenants, NEW id \in Ids,
           NEW table, DOMAIN table = Names,
           table = [n \in Names |-> table[n]], NEW value, value # None
    PROVE  Listed(t, put(t, id, table, value)) = Private!Stored(Listed(t, table), id, value)
<1> DEFINE new == put(t, id, table, value)
<1>1. t \in Views /\ addPrefix(t, id) \in Names
    BY Named DEF Views
<1>2. new[addPrefix(t, id)] = value
    BY <1>1 DEF put
<1>3. \A i \in Ids : i # id => new[addPrefix(t, i)] = table[addPrefix(t, i)]
    BY <1>1, Apart, Named DEF put
<1>4. {i \in Ids : Found(t, i, new)} = {i \in Ids : Found(t, i, table)} \cup {id}
    BY <1>1, <1>2, <1>3 DEF Found
<1>5. /\ Listed(t, new) = [i \in {j \in Ids : Found(t, j, new)} |-> new[addPrefix(t, i)]]
      /\ DOMAIN Listed(t, table) = {i \in Ids : Found(t, i, table)}
      /\ \A i \in DOMAIN Listed(t, table) : Listed(t, table)[i] = table[addPrefix(t, i)]
    <2>1. Listed(t, new) = [i \in {j \in Ids : Found(t, j, new)} |-> new[addPrefix(t, i)]]
        BY ListedFound
    <2> HIDE DEF new
    <2> QED
        BY <2>1, ListedFound
<1> HIDE DEF new
<1>6. Listed(t, new) = [i \in DOMAIN Listed(t, table) \cup {id} |->
                           IF i = id THEN value ELSE Listed(t, table)[i]]
    BY <1>2, <1>3, <1>4, <1>5
<1> QED
    BY <1>6 DEF Private!Stored, new

(* ... a deletion is a deletion ...                                        *)
LEMMA ListedDrop ==
    ASSUME PrefixFree, Unprefixed, NEW t \in Tenants, NEW id \in Ids,
           NEW table, DOMAIN table = Names, table = [n \in Names |-> table[n]]
    PROVE  Listed(t, put(t, id, table, None)) = Private!Without(Listed(t, table), {id})
<1> DEFINE new == put(t, id, table, None)
<1>1. t \in Views /\ addPrefix(t, id) \in Names
    BY Named DEF Views
<1>2. new[addPrefix(t, id)] = None
    BY <1>1 DEF put
<1>3. \A i \in Ids : i # id => new[addPrefix(t, i)] = table[addPrefix(t, i)]
    BY <1>1, Apart, Named DEF put
<1>4. {i \in Ids : Found(t, i, new)} = {i \in Ids : Found(t, i, table)} \ {id}
    BY <1>1, <1>2, <1>3 DEF Found
<1>5. /\ Listed(t, new) = [i \in {j \in Ids : Found(t, j, new)} |-> new[addPrefix(t, i)]]
      /\ DOMAIN Listed(t, table) = {i \in Ids : Found(t, i, table)}
      /\ \A i \in DOMAIN Listed(t, table) : Listed(t, table)[i] = table[addPrefix(t, i)]
    <2>1. Listed(t, new) = [i \in {j \in Ids : Found(t, j, new)} |-> new[addPrefix(t, i)]]
        BY ListedFound
    <2> HIDE DEF new
    <2> QED
        BY <2>1, ListedFound
<1> HIDE DEF new
<1>6. Listed(t, new) = [i \in DOMAIN Listed(t, table) \ {id} |-> Listed(t, table)[i]]
    BY <1>3, <1>4, <1>5
<1> QED
    BY <1>6 DEF Private!Without, new

(* ... and a write of another view is nothing.                             *)
LEMMA ListedElsewhere ==
    ASSUME PrefixFree, Unprefixed, NEW t \in Tenants, NEW view \in Views, view # t,
           NEW id \in Ids, NEW table, DOMAIN table = Names, NEW value
    PROVE  Listed(t, put(view, id, table, value)) = Listed(t, table)
<1> DEFINE new == put(view, id, table, value)
<1>1. t \in Views
    BY DEF Views
<1>2. ~hasPrefix(t, addPrefix(view, id))
    BY NotMine
<1>3. \A i \in Ids : addPrefix(t, i) \in Names /\ new[addPrefix(t, i)] = table[addPrefix(t, i)]
    BY <1>1, <1>2, Named, StripInvertsAdd DEF put
<1>4. {i \in Ids : Found(t, i, new)} = {i \in Ids : Found(t, i, table)}
    BY <1>3 DEF Found
<1>5. /\ Listed(t, new) = [i \in {j \in Ids : Found(t, j, new)} |-> new[addPrefix(t, i)]]
      /\ Listed(t, table) = [i \in {j \in Ids : Found(t, j, table)} |-> table[addPrefix(t, i)]]
    BY ListedFound
<1> HIDE DEF new
<1> QED
    BY <1>3, <1>4, <1>5 DEF new

(* The lists of all tenants after a write of one of them, and after a      *)
(* write to the raw store.                                                 *)
LEMMA Written ==
    ASSUME PrefixFree, Unprefixed, NEW view \in Tenants, NEW id \in Ids,
           NEW table, DOMAIN table = Names,
           table = [n \in Names |-> table[n]], NEW value, value # None
    PROVE  [t \in Tenants |-> Listed(t, put(view, id, table, value))]
             = [[t \in Tenants |-> Listed(t, table)]
                   EXCEPT ![view] = Private!Stored(@, id, value)]
<1>1. Listed(view, put(view, id, table, value)) = Private!Stored(Listed(view, table), id, value)
    BY ListedPut
<1>2. \A t \in Tenants : t # view => Listed(t, put(view, id, table, value)) = Listed(t, table)
    BY ListedElsewhere DEF Views
<1> QED
    BY <1>1, <1>2

LEMMA Dropped ==
    ASSUME PrefixFree, Unprefixed, NEW view \in Tenants, NEW id \in Ids,
           NEW table, DOMAIN table = Names, table = [n \in Names |-> table[n]]
    PROVE  [t \in Tenants |-> Listed(t, put(view, id, table, None))]
             = [[t \in Tenants |-> Listed(t, table)]
                   EXCEPT ![view] = Private!Without(@, {id})]
<1>1. Listed(view, put(view, id, table, None)) = Private!Without(Listed(view, table), {id})
    BY ListedDrop
<1>2. \A t \in Tenants : t # view => Listed(t, put(view, id, table, None)) = Listed(t, table)
    BY ListedElsewhere DEF Views
<1> QED
    BY <1>1, <1>2

LEMMA Unseen ==
    ASSUME PrefixFree, Unprefixed, NEW id \in Ids, NEW table, DOMAIN table = Names, NEW value
    PROVE  [t \in Tenants |-> Listed(t, put(Raw, id, table, value))]
             = [t \in Tenants |-> Listed(t, table)]
<1>1. \A t \in Tenants : Listed(t, put(Raw, id, table, value)) = Listed(t, table)
    BY TenantAssumption, ListedElsewhere DEF Views
<1> QED
    BY <1>1

-----------------------------------------------------------------------------
(* The seeds are in nobody's list: they carry no tenant.                   *)
LEMMA InitPrivate ==
    ASSUME PrefixFree, Unprefixed, Init
    PROVE  Private!StoresInit
<1>1. ASSUME NEW t \in Tenants
      PROVE  Own(t, users) = {} /\ Own(t, flows) = {}
    <2>1. Own(t, flows) = {}
        BY DEF Own, Init
    <2>2. ASSUME NEW n \in Own(t, users) PROVE FALSE
        <3>1. n \in Names /\ users[n] # None /\ hasPrefix(t, n)
            BY <2>2 DEF Own
        <3>2. \E s \in Seeds : s.id = n
            BY <3>1 DEF Init
        <3>3. n \in Ids
            BY <3>2 DEF Ids
        <3> QED
            BY <3>1, <3>3 DEF Unprefixed
    <2> QED
        BY <2>1, <2>2
<1>2. ASSUME NEW t \in Tenants
      PROVE  Listed(t, users) = Private!Empty /\ Listed(t, flows) = Private!Empty
    <2>1. Shown(t, users) = {} /\ Shown(t, flows) = {}
        BY <1>1 DEF Shown
    <2> QED
        BY <2>1 DEF Listed, Private!Empty
<1> QED
    BY <1>2 DEF Private!StoresInit

LEMMA StepPrivate ==
    ASSUME PrefixFree, Unprefixed, TypeOK, [Next]_vars
    PROVE  [Private!StoresNext]_(Private!stores)
<1> DEFINE pu == [t \in Tenants |-> Listed(t, users)]
           pf == [t \in Tenants |-> Listed(t, flows)]
<1>1. /\ UserIds \subseteq Ids /\ FlowIds \subseteq Ids
      /\ ApiViews \subseteq Tenants /\ LoginView \in Tenants /\ ProtocolView = Raw
      /\ ScimView \in Tenants
      /\ Raw \notin Tenants /\ Tenants \subseteq Views
    BY TenantAssumption DEF Ids, Views, ApiViews, LoginView, ProtocolView, ScimView
<1>2. /\ DOMAIN users = Names /\ users = [n \in Names |-> users[n]]
      /\ DOMAIN flows = Names /\ flows = [n \in Names |-> flows[n]]
    BY DEF TypeOK
<1>3. \A t \in Tenants, id \in Ids :
         /\ Found(t, id, users) => id \in DOMAIN pu[t]
         /\ Found(t, id, flows) => id \in DOMAIN pf[t] /\ pf[t][id] = flows[addPrefix(t, id)]
         /\ id \in DOMAIN pf[t] => Found(t, id, flows)
    BY ListedFound
<1>4. users' = users => pu' = pu
    OBVIOUS
<1>5. flows' = flows => pf' = pf
    OBVIOUS
<1>6. ASSUME users' = users, flows' = flows
      PROVE  UNCHANGED Private!stores
    BY <1>4, <1>5, <1>6 DEF Private!stores
<1>7. \A e \in Emails : e # None
    BY TenantAssumption
<1>8. ASSUME NEW view \in Tenants, NEW id \in Ids, NEW e \in Emails,
             users' = put(view, id, users, e)
      PROVE  pu' = [pu EXCEPT ![view] = Private!Stored(@, id, e)]
    BY <1>2, <1>7, <1>8, Written
<1>9. ASSUME NEW by, NEW view, NEW id \in UserIds, NEW e \in Emails, CreateUser(by, view, id, e)
      PROVE  [Private!StoresNext]_(Private!stores)
    <2>1. view \in Tenants /\ id \in Ids /\ flows' = flows
        BY <1>1, <1>9 DEF CreateUser, UserViews
    <2>2. CASE users' = users
        BY <1>6, <2>1, <2>2
    <2>3. CASE ~EmailTaken(e) /\ users' = put(view, id, users, e)
        <3>1. \A i \in DOMAIN pu[view] : pu[view][i] # e
            <4>1. \A i \in DOMAIN pu[view] :
                     addPrefix(view, i) \in Names /\ pu[view][i] = users[addPrefix(view, i)]
                BY <2>1, ListedFound
            <4> HIDE DEF pu
            <4> QED
                BY <2>3, <4>1 DEF EmailTaken
        <3>2. pu' = [pu EXCEPT ![view] = Private!Stored(@, id, e)]
            BY <1>8, <2>1, <2>3
        <3>3. Private!CreateUser(view, id, e)
            BY <1>5, <2>1, <3>1, <3>2 DEF Private!CreateUser
        <3> QED
            BY <2>1, <3>3 DEF Private!StoresNext
    <2> QED
        BY <1>9, <2>2, <2>3 DEF CreateUser
<1>10. ASSUME NEW by, NEW view, NEW id \in UserIds, NEW e \in Emails, UpdateUser(by, view, id, e)
       PROVE  [Private!StoresNext]_(Private!stores)
    <2>1. view \in Tenants /\ id \in Ids /\ flows' = flows /\ Found(view, id, users)
        BY <1>1, <1>10 DEF UpdateUser, UserViews
    <2>2. CASE users' = users
        BY <1>6, <2>1, <2>2
    <2>3. CASE users' = put(view, id, users, e)
        <3>1. pu' = [pu EXCEPT ![view] = Private!Stored(@, id, e)]
            BY <1>8, <2>1, <2>3
        <3>2. Private!UpdateUser(view, id, e)
            BY <1>3, <1>5, <2>1, <3>1 DEF Private!UpdateUser
        <3> QED
            BY <2>1, <3>2 DEF Private!StoresNext
    <2> QED
        BY <1>10, <2>2, <2>3 DEF UpdateUser
<1>11. ASSUME NEW by, NEW view, NEW id \in Ids, DeleteUser(by, view, id)
       PROVE  [Private!StoresNext]_(Private!stores)
    <2>1. view \in Tenants /\ flows' = flows /\ Found(view, id, users)
          /\ users' = put(view, id, users, None)
        BY <1>1, <1>11 DEF DeleteUser, UserViews
    <2>2. pu' = [pu EXCEPT ![view] = Private!Without(@, {id})]
        BY <1>2, <2>1, Dropped
    <2>3. Private!DeleteUser(view, id)
        BY <1>3, <1>5, <2>1, <2>2 DEF Private!DeleteUser
    <2> QED
        BY <2>1, <2>3 DEF Private!StoresNext
<1>12. ASSUME NEW by, NEW view, NEW id \in FlowIds, CreateFlow(by, view, id)
       PROVE  [Private!StoresNext]_(Private!stores)
    <2> DEFINE fresh == [state |-> "initiated", user |-> None]
    <2>1. /\ view \in Tenants \cup {Raw} /\ id \in Ids /\ users' = users
          /\ flows' = put(view, id, flows, fresh)
          /\ \A v \in Tenants : ~Found(v, id, flows)
        BY <1>1, <1>12 DEF CreateFlow, WorksOnFlows
    <2>2. CASE view = Raw
        <3>1. pf' = pf
            BY <1>2, <2>1, <2>2, Unseen
        <3> QED
            BY <1>4, <2>1, <3>1 DEF Private!stores
    <2>3. CASE view \in Tenants
        <3>1. fresh # None
            <4>1. fresh \in Flow
                BY DEF Flow
            <4> QED
                BY <4>1, TenantAssumption
        <3>2. pf' = [pf EXCEPT ![view] = Private!Stored(@, id, fresh)]
            BY <1>2, <2>1, <2>3, <3>1, Written
        <3>3. id \notin DOMAIN pf[view]
            BY <1>3, <2>1, <2>3
        <3>4. Private!CreateFlow(view, id)
            BY <1>4, <2>1, <3>2, <3>3 DEF Private!CreateFlow
        <3> QED
            BY <2>1, <2>3, <3>4 DEF Private!StoresNext
    <2> QED
        BY <2>1, <2>2, <2>3
<1>13. ASSUME NEW by, NEW view, NEW id \in FlowIds, NEW user \in Ids, SelectUser(by, view, id, user)
       PROVE  [Private!StoresNext]_(Private!stores)
    <2>1. /\ view \in Tenants /\ id \in Ids /\ users' = users
          /\ Found(view, id, flows) /\ flows[addPrefix(view, id)].state = "initiated"
        BY <1>1, <1>13 DEF SelectUser, WorksOnFlows
    <2>2. CASE flows' = flows
        BY <1>6, <2>1, <2>2
    <2>3. CASE Found(view, user, users) /\ flows' = put(view, id, flows, Picked(view, user))
        <3>1. Picked(view, user) # None
            <4>1. Picked(view, user) \in Flow
                BY DEF Flow, Picked
            <4> QED
                BY <4>1, TenantAssumption
        <3>2. pf' = [pf EXCEPT ![view] = Private!Stored(@, id, Picked(view, user))]
            BY <1>2, <2>1, <2>3, <3>1, Written
        <3>3. /\ id \in DOMAIN pf[view] /\ pf[view][id].state = "initiated"
              /\ user \in DOMAIN pu[view]
            BY <1>3, <2>1, <2>3
        <3>4. Private!SelectUser(view, id, user)
            BY <1>4, <2>1, <3>2, <3>3 DEF Private!SelectUser, Picked
        <3> QED
            BY <2>1, <3>4 DEF Private!StoresNext
    <2> QED
        BY <1>13, <2>2, <2>3 DEF SelectUser
<1>14. ASSUME NEW id \in FlowIds, CompleteFlow(id)
       PROVE  [Private!StoresNext]_(Private!stores)
    BY <1>6, <1>14 DEF CompleteFlow
<1>15. CASE DeleteExpired
    <2>1. PICK expired \in SUBSET Names :
             flows' = [n \in Names |-> IF n \in expired THEN None ELSE flows[n]]
        BY <1>15 DEF DeleteExpired
    <2> DEFINE gone == {kept \in Tenants \X Ids :
                           /\ kept[2] \in DOMAIN pf[kept[1]]
                           /\ addPrefix(kept[1], kept[2]) \in expired}
               out(t) == {id \in Ids : <<t, id>> \in gone}
    <2>2. ASSUME NEW t \in Tenants
          PROVE  Listed(t, flows') = Private!Without(pf[t], out(t))
        <3>1. \A id \in Ids : addPrefix(t, id) \in Names
            BY <1>1, Named
        <3>2. \A id \in Ids : Found(t, id, flows') <=>
                 Found(t, id, flows) /\ addPrefix(t, id) \notin expired
            BY <2>1, <3>1 DEF Found
        <3>3. /\ Listed(t, flows') =
                    [i \in {j \in Ids : Found(t, j, flows')} |-> flows'[addPrefix(t, i)]]
              /\ DOMAIN pf[t] = {id \in Ids : Found(t, id, flows)}
              /\ \A id \in DOMAIN pf[t] : pf[t][id] = flows[addPrefix(t, id)]
            BY ListedFound
        <3>4. {j \in Ids : Found(t, j, flows')} = DOMAIN pf[t] \ out(t)
            BY <3>2, <3>3
        <3>5. \A i \in DOMAIN pf[t] \ out(t) : flows'[addPrefix(t, i)] = pf[t][i]
            BY <2>1, <3>1, <3>3
        <3> QED
            BY <3>3, <3>4, <3>5 DEF Private!Without
    <2>3. pf' = [t \in Tenants |-> Private!Without(pf[t], out(t))]
        <3>1. pf' = [t \in Tenants |-> Listed(t, flows')]
            BY DEF Listed, Shown, Own
        <3> QED
            BY <2>2, <3>1
    <2>4. gone \in SUBSET {kept \in Tenants \X Ids : kept[2] \in DOMAIN pf[kept[1]]}
        OBVIOUS
    <2>5. users' = users
        BY <1>15 DEF DeleteExpired
    <2>6. Private!DeleteExpired
        BY <1>4, <2>3, <2>4, <2>5 DEF Private!DeleteExpired
    <2> QED
        BY <2>6 DEF Private!StoresNext
<1>16. CASE UNCHANGED vars
    BY <1>6, <1>16 DEF vars
<1> QED
    BY <1>9, <1>10, <1>11, <1>12, <1>13, <1>14, <1>15, <1>16 DEF Next

(* The store behind all prefixes implements a private store for every      *)
(* tenant: what a tenant is shown in its lists changes as its own requests *)
(* and the cleanup change a store nobody else has.                         *)
THEOREM StoresArePrivate == PrefixFree /\ Unprefixed /\ Spec => ActsAsPrivateStores
<1> SUFFICES ASSUME PrefixFree, Unprefixed PROVE Spec => ActsAsPrivateStores
    OBVIOUS
<1>1. Init => Private!StoresInit
    BY InitPrivate
<1>2. TypeOK /\ [Next]_vars => [Private!StoresNext]_(Private!stores)
    BY StepPrivate
<1>3. Spec => []TypeOK
    BY TypeCorrect
<1> QED
    BY <1>1, <1>2, <1>3, PTL DEF Spec, ActsAsPrivateStores, Private!StoresSpec
=============================================================================
