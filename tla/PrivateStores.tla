---------------------------- MODULE PrivateStores ----------------------------
(***************************************************************************)
(* What the wrappers of store/tenanted promise their callers: a user store *)
(* and a flow store of its own for every tenant, from identities to what   *)
(* is kept under them.  The cleanup alone works on the stores of several   *)
(* tenants at once.                                                        *)
(***************************************************************************)
CONSTANTS
    Tenants,
    Ids,
    Emails,
    None       \* a flow without a user

VARIABLES
    users,     \* for every tenant, the emails of its users
    flows      \* for every tenant, its flows

stores == <<users, flows>>

Empty == [id \in {} |-> None]

Stored(table, id, value) ==
    [i \in DOMAIN table \cup {id} |-> IF i = id THEN value ELSE table[i]]

Without(table, ids) == [i \in DOMAIN table \ ids |-> table[i]]

StoresInit ==
    /\ users = [t \in Tenants |-> Empty]
    /\ flows = [t \in Tenants |-> Empty]

(* No two users of a tenant are created with one email.                    *)
CreateUser(t, id, e) ==
    /\ \A i \in DOMAIN users[t] : users[t][i] # e
    /\ users' = [users EXCEPT ![t] = Stored(@, id, e)]
    /\ UNCHANGED flows

UpdateUser(t, id, e) ==
    /\ id \in DOMAIN users[t]
    /\ users' = [users EXCEPT ![t] = Stored(@, id, e)]
    /\ UNCHANGED flows

DeleteUser(t, id) ==
    /\ id \in DOMAIN users[t]
    /\ users' = [users EXCEPT ![t] = Without(@, {id})]
    /\ UNCHANGED flows

CreateFlow(t, id) ==
    /\ id \notin DOMAIN flows[t]
    /\ flows' = [flows EXCEPT ![t] = Stored(@, id, [state |-> "initiated", user |-> None])]
    /\ UNCHANGED users

(* A tenant's logins are those of its own users, under the names it knows. *)
SelectUser(t, id, user) ==
    /\ id \in DOMAIN flows[t]
    /\ flows[t][id].state = "initiated"
    /\ user \in DOMAIN users[t]
    /\ flows' = [flows EXCEPT ![t] = Stored(@, id, [state |-> "complete", user |-> user])]
    /\ UNCHANGED users

DeleteExpired ==
    /\ \E expired \in SUBSET {kept \in Tenants \X Ids : kept[2] \in DOMAIN flows[kept[1]]} :
          flows' = [t \in Tenants |->
                       Without(flows[t], {id \in Ids : <<t, id>> \in expired})]
    /\ UNCHANGED users

StoresNext ==
    \/ \E t \in Tenants, id \in Ids :
          \/ \E e \in Emails : CreateUser(t, id, e) \/ UpdateUser(t, id, e)
          \/ DeleteUser(t, id)
          \/ CreateFlow(t, id)
          \/ \E user \in Ids : SelectUser(t, id, user)
    \/ DeleteExpired

StoresSpec == StoresInit /\ [][StoresNext]_stores
=============================================================================
