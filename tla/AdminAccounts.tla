---------------------------- MODULE AdminAccounts ----------------------------
(***************************************************************************)
(* Administrators of the console: their records, the handlers that read    *)
(* one, count the active ones and write it back, the cookies that sign     *)
(* them in, and what a start does for them.                                *)
(*                                                                         *)
(* Of a record only whether it is active is kept: what else a request      *)
(* changes (the name shown, the password) is written with the rest of the  *)
(* record as it was read.  The names to sign in with are told apart.       *)
(***************************************************************************)
EXTENDS Naturals, FiniteSets

CONSTANTS
    AdminIds,       \* DefaultId and identities made from the clock
    DefaultId,      \* adm_default
    Workers,        \* handlers of the admin API
    MaxKeys,        \* bound: hash keys ever made
    MaxCookies,     \* bound: cookies that browsers hold
    SignIns,        \* bound: administrators who sign in with a browser
    None            \* no request

ASSUME AdminAssumption == DefaultId \in AdminIds
ASSUME KeyAssumption == MaxKeys \in Nat /\ MaxCookies \in Nat

Backends == {"memory", "sqlite"}

NoKey == 0
ConfiguredKey == 1    \* FURNACE_SESSION_HASH_KEY; the keys made come after it

Admin == {"absent", "active", "inactive"}

(* What a request will write: the record read, with the change it asks.    *)
Request == [id : AdminIds, write : Admin, counted : BOOLEAN]

VARIABLES
    admins,      \* the admin store of each backend
    backend,     \* the one this process uses
    request,     \* what each handler is about
    counts,      \* "doubtful" once a failed one may have let the last go
    hashKey,     \* the key this process signs cookies with
    storedKey,   \* the key in the settings of the database
    lastKey,     \* the last key made
    cookies      \* what browsers hold

adminVars == <<admins, backend, request, counts, hashKey, storedKey, lastKey, cookies>>

AdminsTypeOK ==
    /\ admins \in [Backends -> [AdminIds -> Admin]]
    /\ backend \in Backends
    /\ request \in [Workers -> Request \cup {None}]
    /\ counts \in {"sound", "doubtful"}
    /\ {hashKey, storedKey, lastKey} \subseteq 0..(MaxKeys + 1)
    /\ cookies \subseteq [admin : AdminIds, key : Nat, kept : BOOLEAN]

NoAdmins == [a \in AdminIds |-> "absent"]

AdminsInit ==
    /\ admins = [b \in Backends |-> NoAdmins]
    /\ backend = "memory"
    /\ request = [w \in Workers |-> None]
    /\ counts = "sound"
    /\ hashKey = NoKey /\ storedKey = NoKey /\ lastKey = ConfiguredKey
    /\ cookies = {}

Table == admins[backend]

Active(a) == Table[a] = "active"

CountActive == Cardinality({a \in AdminIds : Active(a)})

Store(a, record) == admins' = [admins EXCEPT ![backend][a] = record]

keyVars == <<hashKey, storedKey, lastKey>>

(* Nobody is at work on an administrator, and one is active.               *)
Settled == (\A w \in Workers : request[w] = None) /\ (\E a \in AdminIds : Active(a))

-----------------------------------------------------------------------------
(* Management: each request is read, count (for a change that takes an     *)
(* active administrator away), write.                                      *)

(* The clock gives no identity twice: one that a request or a cookie still *)
(* names is not made again.                                                *)
CreateAdmin(a) ==
    /\ a # DefaultId /\ Table[a] = "absent"
    /\ \A w \in Workers : request[w] # None => request[w].id # a
    /\ \A c \in cookies : c.admin # a
    /\ Store(a, "active")
    /\ UNCHANGED <<backend, request, keyVars, cookies>>
    /\ counts' = IF Settled' THEN "sound" ELSE counts

Changed(does, admin) ==
    CASE does = "delete" -> "absent"
      [] does = "activate" -> "active"
      [] does = "deactivate" -> "inactive"
      [] does = "edit" -> admin

(* Slip: deletion is not counted.                                          *)
CountedUnlessDeleted(does, admin) == does = "deactivate" /\ admin = "active"

Counted(does, admin) == does \in {"deactivate", "delete"} /\ admin = "active"

Read(w, does, a) ==
    /\ request[w] = None /\ Table[a] # "absent"
    /\ request' = [request EXCEPT ![w] =
                     [id |-> a, write |-> Changed(does, Table[a]),
                      counted |-> ~Counted(does, Table[a])]]
    /\ UNCHANGED <<admins, backend, counts, keyVars, cookies>>

(* LAST_ADMIN when nobody else is active; the request goes on when the     *)
(* database does not answer.                                               *)
Count(w) ==
    /\ request[w] # None /\ ~request[w].counted
    /\ \/ /\ CountActive <= 1
          /\ request' = [request EXCEPT ![w] = None]
          /\ UNCHANGED counts
       \/ /\ CountActive > 1 \/ backend = "sqlite"
          /\ request' = [request EXCEPT ![w].counted = TRUE]
          /\ counts' = IF CountActive <= 1 THEN "doubtful" ELSE counts
    /\ UNCHANGED <<admins, backend, keyVars, cookies>>

(* Neither Update nor Delete brings back a record that is gone.            *)
Write(w) ==
    /\ request[w] # None /\ request[w].counted
    /\ IF Table[request[w].id] = "absent" THEN UNCHANGED admins
                                      ELSE Store(request[w].id, request[w].write)
    /\ request' = [request EXCEPT ![w] = None]
    /\ UNCHANGED <<backend, keyVars, cookies>>
    /\ counts' = IF Settled' THEN "sound" ELSE counts

-----------------------------------------------------------------------------
(* Cookies.                                                                *)

(* The cookie of an administrator who signs in is signed with the key of   *)
(* the process; kept says that the database holds that key.                *)
Login(a) ==
    /\ a \in SignIns /\ Active(a)
    /\ Cardinality(cookies) < MaxCookies
    /\ cookies' = cookies \cup
         {[admin |-> a, key |-> hashKey,
           kept |-> backend = "sqlite" /\ hashKey # ConfiguredKey]}
    /\ UNCHANGED <<admins, backend, request, counts, keyVars>>

(* verifyAdminCookie and requireAdminSession.                              *)
Verifies(c) == c.key = hashKey

Admits(c) == Verifies(c) /\ Active(c.admin)

(* The console refuses and clears the cookie of somebody who may no longer *)
(* sign in.                                                                *)
Visit(c) ==
    /\ Verifies(c) /\ ~Admits(c)
    /\ cookies' = cookies \ {c}
    /\ UNCHANGED <<admins, backend, request, counts, keyVars>>

(* Signing out, or the end of the cookie's twelve hours.                   *)
Logout(c) ==
    /\ cookies' = cookies \ {c}
    /\ UNCHANGED <<admins, backend, request, counts, keyVars>>

-----------------------------------------------------------------------------
(* At start.                                                               *)

(* Somebody has to be able to sign in: without an active administrator the *)
(* default one is created, which the database refuses when it is there.    *)
bootstraps(b) == ~\E a \in AdminIds : admins[b][a] = "active"

bootstrapFails(b) == bootstraps(b) /\ b = "sqlite" /\ admins[b][DefaultId] # "absent"

bootstrapAdmin(b) ==
    /\ ~bootstrapFails(b)
    /\ backend' = b
    /\ admins' = IF bootstraps(b) THEN [admins EXCEPT ![b][DefaultId] = "active"]
                                  ELSE admins
    /\ UNCHANGED <<request, counts, keyVars, cookies>>

NewKey == lastKey' = lastKey + 1 /\ hashKey' = lastKey'

(* Slip: each start makes a key and stores it.                             *)
AlwaysCreateSessionHashKey(configured) ==
    /\ IF configured
       THEN hashKey' = ConfiguredKey /\ UNCHANGED <<storedKey, lastKey>>
       ELSE /\ lastKey <= MaxKeys
            /\ NewKey
            /\ storedKey' = IF backend = "sqlite" THEN hashKey' ELSE storedKey
    /\ UNCHANGED <<admins, backend, request, counts, cookies>>

LoadOrCreateSessionHashKey(configured) ==
    /\ IF configured
       THEN hashKey' = ConfiguredKey /\ UNCHANGED <<storedKey, lastKey>>
       ELSE IF backend = "sqlite" /\ storedKey # NoKey
            THEN hashKey' = storedKey /\ UNCHANGED <<storedKey, lastKey>>
            ELSE /\ lastKey <= MaxKeys
                 /\ NewKey
                 /\ storedKey' = IF backend = "sqlite" THEN hashKey' ELSE storedKey
    /\ UNCHANGED <<admins, backend, request, counts, cookies>>

(* What the end of the process leaves.                                     *)
AdminsEnd ==
    /\ admins' = [admins EXCEPT !["memory"] = NoAdmins]
    /\ request' = [w \in Workers |-> None]
    /\ counts' = "sound"
    /\ hashKey' = NoKey
    /\ backend' = "memory"
    /\ UNCHANGED <<storedKey, lastKey, cookies>>
=============================================================================
