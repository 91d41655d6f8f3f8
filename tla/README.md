# Furnace in TLA+

Furnace (the repository's name is authpilot) is a development identity provider. It simulates logins
of users with chosen MFA methods and scenarios and speaks OIDC, SAML and WS-Federation to applications
under test; around that it has a user directory with SCIM, a policy engine, administrators, an audit
log and a Kubernetes operator. This directory holds specifications of its stateful parts, the TLC
configurations that check them, and proofs about them for TLAPS. All paths below are relative to
`src/server/internal` unless they start with another directory of the repository.

    tlc -config MCLoginFlow_overlap.cfg MCLoginFlow.tla  # a run
    tlapm LoginFlowProofs.tla                            # the proofs of a module

`PROJECT.json` lists the runs, for every property a mutation of the code that breaks it, the source
lines of every definition, the hazards of the code and the theorems.

## 1. The system

One Go process with two HTTP servers. The **management server** (`httpapi`, port 8025) serves the
login pages, the administration API, SCIM, policy evaluation and the event stream. The **protocol
server** (`oidc`, `saml`, `wsfed`, port 8026) serves the applications. Both work on the same stores
(`store/memory`, or `store/sqlite` with persistence), the management server through per-tenant wrappers
(`store/tenanted`), the protocol server directly. Goroutines besides the request handlers: the cleanup
ticker, the key-rotation ticker, the eviction loops of rate limiter and idempotency cache, SCIM pushes,
the stamp of an API key's last use, the checks of a batch evaluation. A second process, the operator,
talks to the SCIM server.

| Part | State | Operations | What is hard | Module |
|---|---|---|---|---|
| Login flow: `flow`, `httpapi/flow_login.go`, `webauthn_handlers.go`, `notify` | flow records, user records | create, pick a user, verify, approve, deny, auto-advance, magic link, passkey ceremonies, notification poll, issue and redeem codes | a store operation is atomic and a handler is not: it reads whole records, works on copies and writes them back whole | `LoginFlow` |
| Sessions: `oidc/router.go`, `saml/router.go`, `wsfed/wsfed.go`, `store/*/sessions.go` | sessions with the hash of a refresh token | code grant, refresh grant, SAML completion, logout by user and by name, sign-out, expiry | the same; errors of the session store are dropped; logout is list-then-delete | `Sessions` |
| Tenants and wiring: `store/tenanted`, `tenant`, `app` | one user, group, flow, session and audit store under prefixed names | every store operation through a view; dispatch by context; seeding | two servers that see one store through different views | `TenantStores` |
| Signing keys: `oidc/keys.go`, `oidc/tokens.go` | active and retired keys, token lifetimes | rotate, issue, mint, publish, verify, change lifetimes | clock, lifetime, signer and signature one after the other; window against lifetime | `KeyRotation` |
| Users and groups: `httpapi/router.go`, `store/*/users.go`, `groups.go`, `scim` | users, groups, memberships on both sides | CRUD, SCIM PUT and PATCH, membership reconciliation | two records that have to agree, written one after the other; look-ups and writes of several clients | `Directory` |
| Kubernetes operator: `src/operator` | custom resources, finalizers | reconcile | lost requests and answers, timeouts, retries, identities of two systems | `Operator` |
| Policies: `opa`, `store/sqlite/policies.go`, `signer.go` | versions of policies, signing key, semaphore, decision log | create, activate, delete, evaluate, evaluate in batch, prune | look-up outside the transaction; slots given back on every path; three layers of limits | `Policies` |
| Middleware: `httpapi/middleware.go`, `api_key_handlers.go` | token buckets, cached answers, API keys | authenticate, allow, evict, replay, execute | rounding at the boundary; eviction against time; asynchronous last use | `Requests` |
| Audit: `audit`, `store/*/audit.go` | ring buffer, or a hash chain | append, list, verify, export | read-then-insert of the chain; ring boundary | `Requests`, `RingLog` |
| Administrators: `httpapi/admin_auth.go`, `store/*/admins.go` | accounts, hash key, signed cookies | sign in, create, patch, delete, bootstrap | last active administrator: checked, then acted upon; keys that outlive the process | `AdminAccounts` |
| Event stream: `httpapi/sse.go` | subscriber channels | subscribe, send, shut down | subscription after shutdown; a channel is closed once, by one of two | `Broadcaster` |
| Configuration: `config`, `cmd/furnace` | four layers of settings | load, merge, validate | precedence, with rules of their own for seed users, switches and the decision log | `Configuration` |
| Life cycle: `app/app.go` | servers, signal, timer, cleanup | start, serve, drain, close, crash | an order of closing; everybody waits for somebody | `Server` |
| SCIM client: `scimclient` | ring of events | one push per change | unordered, sent once | `RingLog` (its events) |
| Live configuration: `httpapi/router.go` | lifetimes, provider | PATCH | half-applied patches, lost updates | the lifetimes in `KeyRotation` |

How they interact. `/authorize` and `/saml/sso` create a flow and send the browser to the login page
with its ID; the login page moves the flow through its states; the protocol server is called back,
finds the flow complete, and makes a code, an assertion and a session of it. The token endpoint takes
codes and refresh tokens and asks the issuer, which asks the key manager for a signer. The cleanup
ticker removes expired flows and sessions under all of them. A request to the management API passes
the API key check, the rate limiter and the idempotency cache before its handler, which appends an
audit event. The life cycle starts all of this and takes it down in order.

What makes each part correct:

- **Login flow**: states move along `validTransitions`; nobody logs in without the second factor of
  the method found when the user was picked; a scenario shapes exactly the login it was set for; a
  code stands only on a completed login and is redeemed once; removed flows stay removed.
- **Sessions**: an exchanged refresh token is dead, a code starts one session, an ended session stays
  ended, a logout leaves nothing it found.
- **Tenants**: a tenant sees its own records, all of them, under its own identities; nobody else
  changes them (the default tenant apart, which the login page and SCIM change for everybody); what one
  server writes for a login the other one finds.
- **Signing keys**: a token verifies until it expires or the window of its key is over, whichever comes
  first; a key retired before a request began signs nothing for it.
- **Directory and operator**: emails are unique, both sides of a membership agree, a deleted user does
  not come back by an old copy; a deleted resource is let go, and not before its name is free.
- **Policies**: one version of a policy is in service and verifies, over restarts too; no slot of the
  semaphore is lost; every batch is answered; an override never loosens a limit of an evaluation or a
  batch.
- **Requests**: no address passes faster than its bucket; an answered request is not executed again;
  a revoked key stays revoked; the audit log lists the last events in order, and its chain verifies
  as long as appends do not overlap and find the last hash.
- **Server**: the strongest layer decides a setting, and what any layer wants hidden from the decision
  log is hidden; somebody can sign in; kept cookies admit; no channel is closed twice; handlers and
  cleanup are over when the stores close; a shutdown ends by itself.

## 2. The plan

| Order | Modules | Models | Proofs |
|---|---|---|---|
| 1 | `FlowStateMachine`, `FlowLifecycle`, `LoginFlow` | login flows and every handler that writes them | `LoginFlowProofs` |
| 2 | `Sessions` | grants, logouts, session stores | `SessionsProofs` |
| 3 | `PrivateStores`, `TenantStores` | what a tenant is promised; views of the stores, wiring, seeding | `TenantStoresProofs` |
| 4 | `KeyRotation` | key manager and issuer | `KeyRotationProofs` |
| 5 | `Directory`, `Operator` | users, groups, SCIM server; the operator beside it | `DirectoryProofs` |
| 6 | `Policies` | policy table, evaluation, batches, decision log | `PoliciesProofs` |
| 7 | `RingLog`, `BoundedLog`, `Requests` | middleware, API keys, audit stores | `RequestsProofs` |
| 8 | `Configuration`, `AdminAccounts`, `Broadcaster`, `Server` | the process from its configuration to its exit | `ServerProofs` |

All of it is written, and of what the runs check everything but the four liveness properties and
`ConfigHonoured`, a fact of each configuration by itself, is proved (section 6).

Which composes which: `LoginFlow` EXTENDS the pure `FlowStateMachine` and is shown to implement
`FlowLifecycle`. `Sessions` takes over where `LoginFlow` ends: its constants are flows whose login is
complete. `LoginFlow` lets all handlers share one view of the store; `TenantStores` is about exactly
that assumption, and is shown to implement `PrivateStores`. `KeyRotation` stands below the token
endpoint of `Sessions`, which abstracts from signatures. `Operator` EXTENDS `Directory`: the requests of
the controller are handlers of the SCIM server in a slot of their own, among those of other clients.
`Requests` EXTENDS `RingLog`, which implements `BoundedLog`. `Server` EXTENDS `Configuration`,
`AdminAccounts` and `Broadcaster` and runs their operations inside the life of the process.

## 3. How the modules are written

A store operation runs under the store's mutex or is one SQL statement, so it is one atomic step. An
HTTP handler is a process between store operations: `req[r]` (`call[c]`, `request[w]`) holds its program
counter and the copies it carries; the first action does the first read, the others continue. A request
that is rejected before it writes anything has no effect and is not a step. `Reqs` (`Calls`, `Workers`)
is the number of requests in progress at once. Where actions are guarded by `op \in Ops`, a run can
exercise the operations its question is about; the theorems hold for every `Ops`, all operations
together included.

Operators marked *Slip* are the mutated forms: the bug a property is there to catch. They are used by
no action.

Variables and fields marked *history* are in no Go structure; they remember what a property speaks of
(the method of the user when picked, the code that started a session, the tokens exchanged, the
requests let through, that a statement failed where the code drops the error).

### FlowStateMachine, FlowLifecycle, LoginFlow

`FlowStateMachine` has the states, `validTransitions`, `NormalizeScenario`, `RequiresMFA` and
`IsWebAuthn` of the package `flow`. `FlowLifecycle` is its promise: a flow is started, advances along a
valid transition, and is removed.

`LoginFlow` state: `flows` and `users` (the stores), `req` (requests in progress), the ages of
flows, and what the clients hold (codes redeemed, links used). Its actions:

| Action | Code |
|---|---|
| `SelectUser`, `PickUser` | `applySelectUser`: user chosen, scenario copied to the flow, next state by method |
| `VerifyMFA` | `applyVerifyMFA`: attempts, first attempt fails under `mfa_fail`, scenario reset |
| `Approve`, `Deny` | `approveOrDenyFlow`: push approval, the 10 seconds of `slow_mfa` |
| `GetFlow` | `getAndAutoAdvanceFlow`: the automatic approval |
| `LoginMFA`, `AfterWrite` | `GET /login/mfa`: approved flows are completed |
| `LoginMagic` | the link of the notification: look up, mark used, approve, complete |
| `Notify` | the hub: generates secrets and stores them in the flow, once each |
| `WebAuthnCeremony`, `CeremonyUser`, `GiveUp` | the four passkey handlers; the library's verdict is a choice |
| `AuthorizeComplete`, `ConsumeAuthCode` | issue of a code and its redemption |
| `Write`, `StoreUser`, `LoadUser` | `flows.Update`, `users.Update`, and the scenario reset after it |
| `DeleteExpired`, `TimePasses` | cleanup tick, time in four ages: unborn, fresh, aged (10 seconds), expired |
| `PutUser`, `DeleteUser` | the administrator meanwhile; `AdminWrites` are the users written |
| `Crash` | the process ends between two store operations and restarts on the same SQLite file: requests are gone, stores stay |

Abstractions: codes and secrets are values drawn from sets; TOTP and SMS codes that are submitted are
accepted, as the code does; the WebAuthn library accepts or refuses; events, audit and metrics are left
out. A flow identity is used once (the code names flows by the nanosecond clock).

### Sessions

`sessions` maps names to sessions; `Unnamed` is the empty ID that SAML gives; `clock` names the others;
`codeOf` is the code on a flow, `minted` the random values used up, `exchanged` the refresh tokens
traded in. `IssueCode`, `RedeemCode`, `RefreshGrant` and `SamlLogin` begin, `FindUser`, `UserGone`,
`CreateSession`, `UpdateSession` and `DropExpired` finish a grant; `SignOut`, `NextSession` and
`DeleteSession` are the three list-then-delete loops (SLO by user, SLO by name, WS-Federation sign-out).
`Created` has both back ends: memory overwrites an occupied name, the table refuses it, and callers drop
the error. A wrong redirect URI or verifier uses the code up and is a choice in `RedeemCode`.

### PrivateStores, TenantStores

`PrivateStores` is what `store/tenanted` promises: a user store and a flow store for each tenant, from
identities to records, which only the tenant's own requests and the cleanup change. `TenantStores`
implements it with one store, and `Listed`, what a tenant is given when it lists, is the refinement
mapping: requests accepted on what a tenant can fetch change its lists as they would change a store of
its own. The promise leaves out why a request may fail (emails are compared across tenants).

An identity is the sequence of its parts between `::`, so `addPrefix`, `hasPrefix` and `stripPrefix` are
what they are on strings. `ApiViews`, `LoginView`, `ProtocolView` and `ScimView` say which view the four
groups of handlers are given: an operation has the tenant whose key the request bears (`by`) and the
view it works on, which are the same under `/api/v1` but not under `/scim/v2`, where every key works on
the default tenant (`UserViews`). `Seeds` are written raw by `Init`. Users, flows and sessions are there
as far as the identities in them go. As wired, the protocol server never finds a flow that the login
page has completed (the run `wiring`), so the actions behind a completed login take part in the proofs
but not in that run. `answer` remembers who acted last and on which view.

### KeyRotation

`published`, `active` and `retiredAt` are `KeyManager.keys`, `active` and the field of the entries,
`overlap` the window the process was started with (none, if it was given a negative one). `BeginRotate`
reads the clock, `Rotate` is the part under the lock, however late. `BeginIssue`, `ReadConfig`,
`GetSigner` and `Sign` are the clock, the lifetime and the signer that `Issuer.Issue` reads one after
the other, and the signature; `BeginMint` is `MintForUser`, whose lifetime the request chooses. A
request signs with the signer it got, whatever happens to that key meanwhile. A failed key generation
changes nothing and is not a step.

### Directory, Operator

`users` and `groups` are the two stores. The management API's user handlers write the user and then
reconcile the groups: `CreateUser` or `BeginUpdateUser` and `UpdateUser`, then `SyncGroup` (read one
group) and `StoreSyncedGroup` (write it) until `AnswerUser`. `ScimBeginCreateUser`/`ScimCreateUser` look
an email up and create, `ScimReadUser`/`ScimUpdateUser` are PUT and PATCH on a copy; the group handlers
write the member list and leave the users alone. `CanCreateUser` and `CanUpdateUser` have both back
ends: the table has a UNIQUE email, memory compares emails in `Create` only. Identities are made by the
server (`Made`, of its clock) or chosen by clients. `mixed` remembers whether memberships were written
by more than user handlers in turn.

`Operator` is one resource, of either kind, and its controller: `Get`, `AddFinalizer`, `Put`, `Post`,
`Served`, `ScimDelete` and `RemoveFinalizer` are the calls of `Reconcile` in their order, `Apply` and
`Delete` are kubectl, and the faults are `RequestLost`, `RequestTimeout` (the server goes on with the
request in another slot), `AnswerLost` and `ServerRestart`. The resource is the Kubernetes API server's
and external: an update of a stale copy is refused, a deletion waits for the finalizer. `Post` creates
under an identity the server makes, `ScimDelete` asks for the resource's name: the controller takes the
404 for "already gone".

### Policies

`policies` is the table with the key that signed each content, `settings` and `signer` the signing key
in the database and in the process. `LookUpActivate`, `CommitActivate` and `AnswerActivate` are the
look-up, the transaction and the answer of an activation. `BeginEvaluate`/`FinishEvaluate` evaluate one
input under the `Deadline` of server, tenant and request and log the decision; `BeginCompare` and
`FinishCompare` are the provider "all", which evaluates once per provider under the server's limit alone
and logs nothing; `BeginBatch`, `Acquire`, `GiveUp`, `Evaluated` and `AnswerBatch` are a batch, one
goroutine per check, `slots` the semaphore.
`Restart` loads or creates the signer and prunes the log. Rego is external: a check grants, refuses, or
fails.

### RingLog, BoundedLog, Requests

`RingLog` is the ring buffer of the audit and SCIM event stores in memory, `BoundedLog` the log that
keeps the last events, which the ring implements by `List`.

In `Requests` a call goes through `Authenticate` (with `ClientIP`), `Allow` or `Reject`, `Replay` or
`Proceed`, then the audit event (`AppendMemory`, or `ReadLastHash` and `InsertRow`) and `Remember`;
`Faults` are the statements of an append that may fail: the error of the SELECT is dropped and the row
chained to nothing, the error of the INSERT is dropped and the event lost. `UpdateLastUsed` is the
goroutine of the key's last use, `EvictBucket` and `EvictAnswer` the two loops,
`Restart` one with sqlite. Time is a counter of refill intervals. A hash stands for what was hashed, so
`Verify` compares sequences.

### Configuration, AdminAccounts, Broadcaster, Server

`Configuration` is pure: a layer gives some settings a value, named by its origin and by what validation
makes of it, and `Merged` and `Loads` are `config.Load`; `OnlyOn` are the switches a layer can only turn
on, `MergeLog` takes the decision log of the file as a whole. `AdminAccounts` has the records, the
handlers (`Read`, `Count`, `Write`, where a count that fails lets the request go on, which `counts`
remembers; `CreateAdmin`; `Login`, `Visit`, `Logout`) and what a start does: `bootstrapAdmin` and
`LoadOrCreateSessionHashKey`. `Broadcaster` has the stream handlers (`Arrive`, `subscribe`, `SeeClosed`,
`unsubscribe`), `Send` and `Shutdown`. `Server` puts them into the process: `Load`, `New`, `Serve`, then
`ReleaseStreams`, `CloseHTTP`, `DrainHTTP`, `DrainProtocol`, `CloseStores` and `Exit` in the order of
`App.Start`, with one timer (`Expire`) for both servers, and `Crash` at any moment. What has been read
of the configuration is forgotten once the server serves. A handler that outlives the timer finds its
store closed (`StoreGone`); so may the goroutine that stamps the last use of a key (`BeginStamp`,
`UpdateLastUsed`), which nobody waits for.

## 4. What the runs check

Runs that pass:

| Run | Question | Bounds |
|---|---|---|
| `overlap` | two requests over every handler that writes a flow: no stale write makes a missing completion stamp, a login without its second factor, an early approval, a ceremony session that outlives `webauthn_pending`, a code on an unfinished login, a code redeemed twice, or a flow that comes back after the cleanup | 1 flow, 1 user, 2 requests, 4 methods, 4 scenarios and an unknown one, 2 attempts, 1 link, 2 codes, restart; 1.6 million states |
| `serial` | one request at a time: `LoginFlow` implements `FlowLifecycle`, the pick is final, scenarios are used up, an expired flow is gone for good | 2 flows of 1 user, whom the administrator overwrites and deletes; fair cleanup; 209,000 states |
| `sessions` | exchanged tokens are dead, one session per code, ended sessions stay ended, a logout by user leaves none of the sessions it found | 2 users, 2 flows, 1 code, 3 tokens, 2 sessions, 2 requests, memory; 489,000 states |
| `multi` | one store behind prefixes implements `PrivateStores`; nobody else changes what a tenant sees, the default one apart | 2 tenants, 1 seed, 2 user IDs, 3 emails, SQLite; 1,422 states |
| `rotate` | tokens verify until they expire or the window of their key is over; a key retired before a request began does not sign for it | 3 keys, 2 tokens, windows none (from a negative setting) and 2, lifetimes 1 and 4 in effect and 2 (the default) and 3 minted, 6 instants; 5.7 million states |
| `directory` | the operator beside another client: emails are unique, memberships agree, nobody revives, a deletion completes, and not while its name is taken | 2 users and 2 groups (one of each made by the server), 2 emails, both back ends and both kinds of resource, 2 requests, 2 disturbances; 304,000 states |
| `policies` | one version in service, and it verifies; slots are accounted for, batches answered, limits only tightened | 2 versions of a policy, limits 3 of the server, 1 and 4 of two tenants and 2 of a request, 2 requests at once of 4, 2 checks for 1 slot, a restart; 383,000 states |
| `requests` | rates are bounded, retries replayed, revocations final; the ring implements the bounded log, the serial chain verifies unless a hash was misread | 2 requests at once of 3, 1 client and 1 trusted proxy, 1 key, ring of 2, a refill every 2 of 4 instants, both statements of an append may fail, both back ends, restart; 2.5 million states |
| `server` | the strongest layer wins and nothing to be hidden is lost; somebody can sign in unless a count failed; kept cookies admit; no double close; handlers and cleanup end before the stores; a shutdown ends | 2 starts with 4 files, 4 environments and 2 command lines each, memory or the database of the first, 2 administrators, 1 request for them at a time, 1 cookie of the one that a start may create, 1 stream, 1 stamp of a key; 660,000 states |

`overlap` leaves the administrator's writes to `serial`, and `serial` most passkey handlers to
`overlap`: the two questions need different actors. In `serial` the administrator writes users whose
scenario is `normal`, since `ScenarioUsedUp` is about scenarios nobody sets anew. `sessions` runs on the
memory back end, where a taken name is overwritten; the proofs cover the table, which refuses it.
`server` has one worker for administrators, because two overlapping requests do remove the last one:
see below.

Why the bounds are enough. Handlers touch one record and interact through it, so the interesting
overlap is of two requests on one record; two attempts, two sessions and three tokens are what it takes
for a counter to lose an update, a name to be taken twice, and a token to be exchanged and exchanged
again. Two flows of one user is what a scenario needs to leak. A key needs two rotations to be retired
and pruned, and every token is judged alone; lifetimes on both sides of the window let a key go before
its tokens expire and after. A membership needs one user and two groups to be half
written, a duplicate email two users, a semaphore more checks than slots. The ring wraps with three
events in two places; a bucket is evicted and made again within four instants, and a refill every
second one is rounded down at the others. Two starts are what it
takes for a key, an administrator or a database to be found by the next process. The theorems of
section 6 remove the bounds from most of these properties.

Type invariants are proved for every module (section 6) and not run again.

`CHECK_DEADLOCK FALSE` is there where the bound identities (flows, codes, tokens, requests, instants,
starts) run out; a program with fresh ones does not stop.

Runs that show a disagreement between the code and what the repository says of it (the quotations are
in `PROJECT.json`):

| Run | Shown |
|---|---|
| `wiring` | the login page does not find the flow that `/authorize` created: it looks under `default::` |
| `redact` | a tenant's additional redactions are not applied: the decision log shows the field |
| `chain` | two overlapping appends link to the same row, and verification reports tampering |

Seen while modelling, and not turned into runs:

*Logins and sessions.*

- A handler that read a flow earlier writes its copy over a record completed meanwhile, so a completed
  flow can return to `mfa_pending` (`flow_login.go:541`, against `state_machine_test.go:10`); two clicks
  on one magic link are both accepted (`router.go:1044`).
- Two overlapping refreshes with one token are both answered; the token stored last works
  (`oidc/router.go:337`).
- Every SAML login is stored under the empty ID, so in memory it replaces the session of the one before,
  and the logout of one user may delete the session of another (`saml/router.go:203`, 301).
- `login-simulation.md:13` says that under `mfa_fail` the first MFA attempt fails; only the typed code
  looks at the scenario (`flow_login.go:492`), so a push user is let in on the first attempt.
- `login-simulation.md:3` says the login page lets one pick any seeded user; seeds are written
  unprefixed (`app/app.go:97`) and the page lists `default::` users, the same cause as in `wiring`.
- `wsfed.go:122` says the sign-in finds the most recent session of the flow; it takes the first in the
  order of the names, the oldest.
- A tenanted wrapper consumes a code before it checks whose flow it is (`tenanted.go:201`); no route
  reaches it with a foreign code today.

*Keys.*

- `security.md:67` says that tokens signed before a rotation verify until they expire. They verify until
  the window of their key is over, which is sooner for a token that lives longer than that: nothing
  relates the window, which may be 0 (`configuration.md:520`), to the lifetime, which a PATCH may set to
  anything and a mint request chooses (`oidc/tokens.go:226`). The window is counted from an instant read
  before the lock is taken (`oidc/keys.go:106`).
- A request that has its signer when the key is retired signs with it afterwards (`oidc/tokens.go:103`,
  163), however late; if the key has been pruned by then, the token never verifies.
- Keys are in memory, so a restart voids every token (`app/app.go:145`).
- `keys.go:167` says JWKS has only retired keys inside the window; pruning is part of `Rotate`, so a key
  stays until the next rotation.

*Tenants.*

- `configuration.md:440` says that each tenant's key scopes all store operations to that tenant. In
  multi mode `/scim/v2` takes the key of any tenant (`httpapi/router.go:432`) and works on the stores of
  the default one (`app/app.go:177`): what is created there is found by no other tenant's key under
  `/api/v1`, and is shared by all of them under `/scim/v2`. The policy handlers look users up in the raw
  store (`httpapi/router.go:424`, `opa/handlers.go:842`). `TenantIsolated` says what is left.

*Directory.*

- Whether an email is taken is decided over the users of all tenants (`store/memory/users.go:24`, and
  the UNIQUE column of the table); memory compares on creation only, so an update can share one.
- A tenant `acme` sees the users of a tenant `acme::eu`, which the configuration accepts
  (`config.go:744`); `TenantsIsolated` is proved for tenant IDs none of which begins another.
- Overlapping user updates, and user updates beside group updates, leave the two sides of a membership
  apart; deleting a user leaves it in its groups. The operator's POST of a group ignores the resource's
  name, so a repeat after a lost answer makes a second group (`group_controller.go:81`).
- What the operator creates is never deleted by it. POST stores a user as `usr_`, a group as `grp_` and
  an instant (`scim/scim.go:451`, 633), whatever name the resource gives; the DELETE at the end asks for
  that name, is answered 404, takes it for "already gone" (`user_controller.go:151`) and removes the
  finalizer. `NameReleased` is about the name alone.

*Policies.*

- An activation that overlaps the deletion of its policy leaves no version in service.
- `configuration.md:571` says the limits are applied per evaluation. The provider "all" evaluates with
  neither the tenant's budget, sizes and time, nor the timeout the request asks for, takes no slot and
  logs no decision (`opa/handlers.go:140`, 208). `LimitsTighten` has the server's limit for it.

*Requests.*

- The error of reading the last chain hash is dropped (`store/sqlite/audit.go:47`): a read that fails,
  as on a busy database, chains its row to nothing, and verification reports tampering although no two
  appends overlapped. The error of the INSERT is dropped as well (:51) and the event lost, which the
  chain does not show.
- A retry sent while the first request still runs is executed a second time, and the idempotency key is
  shared by all tenants (`middleware.go:310`). The audit counter is incremented without a lock. SCIM
  pushes are goroutines of their own and may arrive in any order.

*Server.*

- Two overlapping requests can deactivate or delete the last two administrators (`admin_auth.go:318`),
  and one alone the last, if the count of the active ones fails, since an error lets it pass (:288,
  :318); on sqlite a later start then fails, because `adm_default` exists (`app/app.go:490`).
- A stream that subscribes after `Shutdown` holds the shutdown until its timer; the timer is one for
  both servers, so the second may get no time (`app/app.go:391`).
- A request with a stored API key starts a goroutine that writes when the key was used
  (`httpapi/middleware.go:399`). The shutdown does not wait for it, so it may find the database closed
  (`app/app.go:402`); its error is dropped and the stamp lost.
- `configuration.md:5` and :68 promise that a key not in the file keeps its default. The decision log is
  replaced as a whole (`config.go:515`): a file that sets only `enabled`, or only `include_input`, of it
  is ignored, so `enabled: false` does not turn it off, and one that sets anything else of it without
  `enabled: true` does. By default it is on (`config.go:295`), not off as `configuration.md:174` has it.
  A file cannot turn off SCIM client mode or a token option, nor can `FURNACE_SCIM_MODE` turn off the
  former. `configuration.md` lists `rate_limit`, `header_propagation`, `cors_origins`,
  `trusted_proxy_cidrs` and the SAML settings as settings of the file, which has no such keys. A
  malformed text stops the start even if a stronger layer overrides it. Seed users without an ID, as in
  the documentation's example, share the empty one.
- `PATCH /api/v1/config` applies token lifetimes before it validates the provider (`router.go:1116`).

## 5. Fairness

| Specification | Fair | Why |
|---|---|---|
| `LoginFlow!FairSpec` | `DeleteExpired` | the cleanup goroutine receives from a ticker in a loop until the process is told to stop, and blocks on nothing but the store's mutex |
| `Operator!OperatorSpec` | `Reconcile` | controller-runtime calls `Reconcile` again after an error and at every change of the resource |
| `Policies!Spec` | `Work(c)` | goroutines and handlers run on; every evaluation has a deadline |
| `Server!Spec` | the shutdown steps (`Shut`); some handler of the http server that is at work (`Handle`); the end of the protocol server's request or the return of the cleanup (`Finish`) | goroutines run on; the cleanup's `select` chooses at random between a tick and the end of the context, so the end it will take |

No fairness is assumed of clients, of the administrator, of signals or of timers: a client may never
come back, a stream's client may never go, and `ShutdownEnds` holds without the ten seconds running out.

## 6. What is proved

TLAPS proves, for all values of the constants that satisfy the ASSUMEs of the module:

| Module | Theorem | Says |
|---|---|---|
| `LoginFlowProofs` | `Invariance`, `TypeCorrect` | the inductive invariant; types |
| | `StoredFlowsConsistent` | all of the following of stored flows, and `SecondFactor` |
| | `PasskeySessionsEnd`, `CompletionsAreStamped`, `FirstCodesFail`, `ApprovalsWait`, `ScenariosHonoured`, `CodesVouchForLogins` | `CeremonySession`, `CompletionStamp`, `FirstCodeFails`, `SlowApproval`, `ScenarioHonoured`, `CodeVouches` |
| | `RemovalIsFinal` | `NoResurrection` |
| | `CodeRedeemedOnce` | `CodeOnce` |
| | `FlowsFollowLifecycle`, `PicksAreFinal` | `FollowsLifecycle` (the refinement of `FlowLifecycle`) and `PickIsFinal`, as long as no two requests hold copies of one flow |
| | `FlowsOnlyMoveOn` | under the same condition, every change of a flow's state is to a later stage, so no flow returns to a state it has left |
| | `ScenariosAreUsedUp` | `ScenarioUsedUp`, for one request at a time, no crash, and an administrator who stores users with the scenario `normal` |
| `SessionsProofs` | `TypeCorrect`, `Invariance` | types; every token and code is in one place |
| | `RotationIsFinal`, `CodeStartsOneSession`, `EndIsFinal`, `LogoutsComplete` | `ExchangedIsDead`, `OneSessionPerCode`, `EndedStaysEnded`, `LogoutCompletes` |
| `TenantStoresProofs` | `TypeCorrect` | types |
| | `TenantsIsolated`, `StoresArePrivate` | `TenantIsolated`, `ActsAsPrivateStores` (the refinement of `PrivateStores`), if tenant IDs are prefix free and client IDs begin with no tenant |
| `KeyRotationProofs` | `TypeCorrect`, `RetiredKeysDoNotSign` | types; `RetiredVerifyOnly` |
| | `InFlightTokensVerify` | `VerifiesThroughWindow`, for every window, lifetime and interleaving |
| `DirectoryProofs` | `DirectoryTypes` | types |
| | `EmailsAreUnique`, `MembershipsAgree`, `NobodyRevives` | `EmailUnique`, `MembershipAgrees`, `NoRevival`, for any number of users, groups and requests |
| | `OperatorTypes`, `OperatorKeepsOrder`, `OperatorRevivesNobody` | types of `Operator`; the three properties with the controllers at work, faults included |
| | `NamesAreReleased` | `NameReleased` |
| `PoliciesProofs` | `PolicyTypes` | types |
| | `OneVersionInService`, `ServicedVerifies`, `OverridesTighten`, `SemaphoreCounts` | `AtMostOneActive`, `ActiveVerifies`, `LimitsTighten`, `SlotsAccounted` |
| `RequestsProofs` | `RingKeepsItsShape`, `RingImplementsBoundedLog` | the ring alone: its invariant, and the refinement of `BoundedLog` for every capacity |
| | `RequestTypes` | types, and requests are counted |
| | `AuditIsBoundedLog` | `ImplementsBoundedLog` of the whole of `Requests` |
| | `SerialChain`, `RetriesAreReplayed`, `RevocationIsFinal` | `SerialChainVerifies`, `RetryNotExecuted`, `RevokedForGood` |
| | `RateIsBounded` | `RateBounded`, if buckets are kept as long as they take to fill |
| `ServerProofs` | `ServerTypes` | types |
| | `ChannelsCloseOnce`, `CookiesSurvive`, `StoresOutlive` | `NoPanic`, `SignedInStaysIn`, `StoreOutlives` |
| | `SomebodyRemains` | `SomebodyCanLogIn`, which exempts failed counts, as long as no two requests that deactivate or delete an administrator overlap; others may |

The arguments:

- **LoginFlow.** None of the properties of stored flows is inductive: a handler stores a copy it read
  earlier. The invariant therefore says of every copy a request carries what the properties say of a
  stored flow (`Consistent`), together with what the handler has checked at its program counter. Since
  a copy is consistent in itself, writing it over a newer record leaves the store consistent; what
  does get lost is the newer record. For codes the invariant is one of places: a code is on one flow,
  or redeemed, and no request holds a copy with a redeemed one.
  The life cycle needs more: that a copy differs from its flow only by what its own request did to it
  (`Current`, in `LifeInv`). This is false as soon as two requests hold copies of one flow, so the
  theorems say so; then a write is a valid transition from the stored state, or two in one. That flows
  only move on is then a fact about `FlowLifecycle` alone. A scenario is a debt (`DebtInv`): a login
  that has to use one up is stored either after the user was reset or by a request that goes on to do
  it. A crash in between, an overlapping request that stores the user it read, or an administrator who
  sets a scenario anew each leave the debt unpaid, hence the three conditions.
- **Sessions.** Every token and every code handed out is in one place, the store or one request
  (`Places`). An exchange moves the token out for good, and a copy of a session only ever restores what
  its own request brings. A logout's list only shrinks, and new sessions have newer names.
- **TenantStores.** A name that begins with two tenants makes one of them a prefix of the other
  (`OneOwner`); so a write through another view hits no name the tenant owns and leaves its lists
  alone (`ListedElsewhere`), and one through its own view changes them in one place (`ListedPut`,
  `ListedDrop`), since the names of two identities of a view differ. Seeds are in nobody's list.
- **KeyRotation.** Keys are retired in order (`KeyOrder`) and no sooner unpublished than their window
  ends (`Windows`), wherever the rotations fall between the steps of a request; the signer a request
  holds is no older than the key that was active when it began and no newer than the active one
  (`Signing`), and the key of its token is that signer's (`TokenKeys`). No lifetime enters the argument.
- **Directory.** While a user handler is under way the two sides differ in exactly the groups it still
  has to write: the invariant keeps this debt, and that a single handler owes it unless `mixed`. When
  nobody is busy nothing is owed.
- **Operator.** The requests of the controller are steps of `Directory` in a slot of their own, so what
  is proved of `Directory` holds beside it (`OperatorTakesSteps`). For the finalizer: once the
  controller's deletion has been served or has found nothing, the name is free or another client has
  begun a request since (`ReleaseInv`); a name that was free is only taken by a request. Nothing is said
  of the identities that the controller's own creations bear.
- **Policies.** The transaction leaves one active version of its name whatever was looked up before it,
  and signatures are the key of the database (`TableInv`); the slots taken are those of the checks that
  evaluate (`SlotInv`); a limit is the least of those that apply to the request (`LimitInv`).
- **Requests.** As long as no append has been disturbed, by another or by a failed read, at most one is
  between its statements, so what it read is still the last hash (`ChainInv`). A cached answer is the
  last answer or out of date (`CacheInv`). For the rate, a bucket agrees with history: counted from any
  moment, the requests let through and the tokens left are no more than a full bucket and what came back
  until its last refill (`Agrees`, `Taken`); an address whose bucket has been forgotten has let so
  little through that a full bucket is its due (`Rested`), which needs that a bucket is kept at least as
  long as it takes to fill. The rounding down of the refill is covered by lemmas on whole division.
- **Server.** Whoever has counted, and is about to take an active administrator away, leaves another
  (`AdminInv`), and stays able to as long as everybody else at work leaves administrators active
  (`RemovalsApart`) and no failed count let a request go on; that is made good once nobody is at work
  and somebody active (`Settled`). A kept cookie is signed with the key of the database (`KeyInv`);
  stages of the shutdown already passed stay idle (`EndInv`).

Only model-checked is liveness (`ExpiredGone`, `DeletionCompletes`, `BatchAnswers`, `ShutdownEnds`),
which is outside the prover's reach, and `ConfigHonoured`, which a proof could only unfold. Of
`ExpiredGone` the safety half, that a removed flow does not come back, is `RemovalIsFinal`.

## 7. What is not modelled

- Pure formatting and cryptography: XML signing and canonicalisation, metadata, claims and
  personalities, exports, password hashing, PKCE comparison, the signatures of cookies.
- Live configuration: PATCH sets the token lifetimes, which `KeyRotation` takes as `SetTokenTTLs`, and
  the personality, which only formats claims; what a rejected PATCH leaves behind is noted above.
- Policies: the semantics of Rego and the inputs built for the providers; the pipeline that compares
  decisions; the diff. Requests: filters and export formats of the audit log; requests that fail in
  their handler. SCIM client: the pushes themselves, which nobody waits for. Server: seeding and the
  routers.
- Schema migration, documentation pages, metrics, debug endpoints, the single-page application, the
  Terraform provider, the documentation builder: no state of their own that changes, or one request
  each.
- In `Sessions`: introspection, userinfo and revocation, which only read tokens. In `KeyRotation`: the
  loss of all keys at a restart, caches of JWKS consumers.
- Collisions of identities made from the nanosecond clock.
