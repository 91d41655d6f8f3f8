------------------------------- MODULE Policies -------------------------------
(***************************************************************************)
(* The policy engine: the table of policies and its signer, the handlers   *)
(* that create, activate, delete and evaluate policies, the batch          *)
(* evaluation under the semaphore of the engine, and the decision log.     *)
(*                                                                         *)
(* The SQL statements of a store method outside a transaction, and the     *)
(* evaluation between them, are steps; the Rego evaluation is external:    *)
(* it decides, one way or another, or fails (compilation error, deadline,  *)
(* client gone).  The personalities and the inputs they shape are left     *)
(* out, and so are refused requests, which change nothing.                 *)
(***************************************************************************)
EXTENDS Naturals, FiniteSets

CONSTANTS
    Ids,             \* identities of policies, random: never used twice
    Names,           \* names that versions of a policy share
    Tenants,
    Fields,          \* paths of the evaluation input
    Calls,           \* HTTP requests in progress at the same time
    MaxChecks,       \* global max_batch_checks
    MaxConcurrent,   \* capacity of the semaphore
    TenantChecks,    \* max_batch_checks of each tenant, 0 for the global one
    EvalTimeout,     \* global eval_timeout
    TenantTimeout,   \* eval_timeout of each tenant, 0 for the global one
    Requests,        \* timeouts that requests ask for, 0 for none
    RedactFields,    \* global decision_log.redact_fields
    TenantRedact,    \* additional_redact_fields of each tenant
    Retention,       \* global retention in days, 0 for ever
    TenantRetention, \* retention of each tenant, 0 for the global one
    MaxCalls,        \* bound on the requests that are begun
    MaxRestarts,     \* bound on the restarts
    None

ASSUME PolicyAssumption ==
    /\ None \notin Ids \cup Names
    /\ IsFiniteSet(Calls)
    /\ MaxChecks \in Nat \ {0} /\ MaxConcurrent \in Nat \ {0}
    /\ TenantChecks \in [Tenants -> Nat]
    /\ EvalTimeout \in Nat \ {0} /\ TenantTimeout \in [Tenants -> Nat] /\ Requests \in SUBSET Nat
    /\ RedactFields \in SUBSET Fields /\ TenantRedact \in [Tenants -> SUBSET Fields]
    /\ Retention \in Nat /\ TenantRetention \in [Tenants -> Nat]
    /\ MaxCalls \in Nat /\ MaxRestarts \in Nat

VARIABLES
    policies,   \* the table: name, active, and the key that signed the content
    used,       \* identities policies have had
    settings,   \* the signing key in furnace_settings, 0 for none
    signer,     \* the signing key of the process
    call,       \* the requests in progress
    checks,     \* the checks of their batches
    slots,      \* how many slots of the semaphore are taken
    log,        \* the file of decisions
    today,      \* days since the first start: the server restarts once a day
    begun

vars == <<policies, used, settings, signer, call, checks, slots, log, today, begun>>

Policy == [name : Names, active : BOOLEAN, signature : Nat]

(* One evaluation, one for every personality, or the checks of a batch.    *)
Evaluations == {"evaluate", "compare", "batch"}

Call ==
    [pc     : {"idle", "activate", "answer", "evaluate", "compare", "batch"},
     id     : Ids \cup {None},
     name   : Names \cup {None},
     tenant : Tenants \cup {None},
     asked  : Nat,                    \* the timeout asked for
     limit  : Nat,                    \* the timeout Eval sets
     gone   : BOOLEAN]                \* the client has gone away

Outcomes == {"decided", "error"}  \* granted, denied or undefined: decided

Statuses == {"none", "waiting", "evaluating"} \cup Outcomes

Decision == [tenant : Tenants, day : Nat, shown : SUBSET Fields]

Idle == [pc |-> "idle", id |-> None, name |-> None, tenant |-> None,
         asked |-> 0, limit |-> 0, gone |-> FALSE]

Places == Calls \X (1..MaxChecks)

TypeOK ==
    /\ policies \in [Ids -> Policy \cup {None}]
    /\ used \in SUBSET Ids
    /\ settings \in Nat /\ signer \in Nat
    /\ call \in [Calls -> Call]
    /\ checks \in [Places -> Statuses]
    /\ slots \in Nat
    /\ log \in SUBSET Decision
    /\ today \in Nat /\ begun \in Nat

Exists(id) == policies[id] # None

-----------------------------------------------------------------------------
(* Limits: a timeout, a size or a number of checks.                        *)

(* Slip: an override that is set is taken as it is.                        *)
Replace(limit, override) == IF override > 0 THEN override ELSE limit

(* An override that is set, and smaller, replaces the limit.               *)
Tighten(limit, override) == IF override > 0 /\ override < limit THEN override ELSE limit

(* The budget of a tenant is its override of the server's limit; a request *)
(* may ask for less; Eval compares with the server's limit again.          *)
BudgetFor(global, tenant) == Tighten(global, tenant)

ApplyTimeoutOverride(budget, request) == Tighten(budget, request)

Deadline(global, tenant, request) ==
    Tighten(global, ApplyTimeoutOverride(BudgetFor(global, tenant), request))

-----------------------------------------------------------------------------
(* The signer.                                                             *)

(* Slip: a key is made at every start.                                     *)
CreateSigner ==
    /\ signer' = signer + 1
    /\ settings' = signer'

(* The key is made at the first start and kept in the database.            *)
LoadOrCreateSigner ==
    /\ settings' = IF settings = 0 THEN signer + 1 ELSE settings
    /\ signer' = settings'

Init ==
    /\ policies = [id \in Ids |-> None]
    /\ used = {}
    /\ settings = 1 /\ signer = 1
    /\ call = [c \in Calls |-> Idle]
    /\ checks = [p \in Places |-> "none"]
    /\ slots = 0
    /\ log = {}
    /\ today = 0 /\ begun = 0

-----------------------------------------------------------------------------
(* Policy administration.                                                  *)

Begin(c) ==
    /\ call[c].pc = "idle"
    /\ begun < MaxCalls
    /\ begun' = begun + 1

(* A policy that compiles is stored inactive and unsigned.                 *)
CreatePolicy(c, id, name) ==
    /\ Begin(c)
    /\ id \notin used
    /\ used' = used \cup {id}
    /\ policies' = [policies EXCEPT ![id] = [name |-> name, active |-> FALSE, signature |-> 0]]
    /\ UNCHANGED <<settings, signer, call, checks, slots, log, today>>

DeletePolicy(c, id) ==
    /\ Begin(c)
    /\ Exists(id)
    /\ policies' = [policies EXCEPT ![id] = None]
    /\ UNCHANGED <<used, settings, signer, call, checks, slots, log, today>>

(* Activate looks the name and the content hash up ...                     *)
LookUpActivate(c, id) ==
    /\ Begin(c)
    /\ Exists(id)
    /\ call' = [call EXCEPT ![c] = [Idle EXCEPT !.pc = "activate", !.id = id, !.name = policies[id].name]]
    /\ UNCHANGED <<policies, used, settings, signer, checks, slots, log, today>>

(* Slip: only the policy is written, its siblings are left.                *)
CommitActivateAlone(c) ==
    /\ call[c].pc = "activate"
    /\ policies' = [id \in Ids |->
          IF Exists(id) /\ id = call[c].id
          THEN [policies[id] EXCEPT !.active = TRUE, !.signature = signer]
          ELSE policies[id]]
    /\ call' = [call EXCEPT ![c].pc = "answer"]
    /\ UNCHANGED <<used, settings, signer, checks, slots, log, today, begun>>

(* ... and in one transaction takes all versions of the name out of        *)
(* service and this one, if it is still there, into service.               *)
CommitActivate(c) ==
    /\ call[c].pc = "activate"
    /\ policies' = [id \in Ids |->
          CASE Exists(id) /\ id = call[c].id ->
                   [policies[id] EXCEPT !.active = TRUE, !.signature = signer]
            [] Exists(id) /\ id # call[c].id /\ policies[id].name = call[c].name ->
                   [policies[id] EXCEPT !.active = FALSE, !.signature = 0]
            [] OTHER -> policies[id]]
    /\ call' = [call EXCEPT ![c].pc = "answer"]
    /\ UNCHANGED <<used, settings, signer, checks, slots, log, today, begun>>

(* The handler reads the policy again and answers with it, or with an      *)
(* error when it has been deleted.                                         *)
AnswerActivate(c) ==
    /\ call[c].pc = "answer"
    /\ call' = [call EXCEPT ![c] = Idle]
    /\ UNCHANGED <<policies, used, settings, signer, checks, slots, log, today, begun>>

-----------------------------------------------------------------------------
(* Evaluation.                                                             *)

(* GetByName answers the active version unless its signature, when there   *)
(* is one, does not verify.                                                *)
Served(id, name) ==
    /\ Exists(id)
    /\ policies[id].name = name
    /\ policies[id].active
    /\ policies[id].signature \in {0, signer}

Evaluation(pc, tenant, asked, limit) ==
    [Idle EXCEPT !.pc = pc, !.tenant = tenant, !.asked = asked, !.limit = limit]

(* A named policy is read, an inline one (None) brought along.             *)
BeginEvaluate(c, id, tenant, asked) ==
    /\ Begin(c)
    /\ id # None => Served(id, policies[id].name)
    /\ call' = [call EXCEPT ![c] =
          Evaluation("evaluate", tenant, asked, Deadline(EvalTimeout, TenantTimeout[tenant], asked))]
    /\ UNCHANGED <<policies, used, settings, signer, checks, slots, log, today>>

(* With the provider "all" the policy is evaluated once for every          *)
(* personality, each with the time the server allows: neither the budget   *)
(* of the tenant nor the timeout of the request is looked at.              *)
BeginCompare(c, id) ==
    /\ Begin(c)
    /\ id # None => Served(id, policies[id].name)
    /\ call' = [call EXCEPT ![c] = Evaluation("compare", None, 0, EvalTimeout)]
    /\ UNCHANGED <<policies, used, settings, signer, checks, slots, log, today>>

(* The limits BudgetFor resolves for a tenant carry no decision log        *)
(* settings: evaluateHandler hands none on to the log.                     *)
Overrides(tenant) == {}

LogDecision(tenant) ==
    log' = log \cup {[tenant |-> tenant, day |-> today,
                      shown  |-> Fields \ (RedactFields \cup Overrides(tenant))]}

FinishEvaluate(c) ==
    /\ call[c].pc = "evaluate"
    /\ LogDecision(call[c].tenant) \/ UNCHANGED log     \* an error is not logged
    /\ call' = [call EXCEPT ![c] = Idle]
    /\ UNCHANGED <<policies, used, settings, signer, checks, slots, today, begun>>

(* The decision of a comparison is not logged.                             *)
FinishCompare(c) ==
    /\ call[c].pc = "compare"
    /\ call' = [call EXCEPT ![c] = Idle]
    /\ UNCHANGED <<policies, used, settings, signer, checks, slots, log, today, begun>>

-----------------------------------------------------------------------------
(* Batches: a goroutine for each check waits for a slot, evaluates, writes *)
(* its own place of the results and gives the slot back; the handler waits *)
(* for all of them and counts the decisions.                               *)

BeginBatch(c, tenant, n, asked) ==
    /\ Begin(c)
    /\ n \in 1..BudgetFor(MaxChecks, TenantChecks[tenant])
    /\ call' = [call EXCEPT ![c] =
          Evaluation("batch", tenant, asked, Deadline(EvalTimeout, TenantTimeout[tenant], asked))]
    /\ checks' = [p \in Places |-> IF p[1] = c /\ p[2] <= n THEN "waiting" ELSE checks[p]]
    /\ UNCHANGED <<policies, used, settings, signer, slots, log, today>>

(* Slip: the semaphore does not hold anybody back.                         *)
AcquireFreely(c, i) ==
    /\ checks[<<c, i>>] = "waiting"
    /\ slots' = slots + 1
    /\ checks' = [checks EXCEPT ![<<c, i>>] = "evaluating"]
    /\ UNCHANGED <<policies, used, settings, signer, call, log, today, begun>>

Acquire(c, i) ==
    /\ checks[<<c, i>>] = "waiting"
    /\ slots < MaxConcurrent
    /\ slots' = slots + 1
    /\ checks' = [checks EXCEPT ![<<c, i>>] = "evaluating"]
    /\ UNCHANGED <<policies, used, settings, signer, call, log, today, begun>>

(* AcquireSemaphore gives up when the client has gone.                     *)
GiveUp(c, i) ==
    /\ checks[<<c, i>>] = "waiting"
    /\ call[c].gone
    /\ checks' = [checks EXCEPT ![<<c, i>>] = "error"]
    /\ UNCHANGED <<policies, used, settings, signer, call, slots, log, today, begun>>

(* Slip: the slot is given back by a check that succeeds.                  *)
EvaluatedKeepsSlot(c, i, status) ==
    /\ checks[<<c, i>>] = "evaluating"
    /\ slots' = IF status = "error" THEN slots ELSE slots - 1
    /\ checks' = [checks EXCEPT ![<<c, i>>] = status]
    /\ UNCHANGED <<policies, used, settings, signer, call, log, today, begun>>

Evaluated(c, i, status) ==
    /\ checks[<<c, i>>] = "evaluating"
    /\ slots' = slots - 1
    /\ checks' = [checks EXCEPT ![<<c, i>>] = status]
    /\ UNCHANGED <<policies, used, settings, signer, call, log, today, begun>>

AnswerBatch(c) ==
    /\ call[c].pc = "batch"
    /\ \A i \in 1..MaxChecks : checks[<<c, i>>] \notin {"waiting", "evaluating"}
    /\ call' = [call EXCEPT ![c] = Idle]
    /\ checks' = [p \in Places |-> IF p[1] = c THEN "none" ELSE checks[p]]
    /\ UNCHANGED <<policies, used, settings, signer, slots, log, today, begun>>

ClientGone(c) ==
    /\ call[c].pc = "batch"
    /\ call' = [call EXCEPT ![c].gone = TRUE]
    /\ UNCHANGED <<policies, used, settings, signer, checks, slots, log, today, begun>>

-----------------------------------------------------------------------------
(* A start: the signer, and the pruning of the decision log before it is   *)
(* opened for appending.                                                   *)

EffectiveRetention(tenant) ==
    IF TenantRetention[tenant] > 0 /\ (Retention = 0 \/ TenantRetention[tenant] < Retention)
    THEN TenantRetention[tenant]
    ELSE Retention

Prune(day) ==
    {d \in log : EffectiveRetention(d.tenant) = 0 \/ d.day + EffectiveRetention(d.tenant) > day}

Restart ==
    /\ today < MaxRestarts
    /\ today' = today + 1
    /\ LoadOrCreateSigner
    /\ log' = Prune(today')
    /\ call' = [c \in Calls |-> Idle]
    /\ checks' = [p \in Places |-> "none"]
    /\ slots' = 0
    /\ UNCHANGED <<policies, used, begun>>

Work(c) ==
    \/ CommitActivate(c) \/ AnswerActivate(c) \/ FinishEvaluate(c) \/ FinishCompare(c)
    \/ \E i \in 1..MaxChecks :
          Acquire(c, i) \/ GiveUp(c, i)
          \/ \E status \in Outcomes : Evaluated(c, i, status)
    \/ AnswerBatch(c)

Next ==
    \/ \E c \in Calls :
          \/ \E id \in Ids, name \in Names : CreatePolicy(c, id, name)
          \/ \E id \in Ids : DeletePolicy(c, id) \/ LookUpActivate(c, id)
          \/ \E id \in Ids \cup {None}, tenant \in Tenants, asked \in Requests :
                BeginEvaluate(c, id, tenant, asked)
          \/ \E id \in Ids \cup {None} : BeginCompare(c, id)
          \/ \E tenant \in Tenants, n \in 1..MaxChecks, asked \in Requests :
                BeginBatch(c, tenant, n, asked)
          \/ ClientGone(c)
          \/ Work(c)
    \/ Restart

(* Every goroutine runs on, and every evaluation ends by its deadline.     *)
Spec == Init /\ [][Next]_vars /\ \A c \in Calls : WF_vars(Work(c))

-----------------------------------------------------------------------------
(* At most one version of a policy is in service, whatever activations     *)
(* overlap: which of two rows GetByName would answer is not defined.       *)
AtMostOneActive ==
    \A id, other \in Ids :
        /\ Exists(id) /\ Exists(other)
        /\ policies[id].active /\ policies[other].active
        /\ policies[id].name = policies[other].name
        => id = other

(* A policy in service verifies, also after a restart: nobody is told that *)
(* a policy was tampered with that was only activated earlier.             *)
ActiveVerifies == \A id \in Ids : Exists(id) /\ policies[id].active => Served(id, policies[id].name)

(* The semaphore counts the checks being evaluated, over all batches,      *)
(* clients that go away and evaluations that fail: no slot is lost and no  *)
(* more evaluations run than the capacity.                                 *)
Evaluating == {p \in Places : checks[p] = "evaluating"}

SlotsAccounted == slots = Cardinality(Evaluating) /\ slots <= MaxConcurrent

(* A batch is answered, however many checks share the semaphore.           *)
BatchAnswers == \A c \in Calls : call[c].pc = "batch" ~> call[c].pc # "batch"

(* What limits the time of the evaluations of a request.                   *)
Limits(c) ==
    {EvalTimeout} \cup
       (IF call[c].pc = "compare" THEN {}
        ELSE {TenantTimeout[call[c].tenant], call[c].asked} \ {0})

(* applyTimeoutOverride never loosens limits.  An evaluation and every     *)
(* check of a batch have exactly as much time as the strictest of server,  *)
(* tenant and request allow: neither an override of the tenant nor one of  *)
(* the request loosens a limit.  Not so a comparison of all providers,     *)
(* which has the server's limit whatever tenant and request say, although  *)
(* configuration.md has the tenant's limits applied per evaluation.        *)
LimitsTighten ==
    \A c \in Calls : call[c].pc \in Evaluations =>
        call[c].limit \in Limits(c) /\ \A limit \in Limits(c) : call[c].limit <= limit

(* What a tenant's settings redact is not in the log of its decisions.     *)
TenantRedaction == \A d \in log : d.shown \cap TenantRedact[d.tenant] = {}
=============================================================================
