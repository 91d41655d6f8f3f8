---------------------------- MODULE PoliciesProofs ----------------------------
(***************************************************************************)
(* Proofs about the policies, for every number of policies, tenants and    *)
(* requests: at most one version of a policy is in service, it verifies    *)
(* after every restart, overrides only tighten a limit, and the semaphore  *)
(* counts the evaluations.                                                 *)
(***************************************************************************)
EXTENDS Policies, FiniteSetTheorems, TLAPS

(* The key of the process is the one in the database.                      *)
KeyKept == settings = signer /\ signer # 0

(* Whatever is signed was signed with it.                                  *)
Signed == \A id \in Ids : Exists(id) => policies[id].signature \in {0, signer}

(* Identities are not used twice ...                                       *)
Remembered == \A id \in Ids : Exists(id) => id \in used

(* ... so an activation in progress is of the policy that it looked up.    *)
LookedUp ==
    \A c \in Calls : call[c].pc = "activate" =>
        /\ call[c].id \in used
        /\ Exists(call[c].id) => policies[call[c].id].name = call[c].name

TableInv == KeyKept /\ Signed /\ Remembered /\ LookedUp /\ AtMostOneActive

(* Only a batch in progress has checks.                                    *)
BatchOnly == \A p \in Places : checks[p] # "none" => call[p[1]].pc = "batch"

SlotInv == BatchOnly /\ SlotsAccounted

(* An evaluation is of a tenant.                                           *)
ForTenant == \A c \in Calls : call[c].pc \in {"evaluate", "batch"} => call[c].tenant \in Tenants

LimitInv == ForTenant /\ LimitsTighten

IInv == TypeOK /\ TableInv /\ SlotInv /\ LimitInv

-----------------------------------------------------------------------------
(* What an action leaves alone it does not disturb.                        *)

LEMMA IdleCall == Idle \in Call /\ Idle.pc = "idle"
    BY DEF Idle, Call

LEMMA TableFrame ==
    ASSUME TableInv, UNCHANGED <<policies, used, settings, signer>>,
           \A c \in Calls : call'[c].pc = "activate" =>
               call[c].pc = "activate" /\ call'[c].id = call[c].id /\ call'[c].name = call[c].name
    PROVE  TableInv'
    BY DEF TableInv, KeyKept, Signed, Remembered, LookedUp, AtMostOneActive, Exists

LEMMA SlotFrame ==
    ASSUME SlotInv, UNCHANGED <<checks, slots>>,
           \A c \in Calls : call[c].pc = "batch" => call'[c].pc = "batch"
    PROVE  SlotInv'
<1>1. BatchOnly'
    BY DEF SlotInv, BatchOnly, Places
<1>2. Evaluating' = Evaluating
    BY DEF Evaluating
<1>3. SlotsAccounted'
    BY <1>2 DEF SlotInv, SlotsAccounted
<1> QED
    BY <1>1, <1>3 DEF SlotInv

LEMMA LimitFrame ==
    ASSUME LimitInv,
           \A c \in Calls : call'[c].pc \in Evaluations =>
               /\ call'[c].pc = call[c].pc /\ call'[c].tenant = call[c].tenant
               /\ call'[c].asked = call[c].asked /\ call'[c].limit = call[c].limit
    PROVE  LimitInv'
<1>1. ForTenant'
    BY DEF LimitInv, ForTenant, Evaluations
<1>2. ASSUME NEW c \in Calls, call'[c].pc \in Evaluations
      PROVE  call'[c].limit \in Limits(c)' /\ \A limit \in Limits(c)' : call'[c].limit <= limit
    <2>1. Limits(c)' = Limits(c)
        BY <1>2 DEF Limits
    <2> QED
        BY <1>2, <2>1 DEF LimitInv, LimitsTighten
<1>3. LimitsTighten'
    BY <1>2 DEF LimitsTighten
<1> QED
    BY <1>1, <1>3 DEF LimitInv

-----------------------------------------------------------------------------
(* The table.                                                              *)

LEMMA CreateKeeps ==
    ASSUME IInv, NEW c \in Calls, NEW id \in Ids, NEW name \in Names, CreatePolicy(c, id, name)
    PROVE  IInv'
<1>1. /\ id \notin used /\ used' = used \cup {id} /\ UNCHANGED <<settings, signer, call>>
      /\ policies' = [policies EXCEPT ![id] = [name |-> name, active |-> FALSE, signature |-> 0]]
    BY DEF CreatePolicy
<1>2. [name |-> name, active |-> FALSE, signature |-> 0] \in Policy
    BY DEF Policy
<1>3. TypeOK'
    BY <1>1, <1>2 DEF IInv, TypeOK, CreatePolicy, Begin
<1>4. policies \in [Ids -> Policy \cup {None}]
    BY DEF IInv, TypeOK
<1>5. \A other \in Ids : other # id => policies'[other] = policies[other]
    BY <1>1, <1>4
<1>6. policies'[id].active = FALSE /\ policies'[id].signature = 0 /\ policies'[id].name = name
    BY <1>1, <1>4
<1>7. KeyKept' /\ Signed' /\ Remembered'
    BY <1>1, <1>5, <1>6 DEF IInv, TableInv, KeyKept, Signed, Remembered, Exists
<1>8. LookedUp'
    <2>1. ASSUME NEW d \in Calls, call'[d].pc = "activate"
          PROVE  /\ call'[d].id \in used'
                 /\ policies'[call'[d].id] # None => policies'[call'[d].id].name = call'[d].name
        <3>1. call'[d] = call[d] /\ call[d].id \in used /\ call[d].id # id
            BY <1>1, <2>1 DEF IInv, TableInv, LookedUp
        <3>2. policies'[call[d].id] = policies[call[d].id]
            BY <1>1, <1>4, <3>1
        <3> QED
            BY <1>1, <2>1, <3>1, <3>2 DEF IInv, TableInv, LookedUp, Exists
    <2> QED
        BY <2>1 DEF LookedUp, Exists
<1>9. AtMostOneActive'
    BY <1>5, <1>6 DEF IInv, TableInv, AtMostOneActive, Exists
<1>10. SlotInv'
    BY <1>1, SlotFrame DEF IInv, CreatePolicy
<1>11. LimitInv'
    BY <1>1, LimitFrame DEF IInv, Evaluations
<1> QED
    BY <1>3, <1>7, <1>8, <1>9, <1>10, <1>11 DEF IInv, TableInv

LEMMA DeleteKeeps ==
    ASSUME IInv, NEW c \in Calls, NEW id \in Ids, DeletePolicy(c, id)
    PROVE  IInv'
<1>1. policies' = [policies EXCEPT ![id] = None] /\ UNCHANGED <<used, settings, signer, call>>
    BY DEF DeletePolicy
<1>2. TypeOK'
    BY <1>1 DEF IInv, TypeOK, DeletePolicy, Begin
<1>3. policies \in [Ids -> Policy \cup {None}]
    BY DEF IInv, TypeOK
<1>4. \A other \in Ids : policies'[other] # None => policies'[other] = policies[other]
    BY <1>1, <1>3
<1>5. KeyKept' /\ Signed' /\ Remembered' /\ AtMostOneActive'
    BY <1>1, <1>4 DEF IInv, TableInv, KeyKept, Signed, Remembered, AtMostOneActive, Exists
<1>6. LookedUp'
    <2>1. used \in SUBSET Ids
        BY DEF IInv, TypeOK
    <2> QED
        BY <1>1, <1>4, <2>1 DEF IInv, TableInv, LookedUp, Exists
<1>7. SlotInv'
    BY <1>1, SlotFrame DEF IInv, DeletePolicy
<1>8. LimitInv'
    BY <1>1, LimitFrame DEF IInv, Evaluations
<1> QED
    BY <1>2, <1>5, <1>6, <1>7, <1>8 DEF IInv, TableInv

LEMMA LookUpKeeps ==
    ASSUME IInv, NEW c \in Calls, NEW id \in Ids, LookUpActivate(c, id)
    PROVE  IInv'
<1> DEFINE new == [Idle EXCEPT !.pc = "activate", !.id = id, !.name = policies[id].name]
<1>1. /\ Exists(id) /\ call[c].pc = "idle" /\ call' = [call EXCEPT ![c] = new]
      /\ UNCHANGED <<policies, used, settings, signer, checks, slots>>
    BY DEF LookUpActivate, Begin
<1>2. policies[id] \in Policy /\ call \in [Calls -> Call] /\ id \in used
    BY <1>1 DEF IInv, TypeOK, TableInv, Remembered, Exists
<1>3. new \in Call /\ new.pc = "activate" /\ new.id = id /\ new.name = policies[id].name
    BY <1>2 DEF Idle, Call, Policy
<1> HIDE DEF new
<1>4. call'[c] = new /\ \A d \in Calls : d # c => call'[d] = call[d]
    BY <1>1, <1>2
<1>5. TypeOK'
    BY <1>1, <1>2, <1>3 DEF IInv, TypeOK, LookUpActivate, Begin
<1>6. KeyKept' /\ Signed' /\ Remembered' /\ AtMostOneActive'
    BY <1>1 DEF IInv, TableInv, KeyKept, Signed, Remembered, AtMostOneActive, Exists
<1>7. LookedUp'
    BY <1>1, <1>2, <1>3, <1>4 DEF IInv, TableInv, LookedUp, Exists
<1>8. SlotInv'
    BY <1>1, <1>4, SlotFrame DEF IInv
<1>9. LimitInv'
    BY <1>1, <1>3, <1>4, LimitFrame DEF IInv, Evaluations
<1> QED
    BY <1>5, <1>6, <1>7, <1>8, <1>9 DEF IInv, TableInv

(* What the transaction writes to the siblings.                            *)
LEMMA OutOfService ==
    ASSUME NEW policy \in Policy, NEW new,
           new = [policy EXCEPT !.active = FALSE, !.signature = 0]
    PROVE  new \in Policy /\ new.name = policy.name /\ ~new.active /\ new.signature = 0
    BY DEF Policy

(* The transaction leaves one version of the name in service.              *)
LEMMA CommitKeeps ==
    ASSUME IInv, NEW c \in Calls, CommitActivate(c)
    PROVE  IInv'
<1>1. /\ call[c].pc = "activate" /\ call' = [call EXCEPT ![c].pc = "answer"]
      /\ UNCHANGED <<used, settings, signer, checks, slots>>
    BY DEF CommitActivate
<1>2. /\ policies \in [Ids -> Policy \cup {None}] /\ call \in [Calls -> Call]
      /\ signer \in Nat /\ used \in SUBSET Ids
    BY DEF IInv, TypeOK
<1>3. /\ call'[c].pc = "answer" /\ call' \in [Calls -> Call]
      /\ \A d \in Calls : d # c => call'[d] = call[d]
    BY <1>1, <1>2 DEF Call
<1>4. ASSUME NEW id \in Ids
      PROVE  /\ policies'[id] # None => Exists(id)
             /\ Exists(id) /\ id = call[c].id =>
                   policies'[id] = [policies[id] EXCEPT !.active = TRUE, !.signature = signer]
             /\ Exists(id) /\ id # call[c].id /\ policies[id].name = call[c].name =>
                   policies'[id] = [policies[id] EXCEPT !.active = FALSE, !.signature = 0]
             /\ Exists(id) /\ id # call[c].id /\ policies[id].name # call[c].name =>
                   policies'[id] = policies[id]
             /\ ~Exists(id) => policies'[id] = None
    BY DEF CommitActivate, Exists
<1>5. \A id \in Ids : Exists(id) => policies[id] \in Policy
    BY <1>2 DEF Exists
<1>6. ASSUME NEW id \in Ids, Exists(id)
      PROVE  /\ policies'[id] \in Policy
             /\ policies'[id].name = policies[id].name
             /\ policies'[id].signature \in {0, signer}
             /\ policies'[id].active => id = call[c].id \/ (policies[id].active /\ policies[id].name # call[c].name)
    <2>1. policies[id] \in Policy /\ policies[id].signature \in {0, signer}
        BY <1>5, <1>6 DEF IInv, TableInv, Signed
    <2>2. CASE id = call[c].id
        <3>1. policies'[id] = [policies[id] EXCEPT !.active = TRUE, !.signature = signer]
            BY <1>4, <1>6, <2>2
        <3>2. /\ policies'[id] \in Policy /\ policies'[id].name = policies[id].name
              /\ policies'[id].signature = signer
            <4>1. signer \in Nat /\ policies[id] \in Policy
                BY <1>2, <2>1
            <4> QED
                BY <3>1, <4>1 DEF Policy
        <3> QED
            BY <2>2, <3>2
    <2>3. CASE id # call[c].id /\ policies[id].name = call[c].name
        <3>1. policies'[id] = [policies[id] EXCEPT !.active = FALSE, !.signature = 0]
            BY <1>4, <1>6, <2>3
        <3>2. /\ policies'[id] \in Policy /\ policies'[id].name = policies[id].name
              /\ ~policies'[id].active /\ policies'[id].signature = 0
            BY <2>1, <3>1, OutOfService
        <3> QED
            BY <3>2
    <2>4. CASE id # call[c].id /\ policies[id].name # call[c].name
        BY <1>2, <1>4, <1>6, <2>1, <2>4 DEF Policy
    <2> QED
        BY <2>2, <2>3, <2>4
<1>7. policies' \in [Ids -> Policy \cup {None}]
    <2>1. \A id \in Ids : policies'[id] \in Policy \cup {None}
        BY <1>4, <1>6
    <2>2. policies' = [id \in Ids |-> policies'[id]]
        BY DEF CommitActivate
    <2> QED
        BY <2>1, <2>2
<1>8. TypeOK'
    BY <1>1, <1>3, <1>7 DEF IInv, TypeOK, CommitActivate
<1>9. KeyKept' /\ Signed' /\ Remembered'
    BY <1>1, <1>4, <1>6 DEF IInv, TableInv, KeyKept, Signed, Remembered, Exists
<1>10. LookedUp'
    <2>1. ASSUME NEW d \in Calls, call'[d].pc = "activate"
          PROVE  /\ call'[d].id \in used'
                 /\ policies'[call'[d].id] # None => policies'[call'[d].id].name = call'[d].name
        <3>1. call'[d] = call[d] /\ call[d].id \in used /\ call[d].id \in Ids
            BY <1>2, <1>3, <2>1 DEF IInv, TableInv, LookedUp
        <3>2. policies'[call[d].id] # None =>
                  /\ Exists(call[d].id)
                  /\ policies'[call[d].id].name = policies[call[d].id].name
            BY <1>4, <1>6, <3>1
        <3> QED
            BY <1>1, <2>1, <3>1, <3>2 DEF IInv, TableInv, LookedUp
    <2> QED
        BY <2>1 DEF LookedUp, Exists
<1>11. AtMostOneActive'
    <2>1. ASSUME NEW id \in Ids, NEW other \in Ids, policies'[id] # None, policies'[other] # None,
                 policies'[id].active, policies'[other].active,
                 policies'[id].name = policies'[other].name
          PROVE  id = other
        <3>1. Exists(id) /\ Exists(other) /\ policies[id].name = policies[other].name
            BY <1>4, <1>6, <2>1
        <3>2. id = call[c].id => policies[id].name = call[c].name
            BY <1>1, <3>1 DEF IInv, TableInv, LookedUp
        <3>3. other = call[c].id => policies[other].name = call[c].name
            BY <1>1, <3>1 DEF IInv, TableInv, LookedUp
        <3>4. CASE id = call[c].id \/ other = call[c].id
            BY <1>6, <2>1, <3>1, <3>2, <3>3, <3>4
        <3>5. CASE id # call[c].id /\ other # call[c].id
            BY <1>6, <2>1, <3>1, <3>5 DEF IInv, TableInv, AtMostOneActive
        <3> QED
            BY <3>4, <3>5
    <2> QED
        BY <2>1 DEF AtMostOneActive, Exists
<1>12. SlotInv'
    BY <1>1, <1>3, SlotFrame DEF IInv
<1>13. LimitInv'
    BY <1>3, LimitFrame DEF IInv, Evaluations
<1> QED
    BY <1>8, <1>9, <1>10, <1>11, <1>12, <1>13 DEF IInv, TableInv

LEMMA AnswerKeeps == ASSUME IInv, NEW c \in Calls, AnswerActivate(c) PROVE IInv'
<1>1. /\ call[c].pc = "answer" /\ call' = [call EXCEPT ![c] = Idle]
      /\ UNCHANGED <<policies, used, settings, signer, checks, slots>>
    BY DEF AnswerActivate
<1>2. call \in [Calls -> Call]
    BY DEF IInv, TypeOK
<1>3. call'[c].pc = "idle" /\ \A d \in Calls : d # c => call'[d] = call[d]
    BY <1>1, <1>2, IdleCall
<1>4. TypeOK'
    BY <1>1, IdleCall DEF IInv, TypeOK, AnswerActivate
<1>5. TableInv'
    BY <1>1, <1>3, TableFrame DEF IInv
<1>6. SlotInv'
    BY <1>1, <1>3, SlotFrame DEF IInv
<1>7. LimitInv'
    BY <1>3, LimitFrame DEF IInv, Evaluations
<1> QED
    BY <1>4, <1>5, <1>6, <1>7 DEF IInv

-----------------------------------------------------------------------------
(* Evaluations.                                                            *)

(* The strictest of what is set.                                           *)
LEMMA DeadlineIsStrictest ==
    ASSUME NEW global \in Nat \ {0}, NEW tenant \in Nat, NEW request \in Nat
    PROVE  /\ Deadline(global, tenant, request) \in {global} \cup ({tenant, request} \ {0})
           /\ \A limit \in {global} \cup ({tenant, request} \ {0}) :
                  Deadline(global, tenant, request) <= limit
           /\ Deadline(global, tenant, request) \in Nat
    BY DEF Deadline, ApplyTimeoutOverride, BudgetFor, Tighten

Strict(tenant, asked) == {EvalTimeout} \cup ({TenantTimeout[tenant], asked} \ {0})

LEMMA StrictestOfTenant ==
    ASSUME NEW tenant \in Tenants, NEW asked \in Requests
    PROVE  LET deadline == Deadline(EvalTimeout, TenantTimeout[tenant], asked)
           IN  /\ deadline \in Nat /\ deadline \in Strict(tenant, asked)
               /\ \A limit \in Strict(tenant, asked) : deadline <= limit
<1>1. EvalTimeout \in Nat \ {0} /\ TenantTimeout[tenant] \in Nat /\ asked \in Nat
    BY PolicyAssumption
<1> QED
    BY <1>1, DeadlineIsStrictest DEF Strict

(* What is evaluated with the limits it has to have keeps the limits.      *)
LEMMA LimitBegins ==
    ASSUME LimitInv, call \in [Calls -> Call], NEW c \in Calls,
           NEW tenant \in Tenants, NEW asked \in Requests,
           NEW new, call' = [call EXCEPT ![c] = new],
           new.pc \in {"evaluate", "batch"}, new.tenant = tenant, new.asked = asked,
           new.limit \in Strict(tenant, asked),
           \A limit \in Strict(tenant, asked) : new.limit <= limit
    PROVE  LimitInv'
<1>1. call'[c] = new /\ \A d \in Calls : d # c => call'[d] = call[d]
    OBVIOUS
<1>2. ForTenant'
    BY <1>1 DEF LimitInv, ForTenant
<1>3. Limits(c)' = Strict(tenant, asked)
    BY <1>1 DEF Limits, Strict
<1>4. new.limit \in Limits(c)' /\ \A limit \in Limits(c)' : new.limit <= limit
    BY <1>3
<1>5. ASSUME NEW d \in Calls, call'[d].pc \in Evaluations
      PROVE  call'[d].limit \in Limits(d)' /\ \A limit \in Limits(d)' : call'[d].limit <= limit
    <2>1. CASE d = c
        BY <1>1, <1>4, <2>1
    <2>2. CASE d # c
        <3>1. Limits(d)' = Limits(d)
            BY <1>1, <2>2 DEF Limits
        <3> QED
            BY <1>1, <1>5, <2>2, <3>1 DEF LimitInv, LimitsTighten
    <2> QED
        BY <2>1, <2>2
<1> QED
    BY <1>2, <1>5 DEF LimitInv, LimitsTighten

LEMMA EvaluationTyped ==
    ASSUME NEW pc \in Evaluations, NEW tenant \in Tenants \cup {None}, NEW asked \in Nat,
           NEW limit \in Nat
    PROVE  /\ Evaluation(pc, tenant, asked, limit) \in Call
           /\ Evaluation(pc, tenant, asked, limit).pc = pc
           /\ Evaluation(pc, tenant, asked, limit).tenant = tenant
           /\ Evaluation(pc, tenant, asked, limit).asked = asked
           /\ Evaluation(pc, tenant, asked, limit).limit = limit
    BY DEF Evaluation, Idle, Call, Evaluations

(* What begins an evaluation of one policy writes one call.                *)
LEMMA BeginFrame ==
    ASSUME IInv, NEW c \in Calls, NEW new \in Call, call[c].pc = "idle",
           call' = [call EXCEPT ![c] = new], new.pc \in Evaluations, begun' = begun + 1,
           UNCHANGED <<policies, used, settings, signer, checks, slots, log, today>>
    PROVE  TypeOK' /\ TableInv' /\ SlotInv'
<1>1. call \in [Calls -> Call]
    BY DEF IInv, TypeOK
<1>2. call'[c] = new /\ \A d \in Calls : d # c => call'[d] = call[d]
    BY <1>1
<1>3. TypeOK'
    BY <1>1 DEF IInv, TypeOK
<1>4. TableInv'
    BY <1>2, TableFrame DEF IInv, Evaluations
<1>5. SlotInv'
    BY <1>2, SlotFrame DEF IInv
<1> QED
    BY <1>3, <1>4, <1>5

LEMMA BeginEvaluateKeeps ==
    ASSUME IInv, NEW c \in Calls, NEW id \in Ids \cup {None}, NEW tenant \in Tenants,
           NEW asked \in Requests, BeginEvaluate(c, id, tenant, asked)
    PROVE  IInv'
<1> DEFINE limit == Deadline(EvalTimeout, TenantTimeout[tenant], asked)
           new == Evaluation("evaluate", tenant, asked, limit)
<1>1. /\ new \in Call /\ new.pc = "evaluate"
      /\ new.tenant = tenant /\ new.asked = asked /\ new.limit = limit
    <2>1. limit \in Nat /\ asked \in Nat
        BY PolicyAssumption, StrictestOfTenant
    <2> QED
        BY <2>1, EvaluationTyped DEF Evaluations
<1>2. call' = [call EXCEPT ![c] = new] /\ call[c].pc = "idle" /\ begun' = begun + 1
    BY DEF BeginEvaluate, Begin
<1> HIDE DEF new
<1>3. TypeOK' /\ TableInv' /\ SlotInv'
    BY <1>1, <1>2, BeginFrame DEF BeginEvaluate, Evaluations
<1>4. LimitInv'
    <2>1. new.limit \in Strict(tenant, asked)
          /\ \A other \in Strict(tenant, asked) : new.limit <= other
        BY <1>1, StrictestOfTenant
    <2>2. LimitInv /\ call \in [Calls -> Call]
        BY DEF IInv, TypeOK
    <2> QED
        BY <1>1, <1>2, <2>1, <2>2, LimitBegins
<1> QED
    BY <1>3, <1>4 DEF IInv

LEMMA BeginCompareKeeps ==
    ASSUME IInv, NEW c \in Calls, NEW id \in Ids \cup {None}, BeginCompare(c, id)
    PROVE  IInv'
<1> DEFINE new == Evaluation("compare", None, 0, EvalTimeout)
<1>1. new \in Call /\ new.pc = "compare" /\ new.limit = EvalTimeout
    <2>1. EvalTimeout \in Nat /\ 0 \in Nat
        BY PolicyAssumption
    <2> QED
        BY <2>1, EvaluationTyped DEF Evaluations
<1>2. call' = [call EXCEPT ![c] = new] /\ call[c].pc = "idle" /\ begun' = begun + 1
    BY DEF BeginCompare, Begin
<1> HIDE DEF new
<1>3. TypeOK' /\ TableInv' /\ SlotInv'
    BY <1>1, <1>2, BeginFrame DEF BeginCompare, Evaluations
<1>4. call \in [Calls -> Call]
    BY DEF IInv, TypeOK
<1>5. ForTenant'
    BY <1>1, <1>2, <1>4 DEF IInv, LimitInv, ForTenant
<1>6. ASSUME NEW d \in Calls, call'[d].pc \in Evaluations
      PROVE  call'[d].limit \in Limits(d)' /\ \A limit \in Limits(d)' : call'[d].limit <= limit
    <2>1. CASE d = c
        <3>1. call'[d].limit = EvalTimeout /\ Limits(d)' = {EvalTimeout}
            BY <1>1, <1>2, <1>4, <2>1 DEF Limits
        <3> QED
            BY <3>1, PolicyAssumption
    <2>2. CASE d # c
        <3>1. call'[d] = call[d] /\ Limits(d)' = Limits(d)
            BY <1>2, <1>4, <2>2 DEF Limits
        <3> QED
            BY <1>6, <3>1 DEF IInv, LimitInv, LimitsTighten
    <2> QED
        BY <2>1, <2>2
<1> QED
    BY <1>3, <1>5, <1>6 DEF IInv, LimitInv, LimitsTighten

LEMMA FinishEvaluateKeeps ==
    ASSUME IInv, NEW c \in Calls, FinishEvaluate(c) \/ FinishCompare(c)
    PROVE  IInv'
<1>1. /\ call[c].pc \in {"evaluate", "compare"} /\ call' = [call EXCEPT ![c] = Idle]
      /\ UNCHANGED <<policies, used, settings, signer, checks, slots, today, begun>>
    BY DEF FinishEvaluate, FinishCompare
<1>2. call \in [Calls -> Call] /\ (call[c].pc = "evaluate" => call[c].tenant \in Tenants)
    BY DEF IInv, TypeOK, LimitInv, ForTenant
<1>3. call'[c].pc = "idle" /\ \A d \in Calls : d # c => call'[d] = call[d]
    BY <1>1, <1>2, IdleCall
<1>4. log' \in SUBSET Decision
    BY <1>2 DEF FinishEvaluate, FinishCompare, LogDecision, IInv, TypeOK, Decision
<1>5. TypeOK'
    BY <1>1, <1>4, IdleCall DEF IInv, TypeOK
<1>6. TableInv'
    BY <1>1, <1>3, TableFrame DEF IInv
<1>7. SlotInv'
    BY <1>1, <1>3, SlotFrame DEF IInv
<1>8. LimitInv'
    BY <1>3, LimitFrame DEF IInv, Evaluations
<1> QED
    BY <1>5, <1>6, <1>7, <1>8 DEF IInv

-----------------------------------------------------------------------------
(* Batches and the semaphore.                                              *)

LEMMA EvaluatingFinite == IsFiniteSet(Evaluating)
<1>1. IsFiniteSet(1..MaxChecks)
    BY FS_Interval, PolicyAssumption
<1>2. IsFiniteSet(Places)
    BY <1>1, FS_Product, PolicyAssumption DEF Places
<1> QED
    BY <1>2, FS_Subset DEF Evaluating

LEMMA BeginBatchKeeps ==
    ASSUME IInv, NEW c \in Calls, NEW tenant \in Tenants, NEW n \in 1..MaxChecks,
           NEW asked \in Requests, BeginBatch(c, tenant, n, asked)
    PROVE  IInv'
<1> DEFINE limit == Deadline(EvalTimeout, TenantTimeout[tenant], asked)
           new == Evaluation("batch", tenant, asked, limit)
<1>1. /\ call[c].pc = "idle" /\ call' = [call EXCEPT ![c] = new]
      /\ checks' = [p \in Places |-> IF p[1] = c /\ p[2] <= n THEN "waiting" ELSE checks[p]]
      /\ UNCHANGED <<policies, used, settings, signer, slots>>
    BY DEF BeginBatch, Begin
<1>2. call \in [Calls -> Call] /\ checks \in [Places -> Statuses]
    BY DEF IInv, TypeOK
<1>3. /\ new \in Call /\ new.pc = "batch"
      /\ new.tenant = tenant /\ new.asked = asked /\ new.limit = limit
    <2>1. limit \in Nat /\ asked \in Nat
        BY PolicyAssumption, StrictestOfTenant
    <2> QED
        BY <2>1, EvaluationTyped DEF Evaluations
<1> HIDE DEF new
<1>4. call'[c] = new /\ \A d \in Calls : d # c => call'[d] = call[d]
    BY <1>1, <1>2
<1>5. checks' \in [Places -> Statuses]
    BY <1>1, <1>2 DEF Statuses
<1>6. TypeOK'
    BY <1>1, <1>2, <1>3, <1>5 DEF IInv, TypeOK, BeginBatch, Begin
<1>7. TableInv'
    BY <1>1, <1>3, <1>4, TableFrame DEF IInv
<1>8. LimitInv'
    <2>1. new.limit \in Strict(tenant, asked)
          /\ \A other \in Strict(tenant, asked) : new.limit <= other
        BY <1>3, StrictestOfTenant
    <2>2. LimitInv /\ call \in [Calls -> Call]
        BY DEF IInv, TypeOK
    <2> QED
        BY <1>1, <1>2, <1>3, <2>1, <2>2, LimitBegins
<1>9. BatchOnly'
    BY <1>1, <1>3, <1>4 DEF IInv, SlotInv, BatchOnly, Places
<1>10. ASSUME NEW p \in Places PROVE checks'[p] = "evaluating" <=> checks[p] = "evaluating"
    <2>1. p[1] = c => checks[p] = "none"
        BY <1>1 DEF IInv, SlotInv, BatchOnly
    <2> QED
        BY <1>1, <2>1
<1>11. Evaluating' = Evaluating
    BY <1>10 DEF Evaluating
<1>12. SlotsAccounted'
    BY <1>1, <1>11 DEF IInv, SlotInv, SlotsAccounted
<1> QED
    BY <1>6, <1>7, <1>8, <1>9, <1>12 DEF IInv, SlotInv

(* What the step of a check leaves alone.                                  *)
LEMMA CheckFrame ==
    ASSUME IInv, NEW c \in Calls, NEW i \in 1..MaxChecks, NEW status \in Statuses,
           checks[<<c, i>>] # "none", status # "none",
           checks' = [checks EXCEPT ![<<c, i>>] = status],
           slots' \in Nat,
           UNCHANGED <<policies, used, settings, signer, call, log, today, begun>>
    PROVE  TypeOK' /\ TableInv' /\ LimitInv' /\ BatchOnly'
<1>1. <<c, i>> \in Places /\ checks \in [Places -> Statuses]
    BY DEF Places, IInv, TypeOK
<1>2. TypeOK'
    BY <1>1 DEF IInv, TypeOK
<1>3. TableInv'
    BY TableFrame DEF IInv
<1>4. LimitInv'
    BY LimitFrame DEF IInv, Evaluations
<1>5. BatchOnly'
    BY <1>1 DEF IInv, SlotInv, BatchOnly
<1> QED
    BY <1>2, <1>3, <1>4, <1>5

LEMMA AcquireKeeps ==
    ASSUME IInv, NEW c \in Calls, NEW i \in 1..MaxChecks, Acquire(c, i)
    PROVE  IInv'
<1>1. /\ checks[<<c, i>>] = "waiting" /\ slots < MaxConcurrent /\ slots' = slots + 1
      /\ checks' = [checks EXCEPT ![<<c, i>>] = "evaluating"]
      /\ UNCHANGED <<policies, used, settings, signer, call, log, today, begun>>
    BY DEF Acquire
<1>2. <<c, i>> \in Places /\ checks \in [Places -> Statuses] /\ slots \in Nat
    BY DEF Places, IInv, TypeOK
<1>3. "evaluating" \in Statuses /\ slots' \in Nat
    BY <1>1, <1>2 DEF Statuses
<1>4. TypeOK' /\ TableInv' /\ LimitInv' /\ BatchOnly'
    BY <1>1, <1>2, <1>3, CheckFrame
<1>5. Evaluating' = Evaluating \cup {<<c, i>>} /\ <<c, i>> \notin Evaluating
    BY <1>1, <1>2 DEF Evaluating
<1>6. Cardinality(Evaluating \cup {<<c, i>>}) = Cardinality(Evaluating) + 1
    BY <1>5, EvaluatingFinite, FS_AddElement
<1>7. SlotsAccounted'
    BY <1>1, <1>2, <1>5, <1>6, PolicyAssumption DEF IInv, SlotInv, SlotsAccounted
<1> QED
    BY <1>4, <1>7 DEF IInv, SlotInv

LEMMA GiveUpKeeps ==
    ASSUME IInv, NEW c \in Calls, NEW i \in 1..MaxChecks, GiveUp(c, i)
    PROVE  IInv'
<1>1. /\ checks[<<c, i>>] = "waiting" /\ slots' = slots
      /\ checks' = [checks EXCEPT ![<<c, i>>] = "error"]
      /\ UNCHANGED <<policies, used, settings, signer, call, log, today, begun>>
    BY DEF GiveUp
<1>2. <<c, i>> \in Places /\ checks \in [Places -> Statuses] /\ slots \in Nat
    BY DEF Places, IInv, TypeOK
<1>3. "error" \in Statuses
    BY DEF Statuses, Outcomes
<1>4. TypeOK' /\ TableInv' /\ LimitInv' /\ BatchOnly'
    BY <1>1, <1>2, <1>3, CheckFrame
<1>5. Evaluating' = Evaluating
    BY <1>1, <1>2 DEF Evaluating
<1>6. SlotsAccounted'
    BY <1>1, <1>5 DEF IInv, SlotInv, SlotsAccounted
<1> QED
    BY <1>4, <1>6 DEF IInv, SlotInv

LEMMA EvaluatedKeeps ==
    ASSUME IInv, NEW c \in Calls, NEW i \in 1..MaxChecks, NEW status \in Outcomes,
           Evaluated(c, i, status)
    PROVE  IInv'
<1>1. /\ checks[<<c, i>>] = "evaluating" /\ slots' = slots - 1
      /\ checks' = [checks EXCEPT ![<<c, i>>] = status]
      /\ UNCHANGED <<policies, used, settings, signer, call, log, today, begun>>
    BY DEF Evaluated
<1>2. <<c, i>> \in Places /\ checks \in [Places -> Statuses] /\ slots \in Nat
    BY DEF Places, IInv, TypeOK
<1>3. status \in Statuses /\ status # "none" /\ status # "evaluating"
    BY DEF Statuses, Outcomes
<1>4. Evaluating' = Evaluating \ {<<c, i>>} /\ <<c, i>> \in Evaluating
    BY <1>1, <1>2, <1>3 DEF Evaluating
<1>5. Cardinality(Evaluating \ {<<c, i>>}) = Cardinality(Evaluating) - 1
    BY <1>4, EvaluatingFinite, FS_RemoveElement
<1>6. slots = Cardinality(Evaluating) /\ slots <= MaxConcurrent /\ slots # 0
    <2>1. Cardinality(Evaluating) # 0
        BY <1>4, EvaluatingFinite, FS_EmptySet
    <2> QED
        BY <2>1 DEF IInv, SlotInv, SlotsAccounted
<1>7. slots' \in Nat
    BY <1>1, <1>2, <1>6
<1>8. TypeOK' /\ TableInv' /\ LimitInv' /\ BatchOnly'
    BY <1>1, <1>2, <1>3, <1>7, CheckFrame
<1>9. SlotsAccounted'
    BY <1>1, <1>2, <1>4, <1>5, <1>6, PolicyAssumption DEF SlotsAccounted
<1> QED
    BY <1>8, <1>9 DEF IInv, SlotInv

LEMMA AnswerBatchKeeps == ASSUME IInv, NEW c \in Calls, AnswerBatch(c) PROVE IInv'
<1>1. /\ call[c].pc = "batch" /\ call' = [call EXCEPT ![c] = Idle]
      /\ \A i \in 1..MaxChecks : checks[<<c, i>>] \notin {"waiting", "evaluating"}
      /\ checks' = [p \in Places |-> IF p[1] = c THEN "none" ELSE checks[p]]
      /\ UNCHANGED <<policies, used, settings, signer, slots>>
    BY DEF AnswerBatch
<1>2. call \in [Calls -> Call] /\ checks \in [Places -> Statuses]
    BY DEF IInv, TypeOK
<1>3. call'[c].pc = "idle" /\ \A d \in Calls : d # c => call'[d] = call[d]
    BY <1>1, <1>2, IdleCall
<1>4. checks' \in [Places -> Statuses]
    BY <1>1, <1>2 DEF Statuses
<1>5. TypeOK'
    BY <1>1, <1>4, IdleCall DEF IInv, TypeOK, AnswerBatch
<1>6. TableInv'
    BY <1>1, <1>3, TableFrame DEF IInv
<1>7. LimitInv'
    BY <1>3, LimitFrame DEF IInv, Evaluations
<1>8. BatchOnly'
    BY <1>1, <1>3 DEF IInv, SlotInv, BatchOnly, Places
<1>9. ASSUME NEW p \in Places PROVE checks'[p] = "evaluating" <=> checks[p] = "evaluating"
    <2>1. p = <<p[1], p[2]>> /\ p[2] \in 1..MaxChecks
        BY DEF Places
    <2>2. p[1] = c => checks[p] # "evaluating"
        BY <1>1, <2>1
    <2> QED
        BY <1>1, <2>2
<1>10. Evaluating' = Evaluating
    BY <1>9 DEF Evaluating
<1>11. SlotsAccounted'
    BY <1>1, <1>10 DEF IInv, SlotInv, SlotsAccounted
<1> QED
    BY <1>5, <1>6, <1>7, <1>8, <1>11 DEF IInv, SlotInv

LEMMA ClientGoneKeeps == ASSUME IInv, NEW c \in Calls, ClientGone(c) PROVE IInv'
<1>1. /\ call[c].pc = "batch" /\ call' = [call EXCEPT ![c].gone = TRUE]
      /\ UNCHANGED <<policies, used, settings, signer, checks, slots>>
    BY DEF ClientGone
<1>2. call \in [Calls -> Call]
    BY DEF IInv, TypeOK
<1>3. /\ call'[c].pc = "batch" /\ call' \in [Calls -> Call]
      /\ call'[c].tenant = call[c].tenant /\ call'[c].asked = call[c].asked
      /\ call'[c].limit = call[c].limit
      /\ \A d \in Calls : d # c => call'[d] = call[d]
    <2>1. call'[c] = [call[c] EXCEPT !.gone = TRUE] /\ call[c] \in Call
        BY <1>1, <1>2
    <2>2. /\ call'[c] \in Call /\ call'[c].pc = call[c].pc /\ call'[c].tenant = call[c].tenant
          /\ call'[c].asked = call[c].asked /\ call'[c].limit = call[c].limit
        BY <2>1 DEF Call
    <2> QED
        BY <1>1, <1>2, <2>2
<1>4. TypeOK'
    BY <1>1, <1>3 DEF IInv, TypeOK, ClientGone
<1>5. TableInv'
    BY <1>1, <1>3, TableFrame DEF IInv
<1>6. SlotInv'
    BY <1>1, <1>3, SlotFrame DEF IInv
<1>7. LimitInv'
    BY <1>1, <1>3, LimitFrame DEF IInv, Evaluations
<1> QED
    BY <1>4, <1>5, <1>6, <1>7 DEF IInv

-----------------------------------------------------------------------------
(* A start finds the key it has made before.                               *)
LEMMA RestartKeeps == ASSUME IInv, Restart PROVE IInv'
<1>1. settings' = settings /\ signer' = signer
    BY DEF Restart, LoadOrCreateSigner, IInv, TableInv, KeyKept
<1>2. /\ call' = [c \in Calls |-> Idle] /\ checks' = [p \in Places |-> "none"] /\ slots' = 0
      /\ UNCHANGED <<policies, used>>
    BY DEF Restart
<1>3. \A c \in Calls : call'[c].pc = "idle"
    BY <1>2, IdleCall
<1>4. log' \in SUBSET Decision
    BY DEF Restart, Prune, IInv, TypeOK
<1>5. TypeOK'
    BY <1>1, <1>2, <1>4, IdleCall DEF IInv, TypeOK, Restart, Statuses
<1>6. TableInv'
    BY <1>1, <1>2, <1>3, TableFrame DEF IInv
<1>7. LimitInv'
    BY <1>3, LimitFrame DEF IInv, Evaluations
<1>8. BatchOnly'
    BY <1>2 DEF BatchOnly
<1>9. Evaluating' = {}
    BY <1>2 DEF Evaluating
<1>10. SlotsAccounted'
    BY <1>2, <1>9, FS_EmptySet, PolicyAssumption DEF SlotsAccounted
<1> QED
    BY <1>5, <1>6, <1>7, <1>8, <1>10 DEF IInv, SlotInv

LEMMA InitInv == Init => IInv
<1>1. SUFFICES ASSUME Init PROVE IInv
    OBVIOUS
<1>2. \A c \in Calls : call[c] = Idle /\ call[c].pc = "idle"
    BY <1>1, IdleCall DEF Init
<1>3. TypeOK
    BY <1>1, IdleCall DEF Init, TypeOK, Statuses
<1>4. TableInv
    BY <1>1, <1>2 DEF Init, TableInv, KeyKept, Signed, Remembered, LookedUp, AtMostOneActive, Exists
<1>5. Evaluating = {} /\ BatchOnly
    BY <1>1 DEF Init, Evaluating, BatchOnly
<1>6. SlotsAccounted
    BY <1>1, <1>5, FS_EmptySet, PolicyAssumption DEF Init, SlotsAccounted
<1>7. LimitInv
    BY <1>2 DEF LimitInv, ForTenant, LimitsTighten, Evaluations
<1> QED
    BY <1>3, <1>4, <1>5, <1>6, <1>7 DEF IInv, SlotInv

LEMMA StepInv == IInv /\ [Next]_vars => IInv'
<1>1. SUFFICES ASSUME IInv, [Next]_vars PROVE IInv'
    OBVIOUS
<1>2. CASE UNCHANGED vars
    <2>1. /\ UNCHANGED <<policies, used, settings, signer, call, checks, slots, log, today, begun>>
        BY <1>2 DEF vars
    <2>2. TypeOK'
        BY <1>1, <2>1 DEF IInv, TypeOK
    <2>3. TableInv'
        BY <1>1, <2>1, TableFrame DEF IInv
    <2>4. SlotInv'
        BY <1>1, <2>1, SlotFrame DEF IInv
    <2>5. LimitInv'
        BY <1>1, <2>1, LimitFrame DEF IInv, Evaluations
    <2> QED
        BY <2>2, <2>3, <2>4, <2>5 DEF IInv
<1>3. ASSUME NEW c \in Calls, Work(c) PROVE IInv'
    <2>1. ASSUME NEW i \in 1..MaxChecks,
                 Acquire(c, i) \/ GiveUp(c, i) \/ \E status \in Outcomes : Evaluated(c, i, status)
          PROVE  IInv'
        BY <1>1, <2>1, AcquireKeeps, GiveUpKeeps, EvaluatedKeeps
    <2> QED
        BY <1>1, <1>3, <2>1, CommitKeeps, AnswerKeeps, FinishEvaluateKeeps, AnswerBatchKeeps DEF Work
<1>4. ASSUME NEW c \in Calls,
             \/ \E id \in Ids, name \in Names : CreatePolicy(c, id, name)
             \/ \E id \in Ids : DeletePolicy(c, id) \/ LookUpActivate(c, id)
             \/ \E id \in Ids \cup {None}, tenant \in Tenants, asked \in Requests :
                    BeginEvaluate(c, id, tenant, asked)
             \/ \E id \in Ids \cup {None} : BeginCompare(c, id)
             \/ \E tenant \in Tenants, n \in 1..MaxChecks, asked \in Requests :
                    BeginBatch(c, tenant, n, asked)
             \/ ClientGone(c)
             \/ Work(c)
      PROVE  IInv'
    BY <1>1, <1>3, <1>4, CreateKeeps, DeleteKeeps, LookUpKeeps, BeginEvaluateKeeps,
       BeginCompareKeeps, BeginBatchKeeps, ClientGoneKeeps
<1> QED
    BY <1>1, <1>2, <1>4, RestartKeeps DEF Next

LEMMA Inv == Spec => []IInv
    BY InitInv, StepInv, PTL DEF Spec

-----------------------------------------------------------------------------
(* Type correctness.                                                       *)
THEOREM PolicyTypes == Spec => []TypeOK
<1>1. IInv => TypeOK
    BY DEF IInv
<1> QED
    BY Inv, <1>1, PTL

(* At most one version of a policy is in service, whatever activations,    *)
(* deletions and restarts overlap (sqlite/policies.go, Activate).          *)
THEOREM OneVersionInService == Spec => []AtMostOneActive
<1>1. IInv => AtMostOneActive
    BY DEF IInv, TableInv
<1> QED
    BY Inv, <1>1, PTL

(* A policy in service verifies, also after a restart.                     *)
THEOREM ServicedVerifies == Spec => []ActiveVerifies
<1>1. IInv => ActiveVerifies
    BY DEF IInv, TableInv, Signed, ActiveVerifies, Served
<1> QED
    BY Inv, <1>1, PTL

(* No override of a tenant or of a request loosens the limit of an         *)
(* evaluation or of the checks of a batch, and a comparison of all         *)
(* providers has the server's.                                             *)
THEOREM OverridesTighten == Spec => []LimitsTighten
<1>1. IInv => LimitsTighten
    BY DEF IInv, LimitInv
<1> QED
    BY Inv, <1>1, PTL

(* The semaphore counts the evaluations of all batches.                    *)
THEOREM SemaphoreCounts == Spec => []SlotsAccounted
<1>1. IInv => SlotsAccounted
    BY DEF IInv, SlotInv
<1> QED
    BY Inv, <1>1, PTL
=============================================================================
