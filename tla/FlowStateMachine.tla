-------------------------- MODULE FlowStateMachine --------------------------
(***************************************************************************)
(* The vocabulary of package server/internal/flow: the states of a login   *)
(* flow, the scenarios a user can be set up with, and the table of allowed *)
(* state changes.  Nothing here has state; the handlers in LoginFlow use   *)
(* these operators the way the Go handlers call the package's functions.   *)
(***************************************************************************)
EXTENDS FiniteSets

States == {"initiated", "user_picked", "mfa_pending", "webauthn_pending",
           "mfa_approved", "mfa_denied", "complete", "error"}

Pending == {"mfa_pending", "webauthn_pending"}

(* The states without a way out, where markTerminal stamps CompletedAt.    *)
Terminal == {"complete", "mfa_denied", "error"}

ScenarioNames ==
    {"normal", "mfa_fail", "account_locked", "slow_mfa", "expired_token"}

validTransitions ==
    [s \in States |->
        CASE s = "initiated"        -> {"user_picked", "error"}
          [] s = "user_picked"      -> Pending \cup {"complete", "error"}
          [] s = "mfa_pending"      -> {"mfa_approved", "mfa_denied", "error"}
          [] s = "webauthn_pending" -> {"mfa_approved", "mfa_denied", "error"}
          [] s = "mfa_approved"     -> {"complete"}
          [] OTHER                  -> {}]

CanTransition(from, to) == from \in States /\ to \in validTransitions[from]

(* Any string that is not the name of a special scenario means "normal".   *)
NormalizeScenario(value) == IF value \in ScenarioNames THEN value ELSE "normal"

RequiresMFA(method) ==
    method \in {"totp", "push", "sms", "magic_link", "webauthn"}

IsWebAuthn(method) == method = "webauthn"
=============================================================================
