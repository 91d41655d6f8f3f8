------------------------------ MODULE MCPolicies ------------------------------
EXTENDS Policies, TLC

CONSTANTS t1, t2, email, ssn

(* Tenant t1 is held shorter than the server; t2 asks for a longer timeout *)
(* than the server allows, and has no other settings.                      *)
MCTenantChecks == (t1 :> 1) @@ (t2 :> 0)
MCTenantTimeout == (t1 :> 1) @@ (t2 :> 4)
MCTenantRedact == (t1 :> {ssn}) @@ (t2 :> {})
MCTenantRetention == (t1 :> 1) @@ (t2 :> 0)
=============================================================================
