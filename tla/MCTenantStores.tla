---------------------------- MODULE MCTenantStores ----------------------------
(***************************************************************************)
(* Instances of TenantStores for TLC: identities are sequences of strings. *)
(***************************************************************************)
EXTENDS TenantStores

MCParts == {"default", "acme", "u1", "u2", "s1", "f1"}
MCDefault == <<"default">>
MCSingle == {MCDefault}
MCTenants == {MCDefault, <<"acme">>}
MCUserIds == {<<"u1">>}
MCTwoUserIds == {<<"u1">>, <<"u2">>}
MCFlowIds == {<<"f1">>}
MCSeeds == {[id |-> <<"s1">>, email |-> "e1"]}
=============================================================================
