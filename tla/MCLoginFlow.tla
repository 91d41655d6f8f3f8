----------------------------- MODULE MCLoginFlow -----------------------------
(***************************************************************************)
(* Instances of LoginFlow for TLC.  The .cfg files give the identities as  *)
(* model values; requests in progress, and codes, are interchangeable: the *)
(* symmetry set of the runs that check no liveness.                        *)
(***************************************************************************)
EXTENDS LoginFlow, TLC

NoWrites == {}
MethodWrite == {<<"none", "normal">>}

Symmetry == Permutations(Reqs) \cup Permutations(Codes)
=============================================================================
