------------------------------ MODULE MCSessions ------------------------------
(***************************************************************************)
(* Instances of Sessions for TLC.  Every identity is interchangeable with  *)
(* every other of its set; the names of sessions are numbers and are not.  *)
(***************************************************************************)
EXTENDS Sessions, TLC

Symmetry ==
    Permutations(Users) \cup Permutations(Flows) \cup Permutations(Codes)
        \cup Permutations(Tokens) \cup Permutations(Reqs)
=============================================================================
