------------------------------ MODULE MCRequests ------------------------------
EXTENDS Requests, TLC

Symmetry == Permutations(Calls)
=============================================================================
