---------------------------- MODULE MCKeyRotation ----------------------------
(***************************************************************************)
(* Instances of KeyRotation for TLC.  Requests being issued tokens do not  *)
(* touch each other, so one that is issued two tokens in turn is enough.   *)
(***************************************************************************)
EXTENDS KeyRotation

MCOverlaps == {-1, 2}  \* in force as 0 and 2
=============================================================================
