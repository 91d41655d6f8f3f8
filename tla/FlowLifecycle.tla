---------------------------- MODULE FlowLifecycle ----------------------------
(***************************************************************************)
(* What a login flow promises to whoever watches its state: it is created  *)
(* in "initiated", every change it shows is a path through                 *)
(* validTransitions, a terminal state is final, and once it has expired it *)
(* is removed and never seen again.  LoginFlow implements this as long as  *)
(* one request at a time works on the flows.                               *)
(***************************************************************************)
EXTENDS FlowStateMachine

CONSTANT Flows

VARIABLE status

Gone == {"absent", "removed"}

LifecycleTypeOK == status \in [Flows -> States \cup Gone]

LifecycleInit == status = [f \in Flows |-> "absent"]

Start(f) ==
    /\ status[f] = "absent"
    /\ status' = [status EXCEPT ![f] = "initiated"]

(* A change a client can see.  Picking a user passes through "user_picked" *)
(* without showing it.                                                     *)
Advance(f) ==
    /\ status[f] \in States
    /\ \E s \in States :
         /\ \/ CanTransition(status[f], s)
            \/ CanTransition(status[f], "user_picked") /\ CanTransition("user_picked", s)
         /\ status' = [status EXCEPT ![f] = s]

(* The cleanup tick removes every flow that has expired at once.           *)
Remove(fs) ==
    /\ fs # {}
    /\ \A f \in fs : status[f] \in States
    /\ status' = [f \in Flows |-> IF f \in fs THEN "removed" ELSE status[f]]

LifecycleNext ==
    \/ \E f \in Flows : Start(f) \/ Advance(f)
    \/ \E fs \in SUBSET Flows : Remove(fs)

LifecycleSpec == LifecycleInit /\ [][LifecycleNext]_status
=============================================================================
