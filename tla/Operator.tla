------------------------------- MODULE Operator -------------------------------
(***************************************************************************)
(* The Kubernetes operator beside the SCIM server: one resource, a         *)
(* FurnaceUser or a FurnaceGroup, and the controller that carries it over  *)
(* to the Directory.  A reconciliation reads the resource, makes SCIM      *)
(* requests in the slot Ctl and writes the resource back; the user edits   *)
(* the resource meanwhile, others write the directory, a request is lost,  *)
(* or times out while the server goes on with it.  What fails is           *)
(* reconciled again.  The resource is external, modelled from the client   *)
(* calls of the controller: an update of a copy older than the resource is *)
(* refused, and a deletion waits for the finalizer to be removed.  Its      *)
(* condition is left out: nothing reads it.                                *)
(***************************************************************************)
EXTENDS Directory

CONSTANTS
    Ctl,              \* the request slot of the controller
    Name,             \* the identity the resource has as a user ...
    GroupName,        \* ... or as a group: its name
    MaxDisturbances   \* bound on edits of the resource, lost requests, timeouts and restarts

ASSUME ControllerAssumption ==
    /\ Ctl \in Reqs
    /\ Name \in Users \ Made
    /\ GroupName \in Groups \ Made
    /\ Emails # {}
    /\ MaxDisturbances \in Nat

VARIABLES
    kind,          \* "user" or "group"
    cr,            \* the resource
    ctl,           \* the reconciliation in progress
    disturbances

operatorVars == <<vars, kind, cr, ctl, disturbances>>

Resource ==
    [phase     : {"absent", "present", "deleting"},
     finalizer : BOOLEAN,
     email     : Emails]

Reconciliation ==
    [pc    : {"idle", "finalize", "put", "putting", "post", "posting", "delete",
              "release"},
     email : Emails \cup {None},  \* of the copy of the resource
     stale : BOOLEAN,     \* the resource has changed since it was read for a write
     begun : Nat]         \* history: requests others had begun when it was deleted

OperatorTypeOK ==
    /\ TypeOK
    /\ kind \in {"user", "group"}
    /\ cr \in Resource
    /\ ctl \in Reconciliation
    /\ disturbances \in 0..MaxDisturbances

AtRest == [pc |-> "idle", email |-> None, stale |-> FALSE, begun |-> 0]

OperatorInit ==
    /\ Init
    /\ kind \in {"user", "group"}
    /\ cr = [phase |-> "present", finalizer |-> FALSE, email |-> CHOOSE e \in Emails : TRUE]
    /\ ctl = AtRest
    /\ disturbances = 0

Goto(pc) == ctl' = [ctl EXCEPT !.pc = pc]

Rest == ctl' = AtRest

(* Requests and disturbances share a bound.                                *)
MayDisturb == disturbances < MaxDisturbances /\ begun + disturbances < MaxRequests

-----------------------------------------------------------------------------
(* Edits of the resource, with kubectl.                                    *)

Edit(resource) ==
    /\ cr' = resource
    /\ ctl' = [ctl EXCEPT !.stale = (ctl.pc \in {"finalize", "delete", "release"})]
    /\ UNCHANGED <<vars, kind>>

Apply(e) ==
    /\ cr.phase # "deleting"
    /\ MayDisturb
    /\ disturbances' = disturbances + 1
    /\ Edit([cr EXCEPT !.phase = "present", !.email = e])

Delete ==
    /\ cr.phase = "present"
    /\ Edit([cr EXCEPT !.phase = IF cr.finalizer THEN "deleting" ELSE "absent"])
    /\ UNCHANGED disturbances

-----------------------------------------------------------------------------
(* Reconcile.                                                              *)

Get ==
    /\ ctl.pc = "idle"
    /\ \/ cr.phase = "deleting" /\ Goto("delete")
       \/ /\ cr.phase = "present"
          /\ ctl' = [AtRest EXCEPT !.pc = IF cr.finalizer THEN "put" ELSE "finalize",
                                   !.email = cr.email]
    /\ UNCHANGED <<vars, kind, cr, disturbances>>

AddFinalizer ==
    /\ ctl.pc = "finalize"
    /\ IF ctl.stale
       THEN Rest /\ UNCHANGED cr
       ELSE Goto("put") /\ cr' = [cr EXCEPT !.finalizer = TRUE]
    /\ UNCHANGED <<vars, kind, disturbances>>

(* PUT on the name of the resource; what is not there is to be created.    *)
Put ==
    /\ ctl.pc = "put"
    /\ \/ /\ kind = "user" /\ ScimReadUser(Ctl, Name, ctl.email)
          /\ Goto("putting")
       \/ /\ kind = "group" /\ ScimReadGroup(Ctl, GroupName, {})
          /\ Goto("putting")
       \/ /\ IF kind = "user" THEN ~Exists(Name) ELSE groups[GroupName] = None
          /\ Goto("post")
          /\ UNCHANGED vars
    /\ UNCHANGED <<begun, kind, cr, disturbances>>

(* POST: the server makes an identity of its own for what it creates.      *)
(* When the identities of the model are used up the request fails.         *)
Post ==
    /\ ctl.pc = "post"
    /\ \/ /\ kind = "user"
          /\ \E u \in Users : ScimBeginCreateUser(Ctl, ctl.email, u, ctl.email)
          /\ Goto("posting")
       \/ /\ kind = "group"
          /\ \E g \in Groups : ScimCreateGroup(Ctl, g, {})
          /\ Rest
       \/ /\ IF kind = "user" THEN EmailTaken(ctl.email, Users) \/ NewIds \cap Users = {}
                              ELSE NewIds \cap Groups = {}
          /\ Rest
          /\ UNCHANGED vars
    /\ UNCHANGED <<begun, kind, cr, disturbances>>

(* The server goes on with the request and answers it.                     *)
Served ==
    /\ ctl.pc \in {"putting", "posting"}
    /\ ContinueRequest(Ctl)
    /\ Rest
    /\ UNCHANGED <<begun, kind, cr, disturbances>>

(* Slip: a deletion of what is already gone is an error.                   *)
ScimDeleteMustFind ==
    /\ ctl.pc = "delete"
    /\ \/ kind = "user" /\ DeleteUser(Ctl, Name)
       \/ kind = "group" /\ DeleteGroup(Ctl, GroupName)
    /\ ctl' = [ctl EXCEPT !.pc = "release", !.begun = begun]
    /\ UNCHANGED <<begun, kind, cr, disturbances>>

(* DELETE on the name; one that is not there is already gone.              *)
ScimDelete ==
    /\ ctl.pc = "delete"
    /\ \/ kind = "user" /\ DeleteUser(Ctl, Name)
       \/ kind = "group" /\ DeleteGroup(Ctl, GroupName)
       \/ /\ IF kind = "user" THEN ~Exists(Name) ELSE groups[GroupName] = None
          /\ UNCHANGED vars
    /\ ctl' = [ctl EXCEPT !.pc = "release", !.begun = begun]
    /\ UNCHANGED <<begun, kind, cr, disturbances>>

RemoveFinalizer ==
    /\ ctl.pc = "release"
    /\ IF ctl.stale THEN UNCHANGED cr
       ELSE cr' = [cr EXCEPT !.phase = "absent", !.finalizer = FALSE]
    /\ Rest
    /\ UNCHANGED <<vars, kind, disturbances>>

-----------------------------------------------------------------------------
(* Faults.                                                                 *)

Disturbed ==
    /\ MayDisturb
    /\ disturbances' = disturbances + 1
    /\ Rest
    /\ UNCHANGED <<begun, kind, cr>>

(* Slip: an error of the deletion is not looked at.                        *)
RequestLostUnnoticed ==
    /\ ctl.pc \in {"put", "post", "delete"}
    /\ MayDisturb
    /\ disturbances' = disturbances + 1
    /\ ctl' = IF ctl.pc = "delete" THEN [ctl EXCEPT !.pc = "release", !.begun = begun] ELSE AtRest
    /\ UNCHANGED <<vars, kind, cr>>

(* A request that does not reach the server.                               *)
RequestLost ==
    /\ ctl.pc \in {"put", "post", "delete"}
    /\ Disturbed
    /\ UNCHANGED vars

(* Ten seconds are over: the server goes on with the request.              *)
RequestTimeout ==
    /\ ctl.pc \in {"putting", "posting"}
    /\ \E r \in Reqs \ {Ctl} :
          /\ req[r].pc = "idle"
          /\ req' = [req EXCEPT ![r] = req[Ctl], ![Ctl] = Idle]
    /\ Disturbed
    /\ UNCHANGED <<backend, users, groups, used, mixed>>

(* The deletion is done and its answer lost.                               *)
AnswerLost ==
    /\ ctl.pc = "delete"
    /\ \/ kind = "user" /\ DeleteUser(Ctl, Name)
       \/ kind = "group" /\ DeleteGroup(Ctl, GroupName)
    /\ Disturbed

(* The server goes down and comes up: a request in progress is cut off.     *)
ServerRestart ==
    /\ MayDisturb
    /\ disturbances' = disturbances + 1
    /\ Restart
    /\ ctl' = IF ctl.pc \in {"putting", "posting"} THEN AtRest ELSE ctl
    /\ UNCHANGED <<begun, kind, cr>>

Reconcile ==
    \/ Get \/ AddFinalizer \/ Put \/ Post \/ Served \/ ScimDelete \/ RemoveFinalizer

Others ==
    /\ \/ /\ begun + disturbances < MaxRequests
          /\ begun' = begun + 1
          /\ \E r \in Reqs \ {Ctl} : BeginRequest(r)
       \/ /\ \E r \in Reqs \ {Ctl} : ContinueRequest(r)
          /\ UNCHANGED begun
    /\ UNCHANGED <<kind, cr, ctl, disturbances>>

OperatorNext ==
    \/ (\E e \in Emails : Apply(e)) \/ Delete
    \/ Reconcile
    \/ RequestLost \/ RequestTimeout \/ AnswerLost \/ ServerRestart
    \/ Others

(* controller-runtime calls Reconcile again after an error and at every    *)
(* change of the resource, that of its condition by the reconciliation     *)
(* itself included.                                                        *)
OperatorSpec == OperatorInit /\ [][OperatorNext]_operatorVars /\ WF_operatorVars(Reconcile)

-----------------------------------------------------------------------------
(* A resource being deleted is let go in the end, whatever requests are    *)
(* lost and whoever has deleted the user or the group before.              *)
DeletionCompletes == cr.phase = "deleting" ~> cr.phase # "deleting"

(* scimDeleteUser takes a 404 for "already gone".  So it is of the name,   *)
(* which is all that is deleted: when the finalizer is removed nothing is  *)
(* left under the name of the resource, unless another client has made a   *)
(* request since.  That covers a user or group which others created under  *)
(* the name and the controller has been updating.  What its own POST has   *)
(* created bears an identity of the server's and is left behind            *)
(* (scim.go:451, 633).                                                     *)
NameReleased ==
    [][cr.phase = "deleting" /\ cr'.phase = "absent" =>
          \/ IF kind = "user" THEN ~Exists(Name) ELSE groups[GroupName] = None
          \/ begun # ctl.begun]_operatorVars
=============================================================================
