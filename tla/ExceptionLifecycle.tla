------------------------- MODULE ExceptionLifecycle -------------------------
(***************************************************************************)
(* The life of an exception as the workflow means it: an approver assigns  *)
(* it, its assignee works on it and resolves it, an approver approves the  *)
(* resolution and closes the case.  Until it is resolved it can be given   *)
(* to somebody else, who starts afresh; a signature, once given, stays.    *)
(* ExceptionWorkflow implements this as long as people act on what they    *)
(* have seen; see Promise there.                                           *)
(***************************************************************************)
CONSTANTS Users, Approvers, NoUser

VARIABLE exception

Init ==
    exception = [ status |-> "UNASSIGNED", assigned_to |-> NoUser,
                  resolved_by |-> NoUser, approved_by |-> NoUser, closed_by |-> NoUser ]

Assign(a) ==
    /\ exception.status \in {"UNASSIGNED", "ASSIGNED", "IN_PROGRESS"}
    /\ exception' = [exception EXCEPT !.status = "ASSIGNED", !.assigned_to = a]

StartWork ==
    /\ exception.status = "ASSIGNED"
    /\ exception' = [exception EXCEPT !.status = "IN_PROGRESS"]

Resolve ==
    /\ exception.status = "IN_PROGRESS"
    /\ exception' = [exception EXCEPT !.status = "RESOLVED", !.resolved_by = exception.assigned_to]

Approve(u) ==
    /\ exception.status = "RESOLVED"
    /\ exception' = [exception EXCEPT !.status = "APPROVED", !.approved_by = u]

Close(u) ==
    /\ exception.status = "APPROVED"
    /\ exception' = [exception EXCEPT !.status = "CLOSED", !.closed_by = u]

Next ==
    \/ \E a \in Users : Assign(a)
    \/ StartWork
    \/ Resolve
    \/ \E u \in Approvers : Approve(u) \/ Close(u)

Spec == Init /\ [][Next]_exception

=============================================================================
