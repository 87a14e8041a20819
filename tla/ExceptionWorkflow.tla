------------------------- MODULE ExceptionWorkflow -------------------------
(***************************************************************************)
(* The exceptions workflow on one row of reconciliation_exceptions: people *)
(* look at the row, decide, and send what they decided with the version    *)
(* they saw, while others do the same.  Each request is one transaction    *)
(* that updates one row, so that requests take effect one after the other. *)
(***************************************************************************)
EXTENDS Naturals

CONSTANTS
    Users,        \* who may work on exceptions: ANALYST, APPROVER, ADMIN
    Approvers,    \* those of them with the role APPROVER or ADMIN
    NoUser,       \* NULL
    RowSecurity,  \* does the policy of db/05_security_grants.sql apply to the
                  \* role the server connects with?
    MaxVersion    \* bound: how often the row is updated, plus one

ASSUME ExceptionWorkflowAssumption ==
    /\ Approvers \subseteq Users
    /\ NoUser \notin Users
    /\ RowSecurity \in BOOLEAN
    /\ MaxVersion \in Nat \ {0}

VARIABLES
    row,           \* the row of reconciliation_exceptions
    views,         \* [Users -> the row as the user last saw it]
    notifications  \* set of [user_id, status, version]: what about, and when

vars == <<row, views, notifications>>

Statuses == {"UNASSIGNED", "ASSIGNED", "IN_PROGRESS", "RESOLVED", "APPROVED", "CLOSED"}

Row == [ status : Statuses, version : 1..MaxVersion, assigned_to : Users \cup {NoUser},
         resolved_by : Users \cup {NoUser}, approved_by : Users \cup {NoUser},
         closed_by : Users \cup {NoUser} ]

\* The row as generateExceptionsForUnmatched inserts it.
NewRow == [ status |-> "UNASSIGNED", version |-> 1, assigned_to |-> NoUser,
            resolved_by |-> NoUser, approved_by |-> NoUser, closed_by |-> NoUser ]

TypeOK ==
    /\ row \in Row
    /\ views \in [Users -> Row]
    /\ notifications \subseteq [user_id : Users, status : Statuses, version : 1..MaxVersion]

Init ==
    /\ row = NewRow
    /\ views = [u \in Users |-> NewRow]
    /\ notifications = {}

-----------------------------------------------------------------------------
(* Who sees the row. *)

\* The list is read outside of any transaction, without user and role.
Listed == RowSecurity => row.assigned_to = NoUser

\* The requests name both.
Visible(u) == RowSecurity => u \in Approvers \/ row.assigned_to \in {u, NoUser}

Load(u) ==
    /\ Listed
    /\ views' = [views EXCEPT ![u] = row]
    /\ UNCHANGED <<row, notifications>>

-----------------------------------------------------------------------------
(* The requests. *)

\* fn_bump_version.
Bumped(new) == [new EXCEPT !.version = @ + 1]

\* The UPDATE and the notifications of the same transaction.  The dashboard
\* then loads the list again; until it has, the user still sees the old row.
Update(new, notified) ==
    /\ row.version < MaxVersion
    /\ row' = Bumped(new)
    /\ UNCHANGED views
    /\ notifications' = notifications \cup
          { [user_id |-> n, status |-> row'.status, version |-> row'.version] :
                n \in notified \ {NoUser} }

\* Mutant: the approver is notified of the assignment.
AssignNotifySelf(u, a) ==
    /\ u \in Approvers
    /\ row.status \notin {"RESOLVED", "APPROVED", "CLOSED"}
    /\ Update([row EXCEPT !.status = "ASSIGNED", !.assigned_to = a], {u})

\* SELECT ... FOR UPDATE: the status is still the same at the UPDATE.
Assign(u, a) ==
    /\ u \in Approvers
    /\ row.status \notin {"RESOLVED", "APPROVED", "CLOSED"}
    /\ Update([row EXCEPT !.status = "ASSIGNED", !.assigned_to = a], {a})

\* Mutant: the status of the old schema.
StartReview(u) ==
    /\ row.assigned_to = u
    /\ row.status = "ASSIGNED"
    /\ Update([row EXCEPT !.status = "IN_REVIEW"], {})

StartWork(u) ==
    /\ row.assigned_to = u
    /\ row.status = "ASSIGNED"
    /\ Update([row EXCEPT !.status = "IN_PROGRESS"], {})

\* The dashboard shows the button for this decision to the users in who only,
\* on rows whose status is the given one, and sends the version it shows.
Sends(u, status, who, expectedVersion) ==
    /\ views[u].status = status
    /\ u \in who
    /\ expectedVersion = views[u].version

\* WHERE version = $n, of a row the policy lets the user see.  A request that
\* finds no such row is answered with a conflict and changes nothing.
\* Mutant: the version is not compared.
AnyVersion(u, expectedVersion) == Visible(u)

Current(u, expectedVersion) == Visible(u) /\ expectedVersion = row.version

Assignee(u) == {views[u].assigned_to}

Resolve(u, expectedVersion) ==
    /\ Sends(u, "IN_PROGRESS", Assignee(u), expectedVersion)
    /\ Current(u, expectedVersion)
    /\ Update([row EXCEPT !.status = "RESOLVED", !.resolved_by = u], Approvers \ {u})

Approve(u, expectedVersion) ==
    /\ u \in Approvers
    /\ Sends(u, "RESOLVED", Approvers, expectedVersion)
    /\ Current(u, expectedVersion)
    /\ Update([row EXCEPT !.status = "APPROVED", !.approved_by = u], {row.assigned_to})

Close(u, expectedVersion) ==
    /\ u \in Approvers
    /\ Sends(u, "APPROVED", Approvers, expectedVersion)
    /\ Current(u, expectedVersion)
    /\ Update([row EXCEPT !.status = "CLOSED", !.closed_by = u], {row.assigned_to})

Next ==
    \E u \in Users :
        \/ Load(u)
        \/ \E a \in Users : Assign(u, a)
        \/ StartWork(u)
        \/ \E v \in 1..MaxVersion : Resolve(u, v) \/ Approve(u, v) \/ Close(u, v)

Spec == Init /\ [][Next]_vars

\* The dashboard lists exceptions again whenever it is opened.
FairSpec == Spec /\ \A u \in Users : WF_vars(Load(u))

-----------------------------------------------------------------------------

\* A version stands for one state of the row: who has seen the current version
\* has seen the current row.  Optimistic locking rests on it, and it needs the
\* trigger to count every update.
ViewsAreVersions ==
    \A u \in Users : views[u].version = row.version => views[u] = row

\* Whoever has to act next has been told so, by the transaction that made it
\* his turn: the assignee, or every approver but the one that resolved.
Informed ==
    LET told(u) == [user_id |-> u, status |-> row.status, version |-> row.version]
    IN  /\ row.status = "ASSIGNED" => told(row.assigned_to) \in notifications
        /\ row.status = "RESOLVED" =>
              \A u \in Approvers \ {row.resolved_by} : told(u) \in notifications

\* The requests carry no status, but as long as people press the buttons the
\* dashboard shows them, however stale, the exception has the life that
\* ExceptionLifecycle describes.
Lifecycle == INSTANCE ExceptionLifecycle WITH
    exception <- [ status |-> row.status, assigned_to |-> row.assigned_to,
                   resolved_by |-> row.resolved_by, approved_by |-> row.approved_by,
                   closed_by |-> row.closed_by ]

Promise == Lifecycle!Spec

\* "An ANALYST can only see exceptions assigned to them or unassigned": these
\* at least he sees.  What stays assigned to a user appears on his dashboard.
AssigneesSeeTheirs ==
    \A u \in Users : row.assigned_to = u ~> (views[u].assigned_to = u \/ row.assigned_to # u)

=============================================================================
