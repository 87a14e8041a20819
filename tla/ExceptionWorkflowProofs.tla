----------------------- MODULE ExceptionWorkflowProofs -----------------------
(***************************************************************************)
(* Proofs about ExceptionWorkflow, for any users and approvers, any number *)
(* of updates, and with the policy in force or not: versions identify      *)
(* rows, and therefore the workflow implements ExceptionLifecycle however  *)
(* stale the dashboards are.                                               *)
(***************************************************************************)
EXTENDS ExceptionWorkflow, TLAPS

\* No dashboard is ahead of the row.
ViewsAreOld == \A u \in Users : views[u].version <= row.version

\* An exception somebody is responsible for says who.
SomebodyIs ==
    /\ row.status \in {"ASSIGNED", "IN_PROGRESS", "RESOLVED", "APPROVED"} =>
          row.assigned_to \in Users
    /\ row.status = "RESOLVED" => row.resolved_by \in Users

\* The inductive invariant: a view of the current version stays the current row
\* because every update moves the version past those of all views.
IInv ==
    /\ TypeOK
    /\ ViewsAreOld
    /\ ViewsAreVersions
    /\ SomebodyIs
    /\ Informed

LEMMA InitIInv == Init => IInv
<1> SUFFICES ASSUME Init PROVE IInv
  OBVIOUS
<1> USE ExceptionWorkflowAssumption DEF Init, NewRow
<1>1. TypeOK
  BY DEF TypeOK, Row, Statuses
<1>2. ViewsAreOld /\ ViewsAreVersions /\ SomebodyIs /\ Informed
  BY DEF ViewsAreOld, ViewsAreVersions, SomebodyIs, Informed
<1> QED
  BY <1>1, <1>2 DEF IInv

\* An update takes the row to a version nobody has seen.
LEMMA UpdateKeeps ==
  ASSUME IInv, NEW new \in Row, new.version = row.version,
         NEW notified \in SUBSET (Users \cup {NoUser}), Update(new, notified)
  PROVE  /\ TypeOK' /\ ViewsAreOld' /\ ViewsAreVersions'
         /\ row' = [new EXCEPT !.version = row.version + 1]
         /\ \A n \in notified \ {NoUser} :
               [user_id |-> n, status |-> row'.status, version |-> row'.version] \in notifications'
<1>1. /\ row.version < MaxVersion
      /\ row' = [new EXCEPT !.version = row.version + 1]
      /\ views' = views
      /\ notifications' = notifications \cup
            { [user_id |-> n, status |-> row'.status, version |-> row'.version] :
                  n \in notified \ {NoUser} }
  BY DEF Update, Bumped
<1>2. row.version \in 1..MaxVersion /\ MaxVersion \in Nat
  BY ExceptionWorkflowAssumption DEF IInv, TypeOK, Row
<1>3. row' \in Row /\ row'.version = row.version + 1
  BY <1>1, <1>2 DEF Row
<1>4. TypeOK'
  BY <1>1, <1>3 DEF IInv, TypeOK, Row
<1>5. \A u \in Users : views[u].version \in Nat /\ views[u].version <= row.version
  <2> SUFFICES ASSUME NEW u \in Users
               PROVE  views[u].version \in Nat /\ views[u].version <= row.version
    OBVIOUS
  <2>1. views[u] \in Row /\ views[u].version <= row.version
    BY DEF IInv, ViewsAreOld, TypeOK
  <2> QED
    BY <1>2, <2>1 DEF Row
<1>6. ViewsAreOld' /\ ViewsAreVersions'
  BY <1>1, <1>2, <1>3, <1>5 DEF ViewsAreOld, ViewsAreVersions
<1> QED
  BY <1>1, <1>4, <1>6

\* What a user who sends the current version has seen is the row as it is.
LEMMA CurrentIsSeen ==
  ASSUME IInv, NEW u \in Users, NEW status, NEW who, NEW v,
         Sends(u, status, who, v), Current(u, v)
  PROVE  views[u] = row /\ row.status = status /\ u \in who
BY DEF Sends, Current, IInv, ViewsAreVersions

\* Looking changes nothing.
LEMMA LoadStep ==
  ASSUME IInv, NEW u \in Users, Load(u)
  PROVE  IInv' /\ UNCHANGED row
<1>1. UNCHANGED <<row, notifications>> /\ views' = [views EXCEPT ![u] = row]
  BY DEF Load
<1>2. TypeOK' /\ ViewsAreOld' /\ ViewsAreVersions'
  BY <1>1 DEF IInv, TypeOK, ViewsAreOld, ViewsAreVersions, Row
<1>3. SomebodyIs' /\ Informed'
  BY <1>1 DEF IInv, SomebodyIs, Informed
<1> QED
  BY <1>1, <1>2, <1>3 DEF IInv

\* The other requests take the exception one step through its life.
LEMMA AssignStep ==
  ASSUME IInv, NEW u \in Users, NEW a \in Users, Assign(u, a)
  PROVE  IInv' /\ Lifecycle!Assign(a)
<1> DEFINE new == [row EXCEPT !.status = "ASSIGNED", !.assigned_to = a]
<1>1. row \in Row /\ new \in Row /\ new.version = row.version /\ {a} \subseteq Users
  BY DEF IInv, TypeOK, Row, Statuses
<1>2. Update(new, {a}) /\ row.status \notin {"RESOLVED", "APPROVED", "CLOSED"}
  BY DEF Assign
<1>3. /\ TypeOK' /\ ViewsAreOld' /\ ViewsAreVersions'
      /\ row' = [new EXCEPT !.version = row.version + 1]
      /\ \A n \in {a} \ {NoUser} :
            [user_id |-> n, status |-> row'.status, version |-> row'.version] \in notifications'
  BY <1>1, <1>2, UpdateKeeps
<1>4. /\ row'.status = "ASSIGNED"
      /\ row'.assigned_to = a
      /\ row'.resolved_by = row.resolved_by
      /\ row'.approved_by = row.approved_by
      /\ row'.closed_by = row.closed_by
  BY <1>1, <1>3 DEF Row
<1>5. SomebodyIs' /\ Informed'
  BY <1>3, <1>4, ExceptionWorkflowAssumption DEF SomebodyIs, Informed
<1>6. Lifecycle!Assign(a)
  <2>1. [[ status |-> row.status, assigned_to |-> row.assigned_to,
           resolved_by |-> row.resolved_by, approved_by |-> row.approved_by,
           closed_by |-> row.closed_by ]
           EXCEPT !.status = "ASSIGNED", !.assigned_to = a] =
        [ status |-> "ASSIGNED", assigned_to |-> a,
          resolved_by |-> row.resolved_by, approved_by |-> row.approved_by,
          closed_by |-> row.closed_by ]
    <3>1. [[ status |-> row.status, assigned_to |-> row.assigned_to,
             resolved_by |-> row.resolved_by, approved_by |-> row.approved_by,
             closed_by |-> row.closed_by ]
             EXCEPT !.status = "ASSIGNED"] =
          [ status |-> "ASSIGNED", assigned_to |-> row.assigned_to,
            resolved_by |-> row.resolved_by, approved_by |-> row.approved_by,
            closed_by |-> row.closed_by ]
      OBVIOUS
    <3>2. [[ status |-> "ASSIGNED", assigned_to |-> row.assigned_to,
             resolved_by |-> row.resolved_by, approved_by |-> row.approved_by,
             closed_by |-> row.closed_by ]
             EXCEPT !.assigned_to = a] =
          [ status |-> "ASSIGNED", assigned_to |-> a,
            resolved_by |-> row.resolved_by, approved_by |-> row.approved_by,
            closed_by |-> row.closed_by ]
      OBVIOUS
    <3> QED
      BY <3>1, <3>2
  <2> QED
    BY <1>1, <1>2, <1>4, <2>1 DEF Lifecycle!Assign, Row, Statuses
<1> QED
  BY <1>3, <1>5, <1>6 DEF IInv

LEMMA StartWorkStep ==
  ASSUME IInv, NEW u \in Users, StartWork(u)
  PROVE  IInv' /\ Lifecycle!StartWork
<1> DEFINE new == [row EXCEPT !.status = "IN_PROGRESS"]
<1>1. row \in Row /\ new \in Row /\ new.version = row.version
  BY DEF IInv, TypeOK, Row, Statuses
<1>2. Update(new, {}) /\ row.status = "ASSIGNED" /\ row.assigned_to = u
  BY DEF StartWork
<1>3. /\ TypeOK' /\ ViewsAreOld' /\ ViewsAreVersions'
      /\ row' = [new EXCEPT !.version = row.version + 1]
  <2>1. {} \in SUBSET (Users \cup {NoUser})
    OBVIOUS
  <2> HIDE DEF new
  <2> QED
    BY <1>1, <1>2, <2>1, UpdateKeeps
<1>4. /\ row'.status = "IN_PROGRESS"
      /\ row'.assigned_to = row.assigned_to
      /\ row'.resolved_by = row.resolved_by
      /\ row'.approved_by = row.approved_by
      /\ row'.closed_by = row.closed_by
  BY <1>1, <1>2, <1>3 DEF Row
<1>5. SomebodyIs' /\ Informed'
  BY <1>2, <1>4 DEF SomebodyIs, Informed
<1>6. Lifecycle!StartWork
  BY <1>2, <1>4 DEF Lifecycle!StartWork
<1> QED
  BY <1>3, <1>5, <1>6 DEF IInv

\* The view is current, so that its assignee is the row's, and only he resolves.
LEMMA ResolveStep ==
  ASSUME IInv, NEW u \in Users, NEW v, Resolve(u, v)
  PROVE  IInv' /\ Lifecycle!Resolve
<1> DEFINE new == [row EXCEPT !.status = "RESOLVED", !.resolved_by = u]
<1>1. row \in Row /\ new \in Row /\ new.version = row.version
  BY DEF IInv, TypeOK, Row, Statuses
<1>2. row.status = "IN_PROGRESS" /\ row.assigned_to = u
  BY CurrentIsSeen DEF Resolve, Assignee
<1>3. Approvers \ {u} \in SUBSET (Users \cup {NoUser}) /\ NoUser \notin Approvers
  BY ExceptionWorkflowAssumption
<1>4. /\ TypeOK' /\ ViewsAreOld' /\ ViewsAreVersions'
      /\ row' = [new EXCEPT !.version = row.version + 1]
      /\ \A n \in (Approvers \ {u}) \ {NoUser} :
            [user_id |-> n, status |-> row'.status, version |-> row'.version] \in notifications'
  BY <1>1, <1>3, UpdateKeeps DEF Resolve
<1>5. /\ row'.status = "RESOLVED"
      /\ row'.assigned_to = row.assigned_to
      /\ row'.resolved_by = u
      /\ row'.approved_by = row.approved_by
      /\ row'.closed_by = row.closed_by
  BY <1>1, <1>2, <1>4 DEF Row
<1>6. SomebodyIs' /\ Informed'
  BY <1>2, <1>3, <1>4, <1>5 DEF SomebodyIs, Informed
<1>7. Lifecycle!Resolve
  <2>1. [[ status |-> row.status, assigned_to |-> row.assigned_to,
           resolved_by |-> row.resolved_by, approved_by |-> row.approved_by,
           closed_by |-> row.closed_by ]
           EXCEPT !.status = "RESOLVED", !.resolved_by = row.assigned_to] =
        [ status |-> "RESOLVED", assigned_to |-> row.assigned_to,
          resolved_by |-> row.assigned_to, approved_by |-> row.approved_by,
          closed_by |-> row.closed_by ]
    <3>1. [[ status |-> row.status, assigned_to |-> row.assigned_to,
             resolved_by |-> row.resolved_by, approved_by |-> row.approved_by,
             closed_by |-> row.closed_by ]
             EXCEPT !.status = "RESOLVED"] =
          [ status |-> "RESOLVED", assigned_to |-> row.assigned_to,
            resolved_by |-> row.resolved_by, approved_by |-> row.approved_by,
            closed_by |-> row.closed_by ]
      OBVIOUS
    <3>2. [[ status |-> "RESOLVED", assigned_to |-> row.assigned_to,
             resolved_by |-> row.resolved_by, approved_by |-> row.approved_by,
             closed_by |-> row.closed_by ]
             EXCEPT !.resolved_by = row.assigned_to] =
          [ status |-> "RESOLVED", assigned_to |-> row.assigned_to,
            resolved_by |-> row.assigned_to, approved_by |-> row.approved_by,
            closed_by |-> row.closed_by ]
      OBVIOUS
    <3> QED
      BY <3>1, <3>2
  <2> QED
    BY <1>2, <1>5, <2>1 DEF Lifecycle!Resolve
<1> QED
  BY <1>4, <1>6, <1>7 DEF IInv

LEMMA ApproveStep ==
  ASSUME IInv, NEW u \in Users, NEW v, Approve(u, v)
  PROVE  IInv' /\ u \in Approvers /\ Lifecycle!Approve(u)
<1> DEFINE new == [row EXCEPT !.status = "APPROVED", !.approved_by = u]
<1>1. row \in Row /\ new \in Row /\ new.version = row.version
  BY DEF IInv, TypeOK, Row, Statuses
<1>2. row.status = "RESOLVED" /\ u \in Approvers
  BY CurrentIsSeen DEF Approve
<1>3. /\ TypeOK' /\ ViewsAreOld' /\ ViewsAreVersions'
      /\ row' = [new EXCEPT !.version = row.version + 1]
  <2>1. Update(new, {row.assigned_to}) /\ {row.assigned_to} \subseteq Users \cup {NoUser}
    BY <1>1 DEF Approve, Row
  <2> HIDE DEF new
  <2> QED
    BY <1>1, <2>1, UpdateKeeps
<1>4. /\ row'.status = "APPROVED"
      /\ row'.assigned_to = row.assigned_to
      /\ row'.resolved_by = row.resolved_by
      /\ row'.approved_by = u
      /\ row'.closed_by = row.closed_by
  BY <1>1, <1>3 DEF Row
<1>5. SomebodyIs' /\ Informed'
  BY <1>2, <1>4 DEF IInv, SomebodyIs, Informed
<1>6. Lifecycle!Approve(u)
  <2>1. [[ status |-> row.status, assigned_to |-> row.assigned_to,
           resolved_by |-> row.resolved_by, approved_by |-> row.approved_by,
           closed_by |-> row.closed_by ]
           EXCEPT !.status = "APPROVED", !.approved_by = u] =
        [ status |-> "APPROVED", assigned_to |-> row.assigned_to,
          resolved_by |-> row.resolved_by, approved_by |-> u,
          closed_by |-> row.closed_by ]
    <3>1. [[ status |-> row.status, assigned_to |-> row.assigned_to,
             resolved_by |-> row.resolved_by, approved_by |-> row.approved_by,
             closed_by |-> row.closed_by ]
             EXCEPT !.status = "APPROVED"] =
          [ status |-> "APPROVED", assigned_to |-> row.assigned_to,
            resolved_by |-> row.resolved_by, approved_by |-> row.approved_by,
            closed_by |-> row.closed_by ]
      OBVIOUS
    <3>2. [[ status |-> "APPROVED", assigned_to |-> row.assigned_to,
             resolved_by |-> row.resolved_by, approved_by |-> row.approved_by,
             closed_by |-> row.closed_by ]
             EXCEPT !.approved_by = u] =
          [ status |-> "APPROVED", assigned_to |-> row.assigned_to,
            resolved_by |-> row.resolved_by, approved_by |-> u,
            closed_by |-> row.closed_by ]
      OBVIOUS
    <3> QED
      BY <3>1, <3>2
  <2> QED
    BY <1>2, <1>4, <2>1 DEF Lifecycle!Approve
<1> QED
  BY <1>2, <1>3, <1>5, <1>6 DEF IInv

LEMMA CloseStep ==
  ASSUME IInv, NEW u \in Users, NEW v, Close(u, v)
  PROVE  IInv' /\ u \in Approvers /\ Lifecycle!Close(u)
<1> DEFINE new == [row EXCEPT !.status = "CLOSED", !.closed_by = u]
<1>1. row \in Row /\ new \in Row /\ new.version = row.version
  BY DEF IInv, TypeOK, Row, Statuses
<1>2. row.status = "APPROVED" /\ u \in Approvers
  BY CurrentIsSeen DEF Close
<1>3. /\ TypeOK' /\ ViewsAreOld' /\ ViewsAreVersions'
      /\ row' = [new EXCEPT !.version = row.version + 1]
  <2>1. Update(new, {row.assigned_to}) /\ {row.assigned_to} \subseteq Users \cup {NoUser}
    BY <1>1 DEF Close, Row
  <2> HIDE DEF new
  <2> QED
    BY <1>1, <2>1, UpdateKeeps
<1>4. /\ row'.status = "CLOSED"
      /\ row'.assigned_to = row.assigned_to
      /\ row'.resolved_by = row.resolved_by
      /\ row'.approved_by = row.approved_by
      /\ row'.closed_by = u
  BY <1>1, <1>3 DEF Row
<1>5. SomebodyIs' /\ Informed'
  BY <1>4 DEF SomebodyIs, Informed
<1>6. Lifecycle!Close(u)
  <2>1. [[ status |-> row.status, assigned_to |-> row.assigned_to,
           resolved_by |-> row.resolved_by, approved_by |-> row.approved_by,
           closed_by |-> row.closed_by ]
           EXCEPT !.status = "CLOSED", !.closed_by = u] =
        [ status |-> "CLOSED", assigned_to |-> row.assigned_to,
          resolved_by |-> row.resolved_by, approved_by |-> row.approved_by, closed_by |-> u ]
    <3>1. [[ status |-> row.status, assigned_to |-> row.assigned_to,
             resolved_by |-> row.resolved_by, approved_by |-> row.approved_by,
             closed_by |-> row.closed_by ]
             EXCEPT !.status = "CLOSED"] =
          [ status |-> "CLOSED", assigned_to |-> row.assigned_to,
            resolved_by |-> row.resolved_by, approved_by |-> row.approved_by,
            closed_by |-> row.closed_by ]
      OBVIOUS
    <3>2. [[ status |-> "CLOSED", assigned_to |-> row.assigned_to,
             resolved_by |-> row.resolved_by, approved_by |-> row.approved_by,
             closed_by |-> row.closed_by ]
             EXCEPT !.closed_by = u] =
          [ status |-> "CLOSED", assigned_to |-> row.assigned_to,
            resolved_by |-> row.resolved_by, approved_by |-> row.approved_by, closed_by |-> u ]
      OBVIOUS
    <3> QED
      BY <3>1, <3>2
  <2> QED
    BY <1>2, <1>4, <2>1 DEF Lifecycle!Close
<1> QED
  BY <1>2, <1>3, <1>5, <1>6 DEF IInv

\* A step keeps the invariant and is a step of the life of the exception, or
\* invisible there.
LEMMA NextIInv ==
  ASSUME IInv, [Next]_vars
  PROVE  IInv' /\ (Lifecycle!Next \/ UNCHANGED row)
<1>1. CASE UNCHANGED vars
  BY <1>1 DEF vars, IInv, TypeOK, ViewsAreOld, ViewsAreVersions, SomebodyIs, Informed
<1>2. CASE Next
  <2>1. PICK u \in Users :
          \/ Load(u)
          \/ \E a \in Users : Assign(u, a)
          \/ StartWork(u)
          \/ \E v \in 1..MaxVersion : Resolve(u, v) \/ Approve(u, v) \/ Close(u, v)
    BY <1>2 DEF Next
  <2> QED
    BY <2>1, LoadStep, AssignStep, StartWorkStep, ResolveStep, ApproveStep, CloseStep
       DEF Lifecycle!Next
<1> QED
  BY <1>1, <1>2

\* The inductive invariant holds in every reachable state.
THEOREM Invariance == Spec => []IInv
<1>1. IInv /\ [Next]_vars => IInv'
  BY NextIInv
<1> QED
  BY <1>1, InitIInv, PTL DEF Spec

\* The row, the dashboards and the notifications keep their types.
THEOREM TypeCorrect == Spec => []TypeOK
<1>1. IInv => TypeOK
  BY DEF IInv
<1> QED
  BY <1>1, Invariance, PTL

\* Who has seen the current version has seen the current row, which is what the
\* comparison of versions in resolve, approve and close rests on.
THEOREM VersionsIdentifyRows == Spec => []ViewsAreVersions
<1>1. IInv => ViewsAreVersions
  BY DEF IInv
<1> QED
  BY <1>1, Invariance, PTL

\* Whoever has to act next on the exception has been notified of it.
THEOREM NextOneIsInformed == Spec => []Informed
<1>1. IInv => Informed
  BY DEF IInv
<1> QED
  BY <1>1, Invariance, PTL

\* The workflow implements ExceptionLifecycle: with dashboards as stale as can
\* be, approvals follow resolutions by somebody who was assigned, closing
\* follows approval, and signatures stay.
THEOREM WorkflowKeepsPromise == Spec => Promise
<1>1. Init => Lifecycle!Init
  BY DEF Init, NewRow, Lifecycle!Init
<1>2. IInv /\ [Next]_vars =>
        [Lifecycle!Next]_[ status |-> row.status, assigned_to |-> row.assigned_to,
                           resolved_by |-> row.resolved_by, approved_by |-> row.approved_by,
                           closed_by |-> row.closed_by ]
  BY NextIInv
<1> QED
  BY <1>1, <1>2, Invariance, PTL DEF Spec, Promise, Lifecycle!Spec

=============================================================================
