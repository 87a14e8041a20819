--------------------------- MODULE WorkerPoolProofs ---------------------------
(***************************************************************************)
(* Theorems about WorkerPool for any number of slots, jobs and drain       *)
(* checks: its chains are counted, and they bound the overshoot.           *)
(***************************************************************************)
EXTENDS WorkerPool, TLAPS

\* No job is claimed that was not enqueued.
JobsCounted == active + ended <= queued

\* The overshoot, with the claims on their way that will make it.
ClaimsBounded == active + claiming <= MaxConcurrency + ended

\* The inductive invariant.  Poll adds a claim when a slot is free; that the
\* claims stay bounded follows from the number of chains.
IInv ==
    /\ TypeOK
    /\ JobsCounted
    /\ ChainsGrow
    /\ ClaimsBounded

LEMMA InitIInv == Init => IInv
BY WorkerPoolAssumption
   DEF Init, IInv, TypeOK, JobsCounted, ChainsGrow, ClaimsBounded, isRunning

\* A step keeps the invariant.
LEMMA NextIInv == IInv /\ [Next]_vars => IInv'
<1> SUFFICES ASSUME IInv, [Next]_vars PROVE IInv'
  OBVIOUS
<1> USE WorkerPoolAssumption
    DEF IInv, TypeOK, JobsCounted, ChainsGrow, ClaimsBounded, isRunning
<1>1. CASE Enqueue
  BY <1>1 DEF Enqueue
<1>2. CASE Poll
  <2>1. CASE state = "running"
    <3>1. claiming + 1 <= 1 + ended
      BY <1>2, <2>1 DEF Poll
    <3>2. active' + claiming' <= MaxConcurrency + ended'
      BY <1>2, <2>1, <3>1 DEF Poll
    <3> QED
      BY <1>2, <2>1, <3>2 DEF Poll
  <2>2. CASE state # "running"
    BY <1>2, <2>2 DEF Poll
  <2> QED
    BY <2>1, <2>2
<1>3. CASE Claimed
  BY <1>3 DEF Claimed, Unclaimed
<1>4. CASE NothingClaimed
  BY <1>4 DEF NothingClaimed
<1>5. CASE JobEnds
  BY <1>5 DEF JobEnds
<1>6. CASE Stop
  BY <1>6 DEF Stop
<1>7. CASE DrainCheck
  BY <1>7 DEF DrainCheck
<1>8. CASE UNCHANGED vars
  BY <1>8 DEF vars
<1> QED
  BY <1>1, <1>2, <1>3, <1>4, <1>5, <1>6, <1>7, <1>8 DEF Next

\* The inductive invariant holds in every reachable state.
THEOREM Invariance == Spec => []IInv
<1> QED
  BY InitIInv, NextIInv, PTL DEF Spec

\* The counters of a worker process keep their ranges.
THEOREM TypeCorrect == Spec => []TypeOK
<1>1. IInv => TypeOK
  BY DEF IInv
<1> QED
  BY <1>1, Invariance, PTL

\* poll never loses a chain, whichever of its exits it takes: a running worker
\* has one for its start and one for every job it finished.
THEOREM ChainsAreCounted == Spec => []ChainsGrow
<1>1. IInv => ChainsGrow
  BY DEF IInv
<1> QED
  BY <1>1, Invariance, PTL

\* The check of maxConcurrency before the claim, although stale when the claim
\* is answered, keeps the active jobs within the limit and the finished jobs.
THEOREM OvershootIsBounded == Spec => []OvershootBounded
<1>1. IInv => OvershootBounded
  BY WorkerPoolAssumption DEF IInv, TypeOK, ClaimsBounded, OvershootBounded
<1> QED
  BY <1>1, Invariance, PTL

\* Once stop() was called, no step adds a claim, and none adds a job but by
\* using up a claim.
THEOREM StopIsFinal == Spec => StopStartsNothingNew
<1> DEFINE Quiet == ~isRunning => claiming' <= claiming /\ active' + claiming' <= active + claiming
<1>1. IInv /\ [Next]_vars => [Quiet]_vars
  <2> SUFFICES ASSUME IInv, Next, ~isRunning
               PROVE  claiming' <= claiming /\ active' + claiming' <= active + claiming
    OBVIOUS
  <2>1. active \in Nat /\ claiming \in Nat
    BY DEF IInv, TypeOK
  <2>2. \/ UNCHANGED <<active, claiming>>
        \/ active' = active + 1 /\ claiming' = claiming - 1
        \/ active' = active /\ claiming' = claiming - 1
        \/ active' = active - 1 /\ claiming' = claiming
    BY DEF Next, Enqueue, Poll, Claimed, NothingClaimed, JobEnds, Stop, DrainCheck
  <2> QED
    BY <2>1, <2>2
<1> QED
  BY <1>1, Invariance, PTL DEF Spec, StopStartsNothingNew

=============================================================================
