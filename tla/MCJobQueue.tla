----------------------------- MODULE MCJobQueue -----------------------------
(* Instances of JobQueue for TLC. *)
EXTENDS JobQueue, TLC

CONSTANTS w1, w2, w3

TwoWorkers == {w1, w2}
ThreeWorkers == {w1, w2, w3}

WorkerSymmetry == Permutations(Workers)

\* The first job enqueued is the least urgent one.
LaterFirst == [j \in Jobs |-> MaxJobs - j]

=============================================================================
