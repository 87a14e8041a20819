--------------------------- MODULE MCRunRequests ---------------------------
(* An instance of RunRequests for TLC. *)
EXTENDS RunRequests, TLC

CONSTANTS w1, w2

TwoWorkers == {w1, w2}

WorkerSymmetry == Permutations(Workers)

\* The page and the scheduler queue their runs with one priority.
RunPriority == [j \in Jobs |-> 20]

=============================================================================
