-------------------------- MODULE MCBatchScheduler --------------------------
(* Instances of BatchScheduler for TLC. *)
EXTENDS BatchSchedulerRefinement, TLC

CONSTANTS w1, w2, w3, e1, e2, x1, x2

ThreadSymmetry == Permutations(Workers) \cup Permutations(ExecThreads) \cup Permutations(Inputs)
=============================================================================
