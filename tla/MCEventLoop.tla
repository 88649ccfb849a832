---------------------------- MODULE MCEventLoop ----------------------------
(* Instances of EventLoop for TLC. *)
EXTENDS EventLoop, TLC

CONSTANTS f1, f2, w1, w2

LoopSymmetry == Permutations(Fds) \cup Permutations(Workers)
=============================================================================
