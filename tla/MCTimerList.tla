---------------------------- MODULE MCTimerList ----------------------------
(* Instances of TimerList for TLC. *)
EXTENDS TimerList, TLC

CONSTANTS t1, t2, t3, t4

TimerSymmetry == Permutations(Timers)
=============================================================================
