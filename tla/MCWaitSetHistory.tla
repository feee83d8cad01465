-------------------------- MODULE MCWaitSetHistory --------------------------
(* Instances of WaitSetHistory for TLC. *)
EXTENDS WaitSetHistory, TLC

(* Timers are interchangeable. *)
TimerSymmetry == Permutations(Timer)
=============================================================================
