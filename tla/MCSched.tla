-------------------------------- MODULE MCSched --------------------------------
EXTENDS Sched, TLC

(* The heap slots are alike, except for the two that init_process holds.   *)
Slots == Permutations(Proc \ {init_process}) \cup Permutations(Thread \ {init_thread})

(* The run of the liveness properties keeps no state in which the core is  *)
(* lost: no action is enabled there, and a behaviour that gets there has   *)
(* every one of those properties, whatever it did before.                  *)
NotLost == fault = "none"
=============================================================================
