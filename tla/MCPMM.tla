-------------------------------- MODULE MCPMM --------------------------------
(* Two clients on a bitmap of five bits, with a hole between two free runs  *)
(* and requests that may or may not be satisfied.                       *)
EXTENDS PMM

MCInitFree == {1, 3, 4}
MCCounts == 0 .. 2
=============================================================================
