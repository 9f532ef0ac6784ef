-------------------------------- MODULE MCVMM --------------------------------
(* Two programs, one with adjacent segments of which the second does not   *)
(* start at a page, one with a gap; the stack ends below the last page.    *)
EXTENDS VMM, TLC

CONSTANTS p1, p2, p3

Seg(vaddr, memsz, write) == [vaddr |-> vaddr, memsz |-> memsz, write |-> write]

MCPrograms ==
  << <<Seg(0, 1, FALSE), Seg(3, 1, TRUE)>>, <<Seg(1, 2, TRUE)>> >>

Sym == Permutations(Proc)
=============================================================================
