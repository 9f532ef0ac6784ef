-------------------------------- MODULE MCHeap --------------------------------
(* The heap at an address aligned to its size, to half of it and to a      *)
(* quarter of it: PMM::alloc only promises the alignment of a page.        *)
EXTENDS Heap

MCBases == {Size(MAX), Size(MAX) + Size(MAX - 1), Size(MAX) + Size(MAX - 2)}
=============================================================================
