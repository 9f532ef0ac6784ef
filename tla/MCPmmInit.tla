------------------------------ MODULE MCPmmInit ------------------------------
(* Every memory map of one to MaxEntries regions whose ends are among a few *)
(* edges: at the start of memory, around frame 8, where a bitmap of one     *)
(* byte ends, and at frame 17, which takes a bitmap of two frames.  The     *)
(* kernel's regions have edges in the middle of a frame too, and overlap.   *)
EXTENDS PmmInit

CONSTANT MaxEntries

MemoryEdges == {PAGE_SIZE * f : f \in {1, 2, 3, 8, 9, 17}}
KernelEdges == MemoryEdges \cup {PAGE_SIZE * f + 1 : f \in {2, 8, 16}}

Regions(t, edges) ==
  {[type |-> t, base |-> s[1], length |-> s[2] - s[1]] :
     s \in {p \in edges \X edges : p[1] < p[2]}}

AnyRegion ==
  Regions("usable", MemoryEdges) \cup Regions("reclaimable", MemoryEdges)
    \cup Regions("kernel", KernelEdges)

(* Region f may come after region e, next to it or further on.             *)
Follows(e, f) ==
  /\ e.base <= f.base
  /\ IsMemory(e) \/ IsMemory(f) => e.base + e.length <= f.base

MapsOf[n \in 1 .. MaxEntries] ==
  IF n = 1 THEN {<<e>> : e \in AnyRegion}
  ELSE {Append(x[1], x[2]) :
          x \in {y \in MapsOf[n - 1] \X AnyRegion :
                   \A k \in 1 .. n - 1 : Follows(y[1][k], y[2])}}

MCMMaps == UNION {MapsOf[n] : n \in 1 .. MaxEntries}
=============================================================================
