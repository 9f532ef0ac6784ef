------------------------------- MODULE PmmInit -------------------------------
(***************************************************************************)
(* PMM::init (kernel/memory/pmm.cpp): from the bootloader's memory map to  *)
(* the first bitmap.  Three loops over the map: find the top of the memory *)
(* the bitmap must cover, put the bitmap at the start of the first region  *)
(* that can hold it, clear the bits of the usable regions.                 *)
(*                                                                         *)
(* Sizes and addresses are in bytes as in the code; the memory maps to try *)
(* are a parameter.  Boot is sequential: one loop iteration is one step.   *)
(***************************************************************************)
EXTENDS Integers, Sequences

CONSTANTS PAGE_SIZE,  \* bytes of a frame
          MMaps       \* the memory maps the bootloader may pass

ASSUME PageAssumption == PAGE_SIZE \in Nat \ {0}

Types == {"usable", "reclaimable", "kernel", "reserved"}
Entry == [type : Types, base : Nat, length : Nat]

IsMemory(e) == e.type \in {"usable", "reclaimable"}

(* stivale2 promises that the entries are sorted by their base, and that   *)
(* the usable and the reclaimable ones are page-aligned and overlap no     *)
(* other entry.  Kernel, module and reserved entries may start and end     *)
(* anywhere in a frame and overlap each other.                             *)
ASSUME MMapsAssumption ==
  \A m \in MMaps :
    /\ m \in Seq(Entry)
    /\ \A k \in DOMAIN m :
         IsMemory(m[k]) => m[k].base % PAGE_SIZE = 0 /\ m[k].length % PAGE_SIZE = 0
    /\ \A k \in DOMAIN m : \A l \in DOMAIN m :
         k < l => /\ m[k].base <= m[l].base
                  /\ IsMemory(m[k]) \/ IsMemory(m[l]) =>
                       m[k].base + m[k].length <= m[l].base

VARIABLES given,           \* the memory map as the bootloader passed it
          mmap,            \* the memory map as the code changes it
          lastUsablePage, bitmapSize,
          bitmap,          \* the address of the bitmap, 0 while it has none
          cleared,         \* the numbers of the bits cleared since memset
          phase, i, page   \* the loop, its index and that of the inner loop

vars == <<given, mmap, lastUsablePage, bitmapSize, bitmap, cleared, phase, i, page>>

DIV_CEIL(y, x) == (y + x - 1) \div x

Init ==
  /\ given \in MMaps
  /\ mmap = given
  /\ lastUsablePage = 0 /\ bitmapSize = 0 /\ bitmap = 0
  /\ cleared = {}
  /\ phase = "top" /\ i = 1 /\ page = 0

AtEntry(ph) == phase = ph /\ i \in DOMAIN mmap
AtEnd(ph) == phase = ph /\ i \notin DOMAIN mmap

(* Lines 23-32: reclaimable regions do not count towards the top.          *)
FindTop ==
  /\ AtEntry("top")
  /\ LET top == mmap[i].base + mmap[i].length
     IN  lastUsablePage' = IF mmap[i].type \in {"usable", "kernel"} /\ top > lastUsablePage
                           THEN top ELSE lastUsablePage
  /\ i' = i + 1
  /\ UNCHANGED <<given, mmap, bitmapSize, bitmap, cleared, phase, page>>

(* Seeded change: the size is rounded down.                                *)
SizeBitmapFloor ==
  /\ AtEnd("top")
  /\ bitmapSize' = (lastUsablePage \div PAGE_SIZE) \div 8
  /\ phase' = "place" /\ i' = 1
  /\ UNCHANGED <<given, mmap, lastUsablePage, bitmap, cleared, page>>

SizeBitmap ==
  /\ AtEnd("top")
  /\ bitmapSize' = DIV_CEIL(lastUsablePage \div PAGE_SIZE, 8)
  /\ phase' = "place" /\ i' = 1
  /\ UNCHANGED <<given, mmap, lastUsablePage, bitmap, cleared, page>>

SkipRegion ==
  /\ AtEntry("place")
  /\ ~IsMemory(mmap[i]) \/ mmap[i].length < bitmapSize
  /\ i' = i + 1
  /\ UNCHANGED <<given, mmap, lastUsablePage, bitmapSize, bitmap, cleared, phase, page>>

(* Seeded change: the region is not shortened by the bitmap's frames.      *)
PlaceBitmapUnreserved ==
  /\ AtEntry("place")
  /\ IsMemory(mmap[i]) /\ mmap[i].length >= bitmapSize
  /\ bitmap' = mmap[i].base
  /\ phase' = "clear" /\ i' = 1
  /\ UNCHANGED <<given, mmap, lastUsablePage, bitmapSize, cleared, page>>

(* Lines 43-51: the bitmap is written in place and its frames are cut off  *)
(* the region.                                                             *)
PlaceBitmap ==
  /\ AtEntry("place")
  /\ IsMemory(mmap[i]) /\ mmap[i].length >= bitmapSize
  /\ bitmap' = mmap[i].base
  /\ LET bytes == DIV_CEIL(bitmapSize, PAGE_SIZE) * PAGE_SIZE
     IN  mmap' = [mmap EXCEPT ![i].base = @ + bytes, ![i].length = @ - bytes]
  /\ phase' = "clear" /\ i' = 1
  /\ UNCHANGED <<given, lastUsablePage, bitmapSize, cleared, page>>

(* No region holds the bitmap: the pointer stays null and the third loop   *)
(* goes through it.  Nothing is known of what follows.                     *)
NoRoom ==
  /\ AtEnd("place")
  /\ phase' = "lost"
  /\ UNCHANGED <<given, mmap, lastUsablePage, bitmapSize, bitmap, cleared, i, page>>

SkipEntry ==
  /\ AtEntry("clear")
  /\ ~IsMemory(mmap[i])
  /\ i' = i + 1
  /\ UNCHANGED <<given, mmap, lastUsablePage, bitmapSize, bitmap, cleared, phase, page>>

(* Seeded change: the first frame of a region stays marked.                *)
EnterRegionLate ==
  /\ AtEntry("clear")
  /\ IsMemory(mmap[i])
  /\ page' = mmap[i].base \div PAGE_SIZE + 1
  /\ phase' = "bits"
  /\ UNCHANGED <<given, mmap, lastUsablePage, bitmapSize, bitmap, cleared, i>>

EnterRegion ==
  /\ AtEntry("clear")
  /\ IsMemory(mmap[i])
  /\ page' = mmap[i].base \div PAGE_SIZE
  /\ phase' = "bits"
  /\ UNCHANGED <<given, mmap, lastUsablePage, bitmapSize, bitmap, cleared, i>>

LastBit == mmap[i].base \div PAGE_SIZE + mmap[i].length \div PAGE_SIZE

(* Lines 67-69: the loop runs to pageNumber + length inclusive.            *)
ClearBit ==
  /\ phase = "bits"
  /\ page <= LastBit
  /\ cleared' = cleared \cup {page}
  /\ page' = page + 1
  /\ UNCHANGED <<given, mmap, lastUsablePage, bitmapSize, bitmap, phase, i>>

LeaveRegion ==
  /\ phase = "bits"
  /\ page > LastBit
  /\ phase' = "clear" /\ i' = i + 1
  /\ UNCHANGED <<given, mmap, lastUsablePage, bitmapSize, bitmap, cleared, page>>

Finish ==
  /\ AtEnd("clear")
  /\ phase' = "done"
  /\ UNCHANGED <<given, mmap, lastUsablePage, bitmapSize, bitmap, cleared, i, page>>

Next ==
  \/ FindTop \/ SizeBitmap
  \/ SkipRegion \/ PlaceBitmap \/ NoRoom
  \/ SkipEntry \/ EnterRegion \/ ClearBit \/ LeaveRegion
  \/ Finish

Spec == Init /\ [][Next]_vars

-----------------------------------------------------------------------------
(* Properties                                                              *)

(* The frames that a region lies in, the last one perhaps only partly.     *)
Frames(e) == e.base \div PAGE_SIZE .. DIV_CEIL(e.base + e.length, PAGE_SIZE) - 1
FramesOf(m, ts) == UNION {Frames(m[k]) : k \in {l \in DOMAIN m : m[l].type \in ts}}

(* The frames the bitmap itself occupies.                                  *)
BitmapFrames ==
  bitmap \div PAGE_SIZE .. bitmap \div PAGE_SIZE + DIV_CEIL(bitmapSize, PAGE_SIZE) - 1

Usable == FramesOf(given, {"usable", "reclaimable"}) \ BitmapFrames

(* The frame after the end of each usable region.                          *)
EndFrames ==
  {(given[k].base + given[k].length) \div PAGE_SIZE :
     k \in {l \in DOMAIN given : IsMemory(given[l])}}

(* After init the cleared bits are those of the frames the bootloader gave *)
(* away, less the bitmap's own, and the one frame after each region.       *)
ClearedExact ==
  phase = "done" => cleared = Usable \cup EndFrames

(* The frames that hold the bitmap stay marked, so alloc never gives them  *)
(* out, except that its first frame is free when a usable region ends      *)
(* directly below it.                                                      *)
BitmapReserved ==
  phase = "done" =>
    \A f \in BitmapFrames \cap cleared :
      f = bitmap \div PAGE_SIZE /\ f \in EndFrames

(* The bitmap is long enough for every bit init touches, unless a region   *)
(* ends on the frame of the top (the top itself may lie inside that frame, *)
(* with the kernel there) and this frame is the first beyond the bitmap,   *)
(* or reclaimable memory lies above the top.                               *)
WritesInside ==
  phase = "done" =>
    \/ \A b \in cleared : b < bitmapSize * 8
    \/ \E k \in DOMAIN given :
         /\ IsMemory(given[k])
         /\ LET top == given[k].base + given[k].length
            IN  \/ /\ top \div PAGE_SIZE = lastUsablePage \div PAGE_SIZE
                   /\ (top \div PAGE_SIZE) % 8 = 0
                \/ given[k].type = "reclaimable" /\ top > lastUsablePage

(* What the comment on the bitmap says, "1 = used, 0 = free": the frames   *)
(* of the kernel image, of the modules and of the bitmap are used, so init *)
(* must leave their bits set.                                              *)
UsedStaysMarked ==
  phase = "done" => cleared \cap (FramesOf(given, {"kernel"}) \cup BitmapFrames) = {}
=============================================================================
