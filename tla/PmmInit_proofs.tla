--------------------------- MODULE PmmInit_proofs ---------------------------
(***************************************************************************)
(* Proofs about PmmInit: what PMM::init leaves in the bitmap, for every    *)
(* memory map that keeps the promises of stivale2 and every page size.     *)
(***************************************************************************)
EXTENDS PmmInit, SequenceTheorems, TLAPS

(* The first frame of region k of the map that was given, how many frames  *)
(* it has, and how many the bitmap takes.                                  *)
First(k) == given[k].base \div PAGE_SIZE
Count(k) == given[k].length \div PAGE_SIZE
BitmapCount == DIV_CEIL(bitmapSize, PAGE_SIZE)

(* lastUsablePage covers the regions before n that count.                  *)
TopOf(n) ==
  \A k \in DOMAIN given : k < n /\ given[k].type \in {"usable", "kernel"} =>
    given[k].base + given[k].length <= lastUsablePage

(* The bitmap lies at the start of region j, whose entry was shortened.    *)
Placed(j) ==
  /\ IsMemory(given[j]) /\ given[j].length >= bitmapSize
  /\ bitmap = given[j].base
  /\ mmap = [given EXCEPT ![j].base = @ + BitmapCount * PAGE_SIZE,
                          ![j].length = @ - BitmapCount * PAGE_SIZE]

(* The bits that the third loop clears for region k, to its end inclusive, *)
(* and those of them that it has cleared: all in the regions before i, in  *)
(* the inner loop those before page.                                       *)
From(j, k) == First(k) + (IF k = j THEN BitmapCount ELSE 0)
Bits(j, k) == From(j, k) .. First(k) + Count(k)
SoFar(j, k) ==
  {n \in Bits(j, k) : k < i \/ (phase = "bits" /\ k = i /\ n < page)}

Cleared(j) ==
  cleared = UNION {SoFar(j, k) : k \in {l \in DOMAIN given : IsMemory(given[l])}}

(* Where the three loops are, and what they have found out.                *)
Types0 ==
  /\ given \in MMaps
  /\ phase \in {"top", "place", "clear", "bits", "done", "lost"}
  /\ i \in Nat \ {0} /\ page \in Nat /\ lastUsablePage \in Nat /\ bitmapSize \in Nat

InLoops ==
  /\ phase = "top" => TopOf(i)
  /\ phase # "top" =>
       TopOf(Len(given) + 1) /\ bitmapSize = DIV_CEIL(lastUsablePage \div PAGE_SIZE, 8)
  /\ phase \in {"top", "place"} => mmap = given /\ cleared = {}
  /\ phase = "bits" => i \in DOMAIN given /\ IsMemory(given[i])
  /\ phase = "done" => i \notin DOMAIN given
  /\ phase \in {"clear", "bits", "done"} =>
       \E j \in DOMAIN given :
         /\ Placed(j) /\ Cleared(j)
         /\ phase = "bits" => page \in From(j, i) .. First(i) + Count(i) + 1

IInv == Types0 /\ InLoops

-----------------------------------------------------------------------------
(* Division of multiples, rounding down and up.                            *)
LEMMA DivMultiple ==
  ASSUME NEW P \in Nat \ {0}, NEW x \in Nat, x % P = 0
  PROVE  x = P * (x \div P) /\ x \div P \in Nat
OBVIOUS

(* A multiple of the page size is divided exactly.                         *)
LEMMA MultipleDiv ==
  ASSUME NEW P \in Nat \ {0}, NEW q \in Int
  PROVE  (P * q) \div P = q
OBVIOUS

(* Moving a page-aligned address by n frames moves its frame by n.         *)
LEMMA MoveMultiple ==
  ASSUME NEW P \in Nat \ {0}, NEW a \in Nat, NEW n \in Nat
  PROVE  /\ (P * a + n * P) \div P = a + n /\ (P * a - n * P) \div P = a - n
         /\ (P * a + P * n) \div P = a + n
<1>1. P * a + n * P = P * (a + n) /\ P * a - n * P = P * (a - n) /\ n * P = P * n
  OBVIOUS
<1>2. (P * (a + n)) \div P = a + n /\ (P * (a - n)) \div P = a - n
  BY MultipleDiv
<1> QED BY <1>1, <1>2

(* Rounding down keeps the order.                                          *)
LEMMA DivMonotonic ==
  ASSUME NEW P \in Nat \ {0}, NEW x \in Nat, NEW y \in Nat, x <= y
  PROVE  x \div P \in Nat /\ y \div P \in Nat /\ x \div P <= y \div P
<1> DEFINE q == x \div P
           r == y \div P
<1>1. /\ q \in Nat /\ r \in Nat
      /\ P * q <= x /\ y < P * r + P
  OBVIOUS
<1> HIDE DEF q, r
<1>2. SUFFICES ASSUME r + 1 <= q PROVE FALSE
  BY <1>1 DEF q, r
<1>3. P * (r + 1) <= P * q /\ P * (r + 1) = P * r + P
  BY <1>1, <1>2
<1> QED BY <1>1, <1>3

(* DIV_CEIL is the least quotient that covers x.                           *)
LEMMA DivCeil ==
  ASSUME NEW P \in Nat \ {0}, NEW x \in Nat
  PROVE  /\ DIV_CEIL(x, P) \in Nat /\ x <= P * DIV_CEIL(x, P)
         /\ \A q \in Nat : x <= P * q => DIV_CEIL(x, P) <= q
<1> DEFINE n == (x + P - 1) \div P
<1>1. n \in Nat /\ P * n <= x + P - 1 /\ x + P - 1 < P * n + P
  OBVIOUS
<1>2. ASSUME NEW q \in Nat, x <= P * q PROVE n <= q
  <2> SUFFICES ASSUME q + 1 <= n PROVE FALSE
    BY <1>1
  <2>1. P * (q + 1) <= P * n
    BY <1>1
  <2>2. P * (q + 1) = P * q + P
    OBVIOUS
  <2> QED BY <1>1, <1>2, <2>1, <2>2
<1> QED BY <1>1, <1>2 DEF DIV_CEIL

(* The regions of a memory map, in frames: those of memory exactly.        *)
LEMMA MapFacts ==
  ASSUME given \in MMaps
  PROVE  /\ given \in Seq(Entry) /\ Len(given) \in Nat /\ DOMAIN given = 1 .. Len(given)
         /\ \A k \in DOMAIN given :
              /\ given[k] \in Entry /\ given[k].base \in Nat /\ given[k].length \in Nat
              /\ First(k) \in Nat /\ Count(k) \in Nat
         /\ \A k \in DOMAIN given : IsMemory(given[k]) =>
              /\ given[k].base = PAGE_SIZE * First(k) /\ given[k].length = PAGE_SIZE * Count(k)
              /\ (given[k].base + given[k].length) \div PAGE_SIZE = First(k) + Count(k)
         /\ \A k, l \in DOMAIN given :
              k < l /\ IsMemory(given[k]) /\ IsMemory(given[l]) => First(k) + Count(k) <= First(l)
<1> USE PageAssumption
<1>1. /\ given \in Seq(Entry) /\ Len(given) \in Nat /\ DOMAIN given = 1 .. Len(given)
      /\ \A k \in DOMAIN given : given[k] \in Entry
  BY MMapsAssumption, LenProperties, ElementOfSeq
<1>2. ASSUME NEW k \in DOMAIN given
      PROVE  /\ given[k].base \in Nat /\ given[k].length \in Nat
             /\ First(k) \in Nat /\ Count(k) \in Nat
  <2>1. given[k].base \in Nat /\ given[k].length \in Nat
    BY <1>1 DEF Entry
  <2> QED BY <2>1 DEF First, Count
<1>3. ASSUME NEW k \in DOMAIN given, IsMemory(given[k])
      PROVE  /\ given[k].base = PAGE_SIZE * First(k) /\ given[k].length = PAGE_SIZE * Count(k)
             /\ (given[k].base + given[k].length) \div PAGE_SIZE = First(k) + Count(k)
  <2>1. given[k].base % PAGE_SIZE = 0 /\ given[k].length % PAGE_SIZE = 0
    BY <1>3, MMapsAssumption
  <2>2. given[k].base = PAGE_SIZE * First(k) /\ given[k].length = PAGE_SIZE * Count(k)
    BY <1>2, <2>1, DivMultiple DEF First, Count
  <2>3. (PAGE_SIZE * First(k) + PAGE_SIZE * Count(k)) \div PAGE_SIZE = First(k) + Count(k)
    BY <1>2, MoveMultiple
  <2>4. (given[k].base + given[k].length) \div PAGE_SIZE = First(k) + Count(k)
    BY <2>2, <2>3
  <2> QED BY <2>2, <2>4
<1>4. ASSUME NEW k \in DOMAIN given, NEW l \in DOMAIN given, k < l,
             IsMemory(given[k]), IsMemory(given[l])
      PROVE  First(k) + Count(k) <= First(l)
  <2>1. given[k].base + given[k].length <= given[l].base
    BY <1>4, MMapsAssumption
  <2>2. PAGE_SIZE * (First(k) + Count(k)) <= PAGE_SIZE * First(l)
    BY <1>2, <1>3, <1>4, <2>1
  <2> QED BY <1>2, <2>2
<1> QED BY <1>1, <1>2, <1>3, <1>4

(* Once the bitmap is placed, its frames are the first of region j, and    *)
(* the third loop sees the other regions as they were given.               *)
LEMMA PlacedFacts ==
  ASSUME Types0, NEW j \in DOMAIN given, Placed(j)
  PROVE  /\ BitmapCount \in Nat /\ BitmapCount <= Count(j)
         /\ DOMAIN mmap = DOMAIN given
         /\ \A k \in DOMAIN given :
              /\ IsMemory(mmap[k]) <=> IsMemory(given[k])
              /\ mmap[k].base \div PAGE_SIZE = From(j, k)
              /\ mmap[k].base \div PAGE_SIZE + mmap[k].length \div PAGE_SIZE = First(k) + Count(k)
              /\ From(j, k) \in Nat /\ From(j, k) <= First(k) + Count(k)
<1>0. given \in MMaps /\ bitmapSize \in Nat /\ PAGE_SIZE \in Nat \ {0}
  BY PageAssumption DEF Types0
<1>1. BitmapCount \in Nat /\ BitmapCount <= Count(j)
  <2>1. Count(j) \in Nat /\ bitmapSize <= PAGE_SIZE * Count(j)
    BY <1>0, MapFacts DEF Placed
  <2> QED BY <1>0, <2>1, DivCeil DEF BitmapCount
<1>2. DOMAIN mmap = DOMAIN given
  BY DEF Placed
<1>3. ASSUME NEW k \in DOMAIN given
      PROVE  /\ IsMemory(mmap[k]) <=> IsMemory(given[k])
             /\ mmap[k].base \div PAGE_SIZE = From(j, k)
             /\ mmap[k].length \div PAGE_SIZE = Count(k) - (From(j, k) - First(k))
  <2>0. First(k) \in Nat /\ Count(k) \in Nat /\ given[k] \in Entry
    BY <1>0, MapFacts
  <2>1. CASE k # j
    <3>1. mmap[k] = given[k]
      BY <2>1 DEF Placed
    <3>2. From(j, k) = First(k)
      BY <2>0, <2>1 DEF From
    <3> QED BY <2>0, <3>1, <3>2 DEF First, Count
  <2>2. CASE k = j
    <3>1. /\ mmap[k].type = given[k].type
          /\ mmap[k].base = given[k].base + BitmapCount * PAGE_SIZE
          /\ mmap[k].length = given[k].length - BitmapCount * PAGE_SIZE
      BY <2>0, <2>2 DEF Placed, Entry
    <3>2. /\ (PAGE_SIZE * First(k) + BitmapCount * PAGE_SIZE) \div PAGE_SIZE = First(k) + BitmapCount
          /\ (PAGE_SIZE * Count(k) - BitmapCount * PAGE_SIZE) \div PAGE_SIZE = Count(k) - BitmapCount
      BY <1>0, <1>1, <2>0, MoveMultiple
    <3>3. given[k].base = PAGE_SIZE * First(k) /\ given[k].length = PAGE_SIZE * Count(k)
      BY <1>0, <2>2, MapFacts DEF Placed
    <3>4. /\ mmap[k].base \div PAGE_SIZE = First(k) + BitmapCount
          /\ mmap[k].length \div PAGE_SIZE = Count(k) - BitmapCount
      BY <3>1, <3>2, <3>3
    <3>5. From(j, k) = First(k) + BitmapCount
      BY <2>2 DEF From
    <3> QED BY <1>1, <2>0, <3>1, <3>4, <3>5 DEF IsMemory
  <2> QED BY <2>1, <2>2
<1>4. ASSUME NEW k \in DOMAIN given
      PROVE  /\ From(j, k) \in Nat /\ From(j, k) <= First(k) + Count(k)
             /\ mmap[k].base \div PAGE_SIZE + mmap[k].length \div PAGE_SIZE = First(k) + Count(k)
  <2>1. First(k) \in Nat /\ Count(k) \in Nat
    BY <1>0, MapFacts
  <2>2. From(j, k) \in Nat /\ From(j, k) <= First(k) + Count(k)
    BY <1>1, <2>1 DEF From
  <2> QED BY <1>3, <2>1, <2>2
<1> QED BY <1>1, <1>2, <1>3, <1>4

(* A bit is cleared when the third loop has passed it in some region.      *)
LEMMA ClearedMember ==
  ASSUME NEW j
  PROVE  /\ Cleared(j) <=> \A n : n \in cleared <=>
                             \E k \in DOMAIN given : IsMemory(given[k]) /\ n \in SoFar(j, k)
         /\ Cleared(j)' <=> \A n : n \in cleared' <=>
                             \E k \in DOMAIN given' : IsMemory(given'[k]) /\ n \in SoFar(j, k)'
<1>1. Cleared(j) <=> \A n : n \in cleared <=>
                             \E k \in DOMAIN given : IsMemory(given[k]) /\ n \in SoFar(j, k)
  BY Zenon DEF Cleared
<1>2. Cleared(j)' <=> \A n : n \in cleared' <=>
                             \E k \in DOMAIN given' : IsMemory(given'[k]) /\ n \in SoFar(j, k)'
  BY Zenon DEF Cleared, IsMemory
<1> QED BY <1>1, <1>2

(* The third loop changes neither the map nor the size, nor what is placed. *)
LEMMA PlacedKept ==
  ASSUME UNCHANGED <<given, mmap, lastUsablePage, bitmapSize, bitmap>>
  PROVE  /\ \A k : First(k)' = First(k) /\ Count(k)' = Count(k)
         /\ \A j, k : From(j, k)' = From(j, k) /\ Bits(j, k)' = Bits(j, k)
         /\ \A j : Placed(j)' <=> Placed(j)
         /\ \A n : TopOf(n)' <=> TopOf(n)
BY DEF First, Count, BitmapCount, From, Bits, Placed, TopOf, IsMemory, DIV_CEIL

(* The loops start with nothing found and nothing cleared.                 *)
LEMMA InitIInv == Init => IInv
<1> SUFFICES ASSUME Init PROVE IInv
  OBVIOUS
<1>1. Types0
  BY DEF Init, Types0
<1>2. \A k \in DOMAIN given : ~(k < 1)
  BY <1>1, MapFacts DEF Types0
<1>3. TopOf(i)
  BY <1>2 DEF Init, TopOf
<1> QED BY <1>1, <1>3 DEF Init, IInv, InLoops

-----------------------------------------------------------------------------
(* The first loop (pmm.cpp, lines 23-32) and the size it ends with.        *)
LEMMA TopStep ==
  ASSUME IInv, FindTop \/ SizeBitmap
  PROVE  IInv'
<1>0. Types0 /\ phase = "top" /\ TopOf(i) /\ mmap = given /\ cleared = {}
  BY DEF IInv, InLoops, FindTop, SizeBitmap, AtEntry, AtEnd
<1>1. given \in MMaps /\ Len(given) \in Nat /\ DOMAIN given = 1 .. Len(given)
  BY <1>0, MapFacts DEF Types0
<1>2. CASE FindTop
  <2>1. i \in DOMAIN given /\ given[i].base \in Nat /\ given[i].length \in Nat
    BY <1>0, <1>1, <1>2, MapFacts DEF FindTop, AtEntry
  <2>2. \A k \in DOMAIN given : given[k].base \in Nat /\ given[k].length \in Nat
    BY <1>1, MapFacts
  <2>3. Types0'
    BY <1>0, <1>2, <2>1 DEF Types0, FindTop
  <2>4. /\ lastUsablePage' >= lastUsablePage
        /\ given[i].type \in {"usable", "kernel"} => given[i].base + given[i].length <= lastUsablePage'
        /\ i' = i + 1 /\ given' = given /\ lastUsablePage' \in Nat
    BY <1>0, <1>2, <2>1 DEF Types0, FindTop
  <2>5. ASSUME NEW k \in DOMAIN given, k < i + 1, given[k].type \in {"usable", "kernel"}
        PROVE  given[k].base + given[k].length <= lastUsablePage'
    <3>1. k < i \/ k = i
      BY <1>0, <1>1, <2>5 DEF Types0
    <3> QED BY <1>0, <2>2, <2>4, <2>5, <3>1 DEF TopOf, Types0
  <2>6. TopOf(i)'
    BY <1>0, <2>1, <2>4, <2>5 DEF TopOf
  <2> QED BY <1>0, <1>2, <2>3, <2>6 DEF IInv, InLoops, FindTop
<1>3. CASE SizeBitmap
  <2>1. bitmapSize' \in Nat /\ bitmapSize' = DIV_CEIL(lastUsablePage \div PAGE_SIZE, 8)
    <3>1. lastUsablePage \div PAGE_SIZE \in Nat
      BY <1>0, PageAssumption DEF Types0
    <3> QED BY <1>3, <3>1, DivCeil DEF SizeBitmap
  <2>2. Types0'
    BY <1>0, <1>3, <2>1 DEF Types0, SizeBitmap
  <2>3. \A k \in DOMAIN given : k < i
    BY <1>0, <1>1, <1>3 DEF SizeBitmap, AtEnd, Types0
  <2>4. TopOf(Len(given) + 1)'
    BY <1>0, <1>3, <2>3 DEF TopOf, SizeBitmap
  <2>5. bitmapSize' = DIV_CEIL(lastUsablePage' \div PAGE_SIZE, 8)
    BY <1>3, <2>1 DEF SizeBitmap
  <2> QED BY <1>0, <1>3, <2>2, <2>4, <2>5 DEF IInv, InLoops, SizeBitmap
<1> QED BY <1>2, <1>3

(* The second loop (lines 34-54): the bitmap gets the first region that is *)
(* long enough, or init is lost.                                           *)
LEMMA PlaceStep ==
  ASSUME IInv, SkipRegion \/ PlaceBitmap \/ NoRoom
  PROVE  IInv'
<1>0. /\ Types0 /\ phase = "place" /\ TopOf(Len(given) + 1) /\ mmap = given /\ cleared = {}
      /\ bitmapSize = DIV_CEIL(lastUsablePage \div PAGE_SIZE, 8)
  BY DEF IInv, InLoops, SkipRegion, PlaceBitmap, NoRoom, AtEntry, AtEnd
<1>1. Types0'
  BY <1>0 DEF Types0, SkipRegion, PlaceBitmap, NoRoom
<1>2. (TopOf(Len(given) + 1) /\ bitmapSize = DIV_CEIL(lastUsablePage \div PAGE_SIZE, 8))'
  BY <1>0 DEF TopOf, SkipRegion, PlaceBitmap, NoRoom
<1>3. CASE SkipRegion
  BY <1>0, <1>1, <1>2, <1>3 DEF IInv, InLoops, SkipRegion
<1>4. CASE NoRoom
  BY <1>0, <1>1, <1>2, <1>4 DEF IInv, InLoops, NoRoom
<1>5. CASE PlaceBitmap
  <2>1. i \in DOMAIN given /\ given' = given /\ phase' = "clear" /\ i' = 1 /\ bitmapSize' = bitmapSize
    BY <1>0, <1>5 DEF PlaceBitmap, AtEntry
  <2>2. PICK j \in DOMAIN given : j = i
    BY <2>1
  <2>3. Placed(j)'
    <3>1. BitmapCount' = BitmapCount
      BY <2>1 DEF BitmapCount
    <3>2. IsMemory(given'[j]) /\ given'[j].length >= bitmapSize'
      BY <1>0, <1>5, <2>1, <2>2 DEF PlaceBitmap
    <3>3. bitmap' = given'[j].base
      BY <1>0, <1>5, <2>1, <2>2 DEF PlaceBitmap
    <3>4. mmap' = [given EXCEPT ![j].base = @ + BitmapCount * PAGE_SIZE,
                                ![j].length = @ - BitmapCount * PAGE_SIZE]
      BY <1>0, <1>5, <2>2 DEF PlaceBitmap, BitmapCount
    <3> QED BY <2>1, <3>1, <3>2, <3>3, <3>4 DEF Placed, IsMemory
  <2>4. Cleared(j)'
    <3>1. \A k \in DOMAIN given : k \in Int /\ ~(k < 1)
      BY <1>0, MapFacts DEF Types0
    <3>2. \A k \in DOMAIN given' : SoFar(j, k)' = {}
      BY <2>1, <3>1 DEF SoFar
    <3>3. cleared' = {}
      BY <1>0, <1>5 DEF PlaceBitmap
    <3> QED BY <3>2, <3>3, ClearedMember
  <2>5. (\E l \in DOMAIN given : Placed(l) /\ Cleared(l))'
    BY <2>1, <2>3, <2>4
  <2> QED BY <1>1, <1>2, <2>1, <2>5 DEF IInv, InLoops
<1> QED BY <1>3, <1>4, <1>5

(* The third loop: the bits it has passed are exactly those it cleared.    *)
LEMMA ClearStep ==
  ASSUME IInv, SkipEntry \/ EnterRegion \/ ClearBit \/ LeaveRegion \/ Finish
  PROVE  IInv'
<1>0. /\ Types0 /\ phase \in {"clear", "bits"} /\ TopOf(Len(given) + 1)
      /\ bitmapSize = DIV_CEIL(lastUsablePage \div PAGE_SIZE, 8)
      /\ phase = "bits" => i \in DOMAIN given /\ IsMemory(given[i])
  BY DEF IInv, InLoops, SkipEntry, EnterRegion, ClearBit, LeaveRegion, Finish, AtEntry, AtEnd
<1>1. UNCHANGED <<given, mmap, lastUsablePage, bitmapSize, bitmap>>
  BY DEF SkipEntry, EnterRegion, ClearBit, LeaveRegion, Finish
<1>2. PICK j \in DOMAIN given :
        /\ Placed(j) /\ Cleared(j)
        /\ phase = "bits" => page \in From(j, i) .. First(i) + Count(i) + 1
  BY <1>0 DEF IInv, InLoops
<1>3. /\ given \in MMaps /\ DOMAIN mmap = DOMAIN given /\ i \in Int /\ page \in Nat
      /\ \A k \in DOMAIN given :
           /\ k \in Int /\ First(k) \in Int /\ Count(k) \in Int
           /\ First(k) + Count(k) \in Int
           /\ IsMemory(mmap[k]) <=> IsMemory(given[k])
           /\ From(j, k) \in Nat /\ From(j, k) <= First(k) + Count(k)
           /\ mmap[k].base \div PAGE_SIZE = From(j, k)
           /\ mmap[k].base \div PAGE_SIZE + mmap[k].length \div PAGE_SIZE = First(k) + Count(k)
  BY <1>0, <1>2, MapFacts, PlacedFacts DEF Types0
<1>4. i' \in Nat \ {0} /\ page' \in Nat /\ phase' \in {"clear", "bits", "done"}
  <2>1. CASE EnterRegion
    <3>1. page' = From(j, i)
      BY <1>3, <2>1 DEF EnterRegion, AtEntry
    <3> QED BY <1>0, <1>3, <2>1, <3>1 DEF EnterRegion, AtEntry, Types0
  <2>2. CASE SkipEntry \/ ClearBit \/ LeaveRegion \/ Finish
    BY <1>0, <2>2 DEF SkipEntry, ClearBit, LeaveRegion, Finish, AtEntry, AtEnd, Types0
  <2> QED BY <2>1, <2>2
<1>5. Types0' /\ TopOf(Len(given) + 1)' /\ Placed(j)'
  BY <1>0, <1>1, <1>2, <1>4, PlacedKept DEF Types0
<1>6. /\ \A k : First(k)' = First(k) /\ Count(k)' = Count(k)
      /\ \A k : From(j, k)' = From(j, k) /\ Bits(j, k)' = Bits(j, k)
  BY <1>1, PlacedKept
<1>7. \A n : n \in cleared <=> \E k \in DOMAIN given : IsMemory(given[k]) /\ n \in SoFar(j, k)
  BY <1>2, ClearedMember
<1>8. \A k \in DOMAIN given : \A n \in Bits(j, k) :
        n \in Int /\ From(j, k) <= n /\ n <= First(k) + Count(k)
  BY <1>3 DEF Bits
<1>9. ASSUME \A n : n \in cleared' <=>
                \E k \in DOMAIN given : IsMemory(given[k]) /\ n \in SoFar(j, k)'
      PROVE  Cleared(j)'
  BY <1>1, <1>9, ClearedMember
<1>10. /\ Cleared(j)'
       /\ phase' = "bits" => /\ i' \in DOMAIN given /\ IsMemory(given[i'])
                             /\ page' \in From(j, i') .. First(i') + Count(i') + 1
       /\ phase' = "done" => i' \notin DOMAIN given
  <2>1. CASE SkipEntry
    <3>1. /\ phase = "clear" /\ phase' = "clear" /\ i \in DOMAIN given /\ ~IsMemory(given[i])
          /\ i' = i + 1 /\ cleared' = cleared
      BY <1>3, <2>1 DEF SkipEntry, AtEntry
    <3>2. \A k \in DOMAIN given : IsMemory(given[k]) => (k < i' <=> k < i)
      BY <1>3, <3>1
    <3>3. \A k \in DOMAIN given : IsMemory(given[k]) => SoFar(j, k)' = SoFar(j, k)
      BY <1>6, <3>1, <3>2 DEF SoFar
    <3> QED BY <1>7, <1>9, <3>1, <3>3
  <2>2. CASE EnterRegion
    <3>1. /\ phase = "clear" /\ phase' = "bits" /\ i \in DOMAIN given /\ IsMemory(given[i])
          /\ i' = i /\ page' = From(j, i) /\ cleared' = cleared
      BY <1>3, <2>2 DEF EnterRegion, AtEntry
    <3>2. \A n \in Bits(j, i) : ~(n < page')
      BY <1>3, <1>8, <3>1
    <3>3. \A k \in DOMAIN given : SoFar(j, k)' = SoFar(j, k)
      BY <1>6, <3>1, <3>2 DEF SoFar
    <3>4. page' \in From(j, i) .. First(i) + Count(i) + 1
      BY <1>3, <3>1
    <3> QED BY <1>7, <1>9, <3>1, <3>3, <3>4
  <2>3. CASE ClearBit
    <3>1. /\ phase = "bits" /\ phase' = "bits" /\ i \in DOMAIN given /\ IsMemory(given[i])
          /\ i' = i /\ page' = page + 1 /\ cleared' = cleared \cup {page}
          /\ page <= First(i) + Count(i)
      BY <1>0, <1>3, <2>3 DEF ClearBit, LastBit
    <3>2. page \in Bits(j, i) /\ page' \in From(j, i) .. First(i) + Count(i) + 1
      BY <1>2, <1>3, <3>1 DEF Bits
    <3>3. \A n \in Bits(j, i) : n < page' <=> n < page \/ n = page
      BY <1>3, <1>8, <3>1
    <3>4. SoFar(j, i)' = SoFar(j, i) \cup {page}
      <4> DEFINE B == Bits(j, i)
      <4>1. PICK l \in DOMAIN given : l = i
        BY <3>1
      <4>2. /\ SoFar(j, l)' = {n \in Bits(j, l) : l < i \/ n < page'}
            /\ SoFar(j, l) = {n \in Bits(j, l) : l < i \/ n < page}
        BY <1>6, <3>1, <4>1 DEF SoFar
      <4>3. SoFar(j, l)' = SoFar(j, l) \cup {page}
        BY <3>2, <3>3, <4>1, <4>2
      <4>4. SoFar(j, i)' = SoFar(j, l)'
        BY <3>1, <4>1
      <4> QED BY <4>1, <4>3, <4>4
    <3>5. \A k \in DOMAIN given : k # i => SoFar(j, k)' = SoFar(j, k)
      BY <1>6, <3>1 DEF SoFar
    <3> QED BY <1>7, <1>9, <3>1, <3>2, <3>4, <3>5
  <2>4. CASE LeaveRegion
    <3>1. /\ phase = "bits" /\ phase' = "clear" /\ i \in DOMAIN given /\ IsMemory(given[i])
          /\ i' = i + 1 /\ page > First(i) + Count(i) /\ cleared' = cleared
      BY <1>0, <1>3, <2>4 DEF LeaveRegion, LastBit
    <3>2. \A n \in Bits(j, i) : n < page
      BY <1>3, <1>8, <3>1
    <3>3. \A k \in DOMAIN given : k < i' <=> k < i \/ k = i
      BY <1>3, <3>1
    <3>4. \A k \in DOMAIN given : SoFar(j, k)' = SoFar(j, k)
      BY <1>6, <3>1, <3>2, <3>3 DEF SoFar
    <3> QED BY <1>7, <1>9, <3>1, <3>4
  <2>5. CASE Finish
    <3>1. /\ phase = "clear" /\ phase' = "done" /\ i \notin DOMAIN given /\ i' = i /\ cleared' = cleared
      BY <1>3, <2>5 DEF Finish, AtEnd
    <3>2. \A k \in DOMAIN given : SoFar(j, k)' = SoFar(j, k)
      BY <1>6, <3>1 DEF SoFar
    <3> QED BY <1>7, <1>9, <3>1, <3>2
  <2> QED BY <2>1, <2>2, <2>3, <2>4, <2>5
<1>11. (\E l \in DOMAIN given : /\ Placed(l) /\ Cleared(l)
                                /\ phase = "bits" => page \in From(l, i) .. First(i) + Count(i) + 1)'
  <2>1. phase' = "bits" => page' \in From(j, i)' .. First(i)' + Count(i)' + 1
    BY <1>1, <1>10 DEF From, First, Count, BitmapCount
  <2> QED BY <1>1, <1>5, <1>10, <2>1
<1>12. (phase = "bits" => i \in DOMAIN given /\ IsMemory(given[i]))'
  BY <1>1, <1>10 DEF IsMemory
<1>13. (phase = "done" => i \notin DOMAIN given)'
  BY <1>1, <1>10
<1>14. (bitmapSize = DIV_CEIL(lastUsablePage \div PAGE_SIZE, 8))'
  BY <1>0, <1>1
<1> QED BY <1>4, <1>5, <1>11, <1>12, <1>13, <1>14 DEF IInv, InLoops

(* A step outside init changes none of it.                                 *)
LEMMA StutterIInv ==
  ASSUME IInv, UNCHANGED vars
  PROVE  IInv'
<1>1. UNCHANGED <<given, mmap, lastUsablePage, bitmapSize, bitmap>>
  BY DEF vars
<1>2. phase' = phase /\ i' = i /\ page' = page /\ cleared' = cleared
  BY DEF vars
<1>3. Types0' /\ (TopOf(i)' <=> TopOf(i)) /\ (TopOf(Len(given) + 1)' <=> TopOf(Len(given) + 1))
  BY <1>1, <1>2 DEF IInv, Types0, TopOf
<1>4. \A j \in DOMAIN given : (Placed(j)' <=> Placed(j)) /\ (Cleared(j)' <=> Cleared(j))
  <2>1. \A j, k : SoFar(j, k)' = SoFar(j, k)
    BY <1>1, <1>2, PlacedKept DEF SoFar
  <2>2. ASSUME NEW j PROVE Cleared(j)' <=> Cleared(j)
    BY <1>1, <1>2, <2>1, ClearedMember
  <2> QED BY <1>1, <2>2, PlacedKept
<1>5. \A j : From(j, i)' = From(j, i) /\ First(i)' = First(i) /\ Count(i)' = Count(i)
  BY <1>1, <1>2 DEF From, First, Count, BitmapCount
<1> QED BY <1>1, <1>2, <1>3, <1>4, <1>5 DEF IInv, InLoops, IsMemory

(* IInv is an invariant of PMM::init.                                      *)
LEMMA SpecIInv == Spec => []IInv
<1>1. IInv /\ [Next]_vars => IInv'
  BY TopStep, PlaceStep, ClearStep, StutterIInv DEF Next
<1> QED BY InitIInv, <1>1, PTL DEF Spec

-----------------------------------------------------------------------------
(* What the map and the bitmap look like at the end, in frames.            *)
LEMMA DoneFacts ==
  ASSUME IInv, phase = "done"
  PROVE  \E j \in DOMAIN given :
           /\ IsMemory(given[j]) /\ BitmapCount \in Nat /\ BitmapCount <= Count(j)
           /\ bitmap \div PAGE_SIZE = First(j)
           /\ BitmapFrames = First(j) .. First(j) + BitmapCount - 1
           /\ \A n : n \in cleared <=>
                \E k \in DOMAIN given : IsMemory(given[k]) /\ n \in Bits(j, k)
<1>1. PICK j \in DOMAIN given : Placed(j) /\ Cleared(j)
  BY DEF IInv, InLoops
<1>2. Types0 /\ given \in MMaps /\ i \notin DOMAIN given /\ i \in Nat \ {0}
  BY DEF IInv, InLoops, Types0
<1>3. IsMemory(given[j]) /\ BitmapCount \in Nat /\ BitmapCount <= Count(j)
  BY <1>1, <1>2, PlacedFacts DEF Placed
<1>4. bitmap \div PAGE_SIZE = First(j)
  BY <1>1 DEF Placed, First
<1>5. BitmapFrames = First(j) .. First(j) + BitmapCount - 1
  BY <1>4 DEF BitmapFrames, BitmapCount
<1>6. \A k \in DOMAIN given : SoFar(j, k) = Bits(j, k)
  <2>1. \A k \in DOMAIN given : k < i
    BY <1>2, MapFacts
  <2> QED BY <2>1 DEF SoFar
<1> QED BY <1>1, <1>3, <1>4, <1>5, <1>6, ClearedMember

(* A bit of region k is never one of the bitmap's frames, but for the end  *)
(* frame of a region directly below the bitmap.                            *)
LEMMA BitsOutside ==
  ASSUME given \in MMaps, NEW j \in DOMAIN given, NEW k \in DOMAIN given,
         IsMemory(given[j]), IsMemory(given[k]),
         BitmapCount \in Nat, BitmapCount <= Count(j),
         NEW n \in Bits(j, k)
  PROVE  /\ n \in Int /\ From(j, k) <= n /\ n <= First(k) + Count(k)
         /\ \/ n \notin First(j) .. First(j) + BitmapCount - 1
            \/ n = First(j) /\ n = First(k) + Count(k)
<1>1. /\ First(j) \in Nat /\ Count(j) \in Nat /\ First(k) \in Nat /\ Count(k) \in Nat
      /\ j \in Int /\ k \in Int
      /\ k < j => First(k) + Count(k) <= First(j)
      /\ j < k => First(j) + Count(j) <= First(k)
  BY MapFacts
<1>2. From(j, k) = First(k) + (IF k = j THEN BitmapCount ELSE 0)
  BY DEF From
<1>3. n \in Int /\ From(j, k) <= n /\ n <= First(k) + Count(k)
  BY <1>1, <1>2 DEF Bits
<1>4. CASE k = j
  BY <1>1, <1>2, <1>3, <1>4
<1>5. CASE k < j
  BY <1>1, <1>2, <1>3, <1>5
<1>6. CASE j < k
  BY <1>1, <1>2, <1>3, <1>6
<1> QED BY <1>1, <1>3, <1>4, <1>5, <1>6

(* The frames of a region of memory.                                       *)
LEMMA FramesOfRegion ==
  ASSUME given \in MMaps, NEW k \in DOMAIN given, IsMemory(given[k])
  PROVE  Frames(given[k]) = First(k) .. First(k) + Count(k) - 1
<1> DEFINE top == given[k].base + given[k].length
           n == First(k) + Count(k)
<1>1. /\ PAGE_SIZE \in Nat \ {0} /\ First(k) \in Nat /\ Count(k) \in Nat
      /\ given[k].base = PAGE_SIZE * First(k) /\ given[k].length = PAGE_SIZE * Count(k)
  BY MapFacts, PageAssumption
<1>2. top = PAGE_SIZE * n /\ top \in Nat /\ n \in Nat
  BY <1>1
<1> HIDE DEF top, n
<1>3. DIV_CEIL(top, PAGE_SIZE) = n
  <2>1. /\ DIV_CEIL(top, PAGE_SIZE) \in Nat /\ DIV_CEIL(top, PAGE_SIZE) <= n
        /\ PAGE_SIZE * n <= PAGE_SIZE * DIV_CEIL(top, PAGE_SIZE)
    BY <1>1, <1>2, DivCeil
  <2>2. n <= DIV_CEIL(top, PAGE_SIZE)
    BY <1>1, <1>2, <2>1
  <2> QED BY <1>2, <2>1, <2>2
<1>4. Frames(given[k]) = First(k) .. DIV_CEIL(top, PAGE_SIZE) - 1
  BY DEF Frames, First, top
<1>5. n = First(k) + Count(k)
  BY DEF n
<1> QED BY <1>1, <1>2, <1>3, <1>4, <1>5

(* After init exactly the bits of the frames the bootloader gave away and  *)
(* the bitmap does not occupy are clear, and that of the frame after each  *)
(* region, whatever the memory map.                                        *)
THEOREM InitClearedExact == Spec => []ClearedExact
<1>1. ASSUME IInv, phase = "done" PROVE cleared = Usable \cup EndFrames
  <2>1. PICK j \in DOMAIN given :
          /\ IsMemory(given[j]) /\ BitmapCount \in Nat /\ BitmapCount <= Count(j)
          /\ BitmapFrames = First(j) .. First(j) + BitmapCount - 1
          /\ \A n : n \in cleared <=>
               \E k \in DOMAIN given : IsMemory(given[k]) /\ n \in Bits(j, k)
    BY <1>1, DoneFacts
  <2>2. given \in MMaps
    BY <1>1 DEF IInv, Types0
  <2>3. \A k \in DOMAIN given : IsMemory(given[k]) =>
          /\ First(k) \in Nat /\ Count(k) \in Nat
          /\ (given[k].base + given[k].length) \div PAGE_SIZE = First(k) + Count(k)
          /\ Frames(given[k]) = First(k) .. First(k) + Count(k) - 1
    BY <2>2, MapFacts, FramesOfRegion
  <2>4. \A n : n \in EndFrames <=>
          \E k \in DOMAIN given : IsMemory(given[k]) /\ n = First(k) + Count(k)
    BY <2>3 DEF EndFrames
  <2>5. \A n : n \in Usable <=>
          /\ n \notin BitmapFrames
          /\ \E k \in DOMAIN given : IsMemory(given[k]) /\ n \in Frames(given[k])
    BY DEF Usable, FramesOf, IsMemory
  <2>6. ASSUME NEW n \in cleared PROVE n \in Usable \cup EndFrames
    <3>1. PICK k \in DOMAIN given : IsMemory(given[k]) /\ n \in Bits(j, k)
      BY <2>1
    <3>2. /\ n \in Int /\ From(j, k) <= n /\ n <= First(k) + Count(k)
          /\ n \notin BitmapFrames \/ n = First(k) + Count(k)
      BY <2>1, <2>2, <3>1, BitsOutside
    <3>3. First(k) <= n
      <4>1. First(k) \in Nat /\ BitmapCount \in Nat
        BY <2>1, <2>3, <3>1
      <4> QED BY <3>2, <4>1 DEF From
    <3>4. n = First(k) + Count(k) \/ n \in First(k) .. First(k) + Count(k) - 1
      BY <2>3, <3>1, <3>2, <3>3
    <3> QED BY <2>3, <2>4, <2>5, <3>1, <3>2, <3>4
  <2>7. ASSUME NEW n \in EndFrames PROVE n \in cleared
    <3>1. PICK k \in DOMAIN given : IsMemory(given[k]) /\ n = First(k) + Count(k)
      BY <2>4
    <3>2. n \in Bits(j, k)
      BY <2>1, <2>3, <3>1 DEF Bits, From
    <3> QED BY <2>1, <3>1, <3>2
  <2>8. ASSUME NEW n \in Usable PROVE n \in cleared
    <3>1. PICK k \in DOMAIN given : IsMemory(given[k]) /\ n \in Frames(given[k])
      BY <2>5
    <3>2. n \in First(k) .. First(k) + Count(k) - 1 /\ n \notin First(j) .. First(j) + BitmapCount - 1
      BY <2>1, <2>3, <2>5, <3>1
    <3>3. n \in Bits(j, k)
      BY <2>1, <2>3, <3>1, <3>2 DEF Bits, From
    <3> QED BY <2>1, <3>1, <3>3
  <2> QED BY <2>6, <2>7, <2>8
<1>2. IInv => ClearedExact
  BY <1>1 DEF ClearedExact
<1> QED BY SpecIInv, <1>2, PTL

(* init leaves the frames of the bitmap marked, so that alloc never gives  *)
(* them out, except the first one under a usable region.                   *)
THEOREM InitBitmapReserved == Spec => []BitmapReserved
<1>1. ASSUME IInv, phase = "done", NEW f \in BitmapFrames \cap cleared
      PROVE  f = bitmap \div PAGE_SIZE /\ f \in EndFrames
  <2>1. PICK j \in DOMAIN given :
          /\ IsMemory(given[j]) /\ BitmapCount \in Nat /\ BitmapCount <= Count(j)
          /\ bitmap \div PAGE_SIZE = First(j)
          /\ BitmapFrames = First(j) .. First(j) + BitmapCount - 1
          /\ \A n : n \in cleared <=>
               \E k \in DOMAIN given : IsMemory(given[k]) /\ n \in Bits(j, k)
    BY <1>1, DoneFacts
  <2>2. given \in MMaps
    BY <1>1 DEF IInv, Types0
  <2>3. PICK k \in DOMAIN given : IsMemory(given[k]) /\ f \in Bits(j, k)
    BY <1>1, <2>1
  <2>4. f = First(j) /\ f = First(k) + Count(k)
    BY <1>1, <2>1, <2>2, <2>3, BitsOutside
  <2>5. First(k) + Count(k) = (given[k].base + given[k].length) \div PAGE_SIZE
    BY <2>2, <2>3, MapFacts
  <2> QED BY <2>1, <2>3, <2>4, <2>5 DEF EndFrames
<1>2. IInv => BitmapReserved
  BY <1>1 DEF BitmapReserved
<1> QED BY SpecIInv, <1>2, PTL

(* init clears no bit beyond the bitmap, unless a region ends on the frame *)
(* of the top and that is the first beyond the bitmap, or reclaimable      *)
(* memory lies above the top; wherever the kernel, the modules and the     *)
(* reserved entries start and end.                                         *)
THEOREM InitWritesInside == Spec => []WritesInside
<1>1. ASSUME IInv, phase = "done", NEW b \in cleared, ~(b < bitmapSize * 8)
      PROVE  \E k \in DOMAIN given :
               /\ IsMemory(given[k])
               /\ LET top == given[k].base + given[k].length
                  IN  \/ /\ top \div PAGE_SIZE = lastUsablePage \div PAGE_SIZE
                         /\ (top \div PAGE_SIZE) % 8 = 0
                      \/ given[k].type = "reclaimable" /\ top > lastUsablePage
  <2>1. PICK j \in DOMAIN given :
          /\ IsMemory(given[j]) /\ BitmapCount \in Nat /\ BitmapCount <= Count(j)
          /\ \A n : n \in cleared <=>
               \E k \in DOMAIN given : IsMemory(given[k]) /\ n \in Bits(j, k)
    BY <1>1, DoneFacts
  <2>2. /\ given \in MMaps /\ TopOf(Len(given) + 1)
        /\ lastUsablePage \in Nat /\ bitmapSize \in Nat
        /\ bitmapSize = DIV_CEIL(lastUsablePage \div PAGE_SIZE, 8)
    BY <1>1 DEF IInv, Types0, InLoops
  <2>3. PICK k \in DOMAIN given : IsMemory(given[k]) /\ b \in Bits(j, k)
    BY <2>1
  <2> DEFINE top == given[k].base + given[k].length
  <2>4. SUFFICES ASSUME ~(top > lastUsablePage)
                 PROVE  /\ top \div PAGE_SIZE = lastUsablePage \div PAGE_SIZE
                        /\ (top \div PAGE_SIZE) % 8 = 0
    <3>1. k < Len(given) + 1 /\ top \in Nat
      BY <2>2, MapFacts
    <3>2. top > lastUsablePage => given[k].type = "reclaimable"
      BY <2>2, <2>3, <3>1 DEF TopOf, IsMemory
    <3> QED BY <2>3, <3>2
  <2>5. /\ First(k) \in Nat /\ Count(k) \in Nat /\ given[k].base \in Nat /\ given[k].length \in Nat
        /\ top \div PAGE_SIZE = First(k) + Count(k)
    BY <2>2, <2>3, MapFacts
  <2>6. b \in Int /\ b <= top \div PAGE_SIZE
    BY <2>1, <2>2, <2>3, <2>5, BitsOutside
  <2>7. top \in Nat /\ top <= lastUsablePage /\ top \div PAGE_SIZE \in Nat
    BY <2>2, <2>4, <2>5
  <2>8. lastUsablePage \div PAGE_SIZE \in Nat /\ top \div PAGE_SIZE <= lastUsablePage \div PAGE_SIZE
    BY <2>2, <2>7, PageAssumption, DivMonotonic
  <2>9. lastUsablePage \div PAGE_SIZE <= 8 * bitmapSize
    BY <2>2, <2>8, DivCeil
  <2>10. top \div PAGE_SIZE = lastUsablePage \div PAGE_SIZE /\ top \div PAGE_SIZE = 8 * bitmapSize
    BY <1>1, <2>2, <2>6, <2>7, <2>8, <2>9
  <2> QED BY <2>2, <2>7, <2>10
<1>2. IInv => WritesInside
  BY <1>1 DEF WritesInside
<1> QED BY SpecIInv, <1>2, PTL
=============================================================================
