-------------------------------- MODULE Heap --------------------------------
(***************************************************************************)
(* The kernel heap (kernel/memory/heap.cpp): a buddy allocator over one    *)
(* block of 2^MAX_POWER bytes, with a list of free blocks per order and a  *)
(* header in front of every block that holds its size.  operator new and   *)
(* operator delete are kmalloc and kfree.                                  *)
(*                                                                         *)
(* Sizes and addresses are counted in blocks of the smallest order kmalloc *)
(* ever uses (32 bytes: the 24 byte header does not fit the order below),  *)
(* so order 0 of the model is order 5 of the code.  The lists are          *)
(* sequences; every split and every iteration of try_to_merge is a step.   *)
(* A block kmalloc returned is passed to kfree once, by any client.        *)
(***************************************************************************)
EXTENDS Integers, Sequences, FiniteSets

CONSTANTS Client,   \* the threads that use new and delete
          MAX,      \* MAX_POWER
          Bases     \* the addresses PMM::alloc may return for the heap

ASSUME HeapAssumption == MAX \in Nat /\ Bases \subseteq Nat

Order == 0 .. MAX

(* 1 << order.                                                             *)
power[o \in Order] == IF o = 0 THEN 1 ELSE 2 * power[o - 1]
Size(o) == power[o]

VARIABLES base,       \* baseAddr
          bucketList, \* bucketList[o]: the free blocks of order o, head first
          header,     \* header[a]: the order that block a's size field says, 0
                      \* where no block starts
          heap_lock,
          pc, arg,    \* where each client is; the order or block it works on
          t,          \* t[c]: the order kmalloc splits, or kfree merges
          cur, idx,   \* try_to_merge's curr, as a list position, and its i
          merged,     \* what try_to_merge will return
          live,       \* the blocks kmalloc returned and nobody passed to kfree
          failed      \* clients whose kmalloc returned nullptr

vars == <<base, bucketList, header, heap_lock, pc, arg, t, cur, idx, merged,
          live, failed>>

Addr == base .. base + Size(MAX) - 1
None == 0

Init ==
  /\ base \in Bases
  /\ bucketList = [o \in Order |-> IF o = MAX THEN <<base>> ELSE <<>>]
  /\ header = [a \in Addr |-> IF a = base THEN MAX ELSE 0]
  /\ heap_lock = FALSE
  /\ pc = [c \in Client |-> "idle"]
  /\ arg = [c \in Client |-> None]
  /\ t = [c \in Client |-> 0]
  /\ cur = 1 /\ idx = 0 /\ merged = FALSE
  /\ live = {}
  /\ failed = {}

Goto(c, l) == pc' = [pc EXCEPT ![c] = l]
Return(c) ==
  /\ Goto(c, "idle")
  /\ arg' = [arg EXCEPT ![c] = None]
  /\ t' = [t EXCEPT ![c] = 0]

-----------------------------------------------------------------------------
(* kmalloc                                                                 *)

CallMalloc(c, o) ==
  /\ pc[c] = "idle"
  /\ Goto(c, "kmalloc")
  /\ arg' = [arg EXCEPT ![c] = o]
  /\ UNCHANGED <<base, bucketList, header, heap_lock, t, cur, idx, merged, live, failed>>

(* Line 185 to the test at 187: with an empty list the search for a larger *)
(* block starts one order up.                                              *)
AcquireMalloc(c) ==
  /\ pc[c] = "kmalloc"
  /\ ~heap_lock /\ heap_lock' = TRUE
  /\ IF bucketList[arg[c]] = <<>>
     THEN Goto(c, "up") /\ t' = [t EXCEPT ![c] = arg[c] + 1]
     ELSE Goto(c, "take") /\ UNCHANGED t
  /\ UNCHANGED <<base, bucketList, header, arg, cur, idx, merged, live, failed>>

(* Seeded change: the second half starts where the block ends.             *)
SplitPastEnd(o) ==
  LET block == Head(bucketList[o])
      block2 == block + Size(o)
  IN  /\ bucketList' = [bucketList EXCEPT ![o] = Tail(@), ![o - 1] = <<block, block2>> \o @]
      /\ header' = [header EXCEPT ![block] = o - 1, ![block2] = o - 1]

(* split_block(o), o > 0, when the list of order o is not empty.           *)
Split(o) ==
  LET block == Head(bucketList[o])
      block2 == block + Size(o) \div 2
  IN  /\ bucketList' = [bucketList EXCEPT ![o] = Tail(@), ![o - 1] = <<block, block2>> \o @]
      /\ header' = [header EXCEPT ![block] = o - 1, ![block2] = o - 1]

(* Lines 190-192: an order with no free block; look one higher.            *)
SearchUp(c) ==
  /\ pc[c] = "up"
  /\ t[c] < MAX
  /\ bucketList[t[c]] = <<>>
  /\ t' = [t EXCEPT ![c] = @ + 1]
  /\ UNCHANGED <<base, bucketList, header, heap_lock, pc, arg, cur, idx, merged, live, failed>>

(* Line 191: nullptr, with the lock still held.  A request of the highest  *)
(* order makes split_block(MAX + 1) read the word in front of the array,   *)
(* which is zero: it ends here too.                                        *)
SearchFails(c) ==
  /\ pc[c] = "up"
  /\ t[c] >= MAX
  /\ t[c] = MAX => bucketList[t[c]] = <<>>
  /\ failed' = failed \cup {c}
  /\ Return(c)
  /\ UNCHANGED <<base, bucketList, header, heap_lock, cur, idx, merged, live>>

SplitFound(c) ==
  /\ pc[c] = "up"
  /\ t[c] <= MAX
  /\ bucketList[t[c]] # <<>>
  /\ Split(t[c])
  /\ t' = [t EXCEPT ![c] = @ - 1]
  /\ Goto(c, "down")
  /\ UNCHANGED <<base, heap_lock, arg, cur, idx, merged, live, failed>>

(* Lines 194-197: split on the way down to the order asked for.            *)
SplitDown(c) ==
  /\ pc[c] = "down"
  /\ t[c] > arg[c]
  /\ Split(t[c])
  /\ t' = [t EXCEPT ![c] = @ - 1]
  /\ UNCHANGED <<base, heap_lock, pc, arg, cur, idx, merged, live, failed>>

DownDone(c) ==
  /\ pc[c] = "down"
  /\ t[c] <= arg[c]
  /\ Goto(c, "take")
  /\ UNCHANGED <<base, bucketList, header, heap_lock, arg, t, cur, idx, merged, live, failed>>

(* Seeded change: the block stays on its list.                             *)
TakeKeepsListed(c) ==
  /\ pc[c] = "take"
  /\ live' = live \cup {Head(bucketList[arg[c]])}
  /\ heap_lock' = FALSE
  /\ Return(c)
  /\ UNCHANGED <<base, bucketList, header, cur, idx, merged, failed>>

Take(c) ==
  /\ pc[c] = "take"
  /\ live' = live \cup {Head(bucketList[arg[c]])}
  /\ bucketList' = [bucketList EXCEPT ![arg[c]] = Tail(@)]
  /\ heap_lock' = FALSE
  /\ Return(c)
  /\ UNCHANGED <<base, header, cur, idx, merged, failed>>

-----------------------------------------------------------------------------
(* kfree                                                                   *)

(* Lines 211-221: the order comes from the header, before the lock.        *)
CallFree(c, a) ==
  /\ pc[c] = "idle"
  /\ a \in live
  /\ live' = live \ {a}
  /\ Goto(c, "kfree")
  /\ arg' = [arg EXCEPT ![c] = a]
  /\ t' = [t EXCEPT ![c] = header[a]]
  /\ UNCHANGED <<base, bucketList, header, heap_lock, cur, idx, merged, failed>>

(* try_to_merge starts with curr at the head of the list.                  *)
StartMerge == cur' = 1 /\ idx' = 0 /\ merged' = FALSE

(* Seeded change: kfree puts the block on its list without waiting for the *)
(* lock.                                                                   *)
AcquireFreeUnlocked(c) ==
  /\ pc[c] = "kfree"
  /\ heap_lock' = TRUE
  /\ bucketList' = [bucketList EXCEPT ![t[c]] = <<arg[c]>> \o @]
  /\ Goto(c, "merge")
  /\ StartMerge
  /\ UNCHANGED <<base, header, arg, t, live, failed>>

AcquireFree(c) ==
  /\ pc[c] = "kfree"
  /\ ~heap_lock /\ heap_lock' = TRUE
  /\ bucketList' = [bucketList EXCEPT ![t[c]] = <<arg[c]>> \o @]
  /\ Goto(c, "merge")
  /\ StartMerge
  /\ UNCHANGED <<base, header, arg, t, live, failed>>

(* curr ^ (1 << order), on absolute addresses.                             *)
Buddy(a, o) == IF (a \div Size(o)) % 2 = 0 THEN a + Size(o) ELSE a - Size(o)

(* Seeded change: the buddy is always the block above.                     *)
find_buddyAbove(o, k) ==
  LET list == bucketList[o]
      Pos == {p \in DOMAIN list : k < Len(list) /\ list[p] = list[k + 1] + Size(o)}
  IN  IF Pos = {} THEN 0 ELSE CHOOSE p \in Pos : \A q \in Pos : p <= q

(* find_buddy(o, k): the list position of the buddy of the k-th block from *)
(* the head, 0 if it has none (the code counts from 0 and returns -1).     *)
find_buddy(o, k) ==
  LET list == bucketList[o]
      Pos == {p \in DOMAIN list : k < Len(list) /\ list[p] = Buddy(list[k + 1], o)}
  IN  IF Pos = {} THEN 0 ELSE CHOOSE p \in Pos : \A q \in Pos : p <= q

Merging(c) == pc[c] = "merge" /\ t[c] < MAX

Without(s, p, q) ==
  [k \in 1 .. Len(s) - 2 |->
     LET lo == IF p < q THEN p ELSE q
         hi == IF p < q THEN q ELSE p
     IN  IF k < lo THEN s[k] ELSE IF k + 1 < hi THEN s[k + 1] ELSE s[k + 2]]

(* Lines 129-165: curr and the buddy leave the list, the lower of them     *)
(* joins the list above; curr moves on to the next block and i is counted  *)
(* up although the list became shorter.                                    *)
Merge(c) ==
  LET o == t[c]
      list == bucketList[o]
      b == find_buddy(o, idx)
  IN  /\ Merging(c)
      /\ cur <= Len(list) /\ idx <= Len(list)
      /\ b > cur
      /\ LET lower == IF list[b] > list[cur] THEN list[cur] ELSE list[b]
             upper == IF list[b] > list[cur] THEN list[b] ELSE list[cur]
         IN  /\ bucketList' = [bucketList EXCEPT ![o] = Without(@, cur, b),
                                                 ![o + 1] = <<lower>> \o @]
             /\ header' = [header EXCEPT ![lower] = o + 1, ![upper] = 0]
      /\ idx' = idx + 1 /\ merged' = TRUE
      /\ UNCHANGED <<base, heap_lock, pc, arg, t, cur, live, failed>>

(* Seeded change: curr does not move on.                                   *)
NoBuddyStays(c) ==
  /\ Merging(c)
  /\ cur <= Len(bucketList[t[c]]) /\ idx <= Len(bucketList[t[c]])
  /\ find_buddy(t[c], idx) = 0
  /\ idx' = idx + 1
  /\ UNCHANGED <<base, bucketList, header, heap_lock, pc, arg, t, cur, merged, live, failed>>

(* Lines 167-168.                                                          *)
NoBuddy(c) ==
  /\ Merging(c)
  /\ cur <= Len(bucketList[t[c]]) /\ idx <= Len(bucketList[t[c]])
  /\ find_buddy(t[c], idx) = 0
  /\ cur' = cur + 1 /\ idx' = idx + 1
  /\ UNCHANGED <<base, bucketList, header, heap_lock, pc, arg, t, merged, live, failed>>

(* Line 228: try the next order as long as this one merged.                *)
NextOrder(c) ==
  /\ Merging(c)
  /\ cur > Len(bucketList[t[c]])
  /\ merged
  /\ t' = [t EXCEPT ![c] = @ + 1]
  /\ StartMerge
  /\ UNCHANGED <<base, bucketList, header, heap_lock, pc, arg, live, failed>>

(* Seeded change: only the order of the freed block is merged.             *)
FreeDoneEarly(c) ==
  /\ pc[c] = "merge"
  /\ t[c] >= MAX \/ cur > Len(bucketList[t[c]])
  /\ heap_lock' = FALSE
  /\ cur' = 1 /\ idx' = 0 /\ merged' = FALSE
  /\ Return(c)
  /\ UNCHANGED <<base, bucketList, header, live, failed>>

FreeDone(c) ==
  /\ pc[c] = "merge"
  /\ \/ t[c] >= MAX
     \/ (cur > Len(bucketList[t[c]]) /\ ~merged)
  /\ heap_lock' = FALSE
  /\ cur' = 1 /\ idx' = 0 /\ merged' = FALSE
  /\ Return(c)
  /\ UNCHANGED <<base, bucketList, header, live, failed>>

-----------------------------------------------------------------------------
Step(c) ==
  \/ AcquireMalloc(c) \/ SearchUp(c) \/ SearchFails(c) \/ SplitFound(c)
  \/ SplitDown(c) \/ DownDone(c) \/ Take(c)
  \/ AcquireFree(c) \/ Merge(c) \/ NoBuddy(c) \/ NextOrder(c) \/ FreeDone(c)

Next ==
  \E c \in Client :
    \/ \E o \in Order : CallMalloc(c, o)
    \/ \E a \in live : CallFree(c, a)
    \/ Step(c)

Spec == Init /\ [][Next]_vars

(* A preempted client runs again.                                          *)
FairSpec == Spec /\ \A c \in Client : WF_vars(Step(c))

-----------------------------------------------------------------------------
(* Properties                                                              *)

TypeOK ==
  /\ base \in Bases
  /\ bucketList \in [Order -> Seq(Addr)]
  /\ header \in [Addr -> Order]
  /\ heap_lock \in BOOLEAN
  /\ pc \in [Client -> {"idle", "kmalloc", "up", "down", "take", "kfree", "merge"}]
  /\ t \in [Client -> 0 .. MAX + 1]
  /\ live \subseteq Addr
  /\ failed \subseteq Client

Covers(a, o, x) == a <= x /\ x < a + Size(o)

FreePlaces == {fp \in Order \X (1 .. Size(MAX)) : fp[2] <= Len(bucketList[fp[1]])}
Leaving == {c \in Client : pc[c] = "kfree"}

(* The free blocks on the lists, the blocks the callers have and those on  *)
(* their way back, each as long as its list or its header says, cover      *)
(* every byte of the heap exactly once, between any two steps of a split   *)
(* or a merge and whatever the alignment of the heap: nothing is lost and  *)
(* nothing overlaps.                                                       *)
Tiling ==
  /\ \A x \in Addr :
       Cardinality({fp \in FreePlaces : Covers(bucketList[fp[1]][fp[2]], fp[1], x)})
         + Cardinality({a \in live : Covers(a, header[a], x)})
         + Cardinality({c \in Leaving : Covers(arg[c], header[arg[c]], x)}) = 1
  /\ \A fp \in FreePlaces :
       /\ bucketList[fp[1]][fp[2]] + Size(fp[1]) <= base + Size(MAX)
       /\ header[bucketList[fp[1]][fp[2]]] = fp[1]

(* try_to_merge counts i up after a merge although the list lost two       *)
(* blocks, so i and curr no longer name the same block.  It does no harm:  *)
(* find_buddy never follows a null pointer, and whenever it finds a buddy, *)
(* the buddy is that of curr and comes after it, so that both leave the    *)
(* list.                                                                   *)
MergeSound ==
  \A c \in Client : Merging(c) /\ cur <= Len(bucketList[t[c]]) =>
    LET list == bucketList[t[c]]
        b == find_buddy(t[c], idx)
    IN  /\ idx <= Len(list)
        /\ b # 0 => b > cur /\ list[b] = Buddy(list[cur], t[c])

(* Between calls no free block has its buddy free as well; and a heap that *)
(* starts at a multiple of its size (PMM::alloc aligns it to a page only)  *)
(* is one block again when everything was freed.                           *)
FullyCoalesced ==
  ~heap_lock =>
    /\ \A o \in 0 .. MAX - 1 :
         \A p, q \in 1 .. Len(bucketList[o]) : bucketList[o][p] # Buddy(bucketList[o][q], o)
    /\ base % Size(MAX) = 0 /\ live = {} /\ Leaving = {} => bucketList[MAX] = <<base>>

Critical(c) == pc[c] \in {"up", "down", "take", "merge"}

(* The lists, and the variables of try_to_merge that all clients share,    *)
(* belong to one client at a time, whoever is preempted where: a client    *)
(* inside has the lock and no other is inside; and a lock that is held     *)
(* with nobody inside was left by a kmalloc that found no block.           *)
OneInside ==
  /\ \A c \in Client : Critical(c) => heap_lock
  /\ \A c, d \in Client : Critical(c) /\ Critical(d) => c = d
  /\ heap_lock => failed # {} \/ \E c \in Client : Critical(c)

(* The loops end: a client that has the lock gives it back or fails.       *)
LockReleased == \A c \in Client : Critical(c) ~> (~heap_lock \/ failed # {})
=============================================================================
