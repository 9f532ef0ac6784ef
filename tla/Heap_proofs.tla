---------------------------- MODULE Heap_proofs ----------------------------
(***************************************************************************)
(* The kernel heap is correct for every set of clients, every MAX_POWER    *)
(* and every address the heap may start at.                                *)
(*                                                                         *)
(* HeapInv is inductive.  Blocks is the set of the places where a block    *)
(* starts: on a list, in use, or on its way back.  Tiled says that blocks  *)
(* as long as their headers cover the heap without overlap, PlaceInv that  *)
(* a block is in one place only and has the order of its list, AlignInv    *)
(* what a heap that starts at a multiple of its size adds.  ListInv says   *)
(* how far the holder of the lock is: which list may hold a block and its  *)
(* buddy at the moment, and where in it.  LockInv is why there is only one *)
(* holder.                                                                 *)
(***************************************************************************)
EXTENDS Heap, NatSets, FunctionTheorems, SequenceTheorems, TLAPS

(* The lock has one holder, or for ever none after a failed kmalloc.       *)
Labels == {"idle", "kmalloc", "up", "down", "take", "kfree", "merge"}

LockInv ==
  /\ heap_lock \in BOOLEAN /\ failed \subseteq Client /\ pc \in [Client -> Labels]
  /\ heap_lock <=> (failed # {} \/ \E c \in Client : Critical(c))
  /\ \A c, d \in Client : Critical(c) /\ Critical(d) => c = d
  /\ \A c, d \in failed : c = d
  /\ failed # {} => \A c \in Client : ~Critical(c)

(* No two blocks of order o in a list, from position k + 1 on, are         *)
(* buddies; the blocks of the highest order have none.                     *)
Apart(o, s, k) ==
  o < MAX => \A p, q \in DOMAIN s : p > k /\ q > k => s[p] # Buddy(s[q], o)

(* The lists are coalesced, but for the head of that of order j.           *)
Coalesced(j) == \A o \in Order : Apart(o, bucketList[o], IF o = j THEN 1 ELSE 0)

NoOrder == -1

(* The orders below t down to the one asked for have no free block.        *)
EmptyBelow(c) == \A k \in arg[c] .. t[c] - 1 : bucketList[k] = <<>>

Searching(c) == t[c] \in arg[c] + 1 .. MAX + 1 /\ EmptyBelow(c) /\ Coalesced(NoOrder)

(* A block was split, and its halves are the only blocks of their order.   *)
Splitting(c) ==
  /\ t[c] \in arg[c] .. MAX - 1 /\ EmptyBelow(c)
  /\ Len(bucketList[t[c]]) = 2
  /\ \A o \in Order \ {t[c]} : Apart(o, bucketList[o], 0)

Taking(c) == bucketList[arg[c]] # <<>> /\ Coalesced(arg[c])

(* try_to_merge: at the head, which may have its buddy in the list; past   *)
(* it, having found none; or after it merged with its buddy, with i one    *)
(* ahead of curr and nothing left to find.                                 *)
MergeInv(c) ==
  /\ t[c] \in Order /\ idx \in Nat
  /\ \/ ~merged /\ cur = 1 /\ idx = 0 /\ bucketList[t[c]] # <<>> /\ Coalesced(t[c])
     \/ ~merged /\ idx > 0 /\ cur = idx + 1 /\ Coalesced(NoOrder)
     \/ /\ merged /\ t[c] < MAX /\ idx > 0 /\ cur = idx
        /\ bucketList[t[c] + 1] # <<>> /\ Coalesced(t[c] + 1)

ListInv ==
  /\ (\A c \in Client : ~Critical(c)) => Coalesced(NoOrder)
  /\ \A c \in Client :
       /\ pc[c] \in {"kmalloc", "up", "down", "take"} => arg[c] \in Order
       /\ pc[c] = "up" => Searching(c)
       /\ pc[c] = "down" => Splitting(c)
       /\ pc[c] = "take" => Taking(c)
       /\ pc[c] = "merge" => MergeInv(c)

(* Blocks that start at the addresses of B, as long as h says, tile the    *)
(* heap.                                                                   *)
Tiled(B, h) ==
  /\ \A a \in B : a + Size(h[a]) <= base + Size(MAX)
  /\ \A a, b \in B : a < b => a + Size(h[a]) <= b
  /\ \A x \in Addr : \E a \in B : Covers(a, h[a], x)

Listed == UNION {{bucketList[o][p] : p \in DOMAIN bucketList[o]} : o \in Order}
Returned == {arg[c] : c \in Leaving}
Blocks == Listed \cup live \cup Returned

(* Every block is in one place, and has the order its place says.          *)
PlaceInv ==
  /\ \A o \in Order : \A p \in DOMAIN bucketList[o] : header[bucketList[o][p]] = o
  /\ \A o \in Order : \A p, q \in DOMAIN bucketList[o] :
       bucketList[o][p] = bucketList[o][q] => p = q
  /\ live \cap Listed = {} /\ live \cap Returned = {} /\ Listed \cap Returned = {}
  /\ \A c \in Leaving : arg[c] \in Addr /\ t[c] = header[arg[c]]
  /\ \A c, d \in Leaving : arg[c] = arg[d] => c = d

Types ==
  /\ base \in Nat /\ base \in Bases
  /\ bucketList \in [Order -> Seq(Addr)] /\ header \in [Addr -> Order]
  /\ t \in [Client -> 0 .. MAX + 1] /\ DOMAIN arg = Client
  /\ live \subseteq Addr

(* In a heap aligned to its size every block is aligned to its own.        *)
AlignInv ==
  base % Size(MAX) = 0 => \A a \in Blocks : a % Size(header[a]) = 0

HeapInv ==
  LockInv /\ Types /\ ListInv /\ PlaceInv /\ Tiled(Blocks, header) /\ AlignInv

-----------------------------------------------------------------------------
(* power is defined for every order, and doubles.                          *)
LEMMA PowerRec ==
  /\ power[0] = 1
  /\ \A o \in 1 .. MAX : power[o] = 2 * power[o - 1]
<1> DEFINE Value(g, k) == IF k = 0 THEN 1 ELSE 2 * g[k - 1]
           Unfold(g, m) == [k \in 0 .. m |-> Value(g, k)]
           pw == CHOOSE g : g = Unfold(g, MAX)
           S == {m \in Nat : \E g : g = Unfold(g, m)}
<1>0. MAX \in Nat
  BY HeapAssumption
<1>1. power = pw
  BY DEF power, Order
<1>3. \A g : \A m \in Nat : \A k \in 0 .. m : Unfold(g, m)[k] = Value(g, k)
  OBVIOUS
<1>4. 0 \in S
  <2> DEFINE g == [k \in 0 .. 0 |-> 1]
  <2>1. g = Unfold(g, 0)
    OBVIOUS
  <2> QED BY <2>1
<1>5. ASSUME NEW m \in Nat, m \in S PROVE m + 1 \in S
  <2>1. PICK g : g = Unfold(g, m)
    BY <1>5
  <2> DEFINE h == [k \in 0 .. m + 1 |-> IF k = m + 1 THEN Value(g, k) ELSE g[k]]
  <2>2. ASSUME NEW k \in 0 .. m + 1 PROVE h[k] = Value(h, k)
    <3>1. k # 0 => h[k - 1] = g[k - 1]
      OBVIOUS
    <3>2. h[k] = Value(g, k)
      <4>1. CASE k = m + 1
        BY <4>1
      <4>2. CASE k \in 0 .. m
        <5>1. h[k] = g[k]
          BY <4>2
        <5> HIDE DEF h, Unfold, Value
        <5> QED BY <1>3, <2>1, <4>2, <5>1
      <4> QED BY <4>1, <4>2
    <3> HIDE DEF h
    <3> QED BY <3>1, <3>2
  <2>3. h = [k \in 0 .. m + 1 |-> h[k]]
    OBVIOUS
  <2>4. h = Unfold(h, m + 1)
    <3> HIDE DEF h, Value
    <3> QED BY <2>2, <2>3
  <2> HIDE DEF h, Unfold
  <2> QED BY <2>4
<1>6. Nat \subseteq S
  <2> HIDE DEF S
  <2> QED BY <1>4, <1>5, SetInduction
<1> HIDE DEF Unfold
<1>7. pw = Unfold(pw, MAX)
  BY <1>0, <1>6
<1> HIDE DEF pw
<1>8. \A k \in 0 .. MAX : pw[k] = Value(pw, k)
  <2> HIDE DEF Value
  <2> QED BY <1>0, <1>3, <1>7
<1> QED BY <1>0, <1>1, <1>8

(* The size of a block: positive, and twice that of the order below.       *)
LEMMA SizeFacts ==
  /\ MAX \in Nat /\ Order = 0 .. MAX
  /\ \A o \in Order : Size(o) \in Nat \ {0}
  /\ \A o \in Order : o < MAX => o + 1 \in Order /\ Size(o + 1) = 2 * Size(o)
  /\ \A o \in Order : o # 0 => /\ o - 1 \in Order /\ Size(o) = 2 * Size(o - 1)
                               /\ Size(o) \div 2 = Size(o - 1)
<1> DEFINE S == {m \in Nat : m <= MAX => power[m] \in Nat \ {0}}
<1>0. MAX \in Nat
  BY HeapAssumption
<1>1. 0 \in S
  BY PowerRec
<1>2. ASSUME NEW m \in Nat, m \in S PROVE m + 1 \in S
  <2> SUFFICES ASSUME m + 1 <= MAX PROVE power[m + 1] \in Nat \ {0}
    OBVIOUS
  <2>1. power[m] \in Nat \ {0} /\ power[m + 1] = 2 * power[m]
    BY <1>0, <1>2, PowerRec
  <2> QED BY <2>1
<1>3. Nat \subseteq S
  <2> HIDE DEF S
  <2> QED BY <1>1, <1>2, SetInduction
<1>4. \A o \in Order : Size(o) \in Nat \ {0}
  BY <1>0, <1>3 DEF Order, Size
<1>5. ASSUME NEW o \in Order, o < MAX PROVE o + 1 \in Order /\ Size(o + 1) = 2 * Size(o)
  BY <1>0, <1>5, PowerRec DEF Order, Size
<1>6. ASSUME NEW o \in Order, o # 0
      PROVE  o - 1 \in Order /\ Size(o) = 2 * Size(o - 1) /\ Size(o) \div 2 = Size(o - 1)
  <2>1. o - 1 \in Order /\ Size(o) = 2 * Size(o - 1)
    BY <1>0, <1>6, PowerRec DEF Order, Size
  <2>2. \A n \in Nat : (2 * n) \div 2 = n
    OBVIOUS
  <2> QED BY <1>4, <2>1, <2>2
<1> QED BY <1>0, <1>4, <1>5, <1>6 DEF Order

-----------------------------------------------------------------------------
(* The lock.  At first nobody holds it.                                    *)
LEMMA InitLock == Init => LockInv
BY DEF Init, LockInv, Labels, Critical

(* A step of client c either acquires the free lock, or keeps it, or gives *)
(* it back, or fails with it.                                              *)
LEMMA LockStep ==
  ASSUME LockInv, NEW c \in Client, NEW l \in Labels, pc' = [pc EXCEPT ![c] = l],
         \/ /\ ~Critical(c) /\ l \in {"kmalloc", "kfree"} /\ UNCHANGED <<heap_lock, failed>>
         \/ /\ ~heap_lock /\ heap_lock' = TRUE /\ l \in {"up", "take", "merge"} /\ failed' = failed
         \/ /\ Critical(c) /\ l \in {"up", "down", "take", "merge"} /\ UNCHANGED <<heap_lock, failed>>
         \/ /\ Critical(c) /\ l = "idle" /\ heap_lock' = FALSE /\ failed' = failed
         \/ /\ Critical(c) /\ l = "idle" /\ heap_lock' = heap_lock /\ failed' = failed \cup {c}
  PROVE  LockInv'
<1>1. \A d \in Client : Critical(d)' <=> IF d = c THEN l \in {"up", "down", "take", "merge"} ELSE Critical(d)
  BY DEF Critical, LockInv
<1>2. pc' \in [Client -> Labels]
  BY DEF LockInv
<1>3. CASE ~Critical(c) /\ l \in {"kmalloc", "kfree"} /\ UNCHANGED <<heap_lock, failed>>
  BY <1>1, <1>2, <1>3 DEF LockInv
<1>4. CASE ~heap_lock /\ heap_lock' = TRUE /\ l \in {"up", "take", "merge"} /\ failed' = failed
  BY <1>1, <1>2, <1>4 DEF LockInv
<1>5. CASE Critical(c) /\ l \in {"up", "down", "take", "merge"} /\ UNCHANGED <<heap_lock, failed>>
  BY <1>1, <1>2, <1>5 DEF LockInv
<1>6. CASE Critical(c) /\ l = "idle" /\ heap_lock' = FALSE /\ failed' = failed
  BY <1>1, <1>2, <1>6 DEF LockInv
<1>7. CASE Critical(c) /\ l = "idle" /\ heap_lock' = heap_lock /\ failed' = failed \cup {c}
  BY <1>1, <1>2, <1>7 DEF LockInv
<1> QED BY <1>3, <1>4, <1>5, <1>6, <1>7

(* Every step keeps the lock to one holder.                                *)
LEMMA NextLock == LockInv /\ [Next]_vars => LockInv'
<1> SUFFICES ASSUME LockInv, [Next]_vars PROVE LockInv'
  OBVIOUS
<1>1. CASE UNCHANGED vars
  BY <1>1 DEF LockInv, vars, Critical
<1>2. ASSUME NEW c \in Client, NEW o \in Order, CallMalloc(c, o) PROVE LockInv'
  BY <1>2, LockStep DEF CallMalloc, Goto, Critical, Labels
<1>3. ASSUME NEW c \in Client, NEW a \in live, CallFree(c, a) PROVE LockInv'
  BY <1>3, LockStep DEF CallFree, Goto, Critical, Labels
<1>4. ASSUME NEW c \in Client, Step(c) PROVE LockInv'
  <2>1. CASE AcquireMalloc(c)
    BY <2>1, LockStep DEF AcquireMalloc, Goto, Labels
  <2>2. CASE SearchUp(c) \/ SplitDown(c) \/ Merge(c) \/ NoBuddy(c) \/ NextOrder(c)
    <3>1. UNCHANGED <<heap_lock, failed, pc>>
      BY <2>2 DEF SearchUp, SplitDown, Merge, NoBuddy, NextOrder
    <3> QED BY <3>1 DEF LockInv, Critical
  <2>3. CASE SearchFails(c)
    BY <2>3, LockStep DEF SearchFails, Return, Goto, Critical, Labels
  <2>4. CASE SplitFound(c)
    BY <2>4, LockStep DEF SplitFound, Goto, Critical, Labels
  <2>5. CASE DownDone(c)
    BY <2>5, LockStep DEF DownDone, Goto, Critical, Labels
  <2>6. CASE Take(c)
    BY <2>6, LockStep DEF Take, Return, Goto, Critical, Labels
  <2>7. CASE AcquireFree(c)
    BY <2>7, LockStep DEF AcquireFree, Goto, Labels
  <2>8. CASE FreeDone(c)
    BY <2>8, LockStep DEF FreeDone, Return, Goto, Critical, Labels
  <2> QED BY <1>4, <2>1, <2>2, <2>3, <2>4, <2>5, <2>6, <2>7, <2>8 DEF Step
<1> QED BY <1>1, <1>2, <1>3, <1>4 DEF Next

(* The lock has one holder at most in every state.                         *)
LEMMA SpecLock == Spec => []LockInv
BY InitLock, NextLock, PTL DEF Spec

(* A set with at most one element has at most that cardinality.            *)
LEMMA AtMostOne ==
  ASSUME NEW S, \A x, y \in S : x = y
  PROVE  /\ IsFiniteSet(S) /\ Cardinality(S) \in {0, 1}
         /\ Cardinality(S) = 0 <=> S = {}
<1>1. CASE S = {}
  BY <1>1, FS_EmptySet
<1>2. CASE S # {}
  <2>1. PICK x : S = {x}
    BY <1>2
  <2>2. IsFiniteSet({x}) /\ Cardinality({x}) = 1
    BY FS_Singleton
  <2> QED BY <1>2, <2>1, <2>2
<1> QED BY <1>1, <1>2

(* One client at a time is inside the heap, with the lock; a lock without  *)
(* a client inside was left by a kmalloc that found no block.              *)
THEOREM HeapOneInside == Spec => []OneInside
<1>1. ASSUME LockInv PROVE OneInside
  BY <1>1 DEF LockInv, OneInside
<1> QED BY SpecLock, <1>1, PTL

-----------------------------------------------------------------------------
(* Buddies, lists and tilings.                                             *)

(* The buddy of a block is the block before or after it, and the other way *)
(* round.                                                                  *)
LEMMA BuddyFacts ==
  ASSUME NEW o \in Order, NEW a \in Nat
  PROVE  /\ Buddy(a, o) \in Nat /\ Buddy(a, o) # a
         /\ Buddy(a, o) = a + Size(o) \/ Buddy(a, o) = a - Size(o)
         /\ Buddy(Buddy(a, o), o) = a
<1> DEFINE S == Size(o)
<1>1. S \in Nat \ {0}
  BY SizeFacts
<1>2. \A x \in Int : Buddy(x, o) = IF (x \div S) % 2 = 0 THEN x + S ELSE x - S
  BY DEF Buddy
<1> HIDE DEF S
<1>5. (a + S) \div S = a \div S + 1 /\ a \div S \in Nat /\ (a - S) \div S = a \div S - 1
  BY <1>1
<1>6. CASE (a \div S) % 2 = 0
  <2>1. (a \div S + 1) % 2 = 1
    BY <1>5, <1>6
  <2>a. a \in Int /\ a + S \in Int /\ (a + S) - S = a
    BY <1>1
  <2>b. Buddy(a, o) = a + S
    BY <1>2, <1>6
  <2>c. ((a + S) \div S) % 2 # 0
    BY <1>5, <2>1
  <2>d. Buddy(a + S, o) = (a + S) - S
    BY <1>2, <2>a, <2>c
  <2>2. Buddy(a, o) = a + S /\ Buddy(a + S, o) = a
    BY <2>a, <2>b, <2>d
  <2> QED BY <1>1, <2>2 DEF S
<1>7. CASE (a \div S) % 2 # 0
  <2>1. (a \div S - 1) % 2 = 0 /\ a \div S >= 1
    BY <1>5, <1>7
  <2>2. a >= S
    BY <1>1, <2>1
  <2>3. Buddy(a, o) = a - S /\ Buddy(a - S, o) = a
    BY <1>1, <1>2, <1>5, <1>7, <2>1
  <2> QED BY <1>1, <2>2, <2>3 DEF S
<1> QED BY <1>6, <1>7

(* What new heads and the removal of the head do to a list.                *)
LEMMA PushFacts ==
  ASSUME NEW T, NEW s \in Seq(T), NEW e \in T
  PROVE  /\ <<e>> \o s \in Seq(T) /\ Len(<<e>> \o s) = Len(s) + 1 /\ <<e>> \o s # <<>>
         /\ DOMAIN (<<e>> \o s) = 1 .. Len(s) + 1
         /\ (<<e>> \o s)[1] = e
         /\ \A k \in 1 .. Len(s) + 1 : k # 1 => (<<e>> \o s)[k] = s[k - 1] /\ k - 1 \in DOMAIN s
<1>1. <<e>> \in Seq(T) /\ Len(<<e>>) = 1 /\ <<e>>[1] = e
  OBVIOUS
<1>2. Len(s) \in Nat /\ DOMAIN s = 1 .. Len(s)
  BY LenProperties
<1>3. /\ <<e>> \o s \in Seq(T) /\ Len(<<e>> \o s) = 1 + Len(s)
      /\ \A i \in 1 .. 1 + Len(s) : (<<e>> \o s)[i] = IF i <= 1 THEN <<e>>[i] ELSE s[i - 1]
  BY <1>1, <1>2, ConcatProperties
<1>4. DOMAIN (<<e>> \o s) = 1 .. Len(s) + 1
  BY <1>2, <1>3, LenProperties
<1>5. <<e>> \o s # <<>>
  BY <1>2, <1>3, EmptySeq
<1> QED BY <1>1, <1>2, <1>3, <1>4, <1>5

(* A list with the two halves of a split block in front.                   *)
LEMMA Push2Facts ==
  ASSUME NEW T, NEW s \in Seq(T), NEW e \in T, NEW f \in T
  PROVE  /\ <<e, f>> \o s \in Seq(T) /\ Len(<<e, f>> \o s) = Len(s) + 2
         /\ DOMAIN (<<e, f>> \o s) = 1 .. Len(s) + 2
         /\ (<<e, f>> \o s)[1] = e /\ (<<e, f>> \o s)[2] = f
         /\ \A k \in 1 .. Len(s) + 2 :
              k > 2 => (<<e, f>> \o s)[k] = s[k - 2] /\ k - 2 \in DOMAIN s
<1>1. <<e, f>> \in Seq(T) /\ Len(<<e, f>>) = 2 /\ <<e, f>>[1] = e /\ <<e, f>>[2] = f
  OBVIOUS
<1>2. Len(s) \in Nat /\ DOMAIN s = 1 .. Len(s)
  BY LenProperties
<1>3. /\ <<e, f>> \o s \in Seq(T) /\ Len(<<e, f>> \o s) = 2 + Len(s)
      /\ \A i \in 1 .. 2 + Len(s) : (<<e, f>> \o s)[i] = IF i <= 2 THEN <<e, f>>[i] ELSE s[i - 2]
  BY <1>1, <1>2, ConcatProperties
<1>4. DOMAIN (<<e, f>> \o s) = 1 .. Len(s) + 2
  BY <1>2, <1>3, LenProperties
<1> QED BY <1>1, <1>2, <1>3, <1>4

(* A list without its head.                                                *)
LEMMA TailFacts ==
  ASSUME NEW T, NEW s \in Seq(T), s # <<>>
  PROVE  /\ Head(s) = s[1] /\ s[1] \in T /\ Len(s) \in Nat \ {0} /\ 1 \in DOMAIN s
         /\ Tail(s) \in Seq(T) /\ Len(Tail(s)) = Len(s) - 1 /\ DOMAIN Tail(s) = 1 .. Len(s) - 1
         /\ \A i \in 1 .. Len(s) - 1 : Tail(s)[i] = s[i + 1] /\ i + 1 \in DOMAIN s
BY HeadTailProperties, LenProperties, EmptySeq, ElementOfSeq

(* Where the k-th block of what is left was, when the head and the block   *)
(* at b leave a list.                                                      *)
KeptAt(k, b) == IF k + 1 < b THEN k + 1 ELSE k + 2

(* What is left of a list without its head and the block at b.             *)
LEMMA WithoutFacts ==
  ASSUME NEW T, NEW s \in Seq(T), NEW b \in 2 .. Len(s)
  PROVE  /\ Without(s, 1, b) \in Seq(T) /\ DOMAIN Without(s, 1, b) = 1 .. Len(s) - 2
         /\ \A k \in 1 .. Len(s) - 2 :
              KeptAt(k, b) \in DOMAIN s \ {1, b} /\ Without(s, 1, b)[k] = s[KeptAt(k, b)]
         /\ \A p \in DOMAIN s \ {1, b} : \E k \in 1 .. Len(s) - 2 : KeptAt(k, b) = p
<1> DEFINE w == Without(s, 1, b)
<1>1. Len(s) \in Nat /\ DOMAIN s = 1 .. Len(s) /\ \A k \in 1 .. Len(s) : s[k] \in T
  BY LenProperties, ElementOfSeq
<1>2. w = [k \in 1 .. Len(s) - 2 |->
             IF k < 1 THEN s[k] ELSE IF k + 1 < b THEN s[k + 1] ELSE s[k + 2]]
  BY <1>1 DEF Without
<1>3. ASSUME NEW k \in 1 .. Len(s) - 2 PROVE KeptAt(k, b) \in DOMAIN s \ {1, b} /\ w[k] = s[KeptAt(k, b)]
  <2>1. w[k] = IF k < 1 THEN s[k] ELSE IF k + 1 < b THEN s[k + 1] ELSE s[k + 2]
    BY <1>2
  <2> HIDE DEF w
  <2> QED BY <1>1, <2>1 DEF KeptAt
<1>4. w \in Seq(T) /\ DOMAIN w = 1 .. Len(s) - 2
  <2>1. Len(s) - 2 \in Nat
    BY <1>1
  <2>2. DOMAIN w = 1 .. Len(s) - 2
    BY <1>2
  <2>3. \A k \in 1 .. Len(s) - 2 : w[k] \in T
    BY <1>1, <1>3
  <2>4. w = [k \in 1 .. Len(s) - 2 |-> w[k]]
    BY <1>2
  <2> HIDE DEF w
  <2> QED BY <2>1, <2>2, <2>3, <2>4
<1>5. ASSUME NEW p \in DOMAIN s \ {1, b} PROVE \E k \in 1 .. Len(s) - 2 : KeptAt(k, b) = p
  <2>1. CASE p < b
    <3>1. p - 1 \in 1 .. Len(s) - 2 /\ KeptAt(p - 1, b) = p
      BY <1>1, <2>1 DEF KeptAt
    <3> QED BY <3>1
  <2>2. CASE p > b
    <3>1. p - 2 \in 1 .. Len(s) - 2 /\ KeptAt(p - 2, b) = p
      BY <1>1, <2>2 DEF KeptAt
    <3> QED BY <3>1
  <2> QED BY <1>1, <2>1, <2>2
<1> HIDE DEF w
<1> QED BY <1>3, <1>4, <1>5 DEF w

(* Without buddies: parts of a list, a list of one block, a new head.      *)
LEMMA ApartFacts ==
  ASSUME NEW o \in Order, NEW s \in Seq(Nat)
  PROVE  /\ Apart(o, s, 0) => Apart(o, s, 1)
         /\ s # <<>> /\ Apart(o, s, 1) => Apart(o, Tail(s), 0)
         /\ Len(s) <= 1 => Apart(o, s, 0)
         /\ Len(s) <= 2 => Apart(o, s, 1)
         /\ \A e \in Nat : Apart(o, s, 0) => Apart(o, <<e>> \o s, 1)
         /\ \A b \in 2 .. Len(s) : Apart(o, s, 1) => Apart(o, Without(s, 1, b), 0)
         /\ Apart(o, s, 1) /\ (\A p \in DOMAIN s : s[p] # Buddy(s[1], o)) => Apart(o, s, 0)
<1>0. Len(s) \in Nat /\ DOMAIN s = 1 .. Len(s) /\ \A k \in 1 .. Len(s) : s[k] \in Nat
  BY LenProperties, ElementOfSeq
<1>1. Apart(o, s, 0) => Apart(o, s, 1)
  BY <1>0 DEF Apart
<1>2. s # <<>> /\ Apart(o, s, 1) => Apart(o, Tail(s), 0)
  <2> SUFFICES ASSUME s # <<>>, Apart(o, s, 1) PROVE Apart(o, Tail(s), 0)
    OBVIOUS
  <2> DEFINE u == Tail(s)
  <2>1. \A k \in DOMAIN u : u[k] = s[k + 1] /\ k + 1 \in DOMAIN s /\ k + 1 > 1
    BY TailFacts
  <2> HIDE DEF u
  <2>2. Apart(o, u, 0)
    BY <2>1 DEF Apart
  <2> QED BY <2>2 DEF u
<1>3. Len(s) <= 1 => Apart(o, s, 0)
  <2> SUFFICES ASSUME Len(s) <= 1, NEW p \in DOMAIN s, NEW q \in DOMAIN s PROVE s[p] # Buddy(s[q], o)
    BY DEF Apart
  <2>1. p = q /\ s[q] \in Nat
    BY <1>0
  <2> QED BY <2>1, BuddyFacts
<1>7. Len(s) <= 2 => Apart(o, s, 1)
  <2> SUFFICES ASSUME Len(s) <= 2, NEW p \in DOMAIN s, NEW q \in DOMAIN s, p > 1, q > 1
               PROVE  s[p] # Buddy(s[q], o)
    BY DEF Apart
  <2>1. p = q /\ s[q] \in Nat
    BY <1>0
  <2> QED BY <2>1, BuddyFacts
<1>4. ASSUME NEW e \in Nat, Apart(o, s, 0) PROVE Apart(o, <<e>> \o s, 1)
  <2> DEFINE u == <<e>> \o s
  <2>1. \A k \in DOMAIN u : k > 1 => u[k] = s[k - 1] /\ k - 1 \in DOMAIN s /\ k - 1 > 0
    BY <1>0, PushFacts
  <2> HIDE DEF u
  <2>2. Apart(o, u, 1)
    BY <1>4, <2>1 DEF Apart
  <2> QED BY <2>2 DEF u
<1>5. ASSUME NEW b \in 2 .. Len(s), Apart(o, s, 1) PROVE Apart(o, Without(s, 1, b), 0)
  <2> DEFINE w == Without(s, 1, b)
  <2>1. DOMAIN w = 1 .. Len(s) - 2
    BY WithoutFacts
  <2>2. \A k \in 1 .. Len(s) - 2 : KeptAt(k, b) \in DOMAIN s \ {1, b} /\ w[k] = s[KeptAt(k, b)]
    BY WithoutFacts
  <2> HIDE DEF w
  <2>3. \A k \in DOMAIN w : \E p \in DOMAIN s : p > 1 /\ w[k] = s[p]
    BY <1>0, <2>1, <2>2
  <2>4. Apart(o, w, 0)
    BY <1>5, <2>3 DEF Apart
  <2> QED BY <2>4 DEF w
<1>6. ASSUME Apart(o, s, 1), \A p \in DOMAIN s : s[p] # Buddy(s[1], o) PROVE Apart(o, s, 0)
  <2> SUFFICES ASSUME o < MAX, NEW p \in DOMAIN s, NEW q \in DOMAIN s, s[p] = Buddy(s[q], o) PROVE FALSE
    BY DEF Apart
  <2>1. p > 1 /\ q > 1 => FALSE
    BY <1>6 DEF Apart
  <2>2. q # 1
    BY <1>6
  <2>3. p = 1
    BY <1>0, <2>1, <2>2
  <2>4. s[q] = Buddy(s[1], o)
    BY <1>0, <2>3, BuddyFacts
  <2> QED BY <1>6, <2>4
<1> QED BY <1>1, <1>2, <1>3, <1>4, <1>5, <1>6, <1>7

(* The second half of a block of order o, and the headers after a split.   *)
Half(a, o) == a + Size(o - 1)
Halved(h, a, o) == [h EXCEPT ![a] = o - 1, ![Half(a, o)] = o - 1]

(* A block of a tiling is split into halves.                               *)
LEMMA TiledSplit ==
  ASSUME base \in Nat, NEW B \in SUBSET Addr, NEW h \in [Addr -> Order], Tiled(B, h),
         NEW a \in B, NEW o \in Order, o # 0, h[a] = o
  PROVE  /\ Half(a, o) \in Addr /\ Half(a, o) \notin B
         /\ Tiled(B \cup {Half(a, o)}, Halved(h, a, o))
<1> DEFINE b == Half(a, o)
           g == Halved(h, a, o)
<1>a. b = a + Size(o - 1) /\ g = [h EXCEPT ![a] = o - 1, ![b] = o - 1]
  BY DEF Half, Halved
<1> HIDE DEF b, g
<1>1. /\ o - 1 \in Order /\ Size(o) \in Nat \ {0} /\ Size(o - 1) \in Nat \ {0} /\ Size(o) = 2 * Size(o - 1)
      /\ MAX \in Order /\ Size(MAX) \in Nat \ {0}
  BY SizeFacts
<1>2. ASSUME NEW x \in Addr PROVE x \in Nat /\ h[x] \in Order /\ Size(h[x]) \in Nat \ {0}
  <2>1. x \in Nat
    BY <1>1 DEF Addr
  <2> QED BY <2>1, SizeFacts
<1>3. a + Size(o) <= base + Size(MAX)
  BY DEF Tiled
<1>4. b \in Addr /\ a \in Nat /\ b \in Nat /\ base <= a
  BY <1>a, <1>1, <1>2, <1>3 DEF Addr
<1>5. b \notin B
  <2> SUFFICES ASSUME b \in B PROVE FALSE
    OBVIOUS
  <2>1. a < b => a + Size(o) <= b
    BY DEF Tiled
  <2> QED BY <1>a, <1>1, <1>4, <2>1
<1>6. g[a] = o - 1 /\ g[b] = o - 1 /\ \A x \in B : x # a => g[x] = h[x]
  BY <1>a, <1>4, <1>5
<1>7. ASSUME NEW x \in B \cup {b} PROVE x + Size(g[x]) <= base + Size(MAX)
  <2>1. x \in B /\ x # a => x + Size(h[x]) <= base + Size(MAX)
    BY DEF Tiled
  <2> QED BY <1>a, <1>1, <1>3, <1>4, <1>6, <2>1
<1>8. ASSUME NEW x \in B \cup {b}, NEW y \in B \cup {b}, x < y PROVE x + Size(g[x]) <= y
  <2>1. /\ x \in B /\ y \in B => x + Size(h[x]) <= y
        /\ x \in B /\ x < a => x + Size(h[x]) <= a
        /\ y \in B /\ a < y => a + Size(o) <= y
    BY <1>8 DEF Tiled
  <2>2. x \in Nat /\ y \in Nat /\ (x \in B => Size(h[x]) \in Nat)
    BY <1>2, <1>4
  <2>3. CASE x = b
    BY <1>a, <1>1, <1>4, <1>5, <1>6, <1>8, <2>1, <2>2, <2>3
  <2>4. CASE x = a
    BY <1>a, <1>1, <1>4, <1>5, <1>6, <1>8, <2>1, <2>2, <2>4
  <2>5. CASE x \in B /\ x # a /\ y \in B
    BY <1>6, <2>1, <2>5
  <2>6. CASE x \in B /\ x # a /\ y = b
    <3>1. x < a \/ (a < x /\ a + Size(o) <= x)
      BY <1>4, <2>2, <2>6 DEF Tiled
    <3> QED BY <1>a, <1>1, <1>4, <1>6, <1>8, <2>1, <2>2, <2>6, <3>1
  <2> QED BY <2>3, <2>4, <2>5, <2>6
<1>9. ASSUME NEW x \in Addr PROVE \E y \in B \cup {b} : Covers(y, g[y], x)
  <2>1. PICK y \in B : Covers(y, h[y], x)
    BY DEF Tiled
  <2>2. CASE y # a
    BY <1>6, <2>1, <2>2
  <2>3. CASE y = a
    <3>1. a <= x /\ x < a + Size(o)
      BY <2>1, <2>3 DEF Covers
    <3>2. Covers(a, o - 1, x) \/ Covers(b, o - 1, x)
      BY <1>a, <1>1, <1>2, <1>4, <3>1 DEF Covers
    <3> QED BY <1>6, <3>2
  <2> QED BY <2>2, <2>3
<1>10. Tiled(B \cup {b}, g)
  BY <1>7, <1>8, <1>9 DEF Tiled
<1> QED BY <1>4, <1>5, <1>6, <1>10 DEF b, g

(* The headers after a merge.                                              *)
Joined(h, l, u, o) == [h EXCEPT ![l] = o + 1, ![u] = 0]

(* Two neighbours of the same order in a tiling become one block.          *)
LEMMA TiledMerge ==
  ASSUME base \in Nat, NEW B \in SUBSET Addr, NEW h \in [Addr -> Order], Tiled(B, h),
         NEW l \in B, NEW u \in B, NEW o \in Order, o < MAX, h[l] = o, h[u] = o,
         u = l + Size(o)
  PROVE  Tiled(B \ {u}, Joined(h, l, u, o)) /\ l # u
<1> DEFINE g == Joined(h, l, u, o)
<1>a. g = [h EXCEPT ![l] = o + 1, ![u] = 0]
  BY DEF Joined
<1> HIDE DEF g
<1>1. /\ o + 1 \in Order /\ Size(o) \in Nat \ {0} /\ Size(o + 1) = 2 * Size(o)
      /\ MAX \in Order /\ Size(MAX) \in Nat \ {0}
  BY SizeFacts
<1>2. ASSUME NEW x \in Addr PROVE x \in Nat /\ h[x] \in Order /\ Size(h[x]) \in Nat \ {0}
  <2>1. x \in Nat
    BY <1>1 DEF Addr
  <2> QED BY <2>1, SizeFacts
<1>3. u + Size(o) <= base + Size(MAX) /\ l \in Nat /\ u \in Nat /\ l # u
  BY <1>1, <1>2 DEF Tiled
<1>4. g[l] = o + 1 /\ \A x \in B \ {l, u} : g[x] = h[x]
  BY <1>a, <1>3
<1>5. ASSUME NEW x \in B \ {u} PROVE x + Size(g[x]) <= base + Size(MAX)
  <2>1. x + Size(h[x]) <= base + Size(MAX)
    BY DEF Tiled
  <2> QED BY <1>1, <1>3, <1>4, <2>1
<1>6. ASSUME NEW x \in B \ {u}, NEW y \in B \ {u}, x < y PROVE x + Size(g[x]) <= y
  <2>1. x + Size(h[x]) <= y
    BY <1>6 DEF Tiled
  <2>2. CASE x # l
    BY <1>4, <2>1, <2>2
  <2>3. CASE x = l
    <3>1. u < y
      BY <1>2, <1>3, <2>1, <2>3
    <3>2. u + Size(o) <= y
      BY <3>1 DEF Tiled
    <3> QED BY <1>1, <1>2, <1>3, <1>4, <2>3, <3>2
  <2> QED BY <2>2, <2>3
<1>7. ASSUME NEW x \in Addr PROVE \E y \in B \ {u} : Covers(y, g[y], x)
  <2>1. PICK y \in B : Covers(y, h[y], x)
    BY DEF Tiled
  <2>2. CASE y \notin {l, u}
    BY <1>4, <2>1, <2>2
  <2>3. CASE y \in {l, u}
    <3>1. y <= x /\ x < y + Size(o)
      BY <2>1, <2>3 DEF Covers
    <3>2. Covers(l, o + 1, x)
      BY <1>1, <1>2, <1>3, <2>3, <3>1 DEF Covers
    <3> QED BY <1>3, <1>4, <3>2
  <2> QED BY <2>2, <2>3
<1>8. Tiled(B \ {u}, g)
  BY <1>5, <1>6, <1>7 DEF Tiled
<1> QED BY <1>3, <1>4, <1>8 DEF g

-----------------------------------------------------------------------------
(* The state in terms of blocks.  Addresses and sizes are numbers, and the *)
(* lists are sequences of addresses.                                       *)
LEMMA Basics ==
  ASSUME Types
  PROVE  /\ MAX \in Order /\ Size(MAX) \in Nat \ {0} /\ base \in Nat
         /\ \A x \in Addr : x \in Nat /\ header[x] \in Order /\ Size(header[x]) \in Nat \ {0}
         /\ \A o \in Order :
              /\ o \in Int /\ bucketList[o] \in Seq(Addr) /\ bucketList[o] \in Seq(Nat)
              /\ Len(bucketList[o]) \in Nat
              /\ DOMAIN bucketList[o] = 1 .. Len(bucketList[o])
              /\ \A p \in DOMAIN bucketList[o] : bucketList[o][p] \in Addr
<1>1. MAX \in Order /\ Size(MAX) \in Nat \ {0} /\ base \in Nat
  BY SizeFacts DEF Types
<1>2. \A x \in Addr : x \in Nat
  BY <1>1 DEF Addr
<1>3. ASSUME NEW x \in Addr PROVE header[x] \in Order /\ Size(header[x]) \in Nat \ {0}
  <2>1. header[x] \in Order
    BY DEF Types
  <2> QED BY <2>1, SizeFacts
<1>4. ASSUME NEW o \in Order
      PROVE  /\ o \in Int /\ bucketList[o] \in Seq(Addr) /\ bucketList[o] \in Seq(Nat)
             /\ Len(bucketList[o]) \in Nat
             /\ DOMAIN bucketList[o] = 1 .. Len(bucketList[o])
             /\ \A p \in DOMAIN bucketList[o] : bucketList[o][p] \in Addr
  <2>1. bucketList[o] \in Seq(Addr) /\ o \in Int
    BY SizeFacts DEF Types
  <2>2. /\ Len(bucketList[o]) \in Nat /\ DOMAIN bucketList[o] = 1 .. Len(bucketList[o])
        /\ \A p \in DOMAIN bucketList[o] : bucketList[o][p] \in Addr
    BY <2>1, LenProperties, ElementOfSeq
  <2>3. bucketList[o] \in Seq(Nat)
    BY <1>2, <2>1
  <2> QED BY <2>1, <2>2, <2>3
<1> QED BY <1>1, <1>2, <1>3, <1>4

(* A block is listed when some list has it.                                *)
LEMMA ListedMember ==
  /\ \A a : a \in Listed <=> \E o \in Order : \E p \in DOMAIN bucketList[o] : bucketList[o][p] = a
  /\ \A a : a \in Listed' <=> \E o \in Order : \E p \in DOMAIN bucketList'[o] : bucketList'[o][p] = a
<1>1. \A a : a \in Listed <=> \E o \in Order : \E p \in DOMAIN bucketList[o] : bucketList[o][p] = a
  BY DEF Listed
<1>2. \A a : a \in Listed' <=> \E o \in Order : \E p \in DOMAIN bucketList'[o] : bucketList'[o][p] = a
  BY DEF Listed
<1> QED BY <1>1, <1>2

(* Every block starts in the heap.                                         *)
LEMMA BlockFacts ==
  ASSUME Types, PlaceInv
  PROVE  /\ Blocks \subseteq Addr /\ Listed \subseteq Addr /\ Returned \subseteq Addr
         /\ \A o \in Order : \A p \in DOMAIN bucketList[o] :
              bucketList[o][p] \in Listed /\ bucketList[o][p] \in Blocks
<1>1. Listed \subseteq Addr
  BY Basics, ListedMember
<1>2. Returned \subseteq Addr
  BY DEF PlaceInv, Returned
<1> QED BY <1>1, <1>2, ListedMember DEF Blocks, Types

(* What a step does not touch: the heap's place, and the calls of kfree    *)
(* that wait for the lock.                                                 *)
Kept ==
  /\ base' = base /\ t' \in [Client -> 0 .. MAX + 1] /\ DOMAIN arg' = Client
  /\ Leaving' = Leaving /\ \A d \in Leaving : arg'[d] = arg[d] /\ t'[d] = t[d]

(* The blocks on their way back are the same after such a step.            *)
LEMMA ReturnedKept ==
  ASSUME Kept
  PROVE  Returned' = Returned /\ Addr' = Addr
BY DEF Kept, Returned, Addr

-----------------------------------------------------------------------------
(* split_block keeps the tiling: the head of the list of order o becomes   *)
(* two blocks at the front of the list below.                              *)
LEMMA SplitTiles ==
  ASSUME Types, PlaceInv, Tiled(Blocks, header), AlignInv,
         NEW o \in Order, o # 0, bucketList[o] # <<>>, Split(o), Kept, live' = live
  PROVE  /\ Types' /\ PlaceInv' /\ Tiled(Blocks, header)' /\ AlignInv'
         /\ bucketList'[o] = Tail(bucketList[o])
         /\ Len(bucketList'[o - 1]) = Len(bucketList[o - 1]) + 2
         /\ \A k \in Order : k # o /\ k # o - 1 => bucketList'[k] = bucketList[k]
<1> DEFINE L == bucketList
           M == bucketList'
           a == Head(bucketList[o])
           b == Half(a, o)
<1>1. /\ o \in Int /\ o - 1 \in Order /\ Size(o) \div 2 = Size(o - 1) /\ Size(o - 1) \in Nat \ {0}
      /\ Size(o) = 2 * Size(o - 1) /\ o # o - 1
  <2>1. o \in Int /\ o - 1 \in Order /\ Size(o) \div 2 = Size(o - 1) /\ Size(o) = 2 * Size(o - 1)
    BY SizeFacts
  <2> QED BY <2>1, SizeFacts
<1>2. /\ L[o] \in Seq(Addr) /\ L[o - 1] \in Seq(Addr) /\ DOMAIN L = Order
      /\ \A k \in Order : DOMAIN L[k] = 1 .. Len(L[k]) /\ Len(L[k]) \in Nat
  BY <1>1, Basics DEF Types
<1>3. /\ a = L[o][1] /\ a \in Addr /\ 1 \in DOMAIN L[o] /\ Tail(L[o]) \in Seq(Addr)
      /\ DOMAIN Tail(L[o]) = 1 .. Len(L[o]) - 1
      /\ \A i \in 1 .. Len(L[o]) - 1 : Tail(L[o])[i] = L[o][i + 1] /\ i + 1 \in DOMAIN L[o]
  BY <1>2, TailFacts
<1>4. header[a] = o /\ a \in Blocks /\ a \in Listed
  BY <1>3, BlockFacts DEF PlaceInv
<1>5. header' = Halved(header, a, o)
  BY <1>1 DEF Split, Half, Halved
<1>6. /\ b \in Addr /\ b \notin Blocks /\ Tiled(Blocks \cup {b}, header')
      /\ header'[a] = o - 1 /\ header'[b] = o - 1
  <2> HIDE DEF a, b
  <2>1. base \in Nat /\ Blocks \in SUBSET Addr /\ header \in [Addr -> Order]
    BY BlockFacts DEF Types
  <2>2. PICK B \in SUBSET Addr, h \in [Addr -> Order] : B = Blocks /\ h = header
    BY <2>1
  <2>5. PICK e \in B : e = a
    BY <1>4, <2>2
  <2>3. Tiled(B, h) /\ h[e] = o
    BY <1>4, <2>2, <2>5
  <2>4. /\ Half(e, o) \in Addr /\ Half(e, o) \notin B
        /\ Tiled(B \cup {Half(e, o)}, Halved(h, e, o))
    BY Zenon, <2>1, <2>3, TiledSplit
  <2>6. b \in Addr /\ b \notin Blocks /\ Tiled(Blocks \cup {b}, header')
    BY <1>5, <2>2, <2>4, <2>5 DEF b
  <2>7. header'[a] = o - 1 /\ header'[b] = o - 1
    <3>1. header' = [header EXCEPT ![a] = o - 1, ![b] = o - 1]
      BY <1>5 DEF b, Halved
    <3> QED BY <1>3, <2>1, <2>6, <3>1
  <2> QED BY <2>6, <2>7
<1>7. \A x \in Addr : x # a /\ x # b => header'[x] = header[x]
  BY <1>5 DEF Types, Halved
<1>8. M = [L EXCEPT ![o] = Tail(@), ![o - 1] = <<a, b>> \o @]
  BY <1>1 DEF Split, Half
<1> HIDE DEF b
<1>9. /\ M[o] = Tail(L[o]) /\ M[o - 1] = <<a, b>> \o L[o - 1]
      /\ \A k \in Order : k # o /\ k # o - 1 => M[k] = L[k]
      /\ DOMAIN M = Order
  BY <1>1, <1>2, <1>8
<1>10. /\ M[o - 1] \in Seq(Addr) /\ Len(M[o - 1]) = Len(L[o - 1]) + 2
       /\ DOMAIN M[o - 1] = 1 .. Len(L[o - 1]) + 2 /\ M[o - 1][1] = a /\ M[o - 1][2] = b
       /\ \A k \in 1 .. Len(L[o - 1]) + 2 : k > 2 => M[o - 1][k] = L[o - 1][k - 2] /\ k - 2 \in DOMAIN L[o - 1]
  BY <1>2, <1>3, <1>6, <1>9, Push2Facts
<1> HIDE DEF a
<1>11. Types'
  <2>1. \A k \in Order : M[k] \in Seq(Addr)
    BY <1>3, <1>9, <1>10, Basics
  <2>2. M \in [Order -> Seq(Addr)]
    <3>1. M = [k \in Order |-> M[k]]
      BY <1>8, <1>2
    <3> QED BY <2>1, <3>1
  <2>3. header' \in [Addr -> Order]
    BY <1>1, <1>5 DEF Types, Halved
  <2> QED BY <2>2, <2>3, ReturnedKept DEF Types, Kept
(* Where each entry of the new lists comes from.                           *)
<1>12. ASSUME NEW k \in Order, NEW p \in DOMAIN M[k]
       PROVE  \/ k = o - 1 /\ p = 1 /\ M[k][p] = a
              \/ k = o - 1 /\ p = 2 /\ M[k][p] = b
              \/ LET q == IF k = o THEN p + 1 ELSE IF k = o - 1 THEN p - 2 ELSE p
                 IN  q \in DOMAIN L[k] /\ M[k][p] = L[k][q] /\ L[k][q] # a /\ L[k][q] # b
  <2>0. \A q \in DOMAIN L[k] : L[k][q] # b /\ (L[k][q] = a => k = o /\ q = 1)
    BY <1>3, <1>4, <1>6, BlockFacts DEF PlaceInv
  <2>1. CASE k = o
    <3>1. p + 1 \in DOMAIN L[k] /\ M[k][p] = L[k][p + 1] /\ p + 1 # 1
      BY <1>2, <1>3, <1>9, <2>1
    <3> QED BY <1>1, <2>0, <2>1, <3>1
  <2>2. CASE k = o - 1
    <3>1. p = 1 \/ p = 2 \/ (p - 2 \in DOMAIN L[k] /\ M[k][p] = L[k][p - 2])
      BY <1>2, <1>10, <2>2
    <3> QED BY <1>1, <1>10, <2>0, <2>2, <3>1
  <2>3. CASE k # o /\ k # o - 1
    BY <1>9, <2>0, <2>3
  <2> QED BY <2>1, <2>2, <2>3
<1>13. ASSUME NEW k \in Order, NEW q \in DOMAIN L[k]
       PROVE  \E j \in Order : \E p \in DOMAIN M[j] : M[j][p] = L[k][q]
  <2>1. CASE k = o /\ q = 1
    <3>1. 1 \in DOMAIN M[o - 1]
      BY <1>1, <1>2, <1>10
    <3> QED BY <1>1, <1>3, <1>10, <2>1, <3>1
  <2>2. CASE k = o /\ q # 1
    <3>1. q - 1 \in DOMAIN M[o] /\ M[o][q - 1] = L[o][q]
      BY <1>2, <1>3, <1>9, <2>2
    <3> QED BY <2>2, <3>1
  <2>3. CASE k = o - 1
    <3>0. q \in 1 .. Len(L[o - 1]) /\ Len(L[o - 1]) \in Nat
      BY <1>1, <1>2, <2>3
    <3>a. q + 2 \in 1 .. Len(L[o - 1]) + 2 /\ q + 2 > 2 /\ (q + 2) - 2 = q
      BY <3>0
    <3>1. q + 2 \in DOMAIN M[o - 1] /\ M[o - 1][q + 2] = L[o - 1][q]
      BY <1>10, <3>a
    <3> QED BY <2>3, <3>1
  <2>4. CASE k # o /\ k # o - 1
    BY <1>9, <2>4
  <2> QED BY <2>1, <2>2, <2>3, <2>4
<1>14. Listed' = Listed \cup {b}
  <2>1. \A x : x \in Listed' => x \in Listed \cup {b}
    BY <1>4, <1>12, ListedMember
  <2>2. \A x : x \in Listed => x \in Listed'
    BY <1>13, ListedMember
  <2>3. b \in Listed'
    <3>1. 2 \in DOMAIN M[o - 1] /\ M[o - 1][2] = b
      BY <1>1, <1>2, <1>10
    <3> QED BY <1>1, <3>1, ListedMember
  <2> QED BY <2>1, <2>2, <2>3
<1>15. Blocks' = Blocks \cup {b}
  BY <1>14, ReturnedKept DEF Blocks
<1>16. Tiled(Blocks, header)'
  BY <1>6, <1>15 DEF Tiled, Addr, Kept
<1>17. AlignInv'
  <2> SUFFICES ASSUME base % Size(MAX) = 0, NEW x \in Blocks \cup {b} PROVE x % Size(header'[x]) = 0
    BY <1>15 DEF AlignInv, Kept
  <2>1. a \in Nat /\ a % (2 * Size(o - 1)) = 0
    BY <1>1, <1>3, <1>4, Basics DEF AlignInv
  <2>2. ASSUME NEW n \in Nat, NEW s \in Nat \ {0}, n % (2 * s) = 0
        PROVE  n % s = 0 /\ (n + s) % s = 0
    <3>1. n = (2 * s) * (n \div (2 * s)) /\ n \div (2 * s) \in Nat
      BY <2>2
    <3>2. PICK m \in Nat : n = (2 * s) * m
      BY <3>1
    <3>3. n = s * (2 * m) /\ n + s = s * (2 * m + 1)
      BY <3>2
    <3>4. \A z \in Nat : (s * z) % s = 0
      OBVIOUS
    <3> QED BY <3>3, <3>4
  <2>3. a % Size(o - 1) = 0 /\ b % Size(o - 1) = 0
    BY <1>1, <2>1, <2>2 DEF b, Half
  <2>4. x # a /\ x # b => header'[x] = header[x] /\ x % Size(header[x]) = 0
    BY <1>7, BlockFacts DEF AlignInv
  <2> QED BY <1>6, <2>3, <2>4
<1>18. PlaceInv'
  <2>1. ASSUME NEW k \in Order, NEW p \in DOMAIN M[k] PROVE header'[M[k][p]] = k
    <3>1. \A q \in DOMAIN L[k] : L[k][q] \in Addr /\ header[L[k][q]] = k
      BY Basics DEF PlaceInv
    <3>2. \/ M[k][p] \in {a, b} /\ k = o - 1
          \/ \E q \in DOMAIN L[k] : M[k][p] = L[k][q] /\ L[k][q] \notin {a, b}
      BY <1>12
    <3> QED BY <1>6, <1>7, <3>1, <3>2
  <2>2. ASSUME NEW k \in Order, NEW p \in DOMAIN M[k], NEW r \in DOMAIN M[k], M[k][p] = M[k][r]
        PROVE  p = r
    <3>1. p \in Int /\ r \in Int /\ a # b
      BY <1>1, <1>2, <1>3, <1>9, <1>10, <1>4, <1>6
    <3>2. \A q \in DOMAIN L[k] : \A u \in DOMAIN L[k] : L[k][q] = L[k][u] => q = u
      BY DEF PlaceInv
    <3> QED BY <1>12, <2>2, <3>1, <3>2
  <2>3. live' \cap Listed' = {} /\ live' \cap Returned' = {} /\ Listed' \cap Returned' = {}
    BY <1>6, <1>14, ReturnedKept DEF PlaceInv, Blocks
  <2>4. ASSUME NEW d \in Leaving' PROVE arg'[d] \in Addr' /\ t'[d] = header'[arg'[d]]
    <3>1. d \in Leaving /\ arg'[d] = arg[d] /\ t'[d] = t[d] /\ arg[d] \in Addr /\ t[d] = header[arg[d]]
      BY DEF Kept, PlaceInv
    <3>2. arg[d] \in Returned /\ arg[d] # a /\ arg[d] # b
      BY <1>4, <1>6, <3>1 DEF Returned, Blocks, PlaceInv
    <3> QED BY <1>7, <3>1, <3>2, ReturnedKept
  <2>5. \A c, d \in Leaving' : arg'[c] = arg'[d] => c = d
    BY DEF Kept, PlaceInv
  <2> QED BY <2>1, <2>2, <2>3, <2>4, <2>5 DEF PlaceInv
<1> QED BY <1>9, <1>10, <1>11, <1>16, <1>17, <1>18

-----------------------------------------------------------------------------
(* kmalloc takes the head of a list.                                       *)
LEMMA TakeTiles ==
  ASSUME Types, PlaceInv, Tiled(Blocks, header), AlignInv, Kept,
         NEW o \in Order, bucketList[o] # <<>>, header' = header,
         live' = live \cup {Head(bucketList[o])},
         bucketList' = [bucketList EXCEPT ![o] = Tail(@)]
  PROVE  Types' /\ PlaceInv' /\ Tiled(Blocks, header)' /\ AlignInv'
<1> DEFINE L == bucketList
           M == bucketList'
           a == Head(bucketList[o])
<1>2. L[o] \in Seq(Addr) /\ DOMAIN L = Order /\ Len(L[o]) \in Nat /\ DOMAIN L[o] = 1 .. Len(L[o])
  BY Basics DEF Types
<1>3. /\ a = L[o][1] /\ a \in Addr /\ 1 \in DOMAIN L[o] /\ Tail(L[o]) \in Seq(Addr)
      /\ DOMAIN Tail(L[o]) = 1 .. Len(L[o]) - 1
      /\ \A i \in 1 .. Len(L[o]) - 1 : Tail(L[o])[i] = L[o][i + 1] /\ i + 1 \in DOMAIN L[o]
  BY <1>2, TailFacts
<1>4. header[a] = o /\ a \in Blocks /\ a \in Listed
  BY <1>3, BlockFacts DEF PlaceInv
<1>5. M[o] = Tail(L[o]) /\ \A k \in Order : k # o => M[k] = L[k]
  BY <1>2
<1> HIDE DEF a
<1>6. Types'
  <2>1. M \in [Order -> Seq(Addr)]
    BY <1>3 DEF Types
  <2> QED BY <1>3, <2>1, ReturnedKept DEF Types, Kept, a
(* Where each entry of the new lists comes from.                           *)
<1>7. ASSUME NEW k \in Order, NEW p \in DOMAIN M[k]
      PROVE  LET q == IF k = o THEN p + 1 ELSE p
             IN  q \in DOMAIN L[k] /\ M[k][p] = L[k][q] /\ L[k][q] # a
  <2>0. \A q \in DOMAIN L[k] : L[k][q] = a => k = o /\ q = 1
    BY <1>3, <1>4 DEF PlaceInv
  <2>1. CASE k = o
    <3>1. p + 1 \in DOMAIN L[k] /\ M[k][p] = L[k][p + 1] /\ p + 1 # 1
      BY <1>2, <1>3, <1>5, <2>1
    <3> QED BY <2>0, <2>1, <3>1
  <2>2. CASE k # o
    BY <1>5, <2>0, <2>2
  <2> QED BY <2>1, <2>2
<1>8. ASSUME NEW k \in Order, NEW q \in DOMAIN L[k], L[k][q] # a
      PROVE  \E p \in DOMAIN M[k] : M[k][p] = L[k][q]
  <2>1. CASE k = o
    <3>1. q - 1 \in DOMAIN M[o] /\ M[o][q - 1] = L[o][q]
      BY <1>2, <1>3, <1>5, <1>8, <2>1
    <3> QED BY <2>1, <3>1
  <2>2. CASE k # o
    BY <1>5, <2>2
  <2> QED BY <2>1, <2>2
<1>9. Listed' = Listed \ {a}
  <2>1. \A x : x \in Listed' => x \in Listed \ {a}
    BY <1>7, ListedMember
  <2>2. \A x : x \in Listed \ {a} => x \in Listed'
    BY <1>8, ListedMember
  <2> QED BY <2>1, <2>2
<1>10. Blocks' = Blocks
  BY <1>4, <1>9, ReturnedKept DEF Blocks, a
<1>11. Tiled(Blocks, header)' /\ AlignInv'
  BY <1>10 DEF Tiled, Addr, Kept, AlignInv
<1>12. PlaceInv'
  <2>1. \A k \in Order : \A p \in DOMAIN M[k] : header'[M[k][p]] = k
    BY <1>7 DEF PlaceInv
  <2>2. ASSUME NEW k \in Order, NEW p \in DOMAIN M[k], NEW r \in DOMAIN M[k], M[k][p] = M[k][r]
        PROVE  p = r
    <3>1. \A q \in DOMAIN L[k] : \A u \in DOMAIN L[k] : L[k][q] = L[k][u] => q = u
      BY DEF PlaceInv
    <3>2. CASE k = o
      <4>1. p \in Int /\ r \in Int
        BY <1>2, <1>3, <1>5, <3>2
      <4>2. p + 1 \in DOMAIN L[k] /\ r + 1 \in DOMAIN L[k] /\ L[k][p + 1] = L[k][r + 1]
        BY <1>7, <2>2, <3>2
      <4>3. p + 1 = r + 1
        BY <3>1, <4>2
      <4> QED BY <4>1, <4>3
    <3>3. CASE k # o
      BY <1>5, <2>2, <3>1, <3>3
    <3> QED BY <3>2, <3>3
  <2>3. live' \cap Listed' = {} /\ live' \cap Returned' = {} /\ Listed' \cap Returned' = {}
    BY <1>4, <1>9, ReturnedKept DEF PlaceInv, a
  <2>4. \A d \in Leaving' : arg'[d] \in Addr' /\ t'[d] = header'[arg'[d]]
    BY ReturnedKept DEF Kept, PlaceInv
  <2>5. \A c, d \in Leaving' : arg'[c] = arg'[d] => c = d
    BY DEF Kept, PlaceInv
  <2> QED BY <2>1, <2>2, <2>3, <2>4, <2>5 DEF PlaceInv
<1> QED BY <1>6, <1>11, <1>12

(* kfree puts the block in front of the list of its order.                 *)
LEMMA PutTiles ==
  ASSUME Types, PlaceInv, Tiled(Blocks, header), AlignInv, NEW c \in Leaving,
         UNCHANGED <<base, header, live, arg, t>>, Leaving' = Leaving \ {c},
         bucketList' = [bucketList EXCEPT ![t[c]] = <<arg[c]>> \o @]
  PROVE  Types' /\ PlaceInv' /\ Tiled(Blocks, header)' /\ AlignInv'
<1> DEFINE L == bucketList
           M == bucketList'
           a == arg[c]
           o == t[c]
<1>1. a \in Addr /\ o = header[a] /\ o \in Order /\ a \in Returned /\ a \notin Listed /\ a \notin live
  BY Basics DEF PlaceInv, Returned
<1> HIDE DEF a, o
<1>2. L[o] \in Seq(Addr) /\ DOMAIN L = Order /\ Len(L[o]) \in Nat /\ DOMAIN L[o] = 1 .. Len(L[o])
  BY <1>1, Basics DEF Types
<1>3. M[o] = <<a>> \o L[o] /\ (\A k \in Order : k # o => M[k] = L[k]) /\ M = [L EXCEPT ![o] = <<a>> \o @]
  BY <1>1, <1>2 DEF a, o
<1>4. /\ M[o] \in Seq(Addr) /\ DOMAIN M[o] = 1 .. Len(L[o]) + 1 /\ M[o][1] = a
      /\ \A k \in 1 .. Len(L[o]) + 1 : k # 1 => M[o][k] = L[o][k - 1] /\ k - 1 \in DOMAIN L[o]
  BY <1>1, <1>2, <1>3, PushFacts
<1>5. Addr' = Addr
  BY DEF Addr
<1>6. Types'
  <2>1. M \in [Order -> Seq(Addr)]
    BY <1>3, <1>4 DEF Types
  <2> QED BY <1>5, <2>1 DEF Types
(* Where each entry of the new lists comes from.                           *)
<1>7. ASSUME NEW k \in Order, NEW p \in DOMAIN M[k]
      PROVE  \/ k = o /\ p = 1 /\ M[k][p] = a
             \/ LET q == IF k = o THEN p - 1 ELSE p
                IN  q \in DOMAIN L[k] /\ M[k][p] = L[k][q] /\ L[k][q] # a
  <2>0. \A q \in DOMAIN L[k] : L[k][q] # a
    BY <1>1, BlockFacts
  <2>1. CASE k = o
    <3>1. p = 1 \/ (p - 1 \in DOMAIN L[k] /\ M[k][p] = L[k][p - 1])
      BY <1>4, <2>1
    <3> QED BY <1>4, <2>0, <2>1, <3>1
  <2>2. CASE k # o
    BY <1>3, <2>0, <2>2
  <2> QED BY <2>1, <2>2
<1>8. ASSUME NEW k \in Order, NEW q \in DOMAIN L[k]
      PROVE  \E p \in DOMAIN M[k] : M[k][p] = L[k][q]
  <2>1. CASE k = o
    <3>0. q \in 1 .. Len(L[o])
      BY <1>2, <2>1
    <3>a. q + 1 \in 1 .. Len(L[o]) + 1 /\ q + 1 # 1 /\ (q + 1) - 1 = q
      BY <1>2, <3>0
    <3>1. q + 1 \in DOMAIN M[o] /\ M[o][q + 1] = L[o][q]
      BY <1>4, <3>a
    <3> QED BY <2>1, <3>1
  <2>2. CASE k # o
    BY <1>3, <2>2
  <2> QED BY <2>1, <2>2
<1>9. Listed' = Listed \cup {a}
  <2>1. \A x : x \in Listed' => x \in Listed \cup {a}
    BY <1>7, ListedMember
  <2>2. \A x : x \in Listed => x \in Listed'
    BY <1>8, ListedMember
  <2>3. a \in Listed'
    <3>1. 1 \in DOMAIN M[o] /\ M[o][1] = a
      BY <1>2, <1>4
    <3> QED BY <1>1, <3>1, ListedMember
  <2> QED BY <2>1, <2>2, <2>3
<1>10. Returned' = Returned \ {a}
  BY DEF Returned, PlaceInv, a
<1>11. Blocks' = Blocks
  BY <1>1, <1>9, <1>10 DEF Blocks
<1>12. Tiled(Blocks, header)' /\ AlignInv'
  BY <1>5, <1>11 DEF Tiled, AlignInv
<1>13. PlaceInv'
  <2>1. \A k \in Order : \A p \in DOMAIN M[k] : header'[M[k][p]] = k
    BY <1>1, <1>7 DEF PlaceInv
  <2>2. ASSUME NEW k \in Order, NEW p \in DOMAIN M[k], NEW r \in DOMAIN M[k], M[k][p] = M[k][r]
        PROVE  p = r
    <3>1. \A q \in DOMAIN L[k] : \A u \in DOMAIN L[k] : L[k][q] = L[k][u] => q = u
      BY DEF PlaceInv
    <3>2. CASE k = o
      <4>1. p \in Int /\ r \in Int
        BY <1>2, <1>4, <3>2
      <4>2. /\ p = 1 \/ (p - 1 \in DOMAIN L[k] /\ M[k][p] = L[k][p - 1] /\ M[k][p] # a)
            /\ r = 1 \/ (r - 1 \in DOMAIN L[k] /\ M[k][r] = L[k][r - 1] /\ M[k][r] # a)
        BY <1>7, <3>2
      <4>3. p # 1 /\ r # 1 => p - 1 = r - 1
        BY <2>2, <3>1, <4>2
      <4>4. M[k][1] = a
        BY <1>4, <3>2
      <4>5. p = 1 <=> r = 1
        BY <2>2, <4>2, <4>4
      <4> QED BY <4>1, <4>3, <4>5
    <3>3. CASE k # o
      BY <1>3, <2>2, <3>1, <3>3
    <3> QED BY <3>2, <3>3
  <2>3. live' \cap Listed' = {} /\ live' \cap Returned' = {} /\ Listed' \cap Returned' = {}
    BY <1>1, <1>9, <1>10 DEF PlaceInv
  <2>4. \A d \in Leaving' : arg'[d] \in Addr' /\ t'[d] = header'[arg'[d]]
    BY <1>5 DEF PlaceInv
  <2>5. \A d, e \in Leaving' : arg'[d] = arg'[e] => d = e
    BY DEF PlaceInv
  <2> QED BY <2>1, <2>2, <2>3, <2>4, <2>5 DEF PlaceInv
<1> QED BY <1>6, <1>12, <1>13

(* A block is passed to kfree.                                             *)
LEMMA ReturnTiles ==
  ASSUME Types, PlaceInv, Tiled(Blocks, header), AlignInv,
         NEW c \in Client, c \notin Leaving, NEW a \in live,
         UNCHANGED <<base, header, bucketList>>, live' = live \ {a},
         Leaving' = Leaving \cup {c},
         arg' = [arg EXCEPT ![c] = a], t' = [t EXCEPT ![c] = header[a]]
  PROVE  Types' /\ PlaceInv' /\ Tiled(Blocks, header)' /\ AlignInv'
<1>1. Addr' = Addr /\ a \in Addr /\ header[a] \in Order /\ header[a] \in 0 .. MAX + 1
  BY Basics, SizeFacts DEF Types, Addr
<1>2. Types'
  BY <1>1 DEF Types
<1>3. Listed' = Listed
  BY ListedMember
<1>4. arg'[c] = a /\ t'[c] = header[a] /\ \A d \in Leaving : d # c /\ arg'[d] = arg[d] /\ t'[d] = t[d]
  BY DEF Types, Leaving
<1>5. Returned' = Returned \cup {a}
  BY <1>4 DEF Returned
<1>6. Blocks' = Blocks
  BY <1>3, <1>5 DEF Blocks
<1>7. Tiled(Blocks, header)' /\ AlignInv'
  BY <1>1, <1>6 DEF Tiled, AlignInv
<1>8. PlaceInv'
  <2>1. live' \cap Listed' = {} /\ live' \cap Returned' = {} /\ Listed' \cap Returned' = {}
    BY <1>3, <1>5 DEF PlaceInv
  <2>2. \A d \in Leaving' : arg'[d] \in Addr' /\ t'[d] = header'[arg'[d]]
    BY <1>1, <1>4 DEF PlaceInv
  <2>3. \A d \in Leaving : arg[d] \in Returned /\ arg[d] # a
    BY DEF PlaceInv, Returned
  <2>4. \A d, e \in Leaving' : arg'[d] = arg'[e] => d = e
    BY <1>4, <2>3 DEF PlaceInv
  <2>5. /\ \A o \in Order : \A p \in DOMAIN bucketList'[o] : header'[bucketList'[o][p]] = o
        /\ \A o \in Order : \A p, q \in DOMAIN bucketList'[o] :
             bucketList'[o][p] = bucketList'[o][q] => p = q
    BY DEF PlaceInv
  <2> QED BY <2>1, <2>2, <2>4, <2>5 DEF PlaceInv
<1> QED BY <1>2, <1>7, <1>8

(* A step that moves no block.                                             *)
LEMMA SameTiles ==
  ASSUME Types, PlaceInv, Tiled(Blocks, header), AlignInv, Kept,
         UNCHANGED <<header, live, bucketList>>
  PROVE  Types' /\ PlaceInv' /\ Tiled(Blocks, header)' /\ AlignInv'
<1>1. Addr' = Addr /\ Returned' = Returned /\ Listed' = Listed
  BY ReturnedKept, ListedMember
<1>2. Blocks' = Blocks
  BY <1>1 DEF Blocks
<1>3. Types'
  BY <1>1 DEF Types, Kept
<1>4. Tiled(Blocks, header)' /\ AlignInv'
  BY <1>1, <1>2 DEF Tiled, AlignInv, Kept
<1>5. PlaceInv'
  <2>1. live' \cap Listed' = {} /\ live' \cap Returned' = {} /\ Listed' \cap Returned' = {}
    BY <1>1 DEF PlaceInv
  <2>2. \A d \in Leaving' : arg'[d] \in Addr' /\ t'[d] = header'[arg'[d]]
    BY <1>1 DEF PlaceInv, Kept
  <2>3. \A d, e \in Leaving' : arg'[d] = arg'[e] => d = e
    BY DEF PlaceInv, Kept
  <2>4. /\ \A o \in Order : \A p \in DOMAIN bucketList'[o] : header'[bucketList'[o][p]] = o
        /\ \A o \in Order : \A p, q \in DOMAIN bucketList'[o] :
             bucketList'[o][p] = bucketList'[o][q] => p = q
    BY DEF PlaceInv
  <2> QED BY <2>1, <2>2, <2>3, <2>4 DEF PlaceInv
<1> QED BY <1>3, <1>4, <1>5

(* In a heap aligned to its size the lower of two buddies is aligned to    *)
(* the size of both.                                                       *)
LEMMA LowerAligned ==
  ASSUME NEW o \in Order, o < MAX, NEW l \in Nat, l % Size(o) = 0, Buddy(l, o) = l + Size(o)
  PROVE  l % Size(o + 1) = 0
<1> DEFINE S == Size(o)
<1>1. S \in Nat \ {0} /\ Size(o + 1) = 2 * S
  BY SizeFacts
<1>2. (l \div S) % 2 = 0
  BY <1>1 DEF Buddy
<1>3. l % S = 0
  OBVIOUS
<1> HIDE DEF S
<1>4. l = S * (l \div S) /\ l \div S \in Nat
  BY <1>1, <1>3
<1>5. PICK m \in Nat : l = S * m /\ m % 2 = 0
  BY <1>2, <1>4
<1>6. m = 2 * (m \div 2) /\ m \div 2 \in Nat
  BY <1>5
<1>7. PICK n \in Nat : l = S * (2 * n)
  BY <1>5, <1>6
<1>8. PICK d \in Nat \ {0} : d = 2 * S
  BY <1>1
<1>9. l = d * n
  BY <1>1, <1>7, <1>8
<1>10. (d * n) % d = 0
  OBVIOUS
<1> QED BY <1>1, <1>8, <1>9, <1>10

(* try_to_merge joins the head of a list with its buddy.                   *)
LEMMA MergeTiles ==
  ASSUME Types, PlaceInv, Tiled(Blocks, header), AlignInv, Kept, live' = live,
         NEW o \in Order, o < MAX, NEW b \in 2 .. Len(bucketList[o]), NEW l, NEW u,
         bucketList[o][b] = Buddy(bucketList[o][1], o),
         l = IF bucketList[o][b] > bucketList[o][1] THEN bucketList[o][1] ELSE bucketList[o][b],
         u = IF bucketList[o][b] > bucketList[o][1] THEN bucketList[o][b] ELSE bucketList[o][1],
         bucketList' = [bucketList EXCEPT ![o] = Without(@, 1, b), ![o + 1] = <<l>> \o @],
         header' = [header EXCEPT ![l] = o + 1, ![u] = 0]
  PROVE  /\ Types' /\ PlaceInv' /\ Tiled(Blocks, header)' /\ AlignInv'
         /\ bucketList'[o] = Without(bucketList[o], 1, b)
         /\ bucketList'[o + 1] = <<l>> \o bucketList[o + 1] /\ l \in Addr
         /\ \A k \in Order : k # o /\ k # o + 1 => bucketList'[k] = bucketList[k]
<1> DEFINE L == bucketList
           M == bucketList'
<1>1. o \in Int /\ o + 1 \in Order /\ o # o + 1 /\ Size(o) \in Nat \ {0} /\ 0 \in Order
  BY SizeFacts
<1>2. /\ L[o] \in Seq(Addr) /\ L[o + 1] \in Seq(Addr) /\ DOMAIN L = Order
      /\ \A k \in Order : DOMAIN L[k] = 1 .. Len(L[k]) /\ Len(L[k]) \in Nat
  BY <1>1, Basics DEF Types
<1>3. 1 \in DOMAIN L[o] /\ b \in DOMAIN L[o] /\ b # 1 /\ b \in Nat
  BY <1>2
<1>4. /\ L[o][1] \in Addr /\ L[o][b] \in Addr /\ L[o][1] \in Nat /\ L[o][b] \in Nat
      /\ header[L[o][1]] = o /\ header[L[o][b]] = o
      /\ L[o][1] \in Listed /\ L[o][b] \in Listed /\ L[o][1] \in Blocks /\ L[o][b] \in Blocks
  BY <1>3, Basics, BlockFacts DEF PlaceInv
<1>5. u = l + Size(o) /\ Buddy(l, o) = u /\ l # u
  <2>1. PICK x \in Nat, y \in Nat : x = L[o][1] /\ y = L[o][b] /\ y = Buddy(x, o)
    BY <1>4
  <2>2. (y = x + Size(o) \/ y = x - Size(o)) /\ Buddy(y, o) = x
    BY <2>1, BuddyFacts
  <2> QED BY <1>1, <2>1, <2>2
<1>6. {l, u} = {L[o][1], L[o][b]}
  BY <1>4
<1>7. /\ l \in Addr /\ u \in Addr /\ l \in Nat /\ u \in Nat /\ header[l] = o /\ header[u] = o
      /\ l \in Listed /\ u \in Listed /\ l \in Blocks /\ u \in Blocks
  BY <1>4, <1>6
<1>8. header' = Joined(header, l, u, o)
  BY DEF Joined
<1>9. /\ Tiled(Blocks \ {u}, header') /\ header'[l] = o + 1
      /\ \A x \in Addr : x # l /\ x # u => header'[x] = header[x]
  <2>1. base \in Nat /\ Blocks \in SUBSET Addr /\ header \in [Addr -> Order]
    BY BlockFacts DEF Types
  <2>2. PICK B \in SUBSET Addr, h \in [Addr -> Order] : B = Blocks /\ h = header
    BY <2>1
  <2>3. Tiled(B, h) /\ h[l] = o /\ h[u] = o /\ l \in B /\ u \in B
    BY <1>7, <2>2
  <2>4. Tiled(B \ {u}, Joined(h, l, u, o))
    BY Zenon, <1>5, <2>1, <2>3, TiledMerge
  <2>5. Tiled(Blocks \ {u}, header')
    BY <1>8, <2>2, <2>4
  <2>6. header'[l] = o + 1 /\ \A x \in Addr : x # l /\ x # u => header'[x] = header[x]
    BY <1>5, <1>7, <2>1
  <2> QED BY <2>5, <2>6
<1>10. /\ M[o] = Without(L[o], 1, b) /\ M[o + 1] = <<l>> \o L[o + 1]
       /\ \A k \in Order : k # o /\ k # o + 1 => M[k] = L[k]
       /\ DOMAIN M = Order /\ M = [k \in Order |-> M[k]]
  BY <1>1, <1>2
<1>11. /\ M[o + 1] \in Seq(Addr) /\ DOMAIN M[o + 1] = 1 .. Len(L[o + 1]) + 1 /\ M[o + 1][1] = l
       /\ \A k \in 1 .. Len(L[o + 1]) + 1 :
            k # 1 => M[o + 1][k] = L[o + 1][k - 1] /\ k - 1 \in DOMAIN L[o + 1]
  <2>1. PICK s \in Seq(Addr) : s = L[o + 1]
    BY <1>2
  <2>2. /\ <<l>> \o s \in Seq(Addr) /\ DOMAIN (<<l>> \o s) = 1 .. Len(s) + 1 /\ (<<l>> \o s)[1] = l
        /\ \A k \in 1 .. Len(s) + 1 : k # 1 => (<<l>> \o s)[k] = s[k - 1] /\ k - 1 \in DOMAIN s
    BY <1>7, PushFacts
  <2>3. M[o + 1] = <<l>> \o s
    BY <1>10, <2>1
  <2> HIDE DEF M
  <2> QED BY <2>1, <2>2, <2>3
<1>12. /\ M[o] \in Seq(Addr) /\ DOMAIN M[o] = 1 .. Len(L[o]) - 2
       /\ \A k \in 1 .. Len(L[o]) - 2 :
            KeptAt(k, b) \in DOMAIN L[o] \ {1, b} /\ M[o][k] = L[o][KeptAt(k, b)]
       /\ \A p \in DOMAIN L[o] \ {1, b} : \E k \in 1 .. Len(L[o]) - 2 : KeptAt(k, b) = p
  BY <1>2, <1>10, WithoutFacts
<1>13. Types'
  <2>1. \A k \in Order : M[k] \in Seq(Addr)
    BY <1>10, <1>11, <1>12, Basics
  <2>2. M \in [Order -> Seq(Addr)]
    BY <1>10, <2>1
  <2>3. header' \in [Addr -> Order]
    BY <1>1, <1>7 DEF Types
  <2> QED BY <2>2, <2>3, ReturnedKept DEF Types, Kept
(* Where each entry of the new lists comes from.                           *)
<1>14. ASSUME NEW k \in Order, NEW p \in DOMAIN M[k]
       PROVE  \/ k = o + 1 /\ p = 1 /\ M[k][p] = l
              \/ \E q \in DOMAIN L[k] :
                   /\ M[k][p] = L[k][q] /\ L[k][q] # l /\ L[k][q] # u
                   /\ k = o => q = KeptAt(p, b)
                   /\ k = o + 1 => q = p - 1
  <2>0. \A q \in DOMAIN L[k] : L[k][q] \in {l, u} => k = o /\ q \in {1, b}
    BY <1>3, <1>4, <1>6 DEF PlaceInv
  <2>1. CASE k = o
    <3>1. KeptAt(p, b) \in DOMAIN L[k] \ {1, b} /\ M[k][p] = L[k][KeptAt(p, b)]
      BY <1>12, <2>1
    <3> QED BY <1>1, <2>0, <2>1, <3>1
  <2>2. CASE k = o + 1
    <3>1. p = 1 \/ (p - 1 \in DOMAIN L[k] /\ M[k][p] = L[k][p - 1])
      BY <1>11, <2>2
    <3> QED BY <1>1, <1>11, <2>0, <2>2, <3>1
  <2>3. CASE k # o /\ k # o + 1
    BY <1>10, <2>0, <2>3
  <2> QED BY <2>1, <2>2, <2>3
<1>15. ASSUME NEW k \in Order, NEW q \in DOMAIN L[k], L[k][q] # u
       PROVE  \E j \in Order : \E p \in DOMAIN M[j] : M[j][p] = L[k][q]
  <2>0. 1 \in DOMAIN M[o + 1] /\ M[o + 1][1] = l
    BY <1>1, <1>2, <1>11
  <2>1. CASE k = o /\ q \in {1, b}
    BY <1>1, <1>6, <1>15, <2>0, <2>1
  <2>2. CASE k = o /\ q \notin {1, b}
    <3>1. PICK p \in 1 .. Len(L[o]) - 2 : KeptAt(p, b) = q
      BY <1>12, <2>2
    <3>2. p \in DOMAIN M[o] /\ M[o][p] = L[o][q]
      BY <1>12, <3>1
    <3> QED BY <2>2, <3>2
  <2>3. CASE k = o + 1
    <3>0. q \in 1 .. Len(L[o + 1]) /\ Len(L[o + 1]) \in Nat
      BY <1>1, <1>2, <2>3
    <3>a. q + 1 \in 1 .. Len(L[o + 1]) + 1 /\ q + 1 # 1 /\ (q + 1) - 1 = q
      BY <3>0
    <3>1. q + 1 \in DOMAIN M[o + 1] /\ M[o + 1][q + 1] = L[o + 1][q]
      BY <1>11, <3>a
    <3> QED BY <2>3, <3>1
  <2>4. CASE k # o /\ k # o + 1
    BY <1>10, <2>4
  <2> QED BY <2>1, <2>2, <2>3, <2>4
<1>16. Listed' = Listed \ {u}
  <2>1. ASSUME NEW x \in Listed' PROVE x \in Listed \ {u}
    <3>0. PICK k \in Order : \E p \in DOMAIN M[k] : M[k][p] = x
      BY ListedMember
    <3>1. PICK p \in DOMAIN M[k] : M[k][p] = x
      BY <3>0
    <3>2. x = l \/ \E q \in DOMAIN L[k] : x = L[k][q] /\ x # u
      BY <1>14, <3>1
    <3> QED BY <1>5, <1>7, <3>2, ListedMember
  <2>2. ASSUME NEW x \in Listed, x # u PROVE x \in Listed'
    <3>1. PICK k \in Order : \E q \in DOMAIN L[k] : L[k][q] = x
      BY ListedMember
    <3>a. PICK q \in DOMAIN L[k] : L[k][q] = x
      BY <3>1
    <3>b. L[k][q] # u
      BY <2>2, <3>a
    <3>c. \E j \in Order : \E p \in DOMAIN M[j] : M[j][p] = L[k][q]
      BY <1>15, <3>b
    <3>2. \E j \in Order : \E p \in DOMAIN M[j] : M[j][p] = x
      BY <3>a, <3>c
    <3> QED BY <3>2, ListedMember
  <2> QED BY <2>1, <2>2
<1>17. Blocks' = Blocks \ {u}
  BY <1>7, <1>16, ReturnedKept DEF Blocks, PlaceInv
<1>18. Tiled(Blocks, header)'
  BY <1>9, <1>17 DEF Tiled, Addr, Kept
<1>19. AlignInv'
  <2> SUFFICES ASSUME base % Size(MAX) = 0, NEW x \in Blocks \ {u} PROVE x % Size(header'[x]) = 0
    BY <1>17 DEF AlignInv, Kept
  <2>1. l % Size(o) = 0
    BY <1>7 DEF AlignInv
  <2>2. l % Size(o + 1) = 0
    BY <1>5, <1>7, <2>1, LowerAligned
  <2>3. x # l => header'[x] = header[x] /\ x % Size(header[x]) = 0
    BY <1>9, BlockFacts DEF AlignInv
  <2> QED BY <1>9, <2>2, <2>3
<1>20. PlaceInv'
  <2>1. ASSUME NEW k \in Order, NEW p \in DOMAIN M[k] PROVE header'[M[k][p]] = k
    <3>1. \A q \in DOMAIN L[k] : L[k][q] \in Addr /\ header[L[k][q]] = k
      BY Basics DEF PlaceInv
    <3>2. \/ M[k][p] = l /\ k = o + 1
          \/ \E q \in DOMAIN L[k] : M[k][p] = L[k][q] /\ L[k][q] \notin {l, u}
      BY <1>14
    <3> QED BY <1>9, <3>1, <3>2
  <2>2. ASSUME NEW k \in Order, NEW p \in DOMAIN M[k], NEW r \in DOMAIN M[k], M[k][p] = M[k][r]
        PROVE  p = r
    <3>1. \A q \in DOMAIN L[k] : \A v \in DOMAIN L[k] : L[k][q] = L[k][v] => q = v
      BY DEF PlaceInv
    <3>2. CASE k = o
      <4>1. p \in Int /\ r \in Int
        BY <1>2, <1>12, <3>2
      <4>2. /\ KeptAt(p, b) \in DOMAIN L[k] /\ M[k][p] = L[k][KeptAt(p, b)]
            /\ KeptAt(r, b) \in DOMAIN L[k] /\ M[k][r] = L[k][KeptAt(r, b)]
        BY <1>12, <3>2
      <4>3. KeptAt(p, b) = KeptAt(r, b)
        BY <2>2, <3>1, <4>2
      <4> QED BY <1>3, <4>1, <4>3 DEF KeptAt
    <3>3. CASE k = o + 1
      <4>1. p \in Int /\ r \in Int
        BY <1>1, <1>2, <1>11, <3>3
      <4>2. /\ p = 1 \/ (p - 1 \in DOMAIN L[k] /\ M[k][p] = L[k][p - 1] /\ M[k][p] # l)
            /\ r = 1 \/ (r - 1 \in DOMAIN L[k] /\ M[k][r] = L[k][r - 1] /\ M[k][r] # l)
        <5>1. ASSUME NEW v \in DOMAIN M[k], v # 1
              PROVE  v - 1 \in DOMAIN L[k] /\ M[k][v] = L[k][v - 1] /\ M[k][v] # l
          <6>1. \E q \in DOMAIN L[k] : M[k][v] = L[k][q] /\ L[k][q] # l
            BY <1>14, <5>1
          <6>2. v - 1 \in DOMAIN L[k] /\ M[k][v] = L[k][v - 1]
            BY <1>11, <3>3, <5>1
          <6> QED BY <6>1, <6>2
        <5> QED BY <5>1
      <4>3. p # 1 /\ r # 1 => p - 1 = r - 1
        BY <2>2, <3>1, <4>2
      <4>4. M[k][1] = l
        BY <1>11, <3>3
      <4>5. p = 1 <=> r = 1
        BY <2>2, <4>2, <4>4
      <4> QED BY <4>1, <4>3, <4>5
    <3>4. CASE k # o /\ k # o + 1
      BY <1>10, <2>2, <3>1, <3>4
    <3> QED BY <3>2, <3>3, <3>4
  <2>3. live' \cap Listed' = {} /\ live' \cap Returned' = {} /\ Listed' \cap Returned' = {}
    BY <1>16, ReturnedKept DEF PlaceInv
  <2>4. ASSUME NEW d \in Leaving' PROVE arg'[d] \in Addr' /\ t'[d] = header'[arg'[d]]
    <3>1. d \in Leaving /\ arg'[d] = arg[d] /\ t'[d] = t[d] /\ arg[d] \in Addr /\ t[d] = header[arg[d]]
      BY DEF Kept, PlaceInv
    <3>2. arg[d] \in Returned /\ arg[d] # l /\ arg[d] # u
      BY <1>7, <3>1 DEF Returned, PlaceInv
    <3> QED BY <1>9, <3>1, <3>2, ReturnedKept
  <2>5. \A c, d \in Leaving' : arg'[c] = arg'[d] => c = d
    BY DEF Kept, PlaceInv
  <2> QED BY <2>1, <2>2, <2>3, <2>4, <2>5 DEF PlaceInv
<1> QED BY <1>7, <1>10, <1>13, <1>18, <1>19, <1>20

-----------------------------------------------------------------------------
(* The lists, coalesced but for what the holder of the lock works on.      *)

(* The position find_buddy returns holds the buddy; 0 says there is none.  *)
LEMMA FindFacts ==
  ASSUME Types, NEW o \in Order, NEW k \in Nat
  PROVE  /\ find_buddy(o, k) # 0 =>
              /\ find_buddy(o, k) \in DOMAIN bucketList[o] /\ k + 1 \in DOMAIN bucketList[o]
              /\ bucketList[o][find_buddy(o, k)] = Buddy(bucketList[o][k + 1], o)
         /\ find_buddy(o, k) = 0 /\ k < Len(bucketList[o]) =>
              \A p \in DOMAIN bucketList[o] : bucketList[o][p] # Buddy(bucketList[o][k + 1], o)
<1> DEFINE list == bucketList[o]
           Pos == {p \in DOMAIN list : k < Len(list) /\ list[p] = Buddy(list[k + 1], o)}
<1>1. Len(list) \in Nat /\ DOMAIN list = 1 .. Len(list)
  BY Basics
<1>2. find_buddy(o, k) = IF Pos = {} THEN 0 ELSE CHOOSE p \in Pos : \A q \in Pos : p <= q
  BY DEF find_buddy
<1>3. Pos \in SUBSET Nat /\ 0 \notin Pos
  BY <1>1
<1>4. Pos # {} => find_buddy(o, k) \in Pos
  <2> HIDE DEF Pos
  <2> SUFFICES ASSUME Pos # {} PROVE find_buddy(o, k) \in Pos
    OBVIOUS
  <2>1. \E p \in Pos : \A q \in Pos : p <= q
    BY <1>3, Least
  <2> QED BY <1>2, <2>1
<1>5. CASE Pos = {}
  <2>1. find_buddy(o, k) = 0
    BY <1>2, <1>5
  <2> QED BY <1>5, <2>1
<1>6. CASE Pos # {}
  <2>1. find_buddy(o, k) \in Pos /\ find_buddy(o, k) # 0
    BY <1>3, <1>4, <1>6
  <2>2. \A p \in Pos : p \in DOMAIN list /\ k < Len(list) /\ list[p] = Buddy(list[k + 1], o)
    OBVIOUS
  <2>3. k < Len(list) => k + 1 \in DOMAIN list
    BY <1>1
  <2> HIDE DEF Pos
  <2> QED BY <2>1, <2>2, <2>3
<1> QED BY <1>5, <1>6

(* Where nothing but the list of order j may hold a block and its buddy.   *)
LEMMA CoalescedAt ==
  ASSUME NEW j, Coalesced(j), NEW o \in Order
  PROVE  IF o = j THEN Apart(o, bucketList[o], 1) ELSE Apart(o, bucketList[o], 0)
BY DEF Coalesced

(* Client c moves to l, alone in its critical section before or after it.  *)
LEMMA HolderMoves ==
  ASSUME LockInv, ListInv, NEW c \in Client, NEW l \in Labels,
         pc' = [pc EXCEPT ![c] = l], Critical(c) \/ ~heap_lock,
         \A d \in Client : d # c => arg'[d] = arg[d],
         l \in {"kmalloc", "up", "down", "take"} => arg'[c] \in Order,
         l \in {"up", "down", "take", "merge"} \/ Coalesced(NoOrder)',
         l = "up" => Searching(c)', l = "down" => Splitting(c)',
         l = "take" => Taking(c)', l = "merge" => MergeInv(c)'
  PROVE  ListInv'
<1>1. \A d \in Client : d # c => ~Critical(d) /\ pc'[d] = pc[d]
  BY DEF LockInv
<1>2. pc'[c] = l
  BY DEF LockInv
<1>3. (\A d \in Client : ~Critical(d)') => Coalesced(NoOrder)'
  BY <1>2 DEF Critical
<1>4. ASSUME NEW d \in Client
      PROVE  /\ pc'[d] \in {"kmalloc", "up", "down", "take"} => arg'[d] \in Order
             /\ pc'[d] = "up" => Searching(d)'
             /\ pc'[d] = "down" => Splitting(d)'
             /\ pc'[d] = "take" => Taking(d)'
             /\ pc'[d] = "merge" => MergeInv(d)'
  <2>1. CASE d = c
    BY <1>2, <2>1
  <2>2. CASE d # c
    BY <1>1, <2>2 DEF ListInv, Critical
  <2> QED BY <2>1, <2>2
<1> QED BY <1>3, <1>4 DEF ListInv

(* Client c calls kmalloc or kfree, which touches neither the lists nor    *)
(* what the other clients work on.                                         *)
LEMMA CallMoves ==
  ASSUME LockInv, ListInv, NEW c \in Client, ~Critical(c), NEW l \in {"kmalloc", "kfree"},
         pc' = [pc EXCEPT ![c] = l], UNCHANGED <<bucketList, cur, idx, merged>>,
         \A d \in Client : d # c => arg'[d] = arg[d] /\ t'[d] = t[d],
         l = "kmalloc" => arg'[c] \in Order
  PROVE  ListInv'
<1>1. pc'[c] = l /\ \A d \in Client : d # c => pc'[d] = pc[d]
  BY DEF LockInv
<1>2. Coalesced(NoOrder)' <=> Coalesced(NoOrder)
  BY DEF Coalesced, NoOrder
<1>3. (\A d \in Client : ~Critical(d)') => Coalesced(NoOrder)'
  BY <1>1, <1>2 DEF Critical, ListInv
<1>4. ASSUME NEW d \in Client
      PROVE  /\ pc'[d] \in {"kmalloc", "up", "down", "take"} => arg'[d] \in Order
             /\ pc'[d] = "up" => Searching(d)'
             /\ pc'[d] = "down" => Splitting(d)'
             /\ pc'[d] = "take" => Taking(d)'
             /\ pc'[d] = "merge" => MergeInv(d)'
  <2>1. CASE d = c
    BY <1>1, <2>1
  <2>2. CASE d # c
    <3>1. /\ Searching(d)' <=> Searching(d)
          /\ Splitting(d)' <=> Splitting(d)
          /\ Taking(d)' <=> Taking(d)
          /\ MergeInv(d)' <=> MergeInv(d)
      BY <2>2 DEF Searching, Splitting, Taking, MergeInv, EmptyBelow, Coalesced, NoOrder
    <3> QED BY <1>1, <2>2, <3>1 DEF ListInv
  <2> QED BY <2>1, <2>2
<1> QED BY <1>3, <1>4 DEF ListInv

(* Two blocks, the halves of one, and what is left without the first.      *)
LEMMA TwoBlocks ==
  ASSUME NEW o \in Order, NEW s \in Seq(Nat), Len(s) = 2
  PROVE  s # <<>> /\ Apart(o, s, 1) /\ Apart(o, Tail(s), 0)
<1>1. s # <<>>
  <2>1. Len(s) # 0
    OBVIOUS
  <2> QED BY <2>1, EmptySeq
<1>2. Apart(o, s, 1)
  <2>1. Len(s) <= 2
    OBVIOUS
  <2> QED BY <2>1, ApartFacts
<1> QED BY <1>1, <1>2, ApartFacts

(* The lock is free, and so are the lists.                                 *)
LEMMA FreeLists ==
  ASSUME LockInv, ListInv, ~heap_lock
  PROVE  Coalesced(NoOrder) /\ \A o \in Order : Apart(o, bucketList[o], 0)
<1>1. Coalesced(NoOrder)
  BY DEF LockInv, ListInv
<1>2. \A o \in Order : o # NoOrder
  BY SizeFacts DEF NoOrder
<1> QED BY <1>1, <1>2, CoalescedAt

(* kmalloc: the search for a larger block, the splits, and the end.        *)
LEMMA MallocList ==
  ASSUME LockInv, Types, ListInv, PlaceInv, NEW c \in Client,
         \/ AcquireMalloc(c) \/ SearchUp(c) \/ SearchFails(c)
         \/ DownDone(c) \/ Take(c)
  PROVE  ListInv'
<1> USE DEF Goto
<1>0. /\ pc \in [Client -> Labels] /\ t \in [Client -> 0 .. MAX + 1] /\ DOMAIN arg = Client
      /\ MAX \in Nat /\ \A o \in Order : o \in Nat /\ o <= MAX /\ o # NoOrder
  BY SizeFacts DEF LockInv, Types, NoOrder
<1>1. CASE AcquireMalloc(c)
  <2>1. /\ pc[c] = "kmalloc" /\ ~heap_lock /\ UNCHANGED <<bucketList, arg>>
        /\ \/ /\ pc' = [pc EXCEPT ![c] = "up"] /\ t' = [t EXCEPT ![c] = arg[c] + 1]
              /\ bucketList[arg[c]] = <<>>
           \/ pc' = [pc EXCEPT ![c] = "take"] /\ bucketList[arg[c]] # <<>>
    BY <1>1 DEF AcquireMalloc
  <2>2. arg[c] \in Order
    BY <2>1 DEF ListInv
  <2>3. \A o \in Order : Apart(o, bucketList[o], 0) /\ Apart(o, bucketList[o], 1)
    BY <2>1, Basics, FreeLists, ApartFacts
  <2>4. CASE pc' = [pc EXCEPT ![c] = "up"] /\ t' = [t EXCEPT ![c] = arg[c] + 1]
             /\ bucketList[arg[c]] = <<>>
    <3>1. t'[c] = arg[c] + 1
      BY <1>0, <2>4
    <3>2. Searching(c)'
      BY <1>0, <2>1, <2>2, <2>3, <2>4, <3>1 DEF Searching, EmptyBelow, Coalesced
    <3> QED BY <2>1, <2>2, <2>4, <3>2, HolderMoves DEF Labels
  <2>5. CASE pc' = [pc EXCEPT ![c] = "take"] /\ bucketList[arg[c]] # <<>>
    <3>1. Taking(c)'
      BY <2>1, <2>3, <2>5 DEF Taking, Coalesced
    <3> QED BY <2>1, <2>2, <2>5, <3>1, HolderMoves DEF Labels
  <2> QED BY <2>1, <2>4, <2>5
<1>2. CASE SearchUp(c)
  <2>1. /\ pc[c] = "up" /\ t[c] < MAX /\ bucketList[t[c]] = <<>> /\ UNCHANGED <<bucketList, arg, pc>>
        /\ t' = [t EXCEPT ![c] = @ + 1]
    BY <1>2 DEF SearchUp
  <2>2. Searching(c) /\ arg[c] \in Order /\ Critical(c)
    BY <2>1 DEF ListInv, Critical
  <2>3. t'[c] = t[c] + 1 /\ t[c] \in Nat
    BY <1>0, <2>1
  <2>4. t'[c] \in arg[c] + 1 .. MAX + 1
    BY <1>0, <2>1, <2>2, <2>3 DEF Searching
  <2>5. ASSUME NEW k \in arg[c] .. t[c] PROVE bucketList[k] = <<>>
    <3>1. k = t[c] \/ k \in arg[c] .. t[c] - 1
      BY <1>0, <2>2, <2>3
    <3> QED BY <2>1, <2>2, <3>1 DEF Searching, EmptyBelow
  <2>6. Searching(c)'
    <3>1. t'[c] - 1 = t[c]
      BY <2>3
    <3> QED BY <2>1, <2>2, <2>4, <2>5, <3>1 DEF Searching, EmptyBelow, Coalesced, NoOrder
  <2>7. pc' = [pc EXCEPT ![c] = "up"]
    BY <1>0, <2>1
  <2> QED BY <2>1, <2>2, <2>6, <2>7, HolderMoves DEF Labels
<1>3. CASE SearchFails(c)
  <2>1. /\ pc[c] = "up" /\ UNCHANGED bucketList /\ pc' = [pc EXCEPT ![c] = "idle"]
        /\ arg' = [arg EXCEPT ![c] = None]
    BY <1>3 DEF SearchFails, Return
  <2>2. Coalesced(NoOrder)' /\ Critical(c)
    BY <2>1 DEF ListInv, Searching, Coalesced, NoOrder, Critical
  <2> QED BY <1>0, <2>1, <2>2, HolderMoves DEF Labels
<1>4. CASE DownDone(c)
  <2>1. /\ pc[c] = "down" /\ t[c] <= arg[c] /\ pc' = [pc EXCEPT ![c] = "take"]
        /\ UNCHANGED <<bucketList, arg>>
    BY <1>4 DEF DownDone
  <2>2. Splitting(c) /\ arg[c] \in Order /\ Critical(c)
    BY <2>1 DEF ListInv, Critical
  <2>3. t[c] = arg[c]
    BY <1>0, <2>1, <2>2 DEF Splitting
  <2>4. bucketList[arg[c]] # <<>> /\ Apart(arg[c], bucketList[arg[c]], 1)
    BY <2>2, <2>3, Basics, TwoBlocks DEF Splitting
  <2>5. Taking(c)'
    BY <2>1, <2>2, <2>3, <2>4 DEF Taking, Coalesced, Splitting
  <2> QED BY <2>1, <2>2, <2>5, HolderMoves DEF Labels
<1>5. CASE Take(c)
  <2>1. /\ pc[c] = "take" /\ pc' = [pc EXCEPT ![c] = "idle"] /\ arg' = [arg EXCEPT ![c] = None]
        /\ bucketList' = [bucketList EXCEPT ![arg[c]] = Tail(@)]
    BY <1>5 DEF Take, Return
  <2>2. Taking(c) /\ arg[c] \in Order /\ Critical(c)
    BY <2>1 DEF ListInv, Critical
  <2>3. Apart(arg[c], Tail(bucketList[arg[c]]), 0)
    BY <2>2, Basics, ApartFacts DEF Taking, Coalesced
  <2>4. ASSUME NEW o \in Order PROVE Apart(o, bucketList'[o], 0)
    <3>1. bucketList'[o] = IF o = arg[c] THEN Tail(bucketList[o]) ELSE bucketList[o]
      BY <2>1, <2>2 DEF Types
    <3> QED BY <2>2, <2>3, <3>1 DEF Taking, Coalesced
  <2>5. Coalesced(NoOrder)'
    BY <1>0, <2>4 DEF Coalesced, NoOrder
  <2> QED BY <1>0, <2>1, <2>2, <2>5, HolderMoves DEF Labels
<1> QED BY <1>1, <1>2, <1>3, <1>4, <1>5

(* kmalloc: the block found, and its halves, are split.                    *)
LEMMA SplitList ==
  ASSUME LockInv, Types, ListInv, NEW c \in Client, SplitFound(c) \/ SplitDown(c),
         bucketList'[t[c]] = Tail(bucketList[t[c]]),
         Len(bucketList'[t[c] - 1]) = Len(bucketList[t[c] - 1]) + 2,
         \A k \in Order : k # t[c] /\ k # t[c] - 1 => bucketList'[k] = bucketList[k]
  PROVE  ListInv'
<1>0. /\ pc \in [Client -> Labels] /\ t \in [Client -> 0 .. MAX + 1] /\ DOMAIN arg = Client
      /\ MAX \in Nat /\ Order = 0 .. MAX /\ \A o \in Order : o \in Nat /\ o <= MAX /\ o # NoOrder
  BY SizeFacts DEF LockInv, Types, NoOrder
<1>1. /\ pc' = [pc EXCEPT ![c] = "down"] /\ t' = [t EXCEPT ![c] = @ - 1] /\ arg' = arg
      /\ pc[c] \in {"up", "down"}
  BY <1>0 DEF SplitFound, SplitDown, Goto
<1>2. t'[c] = t[c] - 1 /\ t[c] \in Nat
  BY <1>0, <1>1
<1>3. arg[c] \in Order /\ Critical(c)
  BY <1>1 DEF ListInv, Critical
<1>4. /\ t[c] \in arg[c] + 1 .. MAX /\ EmptyBelow(c) /\ bucketList[t[c]] # <<>>
      /\ Apart(t[c], Tail(bucketList[t[c]]), 0)
      /\ \A o \in Order \ {t[c]} : Apart(o, bucketList[o], 0)
  <2>1. CASE SplitFound(c)
    <3>1. Searching(c) /\ t[c] <= MAX /\ bucketList[t[c]] # <<>>
      BY <2>1 DEF SplitFound, ListInv
    <3>2. t[c] \in arg[c] + 1 .. MAX /\ t[c] \in Order
      BY <1>0, <1>2, <1>3, <3>1 DEF Searching
    <3>3. \A o \in Order : Apart(o, bucketList[o], 0)
      BY <1>0, <3>1 DEF Searching, Coalesced
    <3> QED BY <3>1, <3>2, <3>3, Basics, ApartFacts DEF Searching
  <2>2. CASE SplitDown(c)
    <3>1. Splitting(c) /\ t[c] > arg[c]
      BY <2>2 DEF SplitDown, ListInv
    <3>2. t[c] \in arg[c] + 1 .. MAX /\ t[c] \in Order
      BY <1>0, <1>2, <1>3, <3>1 DEF Splitting
    <3>3. bucketList[t[c]] # <<>> /\ Apart(t[c], Tail(bucketList[t[c]]), 0)
      BY <3>1, <3>2, Basics, TwoBlocks DEF Splitting
    <3> QED BY <3>1, <3>2, <3>3 DEF Splitting
  <2> QED BY <2>1, <2>2
<1>5. bucketList[t[c] - 1] = <<>> /\ Len(bucketList'[t[c] - 1]) = 2
  <2>1. t[c] - 1 \in arg[c] .. t[c] - 1
    BY <1>0, <1>3, <1>4
  <2>2. bucketList[t[c] - 1] = <<>>
    BY <1>4, <2>1 DEF EmptyBelow
  <2> QED BY <2>2
<1>6. t'[c] \in arg[c] .. MAX - 1
  BY <1>0, <1>2, <1>3, <1>4
<1>7. ASSUME NEW k \in arg[c] .. t[c] - 1 - 1 PROVE bucketList'[k] = <<>>
  <2>1. k \in arg[c] .. t[c] - 1 /\ k \in Order /\ k # t[c] /\ k # t[c] - 1
    BY <1>0, <1>2, <1>3, <1>4
  <2> QED BY <1>4, <2>1 DEF EmptyBelow
<1>8. ASSUME NEW o \in Order, o # t[c] - 1 PROVE Apart(o, bucketList'[o], 0)
  BY <1>4, <1>8
<1>9. Splitting(c)'
  BY <1>1, <1>2, <1>5, <1>6, <1>7, <1>8 DEF Splitting, EmptyBelow
<1> QED BY <1>1, <1>3, <1>9, HolderMoves DEF Labels

(* Only the head of a list, the block that was just put there, ever finds  *)
(* its buddy: i and curr still name the same block then.                   *)
LEMMA FindOnlyHead ==
  ASSUME Types, ListInv, NEW c \in Client, Merging(c), find_buddy(t[c], idx) # 0
  PROVE  /\ t[c] \in Order /\ t[c] < MAX /\ ~merged /\ cur = 1 /\ idx = 0 /\ Coalesced(t[c])
         /\ find_buddy(t[c], idx) \in 2 .. Len(bucketList[t[c]])
         /\ bucketList[t[c]][find_buddy(t[c], idx)] = Buddy(bucketList[t[c]][1], t[c])
<1>1. MergeInv(c) /\ t[c] < MAX
  BY DEF Merging, ListInv
<1>2. t[c] \in Order /\ idx \in Nat
  BY <1>1 DEF MergeInv
<1>3. PICK o \in Order, k \in Nat : o = t[c] /\ k = idx
  BY <1>2
<1>4. PICK b : b = find_buddy(o, k)
  OBVIOUS
<1>5. /\ b \in DOMAIN bucketList[o] /\ k + 1 \in DOMAIN bucketList[o]
      /\ bucketList[o][b] = Buddy(bucketList[o][k + 1], o)
  BY <1>3, <1>4, FindFacts
<1>6. /\ DOMAIN bucketList[o] = 1 .. Len(bucketList[o]) /\ Len(bucketList[o]) \in Nat
      /\ \A p \in DOMAIN bucketList[o] : bucketList[o][p] \in Nat
  BY Basics
<1>7. ~Apart(o, bucketList[o], 0)
  <2>1. b > 0 /\ k + 1 > 0
    BY <1>5, <1>6
  <2> QED BY <1>1, <1>3, <1>5, <2>1 DEF Apart
<1>8. ~merged /\ cur = 1 /\ idx = 0 /\ Coalesced(t[c])
  <2>1. o # NoOrder /\ o # o + 1
    BY SizeFacts DEF NoOrder
  <2>2. ~Coalesced(NoOrder) /\ ~Coalesced(t[c] + 1)
    BY <1>3, <1>7, <2>1 DEF Coalesced
  <2> QED BY <1>1, <2>2 DEF MergeInv
<1>9. bucketList[o][b] = Buddy(bucketList[o][1], o) /\ 1 \in DOMAIN bucketList[o]
  BY <1>3, <1>5, <1>8
<1>10. b # 1
  BY <1>6, <1>9, BuddyFacts
<1>11. b \in 2 .. Len(bucketList[o])
  BY <1>5, <1>6, <1>10
<1> QED BY <1>1, <1>3, <1>4, <1>8, <1>9, <1>11

(* kfree: the block is put back; curr moves on; the next order; the end.   *)
LEMMA FreeList ==
  ASSUME LockInv, Types, ListInv, PlaceInv, NEW c \in Client,
         AcquireFree(c) \/ NoBuddy(c) \/ NextOrder(c) \/ FreeDone(c)
  PROVE  ListInv'
<1> USE DEF Goto
<1>0. /\ pc \in [Client -> Labels] /\ t \in [Client -> 0 .. MAX + 1] /\ DOMAIN arg = Client
      /\ MAX \in Nat /\ \A o \in Order : o \in Nat /\ o <= MAX /\ o # NoOrder
  BY SizeFacts DEF LockInv, Types, NoOrder
<1>1. CASE AcquireFree(c)
  <2>1. /\ pc[c] = "kfree" /\ ~heap_lock /\ UNCHANGED <<arg, t>>
        /\ bucketList' = [bucketList EXCEPT ![t[c]] = <<arg[c]>> \o @]
        /\ pc' = [pc EXCEPT ![c] = "merge"]
        /\ cur' = 1 /\ idx' = 0 /\ merged' = FALSE
    BY <1>1 DEF AcquireFree, StartMerge
  <2>2. t[c] \in Order /\ arg[c] \in Addr /\ arg[c] \in Nat
    BY <2>1, Basics DEF PlaceInv, Leaving
  <2>3. \A o \in Order : Apart(o, bucketList[o], 0)
    BY <2>1, FreeLists
  <2>4. /\ Apart(t[c], <<arg[c]>> \o bucketList[t[c]], 1)
        /\ <<arg[c]>> \o bucketList[t[c]] # <<>>
    BY <2>2, <2>3, Basics, ApartFacts, PushFacts
  <2>5. \A o \in Order :
          bucketList'[o] = IF o = t[c] THEN <<arg[c]>> \o bucketList[o] ELSE bucketList[o]
    BY <2>1 DEF Types
  <2>6. bucketList'[t'[c]] # <<>> /\ Coalesced(t[c])'
    <3>1. \A o \in Order : Apart(o, bucketList'[o], IF o = t[c] THEN 1 ELSE 0)
      BY <2>2, <2>3, <2>4, <2>5
    <3>2. bucketList'[t[c]] # <<>> /\ t'[c] = t[c]
      BY <2>1, <2>2, <2>4, <2>5
    <3> QED BY <3>1, <3>2 DEF Coalesced
  <2>7. MergeInv(c)'
    BY <2>1, <2>2, <2>6 DEF MergeInv
  <2> QED BY <2>1, <2>7, HolderMoves DEF Labels
<1>2. CASE NoBuddy(c)
  <2>1. /\ Merging(c) /\ find_buddy(t[c], idx) = 0 /\ UNCHANGED <<bucketList, arg, t, pc, merged>>
        /\ cur' = cur + 1 /\ idx' = idx + 1
    BY <1>2 DEF NoBuddy
  <2>2. MergeInv(c) /\ Critical(c) /\ pc' = [pc EXCEPT ![c] = "merge"]
    BY <1>0, <2>1 DEF Merging, ListInv, Critical
  <2>3. t[c] \in Order /\ idx \in Nat
    BY <2>2 DEF MergeInv
  <2>4. CASE ~merged /\ cur = 1 /\ idx = 0 /\ bucketList[t[c]] # <<>> /\ Coalesced(t[c])
    <3>1. PICK o \in Order : o = t[c]
      BY <2>3
    <3>2. bucketList[o] \in Seq(Nat) /\ Len(bucketList[o]) > 0
      BY <2>4, <3>1, Basics, EmptySeq
    <3>3. \A p \in DOMAIN bucketList[o] : bucketList[o][p] # Buddy(bucketList[o][1], o)
      <4>1. find_buddy(o, 0) = 0 /\ 0 < Len(bucketList[o]) /\ 0 + 1 = 1
        BY <2>1, <2>4, <3>1, <3>2
      <4> QED BY <4>1, FindFacts
    <3>4. Apart(o, bucketList[o], 1)
      BY <2>4, <3>1 DEF Coalesced
    <3>5. Apart(o, bucketList[o], 0)
      BY <3>2, <3>3, <3>4, ApartFacts
    <3>6. Coalesced(NoOrder)'
      BY <1>0, <2>1, <2>4, <3>1, <3>5 DEF Coalesced, NoOrder
    <3>7. cur' = 2 /\ idx' = 1
      BY <2>1, <2>4
    <3>8. MergeInv(c)'
      BY <2>1, <2>3, <2>4, <3>6, <3>7 DEF MergeInv
    <3> QED BY <2>1, <2>2, <3>8, HolderMoves DEF Labels
  <2>5. CASE ~merged /\ idx > 0 /\ cur = idx + 1 /\ Coalesced(NoOrder)
    <3>1. idx' \in Nat /\ idx' > 0 /\ cur' = idx' + 1 /\ Coalesced(NoOrder)'
      BY <2>1, <2>3, <2>5 DEF Coalesced, NoOrder
    <3>2. MergeInv(c)'
      BY <2>1, <2>3, <2>5, <3>1 DEF MergeInv
    <3> QED BY <2>1, <2>2, <3>2, HolderMoves DEF Labels
  <2>6. CASE /\ merged /\ t[c] < MAX /\ idx > 0 /\ cur = idx
             /\ bucketList[t[c] + 1] # <<>> /\ Coalesced(t[c] + 1)
    <3>1. idx' \in Nat /\ idx' > 0 /\ cur' = idx' /\ Coalesced(t[c] + 1)'
      BY <2>1, <2>3, <2>6 DEF Coalesced
    <3>2. MergeInv(c)'
      BY <2>1, <2>3, <2>6, <3>1 DEF MergeInv
    <3> QED BY <2>1, <2>2, <3>2, HolderMoves DEF Labels
  <2> QED BY <2>2, <2>4, <2>5, <2>6 DEF MergeInv
<1>3. CASE NextOrder(c)
  <2>1. /\ Merging(c) /\ merged /\ UNCHANGED <<bucketList, arg, pc>>
        /\ t' = [t EXCEPT ![c] = @ + 1] /\ cur' = 1 /\ idx' = 0 /\ merged' = FALSE
    BY <1>3 DEF NextOrder, StartMerge
  <2>2. MergeInv(c) /\ Critical(c) /\ pc' = [pc EXCEPT ![c] = "merge"] /\ t'[c] = t[c] + 1
    BY <1>0, <2>1 DEF Merging, ListInv, Critical
  <2>3. t[c] \in Order /\ t[c] < MAX /\ bucketList[t[c] + 1] # <<>> /\ Coalesced(t[c] + 1)
    BY <2>1, <2>2 DEF MergeInv
  <2>4. t'[c] \in Order
    BY <2>2, <2>3, SizeFacts
  <2>5. bucketList'[t'[c]] # <<>> /\ Coalesced(t[c])'
    BY <2>1, <2>2, <2>3 DEF Coalesced
  <2>6. MergeInv(c)'
    BY <2>1, <2>4, <2>5 DEF MergeInv
  <2> QED BY <2>1, <2>2, <2>6, HolderMoves DEF Labels
<1>4. CASE FreeDone(c)
  <2>1. /\ pc[c] = "merge" /\ (t[c] >= MAX \/ (cur > Len(bucketList[t[c]]) /\ ~merged))
        /\ UNCHANGED bucketList /\ pc' = [pc EXCEPT ![c] = "idle"]
        /\ arg' = [arg EXCEPT ![c] = None]
    BY <1>4 DEF FreeDone, Return
  <2>2. MergeInv(c) /\ Critical(c) /\ t[c] \in Order
    BY <2>1 DEF ListInv, Critical, MergeInv
  <2>3. \A o \in Order : Apart(o, bucketList[o], 0)
    <3>1. CASE Coalesced(NoOrder)
      BY <1>0, <3>1 DEF Coalesced
    <3>2. CASE ~merged /\ cur = 1 /\ bucketList[t[c]] # <<>> /\ Coalesced(t[c])
      <4>1. Len(bucketList[t[c]]) \in Nat \ {0}
        BY <2>2, <3>2, Basics, EmptySeq
      <4>2. t[c] = MAX
        BY <1>0, <2>1, <2>2, <3>2, <4>1
      <4>3. Apart(MAX, bucketList[MAX], 0)
        BY <1>0 DEF Apart
      <4> QED BY <3>2, <4>2, <4>3 DEF Coalesced
    <3>3. CASE merged /\ t[c] < MAX
      BY <1>0, <2>1, <2>2, <3>3
    <3> QED BY <2>2, <3>1, <3>2, <3>3 DEF MergeInv
  <2>4. Coalesced(NoOrder)'
    BY <1>0, <2>1, <2>3 DEF Coalesced, NoOrder
  <2> QED BY <1>0, <2>1, <2>2, <2>4, HolderMoves DEF Labels
<1> QED BY <1>1, <1>2, <1>3, <1>4

(* try_to_merge took the head and its buddy off their list.                *)
LEMMA MergeList ==
  ASSUME LockInv, Types, ListInv, NEW c \in Client, Merge(c), NEW o \in Order, o = t[c],
         Coalesced(o), o < MAX, cur = 1, idx = 0, NEW b \in 2 .. Len(bucketList[o]), NEW l \in Nat,
         bucketList'[o] = Without(bucketList[o], 1, b),
         bucketList'[o + 1] = <<l>> \o bucketList[o + 1],
         \A k \in Order : k # o /\ k # o + 1 => bucketList'[k] = bucketList[k]
  PROVE  ListInv'
<1>1. o + 1 \in Order /\ o # o + 1
  BY SizeFacts
<1>2. /\ UNCHANGED <<pc, arg, t, cur>> /\ idx' = 1 /\ merged' = TRUE /\ pc[c] = "merge"
      /\ pc' = [pc EXCEPT ![c] = "merge"]
  BY DEF Merge, Merging, LockInv
<1>3. Apart(o, bucketList'[o], 0)
  BY Basics, ApartFacts DEF Coalesced
<1>4. Apart(o + 1, bucketList'[o + 1], 1) /\ bucketList'[o + 1] # <<>>
  <2>1. Apart(o + 1, bucketList[o + 1], 0) /\ bucketList[o + 1] \in Seq(Nat)
    BY <1>1, Basics DEF Coalesced
  <2> QED BY <1>1, <2>1, ApartFacts, PushFacts
<1>5. \A k \in Order : Apart(k, bucketList'[k], IF k = o + 1 THEN 1 ELSE 0)
  <2>1. ASSUME NEW k \in Order, k # o, k # o + 1 PROVE Apart(k, bucketList'[k], 0)
    BY <2>1 DEF Coalesced
  <2> QED BY <1>1, <1>3, <1>4, <2>1
<1>6. Coalesced(t[c] + 1)' /\ bucketList'[t'[c] + 1] # <<>>
  BY <1>2, <1>4, <1>5 DEF Coalesced
<1>7. MergeInv(c)'
  BY <1>2, <1>6 DEF MergeInv
<1> QED BY <1>2, <1>7, HolderMoves DEF Labels, Critical

-----------------------------------------------------------------------------
(* The inductive invariant.                                                *)

(* At first the heap is one free block.                                    *)
LEMMA InitHeap == Init => HeapInv
<1> SUFFICES ASSUME Init PROVE HeapInv
  OBVIOUS
<1>0. base \in Nat /\ base \in Bases /\ MAX \in Order /\ Size(MAX) \in Nat \ {0}
  BY HeapAssumption, SizeFacts DEF Init
<1>1. Addr \subseteq Nat /\ base \in Addr /\ 0 \in Order
  BY <1>0, SizeFacts DEF Addr
<1>2. \A o \in Order : bucketList[o] = IF o = MAX THEN <<base>> ELSE <<>>
  BY DEF Init
<1>3. header[base] = MAX
  BY <1>1 DEF Init
<1>4. \A s : s = <<base>> => s \in Seq(Addr) /\ s \in Seq(Nat) /\ Len(s) = 1 /\ DOMAIN s = {1} /\ s[1] = base
  BY <1>0, <1>1
<1>5. \A s : s = <<>> => s \in Seq(Addr) /\ s \in Seq(Nat) /\ Len(s) = 0 /\ DOMAIN s = {}
  OBVIOUS
<1>6. Types
  <2>1. bucketList \in [Order -> Seq(Addr)]
    BY <1>2, <1>4, <1>5 DEF Init
  <2>2. header \in [Addr -> Order]
    BY <1>0, <1>1 DEF Init
  <2>3. t \in [Client -> 0 .. MAX + 1]
    BY <1>0, SizeFacts DEF Init
  <2> QED BY <1>0, <2>1, <2>2, <2>3 DEF Types, Init
<1>7. LockInv
  BY InitLock
<1>8. \A o \in Order : Apart(o, bucketList[o], 0)
  <2>1. ASSUME NEW o \in Order PROVE bucketList[o] \in Seq(Nat) /\ Len(bucketList[o]) <= 1
    <3>1. bucketList[o] = <<base>> \/ bucketList[o] = <<>>
      BY <1>2
    <3>2. \A s : s = <<base>> \/ s = <<>> => s \in Seq(Nat) /\ Len(s) \in {0, 1}
      BY <1>4, <1>5
    <3>3. bucketList[o] \in Seq(Nat) /\ Len(bucketList[o]) \in {0, 1}
      BY <3>1, <3>2
    <3>4. \A n \in {0, 1} : n <= 1
      OBVIOUS
    <3> QED BY Zenon, <3>3, <3>4
  <2> QED BY <2>1, ApartFacts
<1>9. ListInv
  <2>1. Coalesced(NoOrder)
    <3>1. \A o \in Order : o # NoOrder
      BY SizeFacts DEF NoOrder
    <3> QED BY <1>8, <3>1 DEF Coalesced
  <2> QED BY <2>1 DEF ListInv, Init
<1>10. Listed = {base} /\ Returned = {} /\ Leaving = {} /\ live = {}
  <2>1. \A a : a \in Listed <=> a = base
    <3>1. \A o \in Order : \A p \in DOMAIN bucketList[o] : o = MAX /\ p = 1 /\ bucketList[o][p] = base
      BY <1>2, <1>4, <1>5
    <3>2. 1 \in DOMAIN bucketList[MAX] /\ bucketList[MAX][1] = base
      BY <1>0, <1>2, <1>4
    <3> QED BY <1>0, <3>1, <3>2, ListedMember
  <2> QED BY <2>1 DEF Returned, Leaving, Init
<1>11. PlaceInv
  <2>1. \A o \in Order : \A p \in DOMAIN bucketList[o] : o = MAX /\ p = 1 /\ bucketList[o][p] = base
    BY <1>2, <1>4, <1>5
  <2> QED BY <1>3, <1>10, <2>1 DEF PlaceInv
<1>12. Blocks = {base}
  BY <1>10 DEF Blocks
<1>13. Tiled(Blocks, header)
  <2>1. ASSUME NEW x \in Addr PROVE Covers(base, MAX, x)
    BY <1>0 DEF Covers, Addr
  <2> QED BY <1>0, <1>3, <1>12, <2>1 DEF Tiled
<1>14. AlignInv
  BY <1>3, <1>12 DEF AlignInv
<1> QED BY <1>6, <1>7, <1>9, <1>11, <1>13, <1>14 DEF HeapInv

(* A client that is not about to enter kfree, nor in it, moves.            *)
LEMMA KeptStep ==
  ASSUME LockInv, Types, NEW c \in Client, pc[c] # "kfree", NEW l \in Labels, l # "kfree",
         pc' = [pc EXCEPT ![c] = l], base' = base,
         DOMAIN arg' = Client, \A d \in Client : d # c => arg'[d] = arg[d],
         NEW y \in 0 .. MAX + 1, t' = [t EXCEPT ![c] = y]
  PROVE  Kept
<1>1. \A d \in Client : pc'[d] = IF d = c THEN l ELSE pc[d]
  BY DEF LockInv
<1>2. Leaving' = Leaving /\ c \notin Leaving
  BY <1>1 DEF Leaving
<1>3. \A d \in Leaving : arg'[d] = arg[d] /\ t'[d] = t[d]
  BY <1>2 DEF Types, Leaving
<1>4. t' \in [Client -> 0 .. MAX + 1]
  BY DEF Types
<1> QED BY <1>2, <1>3, <1>4 DEF Kept

(* The steps that move no block.                                           *)
LEMMA QuietKept ==
  ASSUME LockInv, Types, ListInv, NEW c \in Client,
         \/ \E o \in Order : CallMalloc(c, o)
         \/ AcquireMalloc(c) \/ SearchUp(c) \/ SearchFails(c) \/ DownDone(c)
         \/ NoBuddy(c) \/ NextOrder(c) \/ FreeDone(c)
  PROVE  Kept /\ UNCHANGED <<header, live, bucketList>>
<1> USE DEF Goto
<1>0. /\ pc \in [Client -> Labels] /\ t \in [Client -> 0 .. MAX + 1] /\ DOMAIN arg = Client
      /\ MAX \in Nat /\ t[c] \in 0 .. MAX + 1
  BY SizeFacts DEF LockInv, Types
<1>1. pc = [pc EXCEPT ![c] = pc[c]] /\ t = [t EXCEPT ![c] = t[c]]
  BY <1>0
<1>2. CASE \E o \in Order : CallMalloc(c, o)
  <2>1. PICK o \in Order : CallMalloc(c, o)
    BY <1>2
  <2> QED BY <1>0, <1>1, <2>1, KeptStep DEF CallMalloc, Labels
<1>3. CASE AcquireMalloc(c)
  <2>1. arg[c] + 1 \in 0 .. MAX + 1
    BY <1>3, SizeFacts DEF AcquireMalloc, ListInv
  <2> QED BY <1>0, <1>1, <1>3, <2>1, KeptStep DEF AcquireMalloc, Labels
<1>4. CASE SearchUp(c)
  <2>1. t[c] + 1 \in 0 .. MAX + 1
    BY <1>0, <1>4 DEF SearchUp
  <2> QED BY <1>0, <1>1, <1>4, <2>1, KeptStep DEF SearchUp, Labels
<1>5. CASE SearchFails(c) \/ FreeDone(c)
  <2>1. 0 \in 0 .. MAX + 1
    BY <1>0
  <2> QED BY <1>0, <1>5, <2>1, KeptStep DEF SearchFails, FreeDone, Return, Labels
<1>6. CASE DownDone(c)
  BY <1>0, <1>1, <1>6, KeptStep DEF DownDone, Labels
<1>7. CASE NoBuddy(c)
  BY <1>0, <1>1, <1>7, KeptStep DEF NoBuddy, Merging, Labels
<1>8. CASE NextOrder(c)
  <2>1. t[c] + 1 \in 0 .. MAX + 1
    BY <1>0, <1>8 DEF NextOrder, Merging
  <2> QED BY <1>0, <1>1, <1>8, <2>1, KeptStep DEF NextOrder, Merging, Labels
<1> QED BY <1>2, <1>3, <1>4, <1>5, <1>6, <1>7, <1>8

(* What a step of client c does to the tiling and to the lists.            *)
LEMMA StepHeap ==
  ASSUME HeapInv, NEW c \in Client, Step(c)
  PROVE  Types' /\ ListInv' /\ PlaceInv' /\ Tiled(Blocks, header)' /\ AlignInv'
<1> USE DEF Goto
<1>0. LockInv /\ Types /\ ListInv /\ PlaceInv /\ Tiled(Blocks, header) /\ AlignInv
  BY DEF HeapInv
<1>1. /\ pc \in [Client -> Labels] /\ t \in [Client -> 0 .. MAX + 1] /\ DOMAIN arg = Client
      /\ MAX \in Nat /\ Order = 0 .. MAX
      /\ pc = [pc EXCEPT ![c] = pc[c]] /\ t = [t EXCEPT ![c] = t[c]]
  BY <1>0, SizeFacts DEF LockInv, Types
<1>2. CASE \/ AcquireMalloc(c) \/ SearchUp(c) \/ SearchFails(c) \/ DownDone(c)
           \/ NoBuddy(c) \/ NextOrder(c) \/ FreeDone(c)
  <2>1. Kept /\ UNCHANGED <<header, live, bucketList>>
    BY <1>0, <1>2, QuietKept
  <2>2. ListInv'
    BY <1>0, <1>2, MallocList, FreeList
  <2> QED BY <1>0, <2>1, <2>2, SameTiles
<1>3. CASE SplitFound(c) \/ SplitDown(c)
  <2>1. /\ pc[c] \in {"up", "down"} /\ Split(t[c]) /\ t' = [t EXCEPT ![c] = @ - 1]
        /\ pc' = [pc EXCEPT ![c] = "down"]
        /\ UNCHANGED <<base, arg, live>>
    BY <1>1, <1>3 DEF SplitFound, SplitDown
  <2>2. arg[c] \in Order /\ t[c] \in arg[c] + 1 .. MAX /\ bucketList[t[c]] # <<>>
    <3>1. arg[c] \in Order
      BY <1>0, <2>1 DEF ListInv
    <3>2. CASE SplitFound(c)
      BY <1>0, <1>1, <3>1, <3>2 DEF ListInv, SplitFound, Searching
    <3>3. CASE SplitDown(c)
      <4>1. Splitting(c) /\ t[c] > arg[c]
        BY <1>0, <3>3 DEF ListInv, SplitDown
      <4>2. t[c] \in arg[c] + 1 .. MAX /\ t[c] \in Order
        BY <1>1, <3>1, <4>1 DEF Splitting
      <4>3. bucketList[t[c]] # <<>>
        BY <1>0, <4>1, <4>2, Basics, TwoBlocks DEF Splitting
      <4> QED BY <3>1, <4>2, <4>3
    <3> QED BY <1>3, <3>2, <3>3
  <2>3. PICK o \in Order : o = t[c] /\ o # 0
    BY <1>1, <2>2
  <2>4. o - 1 \in 0 .. MAX + 1
    BY <1>1, <2>3
  <2>5. Kept
    BY <1>0, <1>1, <2>1, <2>3, <2>4, KeptStep DEF Labels
  <2>6. /\ Types' /\ PlaceInv' /\ Tiled(Blocks, header)' /\ AlignInv'
        /\ bucketList'[o] = Tail(bucketList[o])
        /\ Len(bucketList'[o - 1]) = Len(bucketList[o - 1]) + 2
        /\ \A k \in Order : k # o /\ k # o - 1 => bucketList'[k] = bucketList[k]
    BY <1>0, <2>1, <2>2, <2>3, <2>5, SplitTiles
  <2>7. ListInv'
    BY <1>0, <1>3, <2>3, <2>6, SplitList
  <2> QED BY <2>6, <2>7
<1>4. CASE Take(c)
  <2>1. /\ pc[c] = "take" /\ live' = live \cup {Head(bucketList[arg[c]])}
        /\ bucketList' = [bucketList EXCEPT ![arg[c]] = Tail(@)]
        /\ pc' = [pc EXCEPT ![c] = "idle"] /\ arg' = [arg EXCEPT ![c] = None]
        /\ t' = [t EXCEPT ![c] = 0] /\ base' = base /\ header' = header
    BY <1>4 DEF Take, Return
  <2>2. arg[c] \in Order /\ bucketList[arg[c]] # <<>>
    BY <1>0, <2>1 DEF ListInv, Taking
  <2>3. PICK o \in Order : o = arg[c]
    BY <2>2
  <2>4. 0 \in 0 .. MAX + 1
    BY <1>1
  <2>5. Kept
    BY <1>0, <1>1, <2>1, <2>4, KeptStep DEF Labels
  <2>6. Types' /\ PlaceInv' /\ Tiled(Blocks, header)' /\ AlignInv'
    BY <1>0, <2>1, <2>2, <2>3, <2>5, TakeTiles
  <2>7. ListInv'
    BY <1>0, <1>4, MallocList
  <2> QED BY <2>6, <2>7
<1>5. CASE AcquireFree(c)
  <2>1. /\ pc[c] = "kfree" /\ pc' = [pc EXCEPT ![c] = "merge"]
        /\ UNCHANGED <<base, header, live, arg, t>>
        /\ bucketList' = [bucketList EXCEPT ![t[c]] = <<arg[c]>> \o @]
    BY <1>5 DEF AcquireFree
  <2>2. c \in Leaving /\ Leaving' = Leaving \ {c}
    BY <1>1, <2>1 DEF Leaving
  <2>3. Types' /\ PlaceInv' /\ Tiled(Blocks, header)' /\ AlignInv'
    BY <1>0, <2>1, <2>2, PutTiles
  <2>4. ListInv'
    BY <1>0, <1>5, FreeList
  <2> QED BY <2>3, <2>4
<1>6. CASE Merge(c)
  <2> DEFINE f == find_buddy(t[c], idx)
             list == bucketList[t[c]]
  <2>1. /\ Merging(c) /\ f > cur
        /\ bucketList' = [bucketList EXCEPT
             ![t[c]] = Without(@, cur, f),
             ![t[c] + 1] = <<IF list[f] > list[cur] THEN list[cur] ELSE list[f]>> \o @]
        /\ header' = [header EXCEPT
             ![IF list[f] > list[cur] THEN list[cur] ELSE list[f]] = t[c] + 1,
             ![IF list[f] > list[cur] THEN list[f] ELSE list[cur]] = 0]
        /\ UNCHANGED <<base, pc, arg, t, live>>
    BY <1>6 DEF Merge
  <2>2. cur \in Nat /\ cur > 0
    BY <1>0, <2>1 DEF Merging, ListInv, MergeInv
  <2>3. f # 0
    BY <2>1, <2>2
  <2>4. /\ t[c] \in Order /\ t[c] < MAX /\ cur = 1 /\ idx = 0 /\ Coalesced(t[c])
        /\ f \in 2 .. Len(list) /\ list[f] = Buddy(list[1], t[c])
    BY <1>0, <2>1, <2>3, FindOnlyHead
  <2>5. PICK o \in Order : o = t[c]
    BY <2>4
  <2>6. PICK b \in 2 .. Len(bucketList[o]) : b = f
    BY <2>4, <2>5
  <2>7. PICK l, u : /\ l = IF list[b] > list[1] THEN list[1] ELSE list[b]
                    /\ u = IF list[b] > list[1] THEN list[b] ELSE list[1]
    OBVIOUS
  <2> HIDE DEF f
  <2>8. Kept
    BY <1>0, <1>1, <2>1 DEF Kept, Leaving
  <2>9. /\ bucketList' = [bucketList EXCEPT ![o] = Without(@, 1, b), ![o + 1] = <<l>> \o @]
        /\ header' = [header EXCEPT ![l] = o + 1, ![u] = 0]
    BY <2>1, <2>4, <2>5, <2>6, <2>7
  <2>10. /\ bucketList[o][b] = Buddy(bucketList[o][1], o) /\ o < MAX /\ live' = live
         /\ l = IF bucketList[o][b] > bucketList[o][1] THEN bucketList[o][1] ELSE bucketList[o][b]
         /\ u = IF bucketList[o][b] > bucketList[o][1] THEN bucketList[o][b] ELSE bucketList[o][1]
    BY <2>1, <2>4, <2>5, <2>6, <2>7
  <2>11. /\ Types' /\ PlaceInv' /\ Tiled(Blocks, header)' /\ AlignInv'
         /\ bucketList'[o] = Without(bucketList[o], 1, b)
         /\ bucketList'[o + 1] = <<l>> \o bucketList[o + 1] /\ l \in Addr
         /\ \A k \in Order : k # o /\ k # o + 1 => bucketList'[k] = bucketList[k]
    BY <1>0, <2>8, <2>9, <2>10, MergeTiles
  <2>12. l \in Nat /\ Coalesced(o)
    BY <1>0, <2>4, <2>5, <2>11, Basics
  <2>13. ListInv'
    BY <1>0, <1>6, <2>4, <2>5, <2>10, <2>11, <2>12, MergeList
  <2> QED BY <2>11, <2>13
<1> QED BY <1>2, <1>3, <1>4, <1>5, <1>6 DEF Step

(* Every step keeps the invariant.                                         *)
LEMMA NextHeap == HeapInv /\ [Next]_vars => HeapInv'
<1> SUFFICES ASSUME HeapInv, [Next]_vars PROVE HeapInv'
  OBVIOUS
<1>0. LockInv /\ Types /\ ListInv /\ PlaceInv /\ Tiled(Blocks, header) /\ AlignInv
  BY DEF HeapInv
<1>1. LockInv'
  BY <1>0, NextLock
<1>2. pc \in [Client -> Labels]
  BY <1>0 DEF LockInv
<1>3. CASE UNCHANGED vars
  <2>1. Kept /\ UNCHANGED <<header, live, bucketList>>
    BY <1>0, <1>3 DEF Kept, vars, Types, Leaving
  <2>2. ListInv'
    BY <1>0, <1>3 DEF vars, ListInv, Searching, Splitting, Taking, MergeInv, EmptyBelow,
                      Coalesced, NoOrder, Critical
  <2> QED BY <1>0, <1>1, <2>1, <2>2, SameTiles DEF HeapInv
<1>4. ASSUME NEW c \in Client, NEW o \in Order, CallMalloc(c, o) PROVE HeapInv'
  <2>1. /\ pc[c] = "idle" /\ pc' = [pc EXCEPT ![c] = "kmalloc"] /\ arg' = [arg EXCEPT ![c] = o]
        /\ UNCHANGED <<bucketList, t, cur, idx, merged>>
    BY <1>4 DEF CallMalloc, Goto
  <2>2. ~Critical(c) /\ arg'[c] = o /\ \A d \in Client : d # c => arg'[d] = arg[d]
    BY <1>0, <2>1 DEF Critical, Types
  <2>3. ListInv'
    BY <1>0, <2>1, <2>2, CallMoves
  <2>4. Kept /\ UNCHANGED <<header, live, bucketList>>
    BY <1>0, <1>4, QuietKept
  <2> QED BY <1>0, <1>1, <2>3, <2>4, SameTiles DEF HeapInv
<1>5. ASSUME NEW c \in Client, NEW a \in live, CallFree(c, a) PROVE HeapInv'
  <2>1. /\ pc[c] = "idle" /\ pc' = [pc EXCEPT ![c] = "kfree"] /\ arg' = [arg EXCEPT ![c] = a]
        /\ t' = [t EXCEPT ![c] = header[a]] /\ live' = live \ {a}
        /\ UNCHANGED <<base, header, bucketList, cur, idx, merged>>
    BY <1>5 DEF CallFree, Goto
  <2>2. ~Critical(c) /\ \A d \in Client : d # c => arg'[d] = arg[d] /\ t'[d] = t[d]
    BY <1>0, <2>1 DEF Critical, Types
  <2>3. ListInv'
    BY <1>0, <2>1, <2>2, CallMoves
  <2>4. c \notin Leaving /\ Leaving' = Leaving \cup {c}
    BY <1>2, <2>1 DEF Leaving
  <2>5. Types' /\ PlaceInv' /\ Tiled(Blocks, header)' /\ AlignInv'
    BY <1>0, <2>1, <2>4, ReturnTiles
  <2> QED BY <1>1, <2>3, <2>5 DEF HeapInv
<1>6. ASSUME NEW c \in Client, Step(c) PROVE HeapInv'
  BY <1>1, <1>6, StepHeap DEF HeapInv
<1> QED BY <1>3, <1>4, <1>5, <1>6 DEF Next

(* The inductive invariant holds in every state.                           *)
LEMMA SpecHeap == Spec => []HeapInv
BY InitHeap, NextHeap, PTL DEF Spec

-----------------------------------------------------------------------------
(* Every variable stays in its type: every block on a list, and every      *)
(* address kmalloc returned, is an address of the heap.                    *)
THEOREM HeapTypeOK == Spec => []TypeOK
<1>1. HeapInv => TypeOK
  BY DEF HeapInv, Types, LockInv, Labels, TypeOK
<1> QED BY SpecHeap, <1>1, PTL

(* try_to_merge: whenever find_buddy finds a buddy, it is that of curr,    *)
(* and comes after it, although i and curr part after the first merge.     *)
THEOREM HeapMergeSound == Spec => []MergeSound
<1>1. ASSUME HeapInv PROVE MergeSound
  <2> SUFFICES ASSUME NEW c \in Client, Merging(c), cur <= Len(bucketList[t[c]])
               PROVE  LET list == bucketList[t[c]]
                          b == find_buddy(t[c], idx)
                      IN  /\ idx <= Len(list)
                          /\ b # 0 => b > cur /\ list[b] = Buddy(list[cur], t[c])
    BY DEF MergeSound
  <2>0. Types /\ ListInv
    BY <1>1 DEF HeapInv
  <2>1. MergeInv(c)
    BY <2>0 DEF Merging, ListInv
  <2>2. Len(bucketList[t[c]]) \in Nat
    BY <2>0, <2>1, Basics DEF MergeInv
  <2>3. idx <= Len(bucketList[t[c]])
    BY <2>1, <2>2 DEF MergeInv
  <2>4. find_buddy(t[c], idx) # 0 =>
          /\ find_buddy(t[c], idx) > cur
          /\ bucketList[t[c]][find_buddy(t[c], idx)] = Buddy(bucketList[t[c]][cur], t[c])
    <3> SUFFICES ASSUME find_buddy(t[c], idx) # 0
                 PROVE  /\ find_buddy(t[c], idx) > cur
                        /\ bucketList[t[c]][find_buddy(t[c], idx)] = Buddy(bucketList[t[c]][cur], t[c])
      OBVIOUS
    <3>1. /\ cur = 1 /\ find_buddy(t[c], idx) \in 2 .. Len(bucketList[t[c]])
          /\ bucketList[t[c]][find_buddy(t[c], idx)] = Buddy(bucketList[t[c]][1], t[c])
      BY <2>0, FindOnlyHead
    <3>2. \A n \in 2 .. Len(bucketList[t[c]]) : n > 1
      BY <2>2
    <3> QED BY <3>1, <3>2
  <2> QED BY <2>3, <2>4
<1> QED BY SpecHeap, <1>1, PTL

(* Two blocks of a tiling that cover the same byte are the same.           *)
LEMMA CoverUnique ==
  ASSUME Types, NEW B \in SUBSET Addr, Tiled(B, header), NEW a \in B, NEW b \in B, NEW x \in Addr,
         Covers(a, header[a], x), Covers(b, header[b], x)
  PROVE  a = b
<1>1. x \in Nat /\ a \in Nat /\ b \in Nat /\ Size(header[a]) \in Nat /\ Size(header[b]) \in Nat
  BY Basics
<1>2. (a < b => a + Size(header[a]) <= b) /\ (b < a => b + Size(header[b]) <= a)
  BY DEF Tiled
<1> QED BY <1>1, <1>2 DEF Covers

(* No list is longer than the heap has places.                             *)
LEMMA ListBound ==
  ASSUME Types, PlaceInv, NEW o \in Order
  PROVE  Len(bucketList[o]) <= Size(MAX)
<1>1. PICK s \in Seq(Addr) : s = bucketList[o]
  BY Basics
<1>2. PICK n \in Nat : n = Len(s) /\ DOMAIN s = 1 .. n
  BY LenProperties
<1>3. s \in [1 .. n -> Addr]
  BY <1>2
<1>4. \A p, q \in 1 .. n : s[p] = s[q] => p = q
  BY <1>1, <1>2 DEF PlaceInv
<1>5. s \in Injection(1 .. n, Addr)
  BY <1>3, <1>4, Fun_IsInj
<1>6. base \in Int /\ base + Size(MAX) - 1 \in Int /\ Size(MAX) \in Nat \ {0} /\ base \in Nat
  BY Basics
<1>7. IsFiniteSet(Addr) /\ Cardinality(Addr) = Size(MAX)
  <2>1. PICK i \in Int, j \in Int : i = base /\ j = base + Size(MAX) - 1
    BY <1>6
  <2>2. IsFiniteSet(i .. j) /\ Cardinality(i .. j) = IF i > j THEN 0 ELSE j - i + 1
    BY FS_Interval
  <2>3. (IF i > j THEN 0 ELSE j - i + 1) = Size(MAX)
    BY <1>6, <2>1
  <2> QED BY <2>1, <2>2, <2>3 DEF Addr
<1>8. Cardinality(1 .. n) <= Cardinality(Addr)
  BY <1>5, <1>7, FS_Injection
<1>9. Cardinality(1 .. n) = n
  BY FS_Interval
<1> QED BY <1>1, <1>2, <1>7, <1>8, <1>9

(* Every byte of the heap belongs to exactly one block, free, in use or on *)
(* its way back, between any two steps of the allocator.                   *)
THEOREM HeapTiling == Spec => []Tiling
<1>1. ASSUME HeapInv PROVE Tiling
  <2>0. Types /\ PlaceInv /\ Tiled(Blocks, header)
    BY <1>1 DEF HeapInv
  <2>1. ASSUME NEW fp \in FreePlaces
        PROVE  /\ fp[1] \in Order /\ fp[2] \in DOMAIN bucketList[fp[1]]
               /\ bucketList[fp[1]][fp[2]] \in Listed
               /\ bucketList[fp[1]][fp[2]] \in Addr
               /\ header[bucketList[fp[1]][fp[2]]] = fp[1]
    <3>1. fp[1] \in Order /\ fp[2] \in 1 .. Size(MAX) /\ fp[2] <= Len(bucketList[fp[1]])
      BY DEF FreePlaces
    <3>2. fp[2] \in DOMAIN bucketList[fp[1]]
      BY <2>0, <3>1, Basics
    <3>3. PICK o \in Order, p \in Nat : o = fp[1] /\ p = fp[2]
      BY <3>1, <2>0, Basics
    <3>4. p \in DOMAIN bucketList[o]
      BY <3>2, <3>3
    <3>5. bucketList[o][p] \in Listed /\ bucketList[o][p] \in Addr /\ header[bucketList[o][p]] = o
      BY <2>0, <3>4, Basics, BlockFacts DEF PlaceInv
    <3> QED BY <3>3, <3>4, <3>5
  <2>2. ASSUME NEW a \in Listed
        PROVE  \E fp \in FreePlaces : bucketList[fp[1]][fp[2]] = a
    <3>1. PICK o \in Order : \E p \in DOMAIN bucketList[o] : bucketList[o][p] = a
      BY ListedMember
    <3>2. PICK p \in DOMAIN bucketList[o] : bucketList[o][p] = a
      BY <3>1
    <3>3. p \in 1 .. Size(MAX) /\ p <= Len(bucketList[o])
      <4>1. Len(bucketList[o]) \in Nat /\ DOMAIN bucketList[o] = 1 .. Len(bucketList[o])
        BY <2>0, Basics
      <4>2. Len(bucketList[o]) <= Size(MAX) /\ Size(MAX) \in Nat
        BY <2>0, Basics, ListBound
      <4>3. PICK n \in Nat, m \in Nat : n = Len(bucketList[o]) /\ m = Size(MAX)
        BY <4>1, <4>2
      <4>4. p \in 1 .. n /\ n <= m
        BY <4>1, <4>2, <4>3
      <4>5. p \in 1 .. m /\ p <= n
        BY <4>4
      <4> QED BY <4>3, <4>5
    <3>4. <<o, p>> \in FreePlaces
      BY <3>3 DEF FreePlaces
    <3> QED BY <3>2, <3>4
  <2>3. ASSUME NEW x \in Addr
        PROVE  Cardinality({fp \in FreePlaces : Covers(bucketList[fp[1]][fp[2]], fp[1], x)})
                 + Cardinality({a \in live : Covers(a, header[a], x)})
                 + Cardinality({c \in Leaving : Covers(arg[c], header[arg[c]], x)}) = 1
    <3> DEFINE F == {fp \in FreePlaces : Covers(bucketList[fp[1]][fp[2]], fp[1], x)}
               G == {a \in live : Covers(a, header[a], x)}
               H == {c \in Leaving : Covers(arg[c], header[arg[c]], x)}
    <3>1. PICK y \in Blocks : Covers(y, header[y], x)
      BY <2>0 DEF Tiled
    <3>2. \A a \in Blocks : Covers(a, header[a], x) => a = y
      BY <2>0, <3>1, BlockFacts, CoverUnique
    <3>3. \A fp \in F : fp \in FreePlaces /\ bucketList[fp[1]][fp[2]] = y /\ y \in Listed
      BY <2>1, <3>2 DEF Blocks
    <3>4. \A a \in G : a = y /\ y \in live
      BY <3>2 DEF Blocks
    <3>5. \A c \in H : c \in Leaving /\ arg[c] = y /\ y \in Returned
      BY <3>2 DEF Blocks, Returned
    <3>6. /\ y \in Listed => F # {}
          /\ y \in live => G # {}
          /\ y \in Returned => H # {}
      <4>1. y \in Listed => F # {}
        <5> SUFFICES ASSUME y \in Listed PROVE F # {}
          OBVIOUS
        <5>1. PICK fp \in FreePlaces : bucketList[fp[1]][fp[2]] = y
          BY <2>2
        <5>2. Covers(bucketList[fp[1]][fp[2]], fp[1], x)
          BY <2>1, <3>1, <5>1
        <5> QED BY <5>2
      <4>2. y \in Returned => H # {}
        BY <3>1 DEF Returned
      <4> QED BY <3>1, <4>1, <4>2
    <3>7. y \in Listed \/ y \in live \/ y \in Returned
      BY DEF Blocks
    <3>8. \A c, d \in H : c = d
      BY <2>0, <3>5 DEF PlaceInv
    <3>9. \A e, f \in F : e = f
      <4> SUFFICES ASSUME NEW e \in F, NEW f \in F PROVE e = f
        OBVIOUS
      <4>1. e \in FreePlaces /\ f \in FreePlaces /\ bucketList[e[1]][e[2]] = y /\ bucketList[f[1]][f[2]] = y
        BY <3>3
      <4>2. e[1] = f[1]
        BY <2>1, <4>1
      <4>3. e[2] = f[2]
        BY <2>0, <2>1, <4>1, <4>2 DEF PlaceInv
      <4>4. e = <<e[1], e[2]>> /\ f = <<f[1], f[2]>>
        BY <4>1 DEF FreePlaces
      <4> QED BY <4>2, <4>3, <4>4
    <3>10. \A a, b \in G : a = b
      BY <3>4
    <3>11. /\ F # {} => y \in Listed
           /\ G # {} => y \in live
           /\ H # {} => y \in Returned
      BY <3>3, <3>4, <3>5
    <3> HIDE DEF F, G, H
    <3>12. /\ Cardinality(F) \in {0, 1} /\ (Cardinality(F) = 0 <=> F = {})
           /\ Cardinality(G) \in {0, 1} /\ (Cardinality(G) = 0 <=> G = {})
           /\ Cardinality(H) \in {0, 1} /\ (Cardinality(H) = 0 <=> H = {})
      BY <3>8, <3>9, <3>10, AtMostOne
    <3>13. /\ F # {} \/ G # {} \/ H # {}
           /\ F = {} \/ G = {}
           /\ F = {} \/ H = {}
           /\ G = {} \/ H = {}
      BY <2>0, <3>6, <3>7, <3>11 DEF PlaceInv
    <3>14. Cardinality(F) + Cardinality(G) + Cardinality(H) = 1
      BY <3>12, <3>13
    <3> QED BY <3>14 DEF F, G, H
  <2>4. ASSUME NEW fp \in FreePlaces
        PROVE  /\ bucketList[fp[1]][fp[2]] + Size(fp[1]) <= base + Size(MAX)
               /\ header[bucketList[fp[1]][fp[2]]] = fp[1]
    BY <2>0, <2>1 DEF Tiled, Blocks
  <2> QED BY <2>3, <2>4 DEF Tiling
<1> QED BY SpecHeap, <1>1, PTL

-----------------------------------------------------------------------------
(* Multiples of a size: d divides x when x is some number of times d.      *)
LEMMA Multiple ==
  ASSUME NEW d \in Nat \ {0}, NEW x \in Nat
  PROVE  x % d = 0 <=> \E n \in Nat : x = d * n
<1>1. ASSUME x % d = 0 PROVE \E n \in Nat : x = d * n
  <2>1. x = d * (x \div d) /\ x \div d \in Nat
    BY <1>1
  <2> QED BY <2>1
<1>2. ASSUME NEW n \in Nat, x = d * n PROVE x % d = 0
  <2>1. (d * n) % d = 0
    OBVIOUS
  <2> QED BY <1>2, <2>1
<1> QED BY <1>1, <1>2

(* Their sums are multiples, and no two are less than a size apart.        *)
LEMMA MultipleFacts ==
  ASSUME NEW d \in Nat \ {0}, NEW x \in Nat, NEW y \in Nat, x % d = 0, y % d = 0
  PROVE  (x + y) % d = 0 /\ (x < y + d => x <= y)
<1>1. PICK m \in Nat : x = d * m
  BY Multiple
<1>2. PICK n \in Nat : y = d * n
  BY Multiple
<1>3. x + y = d * (m + n) /\ m + n \in Nat /\ x + y \in Nat
  BY <1>1, <1>2
<1>4. (x + y) % d = 0
  BY <1>3, Multiple
<1>5. ASSUME m > n PROVE x >= y + d
  <2>1. PICK k \in Nat : m = (n + 1) + k
    <3>1. m - (n + 1) \in Nat /\ m = (n + 1) + (m - (n + 1))
      BY <1>5
    <3> QED BY <3>1
  <2>2. x = d * n + d + d * k /\ d * k \in Nat
    BY <1>1, <2>1
  <2> QED BY <1>2, <2>2
<1>6. ASSUME m <= n PROVE x <= y
  <2>1. PICK k \in Nat : n = m + k
    <3>1. n - m \in Nat /\ n = m + (n - m)
      BY <1>6
    <3> QED BY <3>1
  <2>2. y = d * m + d * k /\ d * k \in Nat
    BY <1>2, <2>1
  <2> QED BY <1>1, <2>2
<1> QED BY <1>4, <1>5, <1>6

(* The size of an order divides that of every higher order.                *)
LEMMA SizeDivides ==
  ASSUME NEW o \in Order, NEW k \in Order, o <= k
  PROVE  \A x \in Nat : x % Size(k) = 0 => x % Size(o) = 0
<1> DEFINE T == {m \in Nat : o + m <= MAX => \E n \in Nat : Size(o + m) = Size(o) * n}
<1>0. o \in Nat /\ k \in Nat /\ MAX \in Nat /\ k <= MAX /\ Size(o) \in Nat \ {0} /\ Size(k) \in Nat \ {0}
  BY SizeFacts
<1>1. 0 \in T
  <2>1. Size(o + 0) = Size(o) * 1
    BY <1>0
  <2> QED BY <2>1
<1>2. ASSUME NEW m \in Nat, m \in T PROVE m + 1 \in T
  <2> SUFFICES ASSUME o + (m + 1) <= MAX PROVE \E n \in Nat : Size(o + (m + 1)) = Size(o) * n
    OBVIOUS
  <2>1. PICK n \in Nat : Size(o + m) = Size(o) * n
    BY <1>0, <1>2
  <2>2. o + m \in Order /\ o + m < MAX /\ o + (m + 1) = (o + m) + 1
    BY <1>0, SizeFacts
  <2>3. Size((o + m) + 1) = 2 * Size(o + m)
    BY <2>2, SizeFacts
  <2>4. Size(o + (m + 1)) = Size(o) * (2 * n)
    BY <1>0, <2>1, <2>2, <2>3
  <2> QED BY <2>4
<1>3. Nat \subseteq T
  <2> HIDE DEF T
  <2> QED BY <1>1, <1>2, SetInduction
<1>4. k - o \in T /\ o + (k - o) = k
  <2>1. k - o \in Nat /\ o + (k - o) = k
    BY <1>0
  <2> HIDE DEF T
  <2> QED BY <1>3, <2>1
<1>5. PICK n \in Nat : Size(k) = Size(o) * n
  BY <1>0, <1>4
<1>6. PICK d \in Nat \ {0}, e \in Nat \ {0} : d = Size(o) /\ e = Size(k) /\ e = d * n
  BY <1>0, <1>5
<1> SUFFICES ASSUME NEW x \in Nat, x % e = 0 PROVE x % d = 0
  BY <1>6
<1>7. PICK m \in Nat : x = e * m
  BY Multiple
<1>8. x = d * (n * m) /\ n * m \in Nat
  BY <1>6, <1>7
<1> QED BY <1>8, Multiple

(* In a heap aligned to its size, where every block is on a list, a free   *)
(* block of the lowest order in use has its buddy free as well.            *)
LEMMA BuddyListed ==
  ASSUME Types, PlaceInv, Tiled(Blocks, header), AlignInv, base % Size(MAX) = 0, Blocks = Listed,
         NEW o \in Order, o < MAX, NEW p \in DOMAIN bucketList[o],
         \A k \in Order : k < o => bucketList[k] = <<>>
  PROVE  \E q \in DOMAIN bucketList[o] : bucketList[o][q] = Buddy(bucketList[o][p], o)
<1>1. PICK S \in Nat \ {0}, d \in Nat \ {0}, H \in Nat \ {0} :
        S = Size(o) /\ d = Size(o + 1) /\ d = 2 * S /\ H = Size(MAX)
  <2>1. o + 1 \in Order /\ MAX \in Order /\ Size(o + 1) = 2 * Size(o)
    BY SizeFacts
  <2>2. Size(o) \in Nat \ {0} /\ Size(o + 1) \in Nat \ {0} /\ Size(MAX) \in Nat \ {0}
    BY <2>1, SizeFacts
  <2> QED BY <2>1, <2>2
<1>2. o + 1 \in Order /\ o + 1 <= MAX /\ MAX \in Order /\ o \in Nat
  BY SizeFacts
<1>3. PICK a \in Addr : a = bucketList[o][p]
  BY Basics
<1>4. a \in Nat /\ header[a] = o /\ a \in Blocks /\ a \in Listed
  BY <1>3, Basics, BlockFacts DEF PlaceInv
<1>5. PICK b \in Nat : b = Buddy(a, o)
  BY <1>4, BuddyFacts
<1>6. (b = a + S \/ b = a - S) /\ Buddy(b, o) = a
  BY <1>1, <1>4, <1>5, BuddyFacts
<1>7. a % S = 0
  BY <1>1, <1>4 DEF AlignInv
<1>8. S % S = 0 /\ d % d = 0
  OBVIOUS
<1>9. b % S = 0
  <2>1. PICK m \in Nat : a = S * m
    BY <1>4, <1>7, Multiple
  <2>2. CASE b = a + S
    <3>1. b = S * (m + 1) /\ m + 1 \in Nat
      BY <2>1, <2>2
    <3> QED BY <3>1, Multiple
  <2>3. CASE b = a - S
    <3>1. m # 0
      BY <2>1, <2>3
    <3>2. b = S * (m - 1) /\ m - 1 \in Nat
      BY <2>1, <2>3, <3>1
    <3> QED BY <3>2, Multiple
  <2> QED BY <1>6, <2>2, <2>3
<1>10. PICK l \in Nat : /\ l = IF a < b THEN a ELSE b
                        /\ l % S = 0 /\ Buddy(l, o) = l + S
                        /\ (a = l /\ b = l + S) \/ (a = l + S /\ b = l)
  BY <1>4, <1>5, <1>6, <1>7, <1>9
<1>a. l <= a /\ a < l + d /\ l <= b /\ b < l + d /\ a + S > a
  <2>1. (a = l /\ b = l + S) \/ (a = l + S /\ b = l)
    BY <1>10
  <2>2. d = 2 * S
    BY <1>1
  <2> QED BY <1>4, <2>1, <2>2
<1>11. l % d = 0
  BY <1>1, <1>10, LowerAligned
<1>12. base \in Nat /\ base % d = 0 /\ H % d = 0 /\ (base + H) % d = 0
  <2>1. base \in Nat /\ H % H = 0
    BY Basics
  <2>2. base % d = 0 /\ H % d = 0
    BY <1>1, <1>2, <2>1, SizeDivides
  <2> QED BY <2>1, <2>2, MultipleFacts
<1>13. base <= a /\ a < base + H
  BY <1>1, <1>12 DEF Addr
<1>14. base <= l
  <2>1. base < l + d
    BY <1>4, <1>12, <1>13, <1>a
  <2> QED BY <1>11, <1>12, <2>1, MultipleFacts
<1>15. l + d <= base + H
  <2>0. d \in Nat /\ l + d \in Nat /\ base + H \in Nat
    BY <1>12
  <2>1. (l + d) % d = 0
    BY <1>8, <1>11, <2>0, MultipleFacts
  <2>2. l + d < (base + H) + d
    <3>1. base \in Nat
      BY <1>12
    <3> QED BY <1>4, <1>13, <1>a, <3>1
  <2> QED BY <1>12, <2>0, <2>1, <2>2, MultipleFacts
<1>16. b \in Addr
  <2>1. base \in Nat /\ H = Size(MAX)
    BY <1>1, <1>12
  <2>2. base <= b /\ b <= base + H - 1
    BY <1>14, <1>15, <1>a, <2>1
  <2> QED BY <2>1, <2>2 DEF Addr
<1>17. PICK y \in Listed : Covers(y, header[y], b)
  BY <1>16 DEF Tiled
<1>18. PICK k \in Order : \E q \in DOMAIN bucketList[k] : bucketList[k][q] = y
  BY ListedMember
<1>19. PICK q \in DOMAIN bucketList[k] : bucketList[k][q] = y
  BY <1>18
<1>20. k \in Nat /\ k >= o /\ header[y] = k /\ y \in Addr /\ y \in Nat
  <2>1. bucketList[k] # <<>>
    BY <1>19
  <2>2. k \in Nat
    BY SizeFacts
  <2>3. header[y] = k /\ y \in Addr /\ y \in Nat
    BY <1>19, Basics DEF PlaceInv
  <2> QED BY <1>2, <2>1, <2>2, <2>3
<1>21. PICK K \in Nat \ {0} : K = Size(k)
  BY SizeFacts
<1>22. y % K = 0 /\ y <= b /\ b < y + K
  BY <1>17, <1>20, <1>21 DEF AlignInv, Covers
<1>23. CASE k = o
  <2>1. b <= y
    BY <1>1, <1>9, <1>20, <1>21, <1>22, <1>23, MultipleFacts
  <2>2. y = b
    BY <1>20, <1>22, <2>1
  <2> QED BY <1>3, <1>5, <1>19, <1>23, <2>2
<1>24. CASE k > o
  <2>0. o + 1 <= k /\ K % K = 0
    BY <1>2, <1>20, <1>24
  <2>1. y % d = 0 /\ K % d = 0
    BY <1>1, <1>2, <1>20, <1>21, <1>22, <2>0, SizeDivides
  <2>a. y \in Nat /\ d \in Nat /\ y + K \in Nat /\ l + d \in Nat
    BY <1>20
  <2>2. (y + K) % d = 0 /\ (l + d) % d = 0
    BY <1>8, <1>11, <2>1, <2>a, MultipleFacts
  <2>3. y <= l
    <3>1. y < l + d
      BY <1>22, <1>a, <2>a
    <3> QED BY <1>11, <1>20, <2>1, <3>1, MultipleFacts
  <2>4. l + d <= y + K
    <3>1. l + d < (y + K) + d
      BY <1>22, <1>a, <2>a
    <3> QED BY <2>2, <2>a, <3>1, MultipleFacts
  <2>5. Covers(y, header[y], a) /\ Covers(a, header[a], a)
    <3>1. y <= a /\ a < y + K /\ a <= a /\ a < a + S
      BY <1>4, <1>a, <2>3, <2>4, <2>a
    <3>2. header[y] = k /\ Size(k) = K /\ header[a] = o /\ Size(o) = S
      BY <1>1, <1>4, <1>20, <1>21
    <3> QED BY <3>1, <3>2 DEF Covers
  <2>6. a = y
    BY <1>4, <1>17, <2>5, BlockFacts, CoverUnique
  <2> QED BY <1>4, <1>20, <1>24, <2>6
<1> QED BY <1>2, <1>20, <1>23, <1>24

(* Between calls no free block has its buddy free as well, and a heap that *)
(* is aligned to its size is one block again when everything was freed.    *)
THEOREM HeapFullyCoalesced == Spec => []FullyCoalesced
<1>1. ASSUME HeapInv, ~heap_lock
      PROVE  \A o \in 0 .. MAX - 1 : \A p, q \in 1 .. Len(bucketList[o]) :
               bucketList[o][p] # Buddy(bucketList[o][q], o)
  <2> SUFFICES ASSUME NEW o \in 0 .. MAX - 1, NEW p \in 1 .. Len(bucketList[o]),
                      NEW q \in 1 .. Len(bucketList[o])
               PROVE  bucketList[o][p] # Buddy(bucketList[o][q], o)
    OBVIOUS
  <2>1. o \in Order /\ o < MAX
    BY SizeFacts
  <2>2. Apart(o, bucketList[o], 0) /\ DOMAIN bucketList[o] = 1 .. Len(bucketList[o])
    BY <1>1, <2>1, FreeLists, Basics DEF HeapInv
  <2>3. p > 0 /\ q > 0
    OBVIOUS
  <2> QED BY <2>1, <2>2, <2>3 DEF Apart
<1>2. ASSUME HeapInv, ~heap_lock, base % Size(MAX) = 0, live = {}, Leaving = {}
      PROVE  bucketList[MAX] = <<base>>
  <2>0. Types /\ PlaceInv /\ Tiled(Blocks, header) /\ AlignInv /\ LockInv /\ ListInv
    BY <1>2 DEF HeapInv
  <2>1. Blocks = Listed
    BY <1>2 DEF Blocks, Returned
  <2>2. MAX \in Nat /\ Order = 0 .. MAX /\ MAX \in Order /\ base \in Nat /\ Size(MAX) \in Nat \ {0}
    BY <2>0, SizeFacts, Basics
  <2>3. ASSUME NEW k \in Order, k < MAX PROVE bucketList[k] = <<>>
    <3> DEFINE N == {o \in Order : bucketList[o] # <<>>}
    <3> SUFFICES ASSUME k \in N PROVE FALSE
      OBVIOUS
    <3>1. N \in SUBSET Nat
      BY <2>2
    <3>2. PICK o \in N : \A j \in N : o <= j
      BY <3>1, Least
    <3>3. o \in Order /\ o < MAX /\ bucketList[o] # <<>> /\ \A j \in Order : j < o => bucketList[j] = <<>>
      BY <2>2, <2>3, <3>2
    <3>4. 1 \in DOMAIN bucketList[o]
      BY <2>0, <3>3, Basics, TailFacts
    <3>5. \E q \in DOMAIN bucketList[o] : bucketList[o][q] = Buddy(bucketList[o][1], o)
      BY <1>2, <2>0, <2>1, <3>3, <3>4, BuddyListed
    <3>6. Apart(o, bucketList[o], 0) /\ DOMAIN bucketList[o] = 1 .. Len(bucketList[o])
      BY <1>2, <2>0, <3>3, FreeLists, Basics
    <3> QED BY <3>3, <3>4, <3>5, <3>6 DEF Apart
  <2>4. PICK s \in Seq(Addr) : s = bucketList[MAX]
    BY <2>0, <2>2, Basics
  <2>5. PICK n \in Nat : n = Len(s) /\ DOMAIN s = 1 .. n
    BY LenProperties
  <2>6. ASSUME NEW p \in 1 .. n PROVE s[p] = base
    <3>1. s[p] \in Addr /\ s[p] \in Blocks /\ header[s[p]] = MAX
      BY <2>0, <2>2, <2>4, <2>5, Basics, BlockFacts DEF PlaceInv
    <3>2. s[p] + Size(MAX) <= base + Size(MAX)
      BY <2>0, <3>1 DEF Tiled
    <3> QED BY <2>2, <3>1, <3>2 DEF Addr
  <2>7. \A p, q \in 1 .. n : p = q
    BY <2>0, <2>2, <2>4, <2>5, <2>6 DEF PlaceInv
  <2>8. n # 0
    <3>1. base \in Addr
      BY <2>2 DEF Addr
    <3>2. PICK y \in Listed : Covers(y, header[y], base)
      BY <2>0, <2>1, <3>1 DEF Tiled
    <3>3. PICK k \in Order : \E q \in DOMAIN bucketList[k] : bucketList[k][q] = y
      BY ListedMember
    <3>4. k = MAX
      <4>1. bucketList[k] # <<>>
        BY <3>3
      <4> QED BY <2>2, <2>3, <4>1
    <3> QED BY <2>4, <2>5, <3>3, <3>4
  <2>9. n = 1
    <3>1. 1 \in 1 .. n /\ n \in 1 .. n
      BY <2>8
    <3> QED BY <2>7, <3>1
  <2>10. s[1] = base
    BY <2>6, <2>9
  <2> QED BY <2>4, <2>5, <2>9, <2>10
<1>3. HeapInv => FullyCoalesced
  BY <1>1, <1>2 DEF FullyCoalesced
<1> QED BY SpecHeap, <1>3, PTL
=============================================================================
