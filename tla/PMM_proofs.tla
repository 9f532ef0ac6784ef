----------------------------- MODULE PMM_proofs -----------------------------
(***************************************************************************)
(* Proofs about PMM for every set of clients, bitmap size, initial set of  *)
(* free frames and set of request sizes: the accounting of the bitmap is   *)
(* exact at every step of the loops, and alloc and free implement the      *)
(* one-step allocator of FrameAllocator.                                   *)
(***************************************************************************)
EXTENDS PMM, TLAPS

(* A step that changes no bit and nobody's frames keeps the accounting.    *)
LEMMA QuietStep ==
  ASSUME Accounting, SingleOwner, bitmap' = bitmap, held' = held,
         \A d \in Client : Uncleared(d)' = Uncleared(d) /\ Marked(d)' = Marked(d)
  PROVE  Accounting' /\ SingleOwner'
BY DEF Accounting, SingleOwner, Taken

(* What a client knows of the bitmap survives the steps of the others:     *)
(* bits change only when somebody else is in the critical section.         *)
LEMMA OthersKeep ==
  ASSUME NEW d \in Client, LocalOK(d), pc'[d] = pc[d], loc'[d] = loc[d],
         bitmap' = bitmap \/ ~Critical(d)
  PROVE  LocalOK(d)' /\ Uncleared(d)' = Uncleared(d) /\ Marked(d)' = Marked(d)
<1>1. AllocOK(d)' /\ ClearOK(d)'
  BY DEF LocalOK, AllocOK, ClearOK, Run
<1>2. ScanOK(d)'
  BY DEF LocalOK, ScanOK, FreeRun, Run, Bit, Critical
<1>3. MarkOK(d)'
  BY DEF LocalOK, MarkOK, FreeRun, Run, Bit, Critical
<1> QED BY <1>1, <1>2, <1>3 DEF LocalOK, Uncleared, Marked

(* A client calls alloc.                                                   *)
LEMMA CallAllocStep ==
  ASSUME IInv, NEW c \in Client, NEW n \in Counts, CallAlloc(c, n)
  PROVE  IInv'
<1> USE NBitsAssumption, CountsAssumption, InitFreeAssumption DEF IInv, Bit, Run
<1>0. /\ loc[c].count \in Nat /\ loc[c].page \in Nat
      /\ loc[c].i \in Nat /\ loc[c].cur \in Nat
      /\ LocalOK(c)
      /\ \A d \in Client : d # c => pc'[d] = pc[d] /\ loc'[d] = loc[d] /\ held'[d] = held[d]
  BY DEF Types, Locals, LoopsExact, CallAlloc, Goto
<1>1. /\ pc'[c] = "alloc"
      /\ loc'[c] = [count |-> n, page |-> 0, i |-> 0, cur |-> 0]
  BY <1>0 DEF Types, Locals, CallAlloc, Goto, Fresh, At
<1>2. Types'
  BY <1>0, <1>1 DEF Types, PC, Locals, CallAlloc, Goto, Fresh, At
<1>3. LockInv'
  BY DEF LockInv, Critical, Types, PC, CallAlloc, Goto
<1>4. \A d \in Client : d # c =>
        LocalOK(d)' /\ Uncleared(d)' = Uncleared(d) /\ Marked(d)' = Marked(d)
  BY <1>0, OthersKeep DEF LoopsExact, CallAlloc, LockInv
<1>5. LocalOK(c)'
  BY <1>0, <1>1 DEF LocalOK, AllocOK, ScanOK, MarkOK, ClearOK, FreeRun, CallAlloc
<1>6. LoopsExact'
  BY <1>4, <1>5 DEF LoopsExact
<1>7. Uncleared(c)' = Uncleared(c) /\ Marked(c)' = Marked(c)
  BY <1>0, <1>1 DEF Uncleared, Marked, LocalOK, ClearOK, CallAlloc
<1>8. Accounting' /\ SingleOwner'
  BY <1>4, <1>7, QuietStep DEF CallAlloc
<1> QED BY <1>2, <1>3, <1>6, <1>8

(* alloc takes the lock and starts at bit 0.                               *)
LEMMA AcquireAllocStep ==
  ASSUME IInv, NEW c \in Client, AcquireAlloc(c)
  PROVE  IInv'
<1> USE NBitsAssumption, CountsAssumption, InitFreeAssumption DEF IInv, Bit, Run
<1>0. /\ loc[c].count \in Nat /\ loc[c].page \in Nat
      /\ loc[c].i \in Nat /\ loc[c].cur \in Nat
      /\ LocalOK(c)
      /\ \A d \in Client : d # c => pc'[d] = pc[d] /\ loc'[d] = loc[d] /\ held'[d] = held[d]
  BY DEF Types, Locals, LoopsExact, AcquireAlloc, Goto
<1>1. /\ pc'[c] = "scan"
      /\ loc'[c] = [count |-> loc[c].count, page |-> loc[c].page, i |-> 0, cur |-> 0]
  BY <1>0 DEF Types, Locals, AcquireAlloc, Goto, Fresh, At, LocalOK, AllocOK
<1>2. Types'
  BY <1>0, <1>1 DEF Types, PC, Locals, AcquireAlloc, Goto, Fresh, At, acquire
<1>3. LockInv'
  BY DEF LockInv, Critical, Types, PC, AcquireAlloc, Goto, acquire
<1>4. \A d \in Client : d # c =>
        LocalOK(d)' /\ Uncleared(d)' = Uncleared(d) /\ Marked(d)' = Marked(d)
  BY <1>0, OthersKeep DEF LoopsExact, AcquireAlloc, LockInv
<1>5. LocalOK(c)'
  BY <1>0, <1>1 DEF LocalOK, AllocOK, ScanOK, MarkOK, ClearOK, FreeRun, AcquireAlloc
<1>6. LoopsExact'
  BY <1>4, <1>5 DEF LoopsExact
<1>7. Uncleared(c)' = Uncleared(c) /\ Marked(c)' = Marked(c)
  BY <1>0, <1>1 DEF Uncleared, Marked, LocalOK, ClearOK, AcquireAlloc
<1>8. Accounting' /\ SingleOwner'
  BY <1>4, <1>7, QuietStep DEF AcquireAlloc
<1> QED BY <1>2, <1>3, <1>6, <1>8

(* The scan passes a used bit and starts counting again.                   *)
LEMMA ScanUsedStep ==
  ASSUME IInv, NEW c \in Client, ScanUsed(c)
  PROVE  IInv'
<1> USE NBitsAssumption, CountsAssumption, InitFreeAssumption DEF IInv, Bit, Run
<1>0. /\ loc[c].count \in Nat /\ loc[c].page \in Nat
      /\ loc[c].i \in Nat /\ loc[c].cur \in Nat
      /\ LocalOK(c)
      /\ \A d \in Client : d # c => pc'[d] = pc[d] /\ loc'[d] = loc[d] /\ held'[d] = held[d]
  BY DEF Types, Locals, LoopsExact, ScanUsed, Goto
<1>1. /\ pc'[c] = "scan"
      /\ loc'[c] = [count |-> loc[c].count, page |-> loc[c].page, i |-> loc[c].i + 1, cur |-> 0]
  BY <1>0 DEF Types, Locals, ScanUsed, Goto, Fresh, At
<1>2. Types'
  BY <1>0, <1>1 DEF Types, PC, Locals, ScanUsed, Goto, Fresh, At
<1>3. LockInv'
  BY DEF LockInv, Critical, Types, PC, ScanUsed, Goto
<1>4. \A d \in Client : d # c =>
        LocalOK(d)' /\ Uncleared(d)' = Uncleared(d) /\ Marked(d)' = Marked(d)
  BY <1>0, OthersKeep DEF LoopsExact, ScanUsed, LockInv
<1>5. LocalOK(c)'
  <2>1. ASSUME NEW q \in Bit, loc[c].count # 0, q + loc[c].count <= loc[c].i + 1
        PROVE  ~FreeRun(q, loc[c].count)
    <3>1. CASE q + loc[c].count <= loc[c].i
      BY <1>0, <2>1, <3>1 DEF LocalOK, ScanOK, ScanUsed
    <3>2. CASE q + loc[c].count = loc[c].i + 1
      BY <1>0, <2>1, <3>2 DEF FreeRun, ScanUsed
    <3> QED BY <1>0, <2>1, <3>1, <3>2
  <2>2. ScanOK(c)'
    <3>1. ScanOK(c) /\ pc[c] = "scan" /\ bitmap' = bitmap
      BY <1>0 DEF LocalOK, ScanUsed
    <3>2. FreeRun(loc[c].i + 1, 0) /\ bitmap[loc[c].i] = 1 /\ loc[c].i + 1 <= NBits
      BY <1>0 DEF FreeRun, ScanUsed
    <3> QED BY <1>0, <1>1, <2>1, <3>1, <3>2 DEF ScanOK, FreeRun
  <2> QED BY <1>1, <2>2 DEF LocalOK, AllocOK, MarkOK, ClearOK
<1>6. LoopsExact'
  BY <1>4, <1>5 DEF LoopsExact
<1>7. Uncleared(c)' = Uncleared(c) /\ Marked(c)' = Marked(c)
  BY <1>0, <1>1 DEF Uncleared, Marked, LocalOK, ClearOK, ScanUsed
<1>8. Accounting' /\ SingleOwner'
  BY <1>4, <1>7, QuietStep DEF ScanUsed
<1> QED BY <1>2, <1>3, <1>6, <1>8

(* The scan passes a free bit of a run that is still too short.            *)
LEMMA ScanFreeStep ==
  ASSUME IInv, NEW c \in Client, ScanFree(c)
  PROVE  IInv'
<1> USE NBitsAssumption, CountsAssumption, InitFreeAssumption DEF IInv, Bit, Run
<1>0. /\ loc[c].count \in Nat /\ loc[c].page \in Nat
      /\ loc[c].i \in Nat /\ loc[c].cur \in Nat
      /\ LocalOK(c)
      /\ \A d \in Client : d # c => pc'[d] = pc[d] /\ loc'[d] = loc[d] /\ held'[d] = held[d]
  BY DEF Types, Locals, LoopsExact, ScanFree, Goto
<1>1. /\ pc'[c] = "scan"
      /\ loc'[c] = [count |-> loc[c].count, page |-> loc[c].page, i |-> loc[c].i + 1, cur |-> loc[c].cur + 1]
  BY <1>0 DEF Types, Locals, ScanFree, Goto, Fresh, At
<1>2. Types'
  BY <1>0, <1>1 DEF Types, PC, Locals, ScanFree, Goto, Fresh, At
<1>3. LockInv'
  BY DEF LockInv, Critical, Types, PC, ScanFree, Goto
<1>4. \A d \in Client : d # c =>
        LocalOK(d)' /\ Uncleared(d)' = Uncleared(d) /\ Marked(d)' = Marked(d)
  BY <1>0, OthersKeep DEF LoopsExact, ScanFree, LockInv
<1>5. LocalOK(c)'
  <2>0. ScanOK(c) /\ pc[c] = "scan"
    BY <1>0 DEF LocalOK, ScanFree
  <2>1. ASSUME NEW q \in Bit, loc[c].count # 0, q + loc[c].count <= loc[c].i + 1
        PROVE  ~FreeRun(q, loc[c].count)
    <3>1. CASE q + loc[c].count <= loc[c].i
      BY <2>0, <2>1, <3>1 DEF ScanOK
    <3>2. CASE q + loc[c].count = loc[c].i + 1
      <4>1. /\ loc[c].cur < loc[c].i /\ q <= loc[c].i - loc[c].cur - 1
            /\ bitmap[loc[c].i - loc[c].cur - 1] = 1
        BY <1>0, <2>0, <2>1, <3>2 DEF ScanOK, ScanFree
      <4> QED BY <1>0, <2>1, <3>2, <4>1 DEF FreeRun
    <3> QED BY <1>0, <2>1, <3>1, <3>2
  <2>2. ScanOK(c)'
    <3>1. FreeRun(loc[c].i - loc[c].cur, loc[c].cur + 1)
      <4>1. FreeRun(loc[c].i - loc[c].cur, loc[c].cur) /\ bitmap[loc[c].i] = 0 /\ loc[c].i < NBits
        BY <2>0 DEF ScanOK, ScanFree
      <4> QED BY <1>0, <4>1 DEF FreeRun
    <3>2. bitmap' = bitmap /\ loc[c].i < NBits /\ loc[c].cur + 1 # loc[c].count
      BY DEF ScanFree
    <3>3. /\ loc[c].i + 1 <= NBits /\ loc[c].cur + 1 <= loc[c].i + 1
          /\ loc[c].cur + 1 < loc[c].i + 1 => bitmap[loc[c].i - loc[c].cur - 1] = 1
          /\ loc[c].count # 0 => loc[c].cur + 1 < loc[c].count
      BY <1>0, <2>0, <3>2 DEF ScanOK
    <3>4. /\ loc'[c].count = loc[c].count
          /\ loc'[c].i = loc[c].i + 1 /\ loc'[c].cur = loc[c].cur + 1
          /\ loc'[c].i - loc'[c].cur = loc[c].i - loc[c].cur
      BY <1>0, <1>1
    <3>5. \A b \in loc'[c].i - loc'[c].cur .. loc'[c].i - loc'[c].cur + loc'[c].cur - 1 :
            b \in Bit /\ bitmap'[b] = 0
      BY <1>0, <3>1, <3>2, <3>4 DEF FreeRun
    <3>6. \A q \in Bit : loc'[c].count # 0 /\ q + loc'[c].count <= loc'[c].i =>
            ~ \A b \in q .. q + loc'[c].count - 1 : b \in Bit /\ bitmap'[b] = 0
      BY <1>0, <2>1, <3>2, <3>4 DEF FreeRun
    <3>7. /\ loc'[c].i <= NBits /\ loc'[c].cur <= loc'[c].i
          /\ loc'[c].cur < loc'[c].i => bitmap'[loc'[c].i - loc'[c].cur - 1] = 1
          /\ loc'[c].count # 0 => loc'[c].cur < loc'[c].count
      BY <1>0, <3>2, <3>3, <3>4
    <3> QED BY <3>5, <3>6, <3>7 DEF ScanOK, FreeRun
  <2> QED BY <1>1, <2>2 DEF LocalOK, AllocOK, MarkOK, ClearOK
<1>6. LoopsExact'
  BY <1>4, <1>5 DEF LoopsExact
<1>7. Uncleared(c)' = Uncleared(c) /\ Marked(c)' = Marked(c)
  BY <1>0, <1>1 DEF Uncleared, Marked, LocalOK, ClearOK, ScanFree
<1>8. Accounting' /\ SingleOwner'
  BY <1>4, <1>7, QuietStep DEF ScanFree
<1> QED BY <1>2, <1>3, <1>6, <1>8

(* The scan has found the lowest run.                                      *)
LEMMA ScanHitStep ==
  ASSUME IInv, NEW c \in Client, ScanHit(c)
  PROVE  IInv'
<1> USE NBitsAssumption, CountsAssumption, InitFreeAssumption DEF IInv, Bit, Run
<1>0. /\ loc[c].count \in Nat /\ loc[c].page \in Nat
      /\ loc[c].i \in Nat /\ loc[c].cur \in Nat
      /\ LocalOK(c)
      /\ \A d \in Client : d # c => pc'[d] = pc[d] /\ loc'[d] = loc[d] /\ held'[d] = held[d]
  BY DEF Types, Locals, LoopsExact, ScanHit, Goto
<1>1. /\ pc'[c] = "mark"
      /\ loc'[c] = [count |-> loc[c].count, page |-> loc[c].i - loc[c].count + 1, i |-> loc[c].i - loc[c].count + 1, cur |-> 0]
  BY <1>0 DEF Types, Locals, ScanHit, Goto, Fresh, At
<1>1a. loc[c].i - loc[c].count + 1 \in Nat
  BY <1>0 DEF ScanHit, LocalOK, ScanOK
<1>2. Types'
  BY <1>0, <1>1, <1>1a DEF Types, PC, Locals, ScanHit, Goto, Fresh, At
<1>3. LockInv'
  BY DEF LockInv, Critical, Types, PC, ScanHit, Goto
<1>4. \A d \in Client : d # c =>
        LocalOK(d)' /\ Uncleared(d)' = Uncleared(d) /\ Marked(d)' = Marked(d)
  BY <1>0, OthersKeep DEF LoopsExact, ScanHit, LockInv
<1>5. LocalOK(c)'
  <2>0. ScanOK(c) /\ pc[c] = "scan" /\ loc[c].count # 0 /\ loc[c].i < NBits
    BY <1>0 DEF LocalOK, ScanHit
  <2> DEFINE p == loc[c].i - loc[c].count + 1
  <2>1. FreeRun(p, loc[c].count)
    <3>1. /\ FreeRun(loc[c].i - loc[c].cur, loc[c].cur) /\ p = loc[c].i - loc[c].cur
          /\ loc[c].count = loc[c].cur + 1 /\ bitmap[loc[c].i] = 0
      BY <1>0, <2>0 DEF ScanOK, ScanHit
    <3> QED BY <1>0, <2>0, <3>1 DEF FreeRun
  <2>2. ASSUME NEW q \in Bit, q < p
        PROVE  \E b \in Run(q, loc[c].count) : b < p /\ bitmap[b] = 1
    <3>1. PICK b \in Run(q, loc[c].count) : ~(b \in Bit /\ bitmap[b] = 0)
      BY <1>0, <2>0, <2>2 DEF ScanOK, FreeRun
    <3>2. b \in Bit /\ bitmap[b] = 1
      BY <1>0, <1>1a, <2>0, <2>2, <3>1, SMTT(60) DEF Types
    <3>3. b < p
      BY <1>0, <2>1, <2>2, <3>1, <3>2 DEF FreeRun
    <3> QED BY <3>2, <3>3
  <2>3. MarkOK(c)'
    <3>1. bitmap' = bitmap /\ p + loc[c].count <= NBits /\ p + loc[c].count - p = loc[c].count
      BY <1>0, <2>0 DEF ScanHit
    <3>2. loc'[c].count = loc[c].count /\ loc'[c].page = p /\ loc'[c].i = p
      BY <1>1
    <3> HIDE DEF p
    <3> QED BY <1>0, <1>1a, <2>0, <2>1, <2>2, <3>1, <3>2 DEF MarkOK, FreeRun, p
  <2> QED BY <1>1, <2>3 DEF LocalOK, AllocOK, ScanOK, ClearOK
<1>6. LoopsExact'
  BY <1>4, <1>5 DEF LoopsExact
<1>7. Uncleared(c)' = Uncleared(c) /\ Marked(c)' = Marked(c)
  BY <1>0, <1>1, <1>1a DEF Uncleared, Marked, ScanHit
<1>8. Accounting' /\ SingleOwner'
  BY <1>4, <1>7, QuietStep DEF ScanHit
<1> QED BY <1>2, <1>3, <1>6, <1>8

(* The scan has reached the end of the bitmap.                             *)
LEMMA ScanEndStep ==
  ASSUME IInv, NEW c \in Client, ScanEnd(c)
  PROVE  IInv'
<1> USE NBitsAssumption, CountsAssumption, InitFreeAssumption DEF IInv, Bit, Run
<1>0. /\ loc[c].count \in Nat /\ loc[c].page \in Nat
      /\ loc[c].i \in Nat /\ loc[c].cur \in Nat
      /\ LocalOK(c)
      /\ \A d \in Client : d # c => pc'[d] = pc[d] /\ loc'[d] = loc[d] /\ held'[d] = held[d]
  BY DEF Types, Locals, LoopsExact, ScanEnd, Goto
<1>1. /\ pc'[c] = "idle"
      /\ loc'[c] = [count |-> 0, page |-> 0, i |-> 0, cur |-> 0]
  BY <1>0 DEF Types, Locals, ScanEnd, Goto, Fresh, At
<1>2. Types'
  BY <1>0, <1>1 DEF Types, PC, Locals, ScanEnd, Goto, Fresh, At, release
<1>3. LockInv'
  BY DEF LockInv, Critical, Types, PC, ScanEnd, Goto, release
<1>4. \A d \in Client : d # c =>
        LocalOK(d)' /\ Uncleared(d)' = Uncleared(d) /\ Marked(d)' = Marked(d)
  BY <1>0, OthersKeep DEF LoopsExact, ScanEnd, LockInv
<1>5. LocalOK(c)'
  BY <1>0, <1>1 DEF LocalOK, AllocOK, ScanOK, MarkOK, ClearOK, FreeRun, ScanEnd
<1>6. LoopsExact'
  BY <1>4, <1>5 DEF LoopsExact
<1>7. Uncleared(c)' = Uncleared(c) /\ Marked(c)' = Marked(c)
  BY <1>0, <1>1 DEF Uncleared, Marked, LocalOK, ClearOK, ScanEnd
<1>8. Accounting' /\ SingleOwner'
  BY <1>4, <1>7, QuietStep DEF ScanEnd
<1> QED BY <1>2, <1>3, <1>6, <1>8

(* alloc sets one bit of the run it found.                                 *)
LEMMA MarkStep ==
  ASSUME IInv, NEW c \in Client, Mark(c)
  PROVE  IInv'
<1> USE NBitsAssumption, CountsAssumption, InitFreeAssumption DEF IInv, Bit, Run
<1>0. /\ loc[c].count \in Nat /\ loc[c].page \in Nat
      /\ loc[c].i \in Nat /\ loc[c].cur \in Nat
      /\ LocalOK(c)
      /\ \A d \in Client : d # c => pc'[d] = pc[d] /\ loc'[d] = loc[d] /\ held'[d] = held[d]
  BY DEF Types, Locals, LoopsExact, Mark, Goto
<1>1. /\ pc'[c] = "mark"
      /\ loc'[c] = [count |-> loc[c].count, page |-> loc[c].page, i |-> loc[c].i + 1, cur |-> loc[c].cur]
  <2>1. pc'[c] = "mark" /\ loc[c] \in Locals /\ loc'[c] = [loc[c] EXCEPT !.i = @ + 1]
    BY DEF Types, Mark
  <2> QED BY <2>1 DEF Locals
<1>1a. /\ loc[c].i \in Bit /\ bitmap[loc[c].i] = 0
       /\ bitmap' = [bitmap EXCEPT ![loc[c].i] = 1]
  BY <1>0 DEF LocalOK, MarkOK, FreeRun, Mark
<1>2. Types'
  BY <1>0, <1>1, <1>1a, SMTT(60) DEF Types, PC, Locals, Mark, Goto, Fresh, At
<1>3. LockInv'
  BY DEF LockInv, Critical, Types, PC, Mark, Goto
<1>4. \A d \in Client : d # c =>
        LocalOK(d)' /\ Uncleared(d)' = Uncleared(d) /\ Marked(d)' = Marked(d)
  BY <1>0, OthersKeep DEF LoopsExact, Mark, LockInv, Critical
<1>5. LocalOK(c)'
  <2>1. MarkOK(c)'
    <3>1. MarkOK(c) /\ pc[c] = "mark" /\ loc[c].i < loc[c].page + loc[c].count
      BY <1>0 DEF LocalOK, Mark
    <3>2. \A b \in loc[c].i + 1 .. loc[c].page + loc[c].count - 1 : b \in Bit /\ bitmap'[b] = 0
      <4>1. \A b \in loc[c].i .. loc[c].page + loc[c].count - 1 : b \in Bit /\ bitmap[b] = 0
        BY <1>0, <3>1 DEF MarkOK, FreeRun
      <4> QED BY <1>0, <1>1a, <4>1 DEF Types
    <3>3. ASSUME NEW q \in Bit, q < loc[c].page
          PROVE  \E b \in Run(q, loc[c].count) : b < loc[c].page /\ bitmap'[b] = 1
      BY <1>0, <1>1a, <3>1, <3>3 DEF MarkOK, Types
    <3> QED BY <1>0, <1>1, <3>1, <3>2, <3>3 DEF MarkOK, FreeRun
  <2> QED BY <1>1, <2>1 DEF LocalOK, AllocOK, ScanOK, ClearOK
<1>6. LoopsExact'
  BY <1>4, <1>5 DEF LoopsExact
<1>7. /\ held' = held
      /\ Uncleared(c) = {} /\ Uncleared(c)' = {}
      /\ Marked(c)' = Marked(c) \cup {loc[c].i}
  BY <1>0, <1>1 DEF Uncleared, Marked, LocalOK, MarkOK, Mark
<1>8. Accounting' /\ SingleOwner'
  <2>1. loc[c].i \in InitFree /\ \A d \in Client : loc[c].i \notin Taken(d)
    BY <1>1a DEF Accounting
  <2>2. /\ Taken(c)' = Taken(c) \cup {loc[c].i}
        /\ \A d \in Client : d # c => Taken(d)' = Taken(d)
    BY <1>4, <1>7 DEF Taken
  <2>3. Accounting'
    <3> SUFFICES ASSUME NEW b \in Bit
                 PROVE  bitmap'[b] = 0 <=> b \in InitFree /\ \A d \in Client : b \notin Taken(d)'
      BY DEF Accounting
    <3>1. CASE b = loc[c].i
      BY <1>1a, <2>2, <3>1 DEF Types
    <3>2. CASE b # loc[c].i
      <4>1. bitmap'[b] = bitmap[b] /\ \A d \in Client : b \in Taken(d)' <=> b \in Taken(d)
        BY <1>1a, <2>2, <3>2 DEF Types
      <4> QED BY <4>1 DEF Accounting
    <3> QED BY <3>1, <3>2
  <2>4. SingleOwner'
    <3>1. \A d, e \in Client : d # e => Taken(d)' \cap Taken(e)' = {}
      BY <2>1, <2>2 DEF SingleOwner
    <3>2. \A d \in Client : held[d]' \cap (Uncleared(d)' \cup Marked(d)') = {}
      BY <1>4, <1>7, <2>1 DEF SingleOwner, Taken
    <3>3. \A d \in Client : Taken(d)' \subseteq InitFree
      BY <2>1, <2>2 DEF SingleOwner
    <3> QED BY <3>1, <3>2, <3>3 DEF SingleOwner
  <2> QED BY <2>3, <2>4
<1> QED BY <1>2, <1>3, <1>6, <1>8

(* alloc returns the run.                                                  *)
LEMMA MarkDoneStep ==
  ASSUME IInv, NEW c \in Client, MarkDone(c)
  PROVE  IInv'
<1> USE NBitsAssumption, CountsAssumption, InitFreeAssumption DEF IInv, Bit, Run
<1>0. /\ loc[c].count \in Nat /\ loc[c].page \in Nat
      /\ loc[c].i \in Nat /\ loc[c].cur \in Nat
      /\ LocalOK(c)
      /\ \A d \in Client : d # c => pc'[d] = pc[d] /\ loc'[d] = loc[d] /\ held'[d] = held[d]
  BY DEF Types, Locals, LoopsExact, MarkDone, Goto
<1>1. /\ pc'[c] = "idle"
      /\ loc'[c] = [count |-> 0, page |-> 0, i |-> 0, cur |-> 0]
  BY <1>0 DEF Types, Locals, MarkDone, Goto, Fresh, At
<1>1a. Run(loc[c].page, loc[c].count) \subseteq Bit
  BY <1>0 DEF MarkDone, LocalOK, MarkOK
<1>2. Types'
  BY <1>0, <1>1, <1>1a DEF Types, PC, Locals, MarkDone, Goto, Fresh, At, release
<1>3. LockInv'
  BY DEF LockInv, Critical, Types, PC, MarkDone, Goto, release
<1>4. \A d \in Client : d # c =>
        LocalOK(d)' /\ Uncleared(d)' = Uncleared(d) /\ Marked(d)' = Marked(d)
  BY <1>0, OthersKeep DEF LoopsExact, MarkDone, LockInv
<1>5. LocalOK(c)'
  BY <1>0, <1>1 DEF LocalOK, AllocOK, ScanOK, MarkOK, ClearOK, FreeRun, MarkDone
<1>6. LoopsExact'
  BY <1>4, <1>5 DEF LoopsExact
<1>7. /\ held'[c] = held[c] \cup Marked(c)
      /\ Uncleared(c) = {} /\ Uncleared(c)' = {} /\ Marked(c)' = {}
  BY <1>0, <1>1, SMTT(60) DEF Uncleared, Marked, LocalOK, MarkOK, MarkDone, Types
<1>8. Accounting' /\ SingleOwner'
  <2>1. \A d \in Client : Taken(d)' = Taken(d)
    BY <1>0, <1>4, <1>7 DEF Taken
  <2>2. Accounting'
    BY <2>1 DEF Accounting, MarkDone
  <2>3. SingleOwner'
    <3>1. \A d \in Client : held[d]' \cap (Uncleared(d)' \cup Marked(d)') = {}
      BY <1>0, <1>4, <1>7 DEF SingleOwner, Taken
    <3> QED BY <2>1, <3>1 DEF SingleOwner
  <2> QED BY <2>2, <2>3
<1> QED BY <1>2, <1>3, <1>6, <1>8

(* A client passes a range it holds to free.                               *)
LEMMA CallFreeStep ==
  ASSUME IInv, NEW c \in Client, NEW p \in Bit, NEW n \in Counts, CallFree(c, p, n)
  PROVE  IInv'
<1> USE NBitsAssumption, CountsAssumption, InitFreeAssumption DEF IInv, Bit, Run
<1>0. /\ loc[c].count \in Nat /\ loc[c].page \in Nat
      /\ loc[c].i \in Nat /\ loc[c].cur \in Nat
      /\ LocalOK(c)
      /\ \A d \in Client : d # c => pc'[d] = pc[d] /\ loc'[d] = loc[d] /\ held'[d] = held[d]
  BY DEF Types, Locals, LoopsExact, CallFree, Goto
<1>1. /\ pc'[c] = "free"
      /\ loc'[c] = [count |-> n, page |-> p, i |-> p, cur |-> 0]
  BY <1>0 DEF Types, Locals, CallFree, Goto, Fresh, At
<1>2. Types'
  BY <1>0, <1>1 DEF Types, PC, Locals, CallFree, Goto, Fresh, At
<1>3. LockInv'
  BY DEF LockInv, Critical, Types, PC, CallFree, Goto
<1>4. \A d \in Client : d # c =>
        LocalOK(d)' /\ Uncleared(d)' = Uncleared(d) /\ Marked(d)' = Marked(d)
  BY <1>0, OthersKeep DEF LoopsExact, CallFree, LockInv
<1>5. LocalOK(c)'
  <2>1. Run(p, n) \subseteq InitFree
    BY DEF CallFree, SingleOwner, Taken
  <2> QED BY <1>1, <2>1 DEF LocalOK, AllocOK, ScanOK, MarkOK, ClearOK
<1>6. LoopsExact'
  BY <1>4, <1>5 DEF LoopsExact
<1>7. /\ held'[c] = held[c] \ Run(p, n) /\ Run(p, n) \subseteq held[c]
      /\ Uncleared(c) = {} /\ Marked(c) = {} /\ Marked(c)' = {}
      /\ Uncleared(c)' = Run(p, n)
  BY <1>0, <1>1 DEF Uncleared, Marked, CallFree, Types
<1>8. Accounting' /\ SingleOwner'
  <2>1. \A d \in Client : Taken(d)' = Taken(d)
    BY <1>0, <1>4, <1>7 DEF Taken
  <2>2. Accounting'
    BY <2>1 DEF Accounting, CallFree
  <2>3. SingleOwner'
    <3>1. \A d \in Client : held[d]' \cap (Uncleared(d)' \cup Marked(d)') = {}
      BY <1>0, <1>4, <1>7 DEF SingleOwner, Taken
    <3> QED BY <2>1, <3>1 DEF SingleOwner
  <2> QED BY <2>2, <2>3
<1> QED BY <1>2, <1>3, <1>6, <1>8

(* free takes the lock.                                                    *)
LEMMA AcquireFreeStep ==
  ASSUME IInv, NEW c \in Client, AcquireFree(c)
  PROVE  IInv'
<1> USE NBitsAssumption, CountsAssumption, InitFreeAssumption DEF IInv, Bit, Run
<1>0. /\ loc[c].count \in Nat /\ loc[c].page \in Nat
      /\ loc[c].i \in Nat /\ loc[c].cur \in Nat
      /\ LocalOK(c)
      /\ \A d \in Client : d # c => pc'[d] = pc[d] /\ loc'[d] = loc[d] /\ held'[d] = held[d]
  BY DEF Types, Locals, LoopsExact, AcquireFree, Goto
<1>1. /\ pc'[c] = "clear"
      /\ loc'[c] = [count |-> loc[c].count, page |-> loc[c].page, i |-> loc[c].i, cur |-> loc[c].cur]
  BY <1>0 DEF Types, Locals, AcquireFree, Goto, Fresh, At
<1>2. Types'
  BY <1>0, <1>1 DEF Types, PC, Locals, AcquireFree, Goto, Fresh, At, acquire
<1>3. LockInv'
  BY DEF LockInv, Critical, Types, PC, AcquireFree, Goto, acquire
<1>4. \A d \in Client : d # c =>
        LocalOK(d)' /\ Uncleared(d)' = Uncleared(d) /\ Marked(d)' = Marked(d)
  BY <1>0, OthersKeep DEF LoopsExact, AcquireFree, LockInv
<1>5. LocalOK(c)'
  BY <1>0, <1>1 DEF LocalOK, AllocOK, ScanOK, MarkOK, ClearOK, FreeRun, AcquireFree
<1>6. LoopsExact'
  BY <1>4, <1>5 DEF LoopsExact
<1>7. Uncleared(c)' = Uncleared(c) /\ Marked(c)' = Marked(c)
  BY <1>0, <1>1 DEF Uncleared, Marked, LocalOK, ClearOK, AcquireFree
<1>8. Accounting' /\ SingleOwner'
  BY <1>4, <1>7, QuietStep DEF AcquireFree
<1> QED BY <1>2, <1>3, <1>6, <1>8

(* free clears one bit.                                                    *)
LEMMA ClearStep ==
  ASSUME IInv, NEW c \in Client, Clear(c)
  PROVE  IInv'
<1> USE NBitsAssumption, CountsAssumption, InitFreeAssumption DEF IInv, Bit, Run
<1>0. /\ loc[c].count \in Nat /\ loc[c].page \in Nat
      /\ loc[c].i \in Nat /\ loc[c].cur \in Nat
      /\ LocalOK(c)
      /\ \A d \in Client : d # c => pc'[d] = pc[d] /\ loc'[d] = loc[d] /\ held'[d] = held[d]
  BY DEF Types, Locals, LoopsExact, Clear, Goto
<1>1. /\ pc'[c] = "clear"
      /\ loc'[c] = [count |-> loc[c].count, page |-> loc[c].page, i |-> loc[c].i + 1, cur |-> loc[c].cur]
  <2>1. pc'[c] = "clear" /\ loc[c] \in Locals /\ loc'[c] = [loc[c] EXCEPT !.i = @ + 1]
    BY DEF Types, Clear
  <2> QED BY <2>1 DEF Locals
<1>1a. /\ loc[c].i \in Bit /\ loc[c].i \in InitFree /\ loc[c].i \in Uncleared(c)
       /\ bitmap' = [bitmap EXCEPT ![loc[c].i] = 0]
  BY <1>0 DEF LocalOK, ClearOK, Clear, Uncleared
<1>2. Types'
  BY <1>0, <1>1, <1>1a, SMTT(60) DEF Types, PC, Locals, Clear, Goto, Fresh, At
<1>3. LockInv'
  BY DEF LockInv, Critical, Types, PC, Clear, Goto
<1>4. \A d \in Client : d # c =>
        LocalOK(d)' /\ Uncleared(d)' = Uncleared(d) /\ Marked(d)' = Marked(d)
  BY <1>0, OthersKeep DEF LoopsExact, Clear, LockInv, Critical
<1>5. LocalOK(c)'
  BY <1>0, <1>1 DEF LocalOK, AllocOK, ScanOK, MarkOK, ClearOK, FreeRun, Clear
<1>6. LoopsExact'
  BY <1>4, <1>5 DEF LoopsExact
<1>7. /\ held' = held
      /\ Marked(c) = {} /\ Marked(c)' = {}
      /\ Uncleared(c)' = Uncleared(c) \ {loc[c].i}
  BY <1>0, <1>1 DEF Uncleared, Marked, LocalOK, ClearOK, Clear
<1>8. Accounting' /\ SingleOwner'
  <2>1. loc[c].i \in Taken(c) /\ loc[c].i \notin held[c]
        /\ \A d \in Client : d # c => loc[c].i \notin Taken(d)
    BY <1>1a DEF SingleOwner, Taken
  <2>2. /\ Taken(c)' = Taken(c) \ {loc[c].i}
        /\ \A d \in Client : d # c => Taken(d)' = Taken(d)
    BY <1>4, <1>7, <2>1 DEF Taken
  <2>3. Accounting'
    <3> SUFFICES ASSUME NEW b \in Bit
                 PROVE  bitmap'[b] = 0 <=> b \in InitFree /\ \A d \in Client : b \notin Taken(d)'
      BY DEF Accounting
    <3>1. CASE b = loc[c].i
      BY <1>1a, <2>1, <2>2, <3>1 DEF Types
    <3>2. CASE b # loc[c].i
      <4>1. bitmap'[b] = bitmap[b] /\ \A d \in Client : b \in Taken(d)' <=> b \in Taken(d)
        BY <1>1a, <2>2, <3>2 DEF Types
      <4> QED BY <4>1 DEF Accounting
    <3> QED BY <3>1, <3>2
  <2>4. SingleOwner'
    <3>1. \A d \in Client : held[d]' \cap (Uncleared(d)' \cup Marked(d)') = {}
      BY <1>4, <1>7 DEF SingleOwner, Taken
    <3> QED BY <2>2, <3>1 DEF SingleOwner
  <2> QED BY <2>3, <2>4
<1> QED BY <1>2, <1>3, <1>6, <1>8

(* free returns.                                                           *)
LEMMA ClearDoneStep ==
  ASSUME IInv, NEW c \in Client, ClearDone(c)
  PROVE  IInv'
<1> USE NBitsAssumption, CountsAssumption, InitFreeAssumption DEF IInv, Bit, Run
<1>0. /\ loc[c].count \in Nat /\ loc[c].page \in Nat
      /\ loc[c].i \in Nat /\ loc[c].cur \in Nat
      /\ LocalOK(c)
      /\ \A d \in Client : d # c => pc'[d] = pc[d] /\ loc'[d] = loc[d] /\ held'[d] = held[d]
  BY DEF Types, Locals, LoopsExact, ClearDone, Goto
<1>1. /\ pc'[c] = "idle"
      /\ loc'[c] = [count |-> 0, page |-> 0, i |-> 0, cur |-> 0]
  BY <1>0 DEF Types, Locals, ClearDone, Goto, Fresh, At
<1>2. Types'
  BY <1>0, <1>1 DEF Types, PC, Locals, ClearDone, Goto, Fresh, At, release
<1>3. LockInv'
  BY DEF LockInv, Critical, Types, PC, ClearDone, Goto, release
<1>4. \A d \in Client : d # c =>
        LocalOK(d)' /\ Uncleared(d)' = Uncleared(d) /\ Marked(d)' = Marked(d)
  BY <1>0, OthersKeep DEF LoopsExact, ClearDone, LockInv
<1>5. LocalOK(c)'
  BY <1>0, <1>1 DEF LocalOK, AllocOK, ScanOK, MarkOK, ClearOK, FreeRun, ClearDone
<1>6. LoopsExact'
  BY <1>4, <1>5 DEF LoopsExact
<1>7. Uncleared(c)' = Uncleared(c) /\ Marked(c)' = Marked(c)
  BY <1>0, <1>1 DEF Uncleared, Marked, LocalOK, ClearOK, ClearDone
<1>8. Accounting' /\ SingleOwner'
  BY <1>4, <1>7, QuietStep DEF ClearDone
<1> QED BY <1>2, <1>3, <1>6, <1>8

(* PMM::init leaves a bitmap that satisfies the invariant.                 *)
LEMMA InitIInv == Init => IInv
<1> SUFFICES ASSUME Init PROVE IInv
  OBVIOUS
<1> USE NBitsAssumption, CountsAssumption, InitFreeAssumption DEF Init, Bit, Run, Fresh
<1>1. Types
  BY DEF Types, PC, Locals
<1>2. LockInv /\ LoopsExact
  BY DEF LockInv, Critical, LoopsExact, LocalOK, AllocOK, ScanOK, MarkOK, ClearOK
<1>3. \A c \in Client : Uncleared(c) = {} /\ Marked(c) = {} /\ held[c] = {}
  BY DEF Uncleared, Marked
<1>4. Accounting /\ SingleOwner
  BY <1>3 DEF Accounting, SingleOwner, Taken
<1> QED BY <1>1, <1>2, <1>4 DEF IInv

(* Every step of every client keeps the invariant.                         *)
LEMMA StepIInv == IInv /\ [Next]_vars => IInv'
<1> SUFFICES ASSUME IInv, [Next]_vars PROVE IInv'
  OBVIOUS
<1>1. CASE UNCHANGED vars
  BY <1>1 DEF vars, IInv, Types, LockInv, Critical, Accounting, SingleOwner, Taken,
              Uncleared, Marked, LoopsExact, LocalOK, AllocOK, ScanOK, MarkOK, ClearOK, FreeRun
<1>2. ASSUME NEW c \in Client, NEW n \in Counts, CallAlloc(c, n) PROVE IInv'
  BY <1>2, CallAllocStep
<1>3. ASSUME NEW c \in Client, NEW p \in Bit, NEW n \in Counts, CallFree(c, p, n) PROVE IInv'
  BY <1>3, CallFreeStep
<1>4. ASSUME NEW c \in Client, Step(c) PROVE IInv'
  BY <1>4, AcquireAllocStep, ScanUsedStep, ScanFreeStep, ScanHitStep, ScanEndStep, MarkStep,
     MarkDoneStep, AcquireFreeStep, ClearStep, ClearDoneStep DEF Step
<1> QED BY <1>1, <1>2, <1>3, <1>4 DEF Next

(* The bitmap is exact at every step: a bit is clear iff the frame was     *)
(* left free by PMM::init and no caller of alloc or free has it; frames    *)
(* have one owner; the loops of alloc and free find, mark and clear what   *)
(* they should; and pmm_lock is held by exactly one client in its critical *)
(* section.                                                                *)
THEOREM Invariant == Spec => []IInv
BY InitIInv, StepIInv, PTL DEF Spec

(* The variables of PMM keep their types and the loops stay inside the     *)
(* bitmap: the scan ends at its last bit, and the run alloc marks and the  *)
(* range free clears lie between its first and its last.                   *)
THEOREM TypeCorrect == Spec => []TypeOK
<1>1. ASSUME IInv PROVE TypeOK
  <2> SUFFICES ASSUME NEW c \in Client PROVE IndexOK(c)
    BY <1>1 DEF IInv, TypeOK
  <2>1. /\ loc[c].count \in Nat /\ loc[c].page \in Nat /\ loc[c].i \in Nat
        /\ LocalOK(c)
    BY <1>1 DEF IInv, Types, Locals, LoopsExact
  <2>2. CASE pc[c] \in {"scan", "mark"}
    BY <2>1, <2>2 DEF IndexOK, LocalOK, ScanOK, MarkOK
  <2>3. CASE pc[c] \in {"free", "clear"}
    <3>1. SUFFICES ASSUME loc[c].count # 0
                   PROVE  loc[c].page + loc[c].count <= NBits
      BY <2>1, <2>3 DEF IndexOK, LocalOK, ClearOK
    <3>2. loc[c].page + loc[c].count - 1 \in InitFree
      BY <2>1, <2>3, <3>1 DEF LocalOK, ClearOK, Run
    <3> QED BY <2>1, <3>2, InitFreeAssumption, NBitsAssumption
  <2> QED BY <2>2, <2>3 DEF IndexOK
<1> QED BY Invariant, <1>1, PTL

(* No frame is leaked or given out twice by the loops of alloc and free.   *)
THEOREM AccountingHolds == Spec => []Accounting
BY Invariant, PTL DEF IInv

(* A frame alloc returned is in the hands of one caller until it is freed. *)
THEOREM SingleOwnerHolds == Spec => []SingleOwner
BY Invariant, PTL DEF IInv

(* alloc returns the lowest run of count free frames, or nullptr if none is.*)
THEOREM LoopsExactHolds == Spec => []LoopsExact
BY Invariant, PTL DEF IInv

-----------------------------------------------------------------------------
(* The refinement                                                          *)

(* While c is in the critical section of alloc, a frame the abstract       *)
(* allocator counts as free is one whose bit is clear or that c is marking.*)
LEMMA AbsFree ==
  ASSUME IInv, NEW c \in Client, pc[c] \in {"scan", "mark"}, NEW b \in Bit
  PROVE  b \in Abs!Free <=> bitmap[b] = 0 \/ b \in Marked(c)
<1>1. \A d \in Client : d # c => pc[d] \in {"idle", "alloc", "free"}
  BY DEF IInv, LockInv, Critical, Types, PC
<1>2. \A d \in Client : Abs!Returning(d) = Uncleared(d)
  <2> SUFFICES ASSUME NEW d \in Client PROVE Abs!Returning(d) = Uncleared(d)
    OBVIOUS
  <2>1. CASE pc[d] \in {"idle", "alloc", "scan", "mark"}
    BY <2>1 DEF Abs!Returning, Uncleared, Request
  <2>2. CASE pc[d] = "free"
    BY <2>2 DEF Abs!Returning, Abs!Run, Uncleared, Request, IInv, LoopsExact, LocalOK, ClearOK
  <2> QED BY <1>1, <2>1, <2>2
<1>3. \A d \in Client : d # c => Marked(d) = {}
  BY <1>1 DEF Marked
<1>4. b \in Abs!Free <=> b \in InitFree /\ \A d \in Client : b \notin held[d] /\ b \notin Uncleared(d)
  BY <1>2 DEF Abs!Free
<1>5. b \in Marked(c) => b \in InitFree /\ \A d \in Client : b \notin held[d] /\ b \notin Uncleared(d)
  BY <1>3 DEF IInv, SingleOwner, Taken, Marked, Uncleared
<1> QED BY <1>3, <1>4, <1>5 DEF IInv, Accounting, Taken

(* The initial states of the refinement agree.                             *)
LEMMA InitAbs == Init => Abs!Init
BY DEF Init, Abs!Init, Abs!NoReq, Request

(* A step that leaves the mapped request, the frames held and the results  *)
(* alone is a stutter of the abstract allocator.                           *)
LEMMA Stutter ==
  ASSUME Types, held' = held, ret' = ret, \A c \in Client : Request(c)' = Request(c)
  PROVE  UNCHANGED Abs!vars
BY DEF Abs!vars

(* A step of c changes c's mapped request only.                            *)
LEMMA RequestOf ==
  ASSUME NEW c \in Client, NEW r, Request(c)' = r,
         \A d \in Client : d # c => pc'[d] = pc[d] /\ loc'[d] = loc[d]
  PROVE  [d \in Client |-> Request(d)]' = [[d \in Client |-> Request(d)] EXCEPT ![c] = r]
<1>1. \A d \in Client : d # c => Request(d)' = Request(d)
  BY DEF Request
<1> QED BY <1>1

(* Every step of PMM is a step of the abstract allocator or a stutter.     *)
LEMMA StepAbs == IInv /\ IInv' /\ [Next]_vars => [Abs!Next]_(Abs!vars)
<1> SUFFICES ASSUME IInv, IInv', [Next]_vars PROVE [Abs!Next]_(Abs!vars)
  OBVIOUS
<1> USE NBitsAssumption, CountsAssumption, InitFreeAssumption
<1>0. Types /\ Types'
  BY DEF IInv
<1>1. CASE UNCHANGED vars
  BY <1>1 DEF vars, Abs!vars, Request
<1>2. ASSUME NEW c \in Client, NEW n \in Counts, CallAlloc(c, n) PROVE Abs!RequestAlloc(c, n)
  <2>1. Request(c) = Abs!NoReq /\ Request(c)' = [op |-> "alloc", page |-> 0, count |-> n]
    BY <1>0, <1>2 DEF CallAlloc, Goto, Fresh, Types, Request, Abs!NoReq
  <2>2. \A d \in Client : d # c => pc'[d] = pc[d] /\ loc'[d] = loc[d]
    BY <1>0, <1>2 DEF CallAlloc, Goto, Types
  <2> QED BY <1>2, <2>1, <2>2, RequestOf DEF CallAlloc, Abs!RequestAlloc
<1>3. ASSUME NEW c \in Client, NEW p \in Bit, NEW n \in Counts, CallFree(c, p, n)
      PROVE  Abs!RequestFree(c, p, n)
  <2>1. Request(c) = Abs!NoReq /\ Request(c)' = [op |-> "free", page |-> p, count |-> n]
    BY <1>0, <1>3 DEF CallFree, Goto, Fresh, Types, Request, Abs!NoReq
  <2>2. \A d \in Client : d # c => pc'[d] = pc[d] /\ loc'[d] = loc[d]
    BY <1>0, <1>3 DEF CallFree, Goto, Types
  <2> QED BY <1>3, <2>1, <2>2, RequestOf DEF CallFree, Abs!RequestFree, Run, Abs!Run
<1>4. ASSUME NEW c \in Client,
             AcquireAlloc(c) \/ ScanUsed(c) \/ ScanFree(c) \/ ScanHit(c) \/ Mark(c)
               \/ AcquireFree(c) \/ Clear(c)
      PROVE  UNCHANGED Abs!vars
  <2>1. held' = held /\ ret' = ret
    BY <1>4 DEF AcquireAlloc, ScanUsed, ScanFree, ScanHit, Mark, AcquireFree, Clear
  <2>2. \A d \in Client : Request(d)' = Request(d)
    <3>1. /\ \/ /\ pc[c] \in {"alloc", "scan", "mark"}
                /\ pc'[c] \in {"alloc", "scan", "mark"}
             \/ /\ pc[c] \in {"free", "clear"}
                /\ pc'[c] \in {"free", "clear"}
                /\ loc'[c].page = loc[c].page
          /\ loc'[c].count = loc[c].count
          /\ \A d \in Client : d # c => pc'[d] = pc[d] /\ loc'[d] = loc[d]
      <4>1. CASE AcquireAlloc(c)
        BY <1>0, <4>1 DEF AcquireAlloc, Goto, Types
      <4>2. CASE ScanUsed(c)
        BY <1>0, <4>2 DEF ScanUsed, At, Types
      <4>3. CASE ScanFree(c)
        BY <1>0, <4>3 DEF ScanFree, At, Types
      <4>4. CASE ScanHit(c)
        BY <1>0, <4>4 DEF ScanHit, Goto, Fresh, Types
      <4>5. CASE Mark(c)
        BY <1>0, <4>5 DEF Mark, Types, Locals
      <4>6. CASE AcquireFree(c)
        BY <1>0, <4>6 DEF AcquireFree, Goto, Types
      <4>7. CASE Clear(c)
        BY <1>0, <4>7 DEF Clear, Types, Locals
      <4> QED BY <1>4, <4>1, <4>2, <4>3, <4>4, <4>5, <4>6, <4>7
    <3> QED BY <3>1 DEF Request
  <2> QED BY <1>0, <2>1, <2>2, Stutter
<1>5. ASSUME NEW c \in Client, ClearDone(c) PROVE Abs!Reclaim(c)
  <2>1. Request(c).op = "free" /\ Request(c)' = Abs!NoReq
    BY <1>0, <1>5 DEF ClearDone, Goto, Types, Request, Abs!NoReq
  <2>2. \A d \in Client : d # c => pc'[d] = pc[d] /\ loc'[d] = loc[d]
    BY <1>0, <1>5 DEF ClearDone, Goto, Types
  <2> QED BY <1>5, <2>1, <2>2, RequestOf DEF ClearDone, Abs!Reclaim
<1>6. ASSUME NEW c \in Client, ScanEnd(c) PROVE Abs!Refuse(c)
  <2>1. ASSUME NEW q \in Bit, Abs!Fits(q, loc[c].count) PROVE FALSE
    <3>1. loc[c].count \in Nat /\ loc[c].count # 0 /\ loc[c].i = NBits
      <4>1. loc[c].count \in Nat /\ loc[c].i \in Nat /\ loc[c].count # 0
        BY <1>0, <2>1 DEF Types, Locals, Abs!Fits
      <4>2. loc[c].i <= NBits /\ ~(loc[c].i < NBits)
        BY <1>6 DEF IInv, LoopsExact, LocalOK, ScanOK, ScanEnd
      <4> QED BY <4>1, <4>2
    <3>2. \A b \in Run(q, loc[c].count) : b \in Abs!Free /\ b \in Bit
      BY <2>1 DEF Abs!Fits, Abs!Run, Run, Abs!Free, Bit
    <3>3. FreeRun(q, loc[c].count)
      BY <1>6, <3>2, AbsFree DEF FreeRun, ScanEnd, Marked
    <3>4. q + loc[c].count <= NBits
      <4>1. q + loc[c].count - 1 \in Bit
        BY <3>1, <3>2 DEF Run, Bit
      <4> QED BY <3>1, <4>1 DEF Bit
    <3> QED BY <1>6, <3>1, <3>3, <3>4 DEF IInv, LoopsExact, LocalOK, ScanOK, ScanEnd
  <2>2. Request(c) = [op |-> "alloc", page |-> 0, count |-> loc[c].count] /\ Request(c)' = Abs!NoReq
    BY <1>0, <1>6 DEF Request, ScanEnd, Goto, Types, Abs!NoReq
  <2>3. \A d \in Client : d # c => pc'[d] = pc[d] /\ loc'[d] = loc[d]
    BY <1>0, <1>6 DEF ScanEnd, Goto, Types
  <2> QED BY <1>6, <2>1, <2>2, <2>3, RequestOf DEF ScanEnd, Abs!Refuse, Abs!Frame, Bit
<1>7. ASSUME NEW c \in Client, MarkDone(c)
      PROVE  loc[c].page \in Bit /\ Abs!Grant(c, loc[c].page)
  <2> DEFINE n == loc[c].count
             p == loc[c].page
  <2>1. /\ n \in Nat /\ p \in Nat /\ n # 0 /\ loc[c].i = p + n /\ p + n <= NBits
        /\ \A q \in Bit : q < p => \E b \in Run(q, n) : b < p /\ bitmap[b] = 1
    <3>1. n \in Nat /\ p \in Nat /\ loc[c].i \in Nat
      BY <1>0 DEF Types, Locals
    <3>2. MarkOK(c) /\ pc[c] = "mark" /\ ~(loc[c].i < p + n)
      BY <1>7 DEF IInv, LoopsExact, LocalOK, MarkDone
    <3> QED BY <3>1, <3>2 DEF MarkOK
  <2>2. Marked(c) = Run(p, n)
    BY <1>7, <2>1 DEF Marked, Run, MarkDone
  <2>3. Abs!Fits(p, n)
    BY <1>7, <2>1, <2>2, AbsFree, SMTT(60) DEF Abs!Fits, Abs!Run, Run, Bit, MarkDone
  <2>4. ASSUME NEW q \in Bit, q < p, Abs!Fits(q, n) PROVE FALSE
    <3>1. PICK b \in Run(q, n) : b < p /\ bitmap[b] = 1
      BY <2>1, <2>4
    <3>2. b \in Bit /\ b \notin Marked(c) /\ b \in Abs!Free
      BY <2>1, <2>2, <2>4, <3>1 DEF Abs!Fits, Abs!Run, Run, Bit
    <3> QED BY <1>7, <3>1, <3>2, AbsFree DEF MarkDone
  <2>5. Request(c) = [op |-> "alloc", page |-> 0, count |-> n] /\ Request(c)' = Abs!NoReq
    BY <1>0, <1>7 DEF Request, MarkDone, Goto, Types, Abs!NoReq
  <2>7. \A d \in Client : d # c => pc'[d] = pc[d] /\ loc'[d] = loc[d]
    BY <1>0, <1>7 DEF MarkDone, Goto, Types
  <2>6. p \in Bit
    BY <2>1 DEF Bit
  <2>8. /\ held' = [held EXCEPT ![c] = @ \cup Abs!Run(p, n)]
        /\ ret' = [ret EXCEPT ![c] = p]
    BY <1>7 DEF MarkDone, Run, Abs!Run
  <2>9. \A q \in Abs!Frame : q < p => ~Abs!Fits(q, n)
    BY <2>4 DEF Abs!Frame, Bit
  <2> HIDE DEF n, p
  <2>10. Abs!Grant(c, p)
    <3>1. [d \in Client |-> Request(d)]' = [[d \in Client |-> Request(d)] EXCEPT ![c] = Abs!NoReq]
      BY <2>5, <2>7, RequestOf
    <3>2. [d \in Client |-> Request(d)][c].op = "alloc" /\ [d \in Client |-> Request(d)][c].count = n
      BY <2>5
    <3> QED BY <2>3, <2>8, <2>9, <3>1, <3>2 DEF Abs!Grant
  <2> QED BY <2>6, <2>10 DEF p
<1>8. ASSUME NEW c \in Client, Step(c) PROVE [Abs!Next]_(Abs!vars)
  BY <1>4, <1>5, <1>6, <1>7, <1>8 DEF Step, Abs!Next, Abs!Frame, Bit
<1>9. ASSUME NEW c \in Client, NEW n \in Counts, CallAlloc(c, n) PROVE Abs!Next
  BY <1>2, <1>9 DEF Abs!Next
<1>10. ASSUME NEW c \in Client, NEW p \in Bit, NEW n \in Counts, CallFree(c, p, n) PROVE Abs!Next
  BY <1>3, <1>10 DEF Abs!Next, Abs!Frame, Bit
<1> QED BY <1>1, <1>8, <1>9, <1>10 DEF Next

(* alloc and free, with their loops and their lock, implement the one-step *)
(* allocator: every call takes effect at once when it releases pmm_lock.   *)
THEOREM Refinement == Spec => Refines
<1>1. Spec => []IInv
  BY Invariant
<1>2. IInv /\ IInv' /\ [Next]_vars => [Abs!Next]_(Abs!vars)
  BY StepAbs
<1> QED BY <1>1, <1>2, InitAbs, PTL DEF Spec, Refines, Abs!Spec
=============================================================================
