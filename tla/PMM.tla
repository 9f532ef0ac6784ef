--------------------------------- MODULE PMM ---------------------------------
(***************************************************************************)
(* The physical memory manager of kernel/memory/pmm.cpp after PMM::init: a *)
(* bitmap with one bit per frame (1 = used), scanned first-fit under the   *)
(* spin lock pmm_lock.  alloc and free run in kernel threads and in system *)
(* calls, both of which the timer preempts, so every iteration of their    *)
(* loops is a step of its own.                                             *)
(*                                                                         *)
(* Abstracted: the contents of the frames (alloc zeroes the run it returns *)
(* while it holds the lock) and the byte the bit lives in, which only the  *)
(* lock holder touches.                                                    *)
(***************************************************************************)
EXTENDS Integers

CONSTANTS Client,    \* the threads that call PMM::alloc and PMM::free
          NBits,     \* bitmapSize*8
          InitFree,  \* the frames PMM::init leaves free
          Counts     \* the values of the count argument

ASSUME NBitsAssumption == NBits \in Nat
ASSUME CountsAssumption == Counts \subseteq Nat
(* The bootloader never reports frame 0 as usable, so nullptr is not the   *)
(* address of a frame alloc can return.                                    *)
ASSUME InitFreeAssumption == InitFree \subseteq 1 .. NBits - 1

VARIABLES bitmap,    \* bitmap[b] = 0: frame b is free
          pmm_lock,
          pc,        \* where each client is in alloc or free
          loc,       \* the locals of the call: count, page, i, currentCount
          held,      \* held[c]: frames alloc returned to c, not passed to free
          ret        \* ret[c]: what c's last alloc returned, 0 for nullptr

vars == <<bitmap, pmm_lock, pc, loc, held, ret>>

Bit == 0 .. NBits - 1
Run(p, n) == p .. p + n - 1
PC == {"idle", "alloc", "scan", "mark", "free", "clear"}
Locals == [count : Nat, page : Nat, i : Nat, cur : Nat]

Types ==
  /\ bitmap \in [Bit -> {0, 1}]
  /\ pmm_lock \in BOOLEAN
  /\ pc \in [Client -> PC]
  /\ loc \in [Client -> Locals]
  /\ held \in [Client -> SUBSET Bit]
  /\ ret \in [Client -> Nat]

Fresh(n, p) == [count |-> n, page |-> p, i |-> p, cur |-> 0]
At(k, i, cur) == [count |-> k.count, page |-> k.page, i |-> i, cur |-> cur]

Init ==
  /\ bitmap = [b \in Bit |-> IF b \in InitFree THEN 0 ELSE 1]
  /\ pmm_lock = FALSE
  /\ pc = [c \in Client |-> "idle"]
  /\ loc = [c \in Client |-> Fresh(0, 0)]
  /\ held = [c \in Client |-> {}]
  /\ ret = [c \in Client |-> 0]

Goto(c, l) == pc' = [pc EXCEPT ![c] = l]

(* Lock::acquire spins until its test-and-set finds the byte clear.        *)
acquire == ~pmm_lock /\ pmm_lock' = TRUE
release == pmm_lock' = FALSE

-----------------------------------------------------------------------------
(* alloc(count)                                                            *)

CallAlloc(c, n) ==
  /\ pc[c] = "idle"
  /\ Goto(c, "alloc")
  /\ loc' = [loc EXCEPT ![c] = Fresh(n, 0)]
  /\ UNCHANGED <<bitmap, pmm_lock, held, ret>>

(* Seeded change: alloc that does not wait for the lock.                   *)
AcquireAllocUnlocked(c) ==
  /\ pc[c] = "alloc"
  /\ pmm_lock' = TRUE
  /\ Goto(c, "scan")
  /\ UNCHANGED <<bitmap, loc, held, ret>>

AcquireAlloc(c) ==
  /\ pc[c] = "alloc"
  /\ acquire
  /\ Goto(c, "scan")
  /\ UNCHANGED <<bitmap, loc, held, ret>>

(* Seeded change: a used bit that does not restart the count.              *)
ScanUsedKeepsCount(c) ==
  /\ pc[c] = "scan"
  /\ loc[c].i < NBits
  /\ bitmap[loc[c].i] = 1
  /\ loc' = [loc EXCEPT ![c].i = @ + 1]
  /\ UNCHANGED <<bitmap, pmm_lock, pc, held, ret>>

ScanUsed(c) ==
  /\ pc[c] = "scan"
  /\ loc[c].i < NBits
  /\ bitmap[loc[c].i] = 1
  /\ loc' = [loc EXCEPT ![c] = At(@, loc[c].i + 1, 0)]
  /\ UNCHANGED <<bitmap, pmm_lock, pc, held, ret>>

ScanFree(c) ==
  /\ pc[c] = "scan"
  /\ loc[c].i < NBits
  /\ bitmap[loc[c].i] = 0
  /\ loc[c].cur + 1 # loc[c].count
  /\ loc' = [loc EXCEPT ![c] = At(@, loc[c].i + 1, loc[c].cur + 1)]
  /\ UNCHANGED <<bitmap, pmm_lock, pc, held, ret>>

(* Seeded change: marking starts one frame late.                           *)
ScanHitMarksLate(c) ==
  /\ pc[c] = "scan"
  /\ loc[c].i < NBits
  /\ bitmap[loc[c].i] = 0
  /\ loc[c].cur + 1 = loc[c].count
  /\ LET page == loc[c].i - loc[c].count + 1
     IN  loc' = [loc EXCEPT ![c] = [Fresh(loc[c].count, page) EXCEPT !.i = page + 1]]
  /\ Goto(c, "mark")
  /\ UNCHANGED <<bitmap, pmm_lock, held, ret>>

ScanHit(c) ==
  /\ pc[c] = "scan"
  /\ loc[c].i < NBits
  /\ bitmap[loc[c].i] = 0
  /\ loc[c].cur + 1 = loc[c].count
  /\ LET page == loc[c].i - loc[c].count + 1
     IN  loc' = [loc EXCEPT ![c] = Fresh(loc[c].count, page)]
  /\ Goto(c, "mark")
  /\ UNCHANGED <<bitmap, pmm_lock, held, ret>>

(* Seeded change: the failing alloc returns with the lock held.            *)
ScanEndLocked(c) ==
  /\ pc[c] = "scan"
  /\ ~(loc[c].i < NBits)
  /\ Goto(c, "idle")
  /\ loc' = [loc EXCEPT ![c] = Fresh(0, 0)]
  /\ ret' = [ret EXCEPT ![c] = 0]
  /\ UNCHANGED <<bitmap, pmm_lock, held>>

ScanEnd(c) ==
  /\ pc[c] = "scan"
  /\ ~(loc[c].i < NBits)
  /\ release
  /\ Goto(c, "idle")
  /\ loc' = [loc EXCEPT ![c] = Fresh(0, 0)]
  /\ ret' = [ret EXCEPT ![c] = 0]
  /\ UNCHANGED <<bitmap, held>>

Mark(c) ==
  /\ pc[c] = "mark"
  /\ loc[c].i < loc[c].page + loc[c].count
  /\ bitmap' = [bitmap EXCEPT ![loc[c].i] = 1]
  /\ loc' = [loc EXCEPT ![c].i = @ + 1]
  /\ UNCHANGED <<pmm_lock, pc, held, ret>>

(* Seeded change: the caller is told of one frame too many.                *)
MarkDoneOneMore(c) ==
  /\ pc[c] = "mark"
  /\ ~(loc[c].i < loc[c].page + loc[c].count)
  /\ release
  /\ Goto(c, "idle")
  /\ held' = [held EXCEPT ![c] = @ \cup Run(loc[c].page, loc[c].count + 1)]
  /\ ret' = [ret EXCEPT ![c] = loc[c].page]
  /\ loc' = [loc EXCEPT ![c] = Fresh(0, 0)]
  /\ UNCHANGED bitmap

MarkDone(c) ==
  /\ pc[c] = "mark"
  /\ ~(loc[c].i < loc[c].page + loc[c].count)
  /\ release
  /\ Goto(c, "idle")
  /\ held' = [held EXCEPT ![c] = @ \cup Run(loc[c].page, loc[c].count)]
  /\ ret' = [ret EXCEPT ![c] = loc[c].page]
  /\ loc' = [loc EXCEPT ![c] = Fresh(0, 0)]
  /\ UNCHANGED bitmap

-----------------------------------------------------------------------------
(* free(ptr, count), called with a range of frames the caller holds        *)

CallFree(c, p, n) ==
  /\ pc[c] = "idle"
  /\ Run(p, n) \subseteq held[c]
  /\ Goto(c, "free")
  /\ loc' = [loc EXCEPT ![c] = Fresh(n, p)]
  /\ held' = [held EXCEPT ![c] = @ \ Run(p, n)]
  /\ UNCHANGED <<bitmap, pmm_lock, ret>>

AcquireFree(c) ==
  /\ pc[c] = "free"
  /\ acquire
  /\ Goto(c, "clear")
  /\ UNCHANGED <<bitmap, loc, held, ret>>

Clear(c) ==
  /\ pc[c] = "clear"
  /\ loc[c].i < loc[c].page + loc[c].count
  /\ bitmap' = [bitmap EXCEPT ![loc[c].i] = 0]
  /\ loc' = [loc EXCEPT ![c].i = @ + 1]
  /\ UNCHANGED <<pmm_lock, pc, held, ret>>

(* Seeded change: free stops one frame short.                              *)
ClearDoneEarly(c) ==
  /\ pc[c] = "clear"
  /\ ~(loc[c].i < loc[c].page + loc[c].count - 1)
  /\ release
  /\ Goto(c, "idle")
  /\ loc' = [loc EXCEPT ![c] = Fresh(0, 0)]
  /\ UNCHANGED <<bitmap, held, ret>>

ClearDone(c) ==
  /\ pc[c] = "clear"
  /\ ~(loc[c].i < loc[c].page + loc[c].count)
  /\ release
  /\ Goto(c, "idle")
  /\ loc' = [loc EXCEPT ![c] = Fresh(0, 0)]
  /\ UNCHANGED <<bitmap, held, ret>>

-----------------------------------------------------------------------------
(* The steps a client takes once it has made a call.                       *)
Step(c) ==
  \/ AcquireAlloc(c) \/ ScanUsed(c) \/ ScanFree(c) \/ ScanHit(c) \/ ScanEnd(c)
  \/ Mark(c) \/ MarkDone(c)
  \/ AcquireFree(c) \/ Clear(c) \/ ClearDone(c)

Next ==
  \E c \in Client :
    \/ \E n \in Counts : CallAlloc(c, n)
    \/ \E p \in Bit, n \in Counts : CallFree(c, p, n)
    \/ Step(c)

Spec == Init /\ [][Next]_vars

(* A preempted client is put back on the waiting queue and runs again.     *)
Fairness == \A c \in Client : WF_vars(Step(c))
FairSpec == Spec /\ Fairness

-----------------------------------------------------------------------------
(* Properties                                                              *)

Critical(c) == pc[c] \in {"scan", "mark", "clear"}

(* The lock is held exactly while one client is between its acquire and    *)
(* its release, on both exits of alloc and on the exit of free.            *)
LockInv ==
  /\ pmm_lock <=> \E c \in Client : Critical(c)
  /\ \A c, d \in Client : Critical(c) /\ Critical(d) => c = d

(* Frames passed to free whose bits are still to be cleared.               *)
Uncleared(c) ==
  IF pc[c] \in {"free", "clear"}
  THEN loc[c].i .. loc[c].page + loc[c].count - 1 ELSE {}

(* Frames of the run found by alloc that are already marked.               *)
Marked(c) == IF pc[c] = "mark" THEN loc[c].page .. loc[c].i - 1 ELSE {}

Taken(c) == held[c] \cup Uncleared(c) \cup Marked(c)

(* At every instant, inside the loops of alloc and free included, a bit is *)
(* clear exactly when PMM::init left the frame free and no client has it:  *)
(* nothing is leaked, nothing is given out that is not free.               *)
Accounting ==
  \A b \in Bit :
    bitmap[b] = 0 <=> b \in InitFree /\ \A c \in Client : b \notin Taken(c)

(* No frame is in the hands of two clients, or twice in those of one (held *)
(* and at the same time being freed or handed out).                        *)
SingleOwner ==
  /\ \A c, d \in Client : c # d => Taken(c) \cap Taken(d) = {}
  /\ \A c \in Client : held[c] \cap (Uncleared(c) \cup Marked(c)) = {}
  /\ \A c \in Client : Taken(c) \subseteq InitFree

FreeRun(p, n) == \A b \in Run(p, n) : b \in Bit /\ bitmap[b] = 0

(* While alloc scans, currentCount is the length of the run of free bits   *)
(* that ends before i, and no run of count free bits ends before i.        *)
ScanOK(c) ==
  LET k == loc[c]
  IN  pc[c] = "scan" =>
        /\ k.i <= NBits
        /\ k.cur <= k.i
        /\ FreeRun(k.i - k.cur, k.cur)
        /\ k.cur < k.i => bitmap[k.i - k.cur - 1] = 1
        /\ k.count # 0 => k.cur < k.count
        /\ k.count # 0 =>
             \A q \in Bit : q + k.count <= k.i => ~FreeRun(q, k.count)

(* The run that alloc marks: inside the bitmap, the rest of it still free, *)
(* and no lower run is long enough.                                        *)
MarkOK(c) ==
  LET k == loc[c]
  IN  pc[c] = "mark" =>
        /\ k.count # 0
        /\ k.page <= k.i /\ k.i <= k.page + k.count
        /\ k.page + k.count <= NBits
        /\ FreeRun(k.i, k.page + k.count - k.i)
        /\ \A q \in Bit : q < k.page =>
             \E b \in Run(q, k.count) : b < k.page /\ bitmap[b] = 1

(* The range that free clears: what its caller held when it called.        *)
ClearOK(c) ==
  LET k == loc[c]
  IN  pc[c] \in {"free", "clear"} =>
        /\ k.page <= k.i /\ k.i <= k.page + k.count
        /\ pc[c] = "free" => k.i = k.page
        /\ Run(k.page, k.count) \subseteq InitFree

AllocOK(c) == pc[c] = "alloc" => loc[c].i = 0 /\ loc[c].cur = 0

LocalOK(c) == AllocOK(c) /\ ScanOK(c) /\ MarkOK(c) /\ ClearOK(c)

(* The loops do what they are for, whatever the other clients do between   *)
(* two iterations: what alloc finds is the lowest run of count free bits,  *)
(* it gives up only if there is none, and every bit that alloc sets or     *)
(* free clears is of the run found or passed.                              *)
LoopsExact == \A c \in Client : LocalOK(c)

(* The index of the loop: the scan ends with the bitmap, the marking and   *)
(* the clearing loop with a run that lies inside it.                       *)
IndexOK(c) ==
  LET k == loc[c]
  IN  /\ pc[c] = "scan" => k.i <= NBits
      /\ pc[c] \in {"mark", "free", "clear"} /\ k.count # 0 =>
           /\ k.page <= k.i /\ k.i <= k.page + k.count
           /\ k.page + k.count <= NBits

(* The variables have their types, what the callers hold are frames, and   *)
(* no iteration of the three loops touches a bit that does not exist.      *)
TypeOK == Types /\ \A c \in Client : IndexOK(c)

(* The inductive invariant of PMM_proofs.                                  *)
IInv == Types /\ LockInv /\ Accounting /\ SingleOwner /\ LoopsExact

(* alloc and free implement the one-step allocator of FrameAllocator.      *)
Request(c) ==
  CASE pc[c] = "idle" -> [op |-> "none", page |-> 0, count |-> 0]
    [] pc[c] \in {"alloc", "scan", "mark"} ->
         [op |-> "alloc", page |-> 0, count |-> loc[c].count]
    [] pc[c] \in {"free", "clear"} ->
         [op |-> "free", page |-> loc[c].page, count |-> loc[c].count]

Abs == INSTANCE FrameAllocator
         WITH NFrames <- NBits, owned <- held,
              req <- [c \in Client |-> Request(c)]

(* Every call takes effect at once, at its release of the lock: alloc      *)
(* returns the lowest free run, or nullptr exactly when there is none, and *)
(* free gives back exactly the range it was passed.                        *)
Refines == Abs!Spec

(* A client that took the lock gives it back: no path of alloc or free     *)
(* returns with it held.                                                   *)
LockReleased == \A c \in Client : Critical(c) ~> ~pmm_lock
=============================================================================
