-------------------------------- MODULE Sched --------------------------------
(***************************************************************************)
(* The scheduler and the process calls of kernel/scheduler/scheduler.cpp.  *)
(*                                                                         *)
(* One core runs everything: only the boot core's timer is ever started.   *)
(* What makes it concurrent is the timer interrupt, which may come between *)
(* any two instructions of a user program, of the kernel thread init_proc  *)
(* and of a system call (syscall_entry does sti), and switches to another  *)
(* thread.  The handler itself runs with interrupts off, so reschedule is  *)
(* one step; it can only be held up by a spin lock.                        *)
(*                                                                         *)
(* ctx is the register file: which flow of control is on the core and      *)
(* where it is.  regs[t] is the copy that thread t keeps while it waits.   *)
(* Thread and process structures live on the heap: freeing one leaves its  *)
(* contents in place until something is allocated again, which may be a    *)
(* structure, the array of a vector or a file description.                 *)
(*                                                                         *)
(* Abstracted: page tables, file descriptors, program images, and the      *)
(* heap, of which heap_lock, the failing kmalloc and the use of a freed    *)
(* block remain.  The keyboard interrupt is in Boot, not here.  Every      *)
(* process has one thread, so the branches of exit_process and reschedule  *)
(* for other threads of the same process (Dying, Dead) are never taken.    *)
(***************************************************************************)
EXTENDS Integers, Sequences, FiniteSets, Functions

CONSTANTS Proc, Thread,     \* heap slots for process and thread structures
          init_process, init_thread,
          Null,
          NIds,             \* bits of pid_bitmap and of tid_bitmap (64)
          OverridePid,      \* the ids that init_proc writes into its second
          OverrideTid,      \* program (54 and 23)
          MaxForks          \* bound: how many forks are explored

ASSUME SlotsAssumption ==
  /\ init_process \in Proc /\ init_thread \in Thread
  /\ Null \notin Proc /\ Null \notin Thread
ASSUME IdsAssumption ==
  /\ NIds \in Nat \ {0} /\ OverridePid \in 0 .. NIds - 1 /\ OverrideTid \in 0 .. NIds - 1
ASSUME BoundAssumption == MaxForks \in Nat

Id == 0 .. NIds - 1
NoId == -1
Kind == {"pid", "tid"}
Programs == 2   \* what init_proc starts

VARIABLES
  ctx, running_thread, running_process,        \* the core
  waiting_queue, process_list,
  sched_lock, heap_lock,
  id_lock,    \* pid_lock and tid_lock
  bitmap,     \* pid_bitmap and tid_bitmap: the ids whose bit is set
  tid, status, parent_process, regs,           \* the fields of a thread
  pid, pstatus, threads,                       \* the fields of a process
  liveT, liveP,                                \* the allocated structures
  toStart,    \* programs init_proc has still to create
  forks,      \* how many forks were started
  fault,      \* the code went where nothing is known of what it does:
              \*   spin      reschedule waits for a lock, interrupts off
              \*   null      follows a null pointer
              \*   wild      writes outside a bitmap
              \*   stack     returns into an overwritten kernel stack
              \*   dangling  a heap block that the scheduler still uses after it
              \*             was freed goes to, or is split for, another use
              \*   nomem     kmalloc found no block: it returns a null pointer
              \*             and keeps heap_lock
  overwrote   \* the bitmaps in which a store undid somebody else's

schedvars == <<running_thread, running_process, waiting_queue, process_list>>
locks == <<sched_lock, heap_lock, id_lock>>
threadvars == <<tid, status, parent_process, regs, liveT>>
procvars == <<pid, pstatus, threads, liveP>>
data == <<bitmap, threadvars, procvars>>
ghosts == <<toStart, forks, fault, overwrote>>

vars == <<ctx, schedvars, locks, data, ghosts>>

(* kind: what runs.  pc: the statement it is about to execute.  in: the    *)
(* lock section it is inside.  me: the process it runs for.  The rest are  *)
(* locals: the process p and the thread t it builds or frees, which id it  *)
(* is getting, the new ids, a byte it has read from a bitmap.              *)
Context(kind, pc, me) ==
  [kind |-> kind, pc |-> pc, in |-> "none", me |-> me,
   p |-> Null, t |-> Null, which |-> "pid", new |-> [k \in Kind |-> 0], byte |-> {}]

UserContext(p) == Context("user", "user", p)

(* Sched::init has created init_process, queued it and started the timer;  *)
(* kernel_main hangs.                                                      *)
Init ==
  /\ ctx = Context("boot", "hang", Null)
  /\ running_thread = Null /\ running_process = Null
  /\ waiting_queue = <<init_thread>> /\ process_list = <<init_process>>
  /\ sched_lock = FALSE /\ heap_lock = FALSE /\ id_lock = [k \in Kind |-> FALSE]
  /\ bitmap = [k \in Kind |-> {0}]
  /\ tid = [t \in Thread |-> 0] /\ status = [t \in Thread |-> "Waiting"]
  /\ parent_process = [t \in Thread |-> IF t = init_thread THEN init_process ELSE Null]
  /\ regs = [t \in Thread |-> IF t = init_thread THEN Context("kernel", "new", init_process)
                                           ELSE UserContext(Null)]
  /\ pid = [p \in Proc |-> 0] /\ pstatus = [p \in Proc |-> "Waiting"]
  /\ threads = [p \in Proc |-> IF p = init_process THEN init_thread ELSE Null]
  /\ liveT = {init_thread} /\ liveP = {init_process}
  /\ toStart = Programs /\ forks = 0
  /\ fault = "none" /\ overwrote = {}

Scheduled == Range(waiting_queue) \cup ({running_thread} \ {Null})

(* The flow of control of thread t: the registers if it is on the core,    *)
(* what reschedule saved of them otherwise.                                *)
Flow(t) == IF t = running_thread THEN ctx ELSE regs[t]

(* A core that spins in the handler, or went astray, is not followed.      *)
Reached(l) == fault = "none" /\ ctx.pc = l
At(kind, l) == Reached(l) /\ ctx.kind = kind
Goto(l) == ctx' = [ctx EXCEPT !.pc = l]

-----------------------------------------------------------------------------
(* Lock sections.  Inside a section no other flow can run: a timer         *)
(* interrupt there finds the lock taken.  What a section of sched_lock     *)
(* takes from the heap is part of that section; several allocations in a   *)
(* row, of structures nobody else can reach yet, are one section.  A       *)
(* section that allocates has two more outcomes, AllocationFails and       *)
(* AllocatesFreed below.                                                   *)

SchedSection == {"list", "queue", "exit"}
HeapSection == {"new", "newthread", "closefds", "delete", "other"}

EnterSched ==
  /\ fault = "none" /\ ctx.pc \in SchedSection /\ ctx.in = "none"
  /\ ~sched_lock /\ sched_lock' = TRUE
  /\ ctx' = [ctx EXCEPT !.in = "sched"]
  /\ UNCHANGED <<schedvars, data, heap_lock, id_lock, ghosts>>

EnterHeap ==
  /\ fault = "none" /\ ctx.pc \in HeapSection /\ ctx.in = "none"
  /\ ~heap_lock /\ heap_lock' = TRUE
  /\ ctx' = [ctx EXCEPT !.in = "heap"]
  /\ UNCHANGED <<schedvars, data, sched_lock, id_lock, ghosts>>

InSched(kind, l) == At(kind, l) /\ ctx.in = "sched"
InHeap(kind, l) == At(kind, l) /\ ctx.in = "heap"
LeaveSched(c) == sched_lock' = FALSE /\ ctx' = [c EXCEPT !.in = "none"]
LeaveHeap(c) == heap_lock' = FALSE /\ ctx' = [c EXCEPT !.in = "none"]

-----------------------------------------------------------------------------
(* get_new_pid and get_new_tid: the first clear bit, then a read and a     *)
(* write of its byte, under pid_lock or tid_lock.  The scan is one step:   *)
(* only a clear_bit of exit_process could come in between.                 *)

Lowest(S) == CHOOSE x \in S : \A y \in S : x <= y
Unused == Id \ bitmap[ctx.which]

(* create_process goes on for the tid; fork looks at what it got.          *)
HaveId(c) ==
  IF c.kind = "kernel" /\ c.which = "pid" THEN [c EXCEPT !.pc = "find", !.which = "tid"]
                                          ELSE [c EXCEPT !.pc = "got"]

FindId ==
  /\ Reached("find")
  /\ ~id_lock[ctx.which]
  /\ Unused # {}
  /\ ctx' = [ctx EXCEPT !.new[ctx.which] = Lowest(Unused), !.pc = "load"]
  /\ id_lock' = [id_lock EXCEPT ![ctx.which] = TRUE]
  /\ UNCHANGED <<schedvars, sched_lock, data, heap_lock, ghosts>>

FindNoId ==
  /\ Reached("find")
  /\ ~id_lock[ctx.which]
  /\ Unused = {}
  /\ ctx' = HaveId([ctx EXCEPT !.new[ctx.which] = NoId])
  /\ UNCHANGED <<schedvars, data, locks, ghosts>>

LoadId ==
  /\ Reached("load")
  /\ ctx' = [ctx EXCEPT !.byte = bitmap[ctx.which], !.pc = "store"]
  /\ UNCHANGED <<schedvars, data, locks, ghosts>>

Store(k, bits) ==
  /\ bitmap' = [bitmap EXCEPT ![k] = bits]
  /\ overwrote' = IF ctx.byte = bitmap[k] THEN overwrote ELSE overwrote \cup {k}

StoreStep(bits, held) ==
  /\ Reached("store")
  /\ Store(ctx.which, bits)
  /\ id_lock' = [id_lock EXCEPT ![ctx.which] = held]
  /\ ctx' = HaveId([ctx EXCEPT !.byte = {}])
  /\ UNCHANGED <<schedvars, sched_lock, heap_lock, threadvars, procvars, toStart, forks,
                 fault>>

(* Seeded changes: no Lock::release; Bitmap::allocate without set_bit.     *)
StoreIdKeepsLock == StoreStep(ctx.byte \cup {ctx.new[ctx.which]}, TRUE)
StoreIdForgets == StoreStep(ctx.byte, FALSE)

StoreId == StoreStep(ctx.byte \cup {ctx.new[ctx.which]}, FALSE)

-----------------------------------------------------------------------------
(* init_proc: create_program twice, then hang                              *)

(* A freed structure that is given out again as one of the same type while *)
(* the queue refers to it.                                                 *)
StillQueued(t) == t \in Range(waiting_queue)
StillReached(p) == \E t \in Range(waiting_queue) : parent_process[t] = p
Reuse(dangling) == fault' = IF dangling THEN "dangling" ELSE fault

(* create_process 102-132: the structures are allocated and filled.        *)
NewProgram(p, t) ==
  /\ InHeap("kernel", "new")
  /\ LeaveHeap([ctx EXCEPT !.p = p, !.t = t, !.pc = "find"])
  /\ liveP' = liveP \cup {p} /\ liveT' = liveT \cup {t}
  /\ pstatus' = [pstatus EXCEPT ![p] = "Waiting"]
  /\ threads' = [threads EXCEPT ![p] = t]
  /\ status' = [status EXCEPT ![t] = "Waiting"]
  /\ regs' = [regs EXCEPT ![t] = UserContext(p)]
  /\ toStart' = toStart - 1
  /\ Reuse(StillQueued(t) \/ StillReached(p))
  /\ UNCHANGED <<schedvars, sched_lock, id_lock, bitmap, tid, parent_process, pid, forks,
                 overwrote>>

(* 141-143                                                                 *)
ProgramIds ==
  /\ At("kernel", "got")
  /\ NoId \notin Range(ctx.new)
  /\ pid' = [pid EXCEPT ![ctx.p] = ctx.new["pid"]]
  /\ tid' = [tid EXCEPT ![ctx.t] = ctx.new["tid"]]
  /\ parent_process' = [parent_process EXCEPT ![ctx.t] = ctx.p]
  /\ Goto("list")
  /\ UNCHANGED <<schedvars, locks, bitmap, status, regs, liveT, pstatus, threads, liveP,
                 ghosts>>

(* 137-138: create_process returns nullptr and create_program, line 235,   *)
(* follows it.                                                             *)
ProgramNoIds ==
  /\ At("kernel", "got")
  /\ NoId \in Range(ctx.new)
  /\ fault' = "null"
  /\ UNCHANGED <<ctx, schedvars, data, locks, toStart, forks, overwrote>>

ListProgram ==
  /\ InSched("kernel", "list")
  /\ process_list' = Append(process_list, ctx.p)
  /\ LeaveSched([ctx EXCEPT !.pc = IF toStart = 0 THEN "override" ELSE "queue"])
  /\ UNCHANGED <<running_thread, running_process, waiting_queue, data, heap_lock, id_lock,
                 ghosts>>

(* init_proc 45-46: the second program gets new ids; the bitmaps do not    *)
(* hear of it.                                                             *)
OverrideIds ==
  /\ At("kernel", "override")
  /\ pid' = [pid EXCEPT ![ctx.p] = OverridePid]
  /\ tid' = [tid EXCEPT ![ctx.t] = OverrideTid]
  /\ Goto("queue")
  /\ UNCHANGED <<schedvars, locks, bitmap, status, parent_process, regs, liveT, pstatus,
                 threads, liveP, ghosts>>

QueueProgram ==
  /\ InSched("kernel", "queue")
  /\ waiting_queue' = Append(waiting_queue, ctx.t)
  /\ LeaveSched(Context("kernel", IF toStart = 0 THEN "hang" ELSE "new", ctx.me))
  /\ UNCHANGED <<running_thread, running_process, process_list, data, heap_lock, id_lock,
                 ghosts>>

-----------------------------------------------------------------------------
(* System calls.  All of them run on the one kernel stack that TSS.rsp0    *)
(* points to: entering one overwrites the frames of every system call that *)
(* was preempted and is still to be resumed.                               *)

InSyscall(c) == c.kind = "user" /\ c.pc \notin {"user", "hang"}

Enter(c) ==
  /\ At("user", "user")
  /\ ctx' = c
  /\ regs' = [t \in Thread |-> IF InSyscall(regs[t]) THEN [regs[t] EXCEPT !.pc = "clobbered"]
                                                     ELSE regs[t]]

Return == ctx' = UserContext(ctx.me)

(* A flow whose stack was overwritten runs on with whatever is there.      *)
RunClobbered ==
  /\ Reached("clobbered")
  /\ fault' = "stack"
  /\ UNCHANGED <<ctx, schedvars, data, locks, toStart, forks, overwrote>>

(* The other system calls change nothing that is modelled here, but they   *)
(* use the stack and, for the files, the heap.                             *)
EnterOther ==
  /\ Enter([ctx EXCEPT !.pc = "other"])
  /\ UNCHANGED <<schedvars, locks, bitmap, tid, status, parent_process, liveT, procvars,
                 ghosts>>

OtherReturns ==
  /\ InHeap("user", "other")
  /\ heap_lock' = FALSE
  /\ Return
  /\ UNCHANGED <<schedvars, data, sched_lock, id_lock, ghosts>>

(* Bounds: few forks, and init_proc keeps the slots it needs.              *)
SlotsLeft ==
  /\ Cardinality(Proc \ liveP) > toStart
  /\ Cardinality(Thread \ liveT) > toStart

EnterFork ==
  /\ SlotsLeft /\ forks < MaxForks
  /\ forks' = forks + 1
  /\ Enter([ctx EXCEPT !.pc = "new"])
  /\ UNCHANGED <<schedvars, locks, bitmap, tid, status, parent_process, liveT, procvars,
                 toStart, fault, overwrote>>

(* 380: the constructor leaves pid as it finds it in the heap block.       *)
ForkProcess(p) ==
  /\ InHeap("user", "new")
  /\ LeaveHeap([ctx EXCEPT !.p = p, !.pc = "list"])
  /\ liveP' = liveP \cup {p}
  /\ threads' = [threads EXCEPT ![p] = Null]
  /\ \E garbage \in Id \cup {NoId} : pid' = [pid EXCEPT ![p] = garbage]
  /\ Reuse(StillReached(p))
  /\ UNCHANGED <<schedvars, sched_lock, id_lock, bitmap, threadvars, pstatus, toStart,
                 forks, overwrote>>

(* 382-384: the child is listed before it has a pid.                       *)
ListChild ==
  /\ InSched("user", "list")
  /\ process_list' = Append(process_list, ctx.p)
  /\ LeaveSched([ctx EXCEPT !.pc = "find"])
  /\ UNCHANGED <<running_thread, running_process, waiting_queue, data, heap_lock, id_lock,
                 ghosts>>

(* 386-388: the pid is not checked.                                        *)
ChildPid ==
  /\ At("user", "got") /\ ctx.which = "pid"
  /\ pid' = [pid EXCEPT ![ctx.p] = ctx.new["pid"]]
  /\ pstatus' = [pstatus EXCEPT ![ctx.p] = "Waiting"]
  /\ Goto("newthread")
  /\ UNCHANGED <<schedvars, locks, bitmap, threadvars, threads, liveP, ghosts>>

ForkThread(t) ==
  /\ InHeap("user", "newthread")
  /\ LeaveHeap([ctx EXCEPT !.t = t, !.which = "tid", !.pc = "find"])
  /\ liveT' = liveT \cup {t}
  /\ Reuse(StillQueued(t))
  /\ UNCHANGED <<schedvars, sched_lock, id_lock, bitmap, tid, status, parent_process, regs,
                 procvars, toStart, forks, overwrote>>

(* 404-407: no tid; the child stays on process_list.                       *)
ChildNoTid ==
  /\ At("user", "got") /\ ctx.which = "tid"
  /\ ctx.new["tid"] = NoId
  /\ Return
  /\ UNCHANGED <<schedvars, data, locks, ghosts>>

ChildTidStep(parent) ==
  /\ At("user", "got") /\ ctx.which = "tid"
  /\ tid' = [tid EXCEPT ![ctx.t] = ctx.new["tid"]]
  /\ status' = [status EXCEPT ![ctx.t] = "Waiting"]
  /\ parent_process' = [parent_process EXCEPT ![ctx.t] = parent]
  /\ Goto("copyregs")
  /\ UNCHANGED <<schedvars, locks, bitmap, regs, liveT, procvars, ghosts>>

(* Seeded changes: the tid is not checked; the parent instead of the child *)
(* becomes parent_process.                                                 *)
ChildTidUnchecked == ChildTidStep(ctx.p)
ChildTidOfParent == ctx.new["tid"] # NoId /\ ChildTidStep(ctx.me)

(* 409-411                                                                 *)
ChildTid == ctx.new["tid"] # NoId /\ ChildTidStep(ctx.p)

(* 413-416: the child resumes where its parent called fork.                *)
ChildRegs ==
  /\ At("user", "copyregs")
  /\ regs' = [regs EXCEPT ![ctx.t] = UserContext(ctx.p)]
  /\ threads' = [threads EXCEPT ![ctx.p] = ctx.t]
  /\ Goto("queue")
  /\ UNCHANGED <<schedvars, locks, bitmap, tid, status, parent_process, liveT, pid, pstatus,
                 liveP, ghosts>>

QueueChild ==
  /\ InSched("user", "queue")
  /\ waiting_queue' = Append(waiting_queue, ctx.t)
  /\ sched_lock' = FALSE
  /\ Return
  /\ UNCHANGED <<running_thread, running_process, process_list, data, heap_lock, id_lock,
                 ghosts>>

-----------------------------------------------------------------------------
(* exit_process, then hang                                                 *)

EnterExit ==
  /\ Enter([ctx EXCEPT !.pc = "exit", !.p = running_process])
  /\ UNCHANGED <<schedvars, locks, bitmap, tid, status, parent_process, liveT, procvars,
                 ghosts>>

(* Seeded change: the rest of the list goes with the entry.                *)
EraseByPidAndRest(list, x) ==
  LET Matches == {k \in DOMAIN list : pid[list[k]] = x}
  IN  IF Matches = {} THEN list ELSE SubSeq(list, 1, Lowest(Matches) - 1)

(* 170-173: erase moves the next entry to index i, and i++ steps over it:  *)
(* of a row of entries with the pid, every second one stays.               *)
EraseByPid(list, x) ==
  LET Match(k) == pid[list[k]] = x
      Before(k) == {j \in 0 .. k - 1 : \A m \in k - j .. k - 1 : Match(m)}
      Erased(k) == Match(k) /\ (Cardinality(Before(k)) - 1) % 2 = 0
      kept[k \in 0 .. Len(list)] ==
        IF k = 0 THEN <<>>
        ELSE IF Erased(k) THEN kept[k - 1] ELSE Append(kept[k - 1], list[k])
  IN  kept[Len(list)]

(* 168-206: the process leaves the list, its tid is free, and its thread   *)
(* structure, the one this flow runs on, goes back to the heap.            *)
ExitSection ==
  /\ InSched("user", "exit")
  /\ process_list' = EraseByPid(process_list, pid[ctx.p])
  /\ bitmap' = [bitmap EXCEPT !["tid"] = @ \ {tid[threads[ctx.p]]}]
  /\ liveT' = liveT \ {threads[ctx.p]}
  /\ LeaveSched([ctx EXCEPT !.pc = "closefds"])
  /\ UNCHANGED <<running_thread, running_process, waiting_queue, heap_lock, id_lock, tid,
                 status, parent_process, regs, procvars, ghosts>>

CloseFds ==
  /\ InHeap("user", "closefds")
  /\ LeaveHeap([ctx EXCEPT !.pc = "loadexit"])
  /\ UNCHANGED <<schedvars, data, sched_lock, id_lock, ghosts>>

(* 212: clear_bit without pid_lock, again a read and a write.              *)
ExitLoadPid ==
  /\ At("user", "loadexit")
  /\ pid[ctx.p] # NoId
  /\ ctx' = [ctx EXCEPT !.byte = bitmap["pid"], !.pc = "storeexit"]
  /\ UNCHANGED <<schedvars, data, locks, ghosts>>

(* A pid of -1 addresses a byte far outside the bitmap.                    *)
ExitWildPid ==
  /\ At("user", "loadexit")
  /\ pid[ctx.p] = NoId
  /\ fault' = "wild"
  /\ UNCHANGED <<ctx, schedvars, data, locks, toStart, forks, overwrote>>

ExitStoreStep(bits) ==
  /\ At("user", "storeexit")
  /\ Store("pid", bits)
  /\ ctx' = [ctx EXCEPT !.byte = {}, !.pc = "delete"]
  /\ UNCHANGED <<schedvars, locks, threadvars, procvars, toStart, forks, fault>>

(* Seeded change: clear_bit with &= (1 << ...), without the complement.    *)
ExitStorePidMask == ExitStoreStep(ctx.byte \cap {pid[ctx.p]})

ExitStorePid == ExitStoreStep(ctx.byte \ {pid[ctx.p]})

(* 217                                                                     *)
ExitDelete ==
  /\ InHeap("user", "delete")
  /\ liveP' = liveP \ {ctx.p}
  /\ LeaveHeap([ctx EXCEPT !.pc = "leave"])
  /\ UNCHANGED <<schedvars, sched_lock, id_lock, bitmap, threadvars, pid, pstatus, threads,
                 ghosts>>

(* 219-220, then hang: from here on the flow is forgotten at the next tick.*)
ExitLeave ==
  /\ At("user", "leave")
  /\ running_thread' = Null /\ running_process' = Null
  /\ ctx' = Context("user", "hang", ctx.me)
  /\ UNCHANGED <<waiting_queue, process_list, data, locks, ghosts>>

-----------------------------------------------------------------------------
(* The timer interrupt: reschedule                                         *)

(* The handler spins for sched_lock, or inside pop or push for heap_lock.  *)
TickSpins ==
  /\ fault = "none"
  /\ sched_lock \/ (heap_lock /\ waiting_queue # <<>>)
  /\ sched_lock' = TRUE
  /\ fault' = "spin"
  /\ UNCHANGED <<ctx, schedvars, data, heap_lock, id_lock, toStart, forks, overwrote>>

(* 296-309, then 337-354: nobody waits and the same thread goes on.  The   *)
(* branch 301-307 for a core without a thread is never taken: NoThreadLost.*)
TickKeeps ==
  /\ fault = "none" /\ ~sched_lock
  /\ waiting_queue = <<>>
  /\ running_thread # Null
  /\ regs' = [regs EXCEPT ![running_thread] = ctx]
  /\ status' = [status EXCEPT ![running_thread] = "Running"]
  /\ running_process' = parent_process[running_thread]
  /\ pstatus' = [pstatus EXCEPT ![parent_process[running_thread]] = "Running"]
  /\ UNCHANGED <<ctx, running_thread, waiting_queue, process_list, locks, bitmap, tid,
                 parent_process, liveT, pid, threads, liveP, ghosts>>

(* 311-354: thread s runs.  The running thread saves its registers, unless *)
(* it is itself the one that was popped; q is the queue that results.      *)
Saves(s) == running_thread # Null /\ running_thread # s

SwitchTo(s, q) ==
  LET next == parent_process[s]
  IN  /\ waiting_queue' = q
      /\ regs' = IF Saves(s) THEN [regs EXCEPT ![running_thread] = ctx] ELSE regs
      /\ status' = [t \in Thread |-> IF t = s THEN "Running"
                                     ELSE IF Saves(s) /\ t = running_thread THEN "Waiting"
                                     ELSE status[t]]
      /\ pstatus' = [p \in Proc |-> IF p = next THEN "Running"
                                    ELSE IF Saves(s) /\ p = running_process THEN "Waiting"
                                    ELSE pstatus[p]]
      /\ ctx' = regs[s]
      /\ running_thread' = s
      /\ running_process' = next
      /\ UNCHANGED <<process_list, locks, bitmap, tid, parent_process, liveT, pid, threads,
                     liveP, ghosts>>

SchedulerFree == fault = "none" /\ ~sched_lock /\ ~heap_lock /\ waiting_queue # <<>>
First == Head(waiting_queue)

(* Seeded changes: front() in the place of pop(); the previous thread is   *)
(* not pushed; it is pushed to the front.                                  *)
TickSwitchesPeeks ==
  /\ SchedulerFree
  /\ SwitchTo(First, IF Saves(First) THEN Append(waiting_queue, running_thread) ELSE waiting_queue)
TickSwitchesDrops == SchedulerFree /\ SwitchTo(First, Tail(waiting_queue))
TickSwitchesFront ==
  /\ SchedulerFree
  /\ SwitchTo(First, IF Saves(First) THEN <<running_thread>> \o Tail(waiting_queue)
                                   ELSE Tail(waiting_queue))

(* The head of the queue runs; the running thread goes to the end.         *)
TickSwitches ==
  /\ SchedulerFree
  /\ SwitchTo(First, IF Saves(First) THEN Append(Tail(waiting_queue), running_thread)
                                   ELSE Tail(waiting_queue))

Tick == TickSpins \/ TickKeeps \/ TickSwitches

-----------------------------------------------------------------------------
(* The heap                                                                *)

(* The step the flow is about to take allocates: the structures, the       *)
(* descriptors of create_process, or the new array of a vector that grows  *)
(* or shrinks.                                                             *)
FlowAllocates ==
  /\ fault = "none"
  /\ \/ ctx.in = "heap" /\ ctx.pc \in {"new", "newthread", "other"}
     \/ ctx.in = "sched" /\ ctx.pc \in {"list", "queue"}
     \/ /\ ctx.in = "sched" /\ ctx.pc = "exit"
        /\ EraseByPid(process_list, pid[ctx.p]) # process_list
     \/ At("kernel", "got") /\ NoId \notin Range(ctx.new)

(* So does the next tick: pop takes a shorter array, unless none is left,  *)
(* and push a longer one.                                                  *)
TickAllocates == SchedulerFree /\ (Len(waiting_queue) > 1 \/ Saves(First))

(* kmalloc finds no block: heap.cpp 191 returns with heap_lock taken, and  *)
(* the caller goes on with a null pointer.                                 *)
AllocationFails ==
  /\ \/ FlowAllocates /\ UNCHANGED sched_lock
     \/ TickAllocates /\ sched_lock' = TRUE
  /\ heap_lock' = TRUE
  /\ fault' = "nomem"
  /\ UNCHANGED <<ctx, schedvars, data, id_lock, toStart, forks, overwrote>>

(* A freed block is still in use: by the thread that is in the rest of its *)
(* exit_process, which every tick queues or runs again, or by process_list *)
(* for a process that an erase stepped over.                               *)
Dangling ==
  \/ \E t \in Scheduled : t \notin liveT \/ parent_process[t] \notin liveP
  \/ \E p \in Range(process_list) : p \notin liveP

(* Whatever is allocated then may lie in it, the queue's own array too: a  *)
(* write of status or regs through the old pointer is one into somebody    *)
(* else's data.                                                            *)
AllocatesFreed ==
  /\ FlowAllocates \/ TickAllocates
  /\ Dangling
  /\ fault' = "dangling"
  /\ UNCHANGED <<ctx, schedvars, data, locks, toStart, forks, overwrote>>

-----------------------------------------------------------------------------
(* One step of whatever is on the core: a call of a user program, or the   *)
(* next statement of the kernel.                                           *)
UserStep == EnterOther \/ EnterFork \/ EnterExit

KernelStep ==
  \/ EnterSched \/ EnterHeap
  \/ FindId \/ FindNoId \/ LoadId \/ StoreId
  \/ \E p \in Proc \ liveP, t \in Thread \ liveT : NewProgram(p, t)
  \/ ProgramIds \/ ProgramNoIds
  \/ ListProgram \/ OverrideIds \/ QueueProgram
  \/ RunClobbered \/ OtherReturns
  \/ (\E p \in Proc \ liveP : ForkProcess(p)) \/ ListChild \/ ChildPid
  \/ (\E t \in Thread \ liveT : ForkThread(t)) \/ ChildNoTid \/ ChildTid \/ ChildRegs
  \/ QueueChild
  \/ ExitSection \/ CloseFds \/ ExitLoadPid \/ ExitWildPid \/ ExitStorePid
  \/ ExitDelete \/ ExitLeave

Next == UserStep \/ KernelStep \/ Tick \/ AllocationFails \/ AllocatesFreed

Spec == Init /\ [][Next]_vars

(* The timer is periodic, and its period is long enough for the thread on  *)
(* the core to get on with a kernel function it is in.                     *)
FairSpec ==
  /\ Spec
  /\ WF_vars(Tick)
  /\ \A t \in Thread : SF_vars(running_thread = t /\ KernelStep)

-----------------------------------------------------------------------------
ContextType ==
  [kind : {"boot", "kernel", "user"},
   pc : {"hang", "user", "clobbered", "override", "copyregs", "find", "load", "store",
         "got", "loadexit", "storeexit", "leave"} \cup SchedSection \cup HeapSection,
   in : {"none", "sched", "heap"},
   me : Proc \cup {Null}, p : Proc \cup {Null}, t : Thread \cup {Null},
   which : Kind, new : [Kind -> Id \cup {NoId}], byte : SUBSET Id]

(* Every queued or running entry is a thread, and only ids of the bitmaps  *)
(* are handed out as tids: a failed get_new_tid never reaches a thread.    *)
(* Of a core that is lost this and the following say how it was until then.*)
TypeOK ==
  /\ ctx \in ContextType
  /\ running_thread \in Thread \cup {Null} /\ running_process \in Proc \cup {Null}
  /\ waiting_queue \in Seq(Thread) /\ process_list \in Seq(Proc)
  /\ sched_lock \in BOOLEAN /\ heap_lock \in BOOLEAN
  /\ id_lock \in [Kind -> BOOLEAN]
  /\ bitmap \in [Kind -> SUBSET Id]
  /\ tid \in [Thread -> Id] /\ status \in [Thread -> {"Waiting", "Running"}]
  /\ parent_process \in [Thread -> Proc \cup {Null}] /\ regs \in [Thread -> ContextType]
  /\ pid \in [Proc -> Id \cup {NoId}] /\ pstatus \in [Proc -> {"Waiting", "Running"}]
  /\ threads \in [Proc -> Thread \cup {Null}]
  /\ liveT \subseteq Thread /\ liveP \subseteq Proc
  /\ toStart \in 0 .. Programs /\ forks \in 0 .. MaxForks
  /\ fault \in {"none", "spin", "null", "wild", "stack", "dangling", "nomem"}
  /\ overwrote \subseteq Kind

(* The flow is inside the section of pid_lock or tid_lock.                 *)
HasLock(c, k) == c.pc \in {"load", "store"} /\ c.which = k

(* sched_lock and heap_lock are held by the flow on the core, or by the    *)
(* handler that spins, or were left by a kmalloc that failed: no context   *)
(* that was switched out is inside one of their sections.  So when         *)
(* reschedule finds one of them taken, its holder is the code it           *)
(* interrupted, and it waits forever.                                      *)
SectionHolders ==
  /\ fault \notin {"spin", "nomem"} => (sched_lock <=> ctx.in = "sched")
  /\ heap_lock <=> (ctx.in = "heap" \/ fault = "nomem")
  /\ \A t \in Range(waiting_queue) : regs[t].in = "none"
  /\ fault = "spin" => ctx.in # "none"

(* pid_lock and tid_lock, whose holders are switched out, have one holder  *)
(* that will release them, or one whose stack was overwritten.             *)
IdLockHolders ==
  fault # "dangling" =>
    \A k \in Kind :
      /\ \A t \in Scheduled : HasLock(Flow(t), k) =>
           /\ id_lock[k]
           /\ \A u \in Scheduled : HasLock(Flow(u), k) => t = u
      /\ id_lock[k] => \E t \in Scheduled : HasLock(Flow(t), k) \/ Flow(t).pc = "clobbered"

(* Every lock that is taken has a holder, and at most one: of the locks of *)
(* the scheduler and of the heap the code that reschedule interrupts or a  *)
(* failed kmalloc, of the locks of the ids any thread.                     *)
LockHolders == SectionHolders /\ IdLockHolders

(* A thread is in one place: it is not queued twice, and not queued while  *)
(* it runs, whatever forks, exits and ticks there were.                    *)
InOnePlace ==
  /\ \A j, k \in DOMAIN waiting_queue : waiting_queue[j] = waiting_queue[k] => j = k
  /\ running_thread \notin Range(waiting_queue)

(* No thread is lost: the thread of an allocated process is running, or    *)
(* queued, or some flow is still building it, as long as no block in use   *)
(* was given to somebody else.  And when the core has no thread, one is    *)
(* waiting: reschedule never gets to line 302, where it would read a field *)
(* of a null running_thread.                                               *)
NoThreadLost ==
  /\ running_thread = Null => waiting_queue # <<>>
  /\ fault # "dangling" =>
    \A p \in liveP :
      threads[p] \in liveT =>
        \/ threads[p] \in Scheduled
        \/ ctx.t = threads[p]
        \/ \E u \in Range(waiting_queue) : regs[u].t = threads[p]

(* reschedule restores a thread together with its own process: a queued    *)
(* thread was completely set up before it was pushed, and the flow on the  *)
(* core belongs to running_process.                                        *)
ResumesOwn ==
  fault # "dangling" =>
    /\ \A t \in Scheduled :
         /\ parent_process[t] \in Proc
         /\ threads[parent_process[t]] = t
    /\ \A t \in Range(waiting_queue) : regs[t].me = parent_process[t]
    /\ running_thread # Null =>
         /\ running_process = parent_process[running_thread]
         /\ ctx.me = running_process

(* Two scheduled threads have different tids, except for the id that       *)
(* init_proc wrote into its second program.                                *)
TidsUnique ==
  fault # "dangling" => \A t, u \in Scheduled \cap liveT :
    tid[t] = tid[u] => t = u \/ tid[t] = OverrideTid

(* Two scheduled processes have different pids, except for the id of       *)
(* init_proc, for a failed get_new_pid in fork, and after the unlocked     *)
(* clear_bit in exit_process and a set_bit have crossed.                   *)
ForeignPid(p) == pid[p] \in {OverridePid, NoId}

PidsUnique ==
  fault # "dangling" => \A t, u \in Scheduled \cap liveT :
    LET p == parent_process[t]
        q == parent_process[u]
    IN  pid[p] = pid[q] => t = u \/ ForeignPid(p) \/ "pid" \in overwrote

(* A scheduled process is on process_list, with the same exceptions: an    *)
(* exit removes no entry but its own.                                      *)
ListedWhileScheduled ==
  fault # "dangling" => \A t \in Scheduled \cap liveT :
    LET p == parent_process[t]
    IN  p \in Range(process_list) \/ ForeignPid(p) \/ "pid" \in overwrote

(* What the comment at line 178 asks for: when a thread's structures are   *)
(* freed, the thread has stopped, and is not scheduled again.              *)
FreedNeverQueued == Range(waiting_queue) \subseteq liveT

(* Every queued thread gets the core, unless the core is lost.             *)
EachGetsTheCore ==
  \A t \in Thread : t \in Range(waiting_queue) ~> (running_thread = t \/ fault # "none")

(* init_proc starts both of its programs, unless the core is lost.         *)
InitFinishes ==
  <>((toStart = 0 /\ At("kernel", "hang")) \/ fault # "none")

(* A process that calls exit is freed, unless the core is lost.            *)
ExitFrees ==
  \A p \in Proc \ {init_process} : (At("user", "exit") /\ ctx.p = p) ~> (p \notin liveP \/ fault # "none")
=============================================================================
