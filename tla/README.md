# TLA+ models of Toystar

Toystar is a small 64-bit operating system kernel. This directory holds TLA+
modules for its core, the TLC configurations that check them on small
instances, and TLAPS proofs. Paths below are relative to `src/src/`.
`PROJECT.json` names, for every definition that models code, the lines it
stands for.

## The system

### Parts, their state and their operations

| Part | State | Operations | Used by |
|---|---|---|---|
| Physical memory manager, `kernel/memory/pmm.cpp` | `bitmap` (one bit per frame, 1 = used), `bitmapSize`, `pmm_lock` | `init`, `alloc(count)`, `free(ptr, count)` | heap, VMM, tmpfs, scheduler, SMP boot |
| Kernel heap, `kernel/memory/heap.cpp` | `bucketList` per order, a header per block, `heap_lock` | `kmalloc`, `kfree` (`new`, `delete`) | everything, the containers included |
| Virtual memory manager, `kernel/memory/vmm.cpp` | four-level tables, `m_ranges`, `page_tables_addr` | `map_page`, `map_range`, `unmap_*`, `duplicate`, `destroy` | process creation, fork, exit, ELF |
| Scheduler, `kernel/scheduler/` | `waiting_queue`, `process_list`, `pid_bitmap`, `tid_bitmap`, three locks, the fields of processes and threads, the core's `running_thread` and `running_process` | `reschedule` (timer), `queue`, `create_process`, `create_program`, `init_proc`, fork, exit | system calls, the timer |
| System call entry, `kernel/x86_64/syscall*` | one kernel stack (`TSS.rsp0`) | `syscall_entry`, `syscall_main` | user programs |
| Files, `kernel/fs/` | the tmpfs tree, mounts, descriptions, each process's `fd_list` | open, close, read, write, mkdir, resize, load | system calls, `create_process` |
| SMP boot and APIC, `kernel/x86_64/` | `cpus`, per-core data, redirection tables, timer | `bootstrap_cores`, `core_init`, `Apic::init`, `calibrate_timer` | boot |
| Keyboard and screen, `kernel/drivers/keyboard.cpp`, `kernel/video.cpp` | shift and caps, the cursor | `isr_keyboard`, `print_char`, `clear_screen` | boot, the tty device |
| Containers, `klibc/` | heap arrays | vector, queue, map, optional | everything |
| Other drivers, tables, boot, strings | registers, tables | mostly I/O | boot |

They interact by direct calls, and share the locks. Two facts shape every
model here:

* **One core does all the work.** The other cores end `core_init` in
  `hang()`, and only the boot core starts its timer.
* **The timer interrupts nearly everything.** User code, the kernel thread
  `init_proc` and, because `syscall_entry` executes `sti`, system calls run
  with interrupts on. `reschedule` runs with interrupts off, takes
  `sched_lock`, and its queue uses the heap. So two threads interleave at any
  instruction of `alloc`, `kmalloc`, fork or exit, and the handler may wait
  for a lock that the code it interrupted holds.

The build gives no `-O` flag, so `bitmap[i] |= ...` is a load and a later
store; where no lock protects it, the models have two steps.

### What is hard

Preemption inside the loops of the allocators; the timer against each lock;
exit, which frees the structures it runs on; id bitmaps written under
different locks or none; one kernel stack for all system calls; running out
of frames, blocks or ids halfway through a call; the ends of ranges in
`PMM::init`, `map_range_raw`, the heap and the IO APICs; fork and exit, which
copy and free address spaces page by page; descriptors that are opened,
closed and copied in any order; keys typed while the kernel prints, whose
interrupt stub does not give `rdi` back; freed structures that are still used.
`PROJECT.json` lists each of these
with its line and the property that watches over it.

### What makes each part correct

* PMM: a frame has one owner; none is lost; `alloc` finds a run when there is
  one; both are atomic to their callers; the lock comes back.
* Heap: free and live blocks tile the heap; merging is complete; the lock
  comes back.
* Scheduler: a thread is in exactly one place, is resumed as itself, gets the
  core again; ids are unique; `process_list` has the processes that run;
  freed structures are not used.
* VMM: a process sees its own memory and nobody else's; every frame taken is
  given back once.
* Files: the tree is a tree; a path leads to its node; a description is in
  one slot; a file holds what was written.
* Boot: a line that can interrupt has a handler; the screen survives keys; the
  boot core leaves its loop once all cores are up.

## Modules

| Module | Models |
|---|---|
| `FrameAllocator` | The promise of `alloc` and `free`: each takes effect in one step. Abstract specification. |
| `PMM` | `pmm.cpp` after `init`, one action per loop iteration. |
| `PMM_proofs`, `PmmInit_proofs`, `Heap_proofs`, `Sched_proofs`, `VMM_proofs`, `Boot_proofs`, `Files_proofs` | Theorems about the modules they are named after. |
| `NatSets` | Two facts about the naturals that several proofs need: a set of them has a least element, and induction for a set. |
| `PmmInit` | `PMM::init`: three loops over the bootloader's memory map. |
| `Heap` | `kmalloc`, `kfree` and the helpers they use. |
| `Sched` | Scheduler, process creation, fork, exit, timer, system call entry. |
| `Vector` | `toys::vector` as a sequence; used by `VMM` and `Files`. |
| `VMM` | Address spaces: the page tables, the ELF loader, the start of a program, `duplicate` in fork, `destroy` in exit. |
| `Files` | Tmpfs, the mounts, devfs, the ramdisk, the system calls on descriptors, with fork and exit. |
| `Boot` | `_start` and `core_init`: the IO APICs, the other cores, printing, and the keyboard interrupt in between. |
| `MCPMM`, `MCPmmInit`, `MCHeap`, `MCSched`, `MCVMM`, `MCFiles`, `MCBoot` | The instances for TLC. |

`PMM` is checked and proved to implement `FrameAllocator`; that is why `VMM`
may take `PMM::alloc` and `PMM::free` as single steps. `VMM` and `Files` each
follow a process from its start through forks to its exit, and model the part
of `create_program`, fork and exit that concerns them; `Sched` has the rest
and the preemption in it.

A definition whose comment begins "Seeded change" is a plausible slip in the
definition after it. It is not used by the specification; put in the place
of the real one it breaks the property it is listed with in `PROJECT.json`,
which shows that the property depends on the code being as it is.

### PMM

`bitmap` and `pmm_lock` are the code's; `loc[c]` has the locals of a call;
`pc[c]` says where client `c` is; `held` and `ret` record what callers were
given. `ScanUsed`, `ScanFree`, `ScanHit` are the branches of the loop at
lines 78-99, `ScanEnd` the failing exit, `Mark`/`MarkDone` and
`Clear`/`ClearDone` the inner loop of `alloc` and the loop of `free`. A client
frees only frames it holds, in any sub-range, as tmpfs and the VMM do. Left
out: the zeroing of the run under the lock, and the byte around a bit, which
only the lock holder touches.

### PmmInit

One step per iteration, over every memory map in `MMaps`. `given` keeps the
map the bootloader passed, because the code shortens the entry in which it
puts the bitmap. `cleared` is the set of bits cleared since the `memset`. Of
the map only what stivale2 promises is assumed: the entries are sorted, usable
and reclaimable ones are page-aligned and overlap nothing; kernel, module and
reserved entries may lie anywhere in a frame and overlap each other.

### Heap

Addresses and sizes are in units of the smallest block `kmalloc` can return
(32 bytes), so the orders are 0 to `MAX`. A list is a sequence; `curr` and
`i` of `try_to_merge` are two variables because after a merge they no longer
name the same block. The header's `size` is kept apart from the list a block
is on, as in the code. `power` is `1 << order`. `krealloc` has no caller and is left out. Requests
above the heap's size are left out: their index is negative, and what is in
front of the array decides what happens.

### Sched

`ctx` is what is on the core: a kind (boot, the kernel thread, a user
program), a program counter, the lock section it is in and its locals.
`regs[t]` is the copy thread `t` waits with; `reschedule` moves contexts
between the two (`SwitchTo`). Structures are slots of `Proc` and `Thread`;
freeing one takes it out of `liveP` or `liveT` and leaves its fields, as the
heap does, until something is allocated.

* Everything done under `sched_lock`, and a row of allocations of structures
  nobody else can reach, is a section: an entering step that takes the lock
  and a leaving step that does the work. The timer may come in between, and
  then the handler spins for ever (`TickSpins`): this is a real behaviour of
  the code, not a modelling artefact.
* A step that allocates, or a tick whose pop or push allocates a new array
  for the queue, has two more outcomes. `AllocationFails`: there is no block,
  `kmalloc` returns with `heap_lock` held (`heap.cpp:191`) and the caller goes
  on with a null pointer. `AllocatesFreed`: a freed block that the scheduler
  still uses, the thread or process of an exit that is not yet at its end or a
  process an erase stepped over, becomes part of something else: the queue's
  own array, for instance, in which the write of `status` through the old
  `running_thread` (316, 340) destroys an entry.
* `get_new_pid` and `get_new_tid` share their actions, indexed by which id is
  being got: find a clear bit, load its byte, store it.
* `Enter` overwrites every preempted system call's frames, because all of
  them use the stack of `TSS.rsp0`. The timer's gate uses the stack of
  `TSS.ist1`, so a tick alone overwrites nothing. The keyboard interrupt,
  which also uses `rsp0` when it comes in user mode, is in `Boot` and not here.
* `fault` says that the core left the code's control: it spins with
  interrupts off, followed a null pointer, wrote outside a bitmap, returned
  into an overwritten stack, found no memory, or had a block in use given to
  somebody else ("dangling"). The model stops there, since nothing is known of
  what follows. Properties about the whole life of the system say "unless the
  core is lost"; for the invariants only the last of these needs an exception,
  as the others change no scheduler state.

Every process has one thread in this code, so the branches for other threads
of an exiting process (`Dying`, `Dead`) cannot be reached and are left out.
Page tables and descriptors are in `VMM` and `Files`; that the calls on
files use the heap and the kernel stack is kept here (`EnterOther`).

### VMM

`mem[f][e]` is entry `e` of frame `f` read as a page table, `cont[f]` the page
whose contents frame `f` has, `used` the frames given out, and `proc[p]` the
`vmm` object of a process together with where its call stands. `Walk` and
`map_page` work on these frames through four levels, as the code does, and
`Leaf` is what the processor would find; an entry of level `k` stands for
`Span[k]` pages. Loading, `duplicate` and `destroy`
have a step per segment or range, and those of different processes
interleave. `area`, `data` and `forks` are for the properties only.

When `PMM::alloc` answers 0 and the code goes on with frame 0, `core` becomes
"lost": from there the kernel writes to memory that is not its own. A page
fault halts the core for good (`isr_page_fault`), so the model stops there
too.

### Files

A node is a record in `nodes`, in the order of creation; its `children` are
newest first, as the code links them. A path is a sequence of names.
`path_to_node` is three parts: `Dots` (leading `.` and `..`, one `Dot` each;
a relative path whose first name only begins with a dot, one of `Hidden`, is
answered with nullptr, `tmpfs.cpp:73-86`),
`Walk` (a `Down` per name), and the test of what is left of the path. `mkdir`
does not look at the type of its parent, so a ramdisk may put a directory
below a file, and `TreeOK` asks for a directory above files only. `SizeOf` is the node's
`size`, which stays at one page, because nothing ever writes it. `by` says in
whose memory the name of a node lies: `get_name_from_path` returns a pointer
into the caller's path, so for a file a program created it is valid only in
that program, and a lookup by another one that reads it ends in "lost". A
system call is one step, since a second one on the one kernel stack overwrites
the first (see `Sched`). Calls that fail and change nothing are left out.
When a file of the ramdisk cannot be created, `continue` makes its data the
next header: `LoadFileFails` goes on with any archive of `Inner`, which are
what such data may read as. A symbolic link is skipped, a header of an unknown
type is a panic.

### Boot

`pc` is where the boot core is; `at[c]` where core `c` is in `core_init`.
`table[n][e]` is redirection entry `e` of IO APIC `n`: `set_redirection`,
`mask_gsi` and `unmask_gsi` find it by the code's register arithmetic
(`EntryOf`), also where that goes wrong. A loop of calls of `set_redirection`
leaves in an entry what the last call that named it wrote. `print_char` on the
boot core has a step for every access to the cursor, except that the loops of
`rect` have one for a pixel and one for a row: after a key in them nothing is
said of what they paint. `isr_keyboard` is one step, as its gate
turns interrupts off. Its stub executes `mov rdi, rsp` before `push rdi`
(`idt_.asm:3, 14`), so the interrupted code goes on with another first
argument (`StubReturns`): an amount or an `x` from `Stray` where a call of
`increment_cursor_x` or `rect` was being made, another character for
`print_char`, and for a call the model does not have, `print` itself or those
of `bootstrap_cores` and `Sched::init`, the machine is `lost` and not followed
further. A scancode behind the end of the tables (the space bar
with shift, say) reads as any character. Print Screen and others send the code
of a shift key behind an E0, which the handler takes for a release
(`FakeShift`). The number of the destination core
is always 0, so on a machine whose boot core has another id no key arrives.
`seen` has what the properties need: whether the last character was a line
feed, whether a key came in the middle of a `clear_screen`, whether one of
two shift keys went up, and whether the last shift code was a fake one. Pixels of glyphs are left out.

## What TLC checks

| Run | Instance | Shows |
|---|---|---|
| `pmm` | 2 clients, 5 bits, free frames {1, 3, 4}, counts 0 to 2 | `Accounting`, `SingleOwner`, `LoopsExact`; `Refines` (the PMM implements `FrameAllocator`); `LockReleased`. |
| `pmm_init` | all maps of up to 3 regions up to frame 17 | Exactly which bits are cleared (`ClearedExact`), when the bitmap's own frames are (`BitmapReserved`), and when a write leaves the bitmap (`WritesInside`). |
| `pmm_init_marked` | the same | A violation, see below. |
| `heap` | 1 client, 8 smallest blocks, 3 alignments | `Tiling`, `MergeSound`, `FullyCoalesced` after any sequence of calls. |
| `heap_contended` | 2 clients, 4 smallest blocks | `Tiling` under preemption, `OneInside`, `LockReleased`. |
| `sched` | 4 processes and threads, 3 ids, 1 fork | Eight invariants over creation, fork, exit and ticks. |
| `sched_live` | 3 processes and threads, 3 ids, 1 fork | `EachGetsTheCore`, `InitFinishes`, `ExitFrees` (liveness). States in which the core is lost are not kept (`NotLost`): nothing happens in them, and a behaviour that reaches one has all three properties. |
| `sched_exit` | as `sched_live` | A violation, see below. |
| `vmm` | 3 processes, 2 programs, 34 frames, tables of 2 entries | `OwnMemory`, `StrayPages`, `FramesAccounted`, `ArgsOnOwnStack` over loading, fork, exit, and memory that runs out. |
| `files` | 2 processes, 3 ramdisks, 4 calls | `TreeOK`, `LookupExact`, `DescriptorsOwned`, `FileData`. |
| `files_parent` | as `files` | A violation, see below. |
| `boot` | 3 machines, 2 or 3 cores, 3 scancodes, a screen of 3 by 3 | `InterruptsServed`, `ScreenKept`, `ShiftHeld`, and `AllUp` (liveness). |

**Bounds.** In `pmm` one free run is too short for the larger request and one
is just long enough and ends at the last bit, so failure, success at the edge
and contention for the same frames all happen; the theorems remove the bounds.
In `pmm_init` the edges of regions are frames 1 to 3, 8, 9 and 17, that is
below, at and above what one and what two bitmap bytes cover, with gaps and
all orders of region types; the kernel's regions also start and end in the
middle of a frame and overlap. A frame is two bytes long, so bitmaps of one and
of two frames occur. In `heap` three orders above the
smallest give merges that cascade and lists of up to four blocks, on which
`i` and `curr` come apart. In `sched` init, its two programs and a child fill
the slots; three ids run out, so that every failing path of id allocation is
taken, and the ids that `init_proc` writes (54 and 23 of 64) are the last
one of three; one fork is enough for a half-built child to race with
an exit. In `vmm` a program and two generations of forks fit, or two programs
and a fork, until the frames run out in the middle of a copy; two programs
share no page layout, one has a segment that starts inside a page. In `files`
four calls are enough to create, write twice past the first page, and close
or open again, with forks and exits in between; the bounds on offsets,
descriptions and nodes leave out only longer repetitions. The ramdisks have a
directory with a program in it, a file that cannot be made, without data and
with data that are the end, a link and a file, or no header at all, and a
directory below a file and one whose name begins with a dot. In `boot` the
machines have a plain IO APIC, a second one with a redirected line and a boot
core that is not core 0, and one of sixteen lines next to one whose base is
below its size; the text fills the screen and feeds lines past its end; three
scancodes press both shift keys and release one, or type in a `clear_screen`
whose argument was replaced; `Stray` has an argument that leaves the screen
and one with which the sixteen bits of the cursor overflow. With the slots of `sched` symmetric except for those of init, TLC
uses symmetry there, and for the processes of `vmm` and `files`, but not in
the runs for liveness.

**Deadlock** is checked in `pmm`. The other systems may stop: boot ends,
a failed `kmalloc` leaves the lock taken, a core can be lost or halted, all
processes may have exited and all keys been typed.

**Fairness.** `PMM` and `Heap`: weak fairness of each client's steps, since a
preempted thread goes back on `waiting_queue` and runs again, which is what
`EachGetsTheCore` shows of the scheduler. Callers are not obliged to call.
`Sched`: the timer is periodic, so `WF(Tick)`; and the timer's period of 500
milliseconds (`Sched::init`) is longer than any statement, so a thread that has the
core again and again while in the kernel gets on: strong fairness of each
thread's kernel steps. User programs need not call anything. A tick that lands
inside a lock section is not excluded by this fairness, which is why the
properties have "or the core is lost".
`Boot`: weak fairness of the boot core and of each other core, which execute
independently; the scancodes are bounded, so the handler does not take the
boot core for ever, as a keyboard does not. `VMM` and `Files` have no
liveness.

### What the code does otherwise than it says

* `pmm_init_marked`. The comment on the bitmap is "1 = used, 0 = free"
  (`pmm.cpp:13`), but the loop at `pmm.cpp:67` runs to
  `pageNumber + length` inclusive, and so frees the frame after each usable
  region, which may be the kernel's, a module's or the bitmap's.
  `ClearedExact` shows that this is all it frees too much.
* `sched_exit`. `exit_process` deletes its own thread (202-203) and is still
  `running_thread` until line 219; a tick in between saves registers into the
  freed structure and queues it. The comment at 178-179 has the rule for
  threads on other cores: wait for it to stop "so that we can safely free its
  resources".

* `files_parent`. `path_to_node` "will return its parent (if it exists)"
  (`tmpfs.cpp:58`) when the node is not there, and the loop at 127-133
  "ensures that the node returned is either the parent or the node itself"
  (123). The loop allows one inner slash, so it also returns the parent's
  parent: `open` with `CREATE` of `/x/f` without an `x` puts `f` into the
  root, where there may be an `f` already. `LookupExact` shows that this is
  the only case.

Other properties state their exceptions, each a consequence of the code that
the model shows: ids written by `init_proc` without the bitmaps, a pid of -1
after a failed `get_new_pid` in fork, and a store to `pid_bitmap` that undoes
another because exit does not take `pid_lock`. In the newer models:

* `OwnMemory`: a child of a child has no memory, since `duplicate` gives the
  child an empty list of ranges (`vmm.cpp:150`). `FramesAccounted`: for the
  same reason the memory of a forked process is never freed, nor is any PML4
  (`delete m_pml4` is not an address of the heap).
* `StrayPages`: a loaded program has one page beyond each area, onto the frame
  after it. `ArgsOnOwnStack` holds only because of that page.
* `FileData`: the size of a file is 4096 for ever; reads beyond it fail, a
  second growth loses a frame and what was written behind the first page.
* `Files` also has, as ways the core halts: a fork after a close
  (`scheduler.cpp:395` copies from nullptr) and `open` of a relative path by a
  program of the root directory, whose `fs` is null (`tmpfs.cpp:29` runs
  before `tmp_filesystem` is set). The descriptor for standard output is open
  for reading (`scheduler.cpp:146`).
* `InterruptsServed`: the masking loop leaves out the last line of each IO
  APIC, and on one whose base is not 0 masks by wrong register numbers.
* `ScreenKept`: a line feed moves the cursor below the screen and the next
  character is drawn there; a key typed during `clear_screen` moves what is
  painted.

## What is proved

The theorems hold for every value of the constants that the named
assumptions allow; TLC evaluates those assumptions on every run. Each
component has one inductive invariant (`Boot` three, about disjoint parts of
its state). TLC has checked each of them on a small instance before it was
proved.

| Module | Theorems | Assumed of the constants |
|---|---|---|
| `PMM_proofs` | `TypeCorrect`, `AccountingHolds`, `SingleOwnerHolds`, `LoopsExactHolds`, `Refinement` | Bits and counts are natural numbers; frame 0 is not usable memory, so nullptr is not an answer of a successful `alloc`. |
| `PmmInit_proofs` | `InitClearedExact`, `InitBitmapReserved`, `InitWritesInside` | What stivale2 promises of a memory map: entries in the order of their bases; usable and reclaimable ones page-aligned and overlapping no other. A page is not empty. |
| `Heap_proofs` | `HeapTypeOK`, `HeapTiling`, `HeapMergeSound`, `HeapFullyCoalesced`, `HeapOneInside` | The largest order and the addresses are natural numbers. The heap may lie at any address. |
| `Sched_proofs` | `SchedTypeOK`, `SchedLockHolders`, `SchedInOnePlace`, `SchedNoThreadLost`, `SchedResumesOwn`, `SchedTidsUnique`, `SchedPidsUnique`, `SchedListedWhileScheduled` | Init has a process and a thread; there is an id, and the two that `init_proc` writes are ids. |
| `VMM_proofs` | `VMMTypeOK`, `VMMOwnMemory`, `VMMStrayPages`, `VMMFramesAccounted`, `VMMArgsOnOwnStack` | There are frame 0 and a frame for the kernel's table; a table has at least two entries, of which the last is the kernel's; the user stack begins on a page; "none" is no process. Of a program what a linker makes: its segments ascend, each has pages of its own, they lie below the stack, and the page after the stack is still the user's. |
| `Boot_proofs` | `LinesServed`, `ScreenIsKept`, `KeysShiftHeld` | The boot core is one of the cores, each listed once; an IO APIC has no more entries than its eight-bit register numbers reach; the firmware redirects no line but the keyboard's own to interrupt 1, which `Apic::init` unmasks without looking. Screen and font have a size of sixteen bits; so have the arguments that replace others. |
| `Files_proofs` | `TreeStaysOne`, `LookupsExact`, `DescriptionsOwned`, `DataAsWritten` | A page is not empty and fits in the bound on offsets, as do the files of a ramdisk, whose entries have a type, a path and a size; the path of the program is absolute; no process is called "kernel" or "none"; the paths whose lookup is compared have a name, and the first is neither `.` nor `..`, since these are put before it; it may begin with a dot otherwise. |

These are all the invariants of the runs of `PMM`, `PmmInit`, `Heap`, `Sched`,
`VMM`, `Boot` and `Files`, and the refinement of `FrameAllocator`.

**PMM.** `Accounting` is not inductive: that a marked bit has exactly one
owner needs that the run being marked is free, which holds because the scan
found it and nobody else has touched the bitmap since. So `IInv` is the
conjunction of the types, `LockInv` (the lock is taken exactly when one client
is between acquire and release), `Accounting`, `SingleOwner` and `LoopsExact`,
which says what each loop knows: the scan that `currentCount` bits before `i`
are free, that the bit before them is not, and that no run long enough ends
earlier; the marking loop that the rest of its run is free; the clearing loop
that its range was its caller's. There is one lemma per action. Steps of the
other clients outside the lock change neither the bitmap nor anybody's locals
(`OthersKeep`); inside the lock `LockInv` excludes them. For the refinement,
`held` is `owned` and a call's locals give its request; every step is a
stutter except the two calls and the three releases of the lock, where
`LoopsExact` supplies the guards of `Grant`, `Refuse` and `Reclaim`.

**PmmInit.** `IInv` says what each of the three loops has found out:
`lastUsablePage` covers the regions seen so far; the bitmap lies at the start
of the first region that is long enough, and that entry alone was shortened;
the cleared bits are those the third loop has passed, the end frame of each
region included. The theorems compare this, at the end of `init`, with the map
that was given, and for that need the arithmetic of `DIV_CEIL` and of
page-aligned addresses.

**Heap.** `Tiling` is about the blocks between any two steps, so `HeapInv`
adds where each block is: `PlaceInv` (each block is in one place, a list, a
client's hands or a `kfree` that has not yet put it back, and its header has
the order of the place), `ListInv` (what `kmalloc` and `try_to_merge` know of
the lists at each statement: how far the search is, which list is being split,
and that outside of the list being merged no two buddies are free), `LockInv`,
the types, the tiling and `AlignInv`. The core of the proof is that splitting
a block into two halves, and joining a block with its buddy, keeps a tiling
(`SplitTiles`, `MergeTiles`), and that after a merge `i` and `curr` part in
one way only, which is why the loop of `try_to_merge` still finds the buddy.

**Sched.** The thread of a context may be on the core or in `regs`, so the
invariant `Base` speaks of `Flow(t)`, the context of a thread wherever it is.
For each flow, `FlowOK` says what its statement implies: which structures it is
building, that they are allocated and belong to nobody else, how far they are
set up, and that a thread or a process is freed only by its own exit. `Apart`
(no two flows build the same structure), `Reachable` (the thread of an
allocated process is scheduled or being built) and `OneActive` (one kernel
stack: at most one system call is intact) relate the flows. `MoveOn` and
`MoveOthers` say once what a step of the flow on the core must satisfy so that
the flows that wait keep theirs; a tick only moves flows. All of it is under
the condition that no block was allocated that the scheduler still used
(`fault # "dangling"`; the run `sched_exit` shows how such a block comes
about); `TypeOK`, the part of `LockHolders` about `sched_lock` and `heap_lock`,
and `InOnePlace` need no such condition.
For the three theorems about ids and the rest of `LockHolders`, `Ids` adds who holds `pid_lock` and `tid_lock`, which id a
flow holds between finding, loading, storing and writing it, and that the bit
of an id in use is set in the bitmap and in every byte read and not yet
stored. That exit removes no entry but its own is a lemma about its loop over
`process_list` (`EraseKeeps`). `Held` is the other half of `LockHolders`: the
flow that took `pid_lock` or `tid_lock` is still scheduled and inside, or was
overwritten.

**VMM.** None of the properties is inductive, because all of them speak of
what a walk from a PML4 finds, and a walk of one process could in principle
end in a frame of another. `VMMInv` therefore says that every frame has a
label: an owner, a level (1 for the PML4, 2 to 4 for the tables below it, 5
for the memory of an area, 6 for the PML4 of a process that is gone) and a
number that says which part of the address space a table is for. `Shape` says
that the tables of a process form one tree by these labels: an entry that is
not empty leads to the table of its owner with the number that the entry
stands for. `UsedAre` says that the frames with a label are those in use, and
`Account` that the labels agree with the vectors of the process. So a walk
that starts at a process's PML4 stays among its own labels. `Holds` says what
the process sees, for the pages of a program that is being or was loaded
(`Program`, `SeesProgram`) and for those of a copy (`Copy`, `SeesCopy`), and
`Forks` and `Copying` that between two steps of `duplicate` the child's areas
are the parent's ranges up to `i`.

A step of `map_page` either finds a table or takes a frame nobody has a label
for and labels it, which `Goes` and `Spares` state once: the walk only adds
labels of its own process, and what it writes is not in a frame of another
one (`WalkReaches`). The loops of `map_range_raw` and of `duplicate` follow by
induction on the pages (`MapRange`, `DupRange`). `destroy` needs that the
frames from the first of a range on are the range's own, which is why a
process that was loaded has its areas in runs of frames. Once `core` is
"lost" the kernel has written through frame 0 and nothing is said of the
tables any more, except what `TypeOK` and `ArgsOnOwnStack` say.

**Boot.** A machine that is `lost` takes no step, so the theorems say how it
was until then. `KeyInv` is `ShiftHeld` with types. `ScreenInv` says after which
accesses of `print_char` a coordinate is known to be good, and what the loops
of `rect` have painted while no key moved their cursor; the handler leaves a
cursor that is good after every access (`TypedGood`). `RouteInv` follows
`Apic::init` from one IO APIC to the next: those that are done are `Quiet`,
and the one being set up has the keyboard's vector in entry 1 from the first
loop on, which no later step of it takes away; `EntryIs` is the arithmetic of
the eight-bit registers.

**Files.** `FilesInv` has five parts. `NodesInv`: every node but the root is
listed once, by its parent, which was made before it (`Tree`), and a file has
whole pages, more than one exactly if it has grown, that hold what was written
to it except where `FileData` says otherwise (`Filled`). `TypeInv`: the types.
`SlotInv`: a description is in at most one slot of one process, a slot that is
not empty has one that is allocated, and one that a program could use is in a
slot. `LoadInv`: the descriptions the kernel itself leaves behind correspond
one to one to the files that loading the ramdisk made. `TakenInv`: the frames
taken are at least those of the files, and no more unless a file grew twice. What giving out,
deleting, moving and leaving a description keeps is said once (`Handed`,
`Released`, `Advanced`, `LeftBehind`) and used by every call; the number of
descriptions is compared through bijections (`SameSize`) and the frames by
what one changed term does to a sum (`SumDiffers`).

For `LookupExact` it is strengthened by `NamesInv`: the root has no parent and
is called "/", and if every node lies where the path it was created with
leads, then no two in a directory have the same name. That `path_to_node` is
right in such a tree follows without more of the history: after `k` names the
walk is at the only node they lead to, or has stopped where the next name
leads nowhere (`Arrived`), and how many names are left then decides between
the node, its parent, the parent's parent and nothing. That `NamesInv` is kept
needs two facts about the past. A node that lies where its path leads has done
so since it was created, because the tree only grows and a longer tree leads
to no fewer nodes (`ReachedInLarger`, `CreatedBefore`). And a new file does not
get a name that its directory has already, because the lookup that came before
it would have found that file (`NewName`), which is where the answers of
`path_to_node` are needed again.

**Induction.** The library's induction theorems have an operator as
parameter, which these provers cannot instantiate. `NatSets` proves induction
for sets of naturals instead, from the library's theorem that the strict
subsets of finite sets are well founded. With it, what the recursive functions
`power` and `EraseByPid` compute is proved for every argument, and so is what
the loops of `map_range_raw` and `DuplicatePages` map, where `Walk` arrives
and `Reached` leads, and what the proof for `Files` needs of the sum over the
nodes.

Only model-checked: all liveness (`LockReleased`, `EachGetsTheCore`,
`InitFinishes`, `ExitFrees`, `AllUp`), since the prover has no rule for
fairness.

## What is not modelled

Left out:

* operations nothing calls: `krealloc`, `dump_heap`, `unmap_page` and
  `unmap_range_raw`, `Vfs::mkdir`, `put_pixel`, `map.hpp`, `send_ipi`, PCI
  enumeration, `toggle_bit`; `syscall_execve` is not in `syscall_list`;
* the branches of exit for processes of several threads, which nothing
  creates;
* data: glyphs, key tables, formatting and logging, the layout of descriptors
  and headers, the words of the argument vector;
* devices: port I/O, the serial port, the HPET, the calibration of the timer,
  the search for ACPI tables and bootloader tags, each a fixed sequence of
  reads;
* the contents of kernel stacks, except that a second system call overwrites
  the first.
