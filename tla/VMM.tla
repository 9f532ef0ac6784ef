--------------------------------- MODULE VMM ---------------------------------
(***************************************************************************)
(* Address spaces: kernel/memory/vmm.cpp and its callers, from the moment  *)
(* a program is loaded (elf.cpp, create_program) through fork (duplicate)  *)
(* to exit (destroy).  Page tables live in frames, as in the machine:      *)
(* mem[f][e] is entry e of frame f read as a table.                        *)
(*                                                                         *)
(* Addresses are in units of which a page has PageSize; tables have Fan    *)
(* entries and there are four levels.  The upper half of the top level is  *)
(* the kernel's.  PMM::alloc and PMM::free are single steps, which is what *)
(* PMM_proofs shows of them; the loops of duplicate, destroy and the ELF   *)
(* loader over ranges and segments have one step per iteration, and those  *)
(* of different processes interleave.                                      *)
(***************************************************************************)
EXTENDS Vector, FiniteSets, FiniteSetsExt, SequencesExt

CONSTANTS Proc,       \* the processes, each used for one life
          NFrames,    \* frames are 0 .. NFrames-1
          Fan,        \* entries per table
          PageSize,   \* address units per page
          Programs,   \* the programs: sequences of segments (vaddr, memsz, write)
          UserStack,  \* USER_STACK
          StackPages, \* USER_STACK_SIZE / PAGE_SIZE
          MaxStarts   \* how many programs init_proc starts

ASSUME VMMAssumption ==
  /\ NFrames \in Nat \ {0, 1} /\ Fan \in Nat \ {0, 1} /\ PageSize \in Nat \ {0}
  /\ UserStack \in Nat /\ UserStack % PageSize = 0 /\ StackPages \in Nat \ {0}
  /\ MaxStarts \in Nat
  /\ "none" \notin Proc

VARIABLES mem,    \* mem[f][e]: entry e of frame f
          cont,   \* cont[f]: the page whose contents frame f has
          used,   \* the frames PMM has given out
          proc,   \* per process: its vmm object and where its call stands
          core    \* "ok", "halted" by a page fault, or "lost"

vars == <<mem, cont, used, proc, core>>

Frame == 0 .. NFrames - 1
Index == 0 .. Fan - 1
KernelEntry == Fan - 1
KernelTable == 1               \* the frame of the kernel's own second level
Span == <<Fan * Fan * Fan, Fan * Fan, Fan, 1>>  \* the pages of an entry, by level
UserPages == 0 .. (Fan - 1) * Span[1] - 1
DIV_CEIL(a, b) == (a + b - 1) \div b
PageOf(virt) == virt \div PageSize

(* How many pages a segment gets, from the start of its first page on.     *)
PageNumber(s) == DIV_CEIL(s.memsz + (s.vaddr % PageSize), PageSize)

(* What a linker makes: segments in ascending order, each with pages of    *)
(* its own, below the stack; the page after the stack is still the user's. *)
ASSUME ProgramsAssumption ==
  /\ Programs \in Seq(Seq([vaddr : Nat, memsz : Nat \ {0}, write : BOOLEAN]))
  /\ \A g \in DOMAIN Programs :
       /\ Programs[g] # <<>>
       /\ \A j, k \in DOMAIN Programs[g] : j < k =>
            PageOf(Programs[g][j].vaddr) + PageNumber(Programs[g][j]) <= PageOf(Programs[g][k].vaddr)
       /\ \A k \in DOMAIN Programs[g] :
            PageOf(Programs[g][k].vaddr) + PageNumber(Programs[g][k]) <= PageOf(UserStack)
  /\ PageOf(UserStack) + StackPages \in UserPages

(* An entry holds a frame and its flags; 0 is the entry of fresh memory.   *)
Entry(f, flags) == [at |-> f, flags |-> flags]
NoEntry == Entry(0, 0)
Blank == [e \in Index |-> NoEntry]

(* The world a walk changes: memory, the frames given out, and the list    *)
(* page_tables_addr of the pagemap it works on.                            *)
World(p) == [mem |-> mem, cont |-> cont, used |-> used,
             tables |-> proc[p].tables, data |-> {}, at |-> 0, core |-> core]

-----------------------------------------------------------------------------
(* PMM: the lowest free run, zeroed, or 0.                                 *)

Run(f, n) == f .. f + n - 1
Candidates(u, n) == {f \in 1 .. NFrames - n : Run(f, n) \cap u = {}}
alloc(u, n) == IF Candidates(u, n) = {} THEN 0 ELSE Min(Candidates(u, n))

Take(w, f, n) ==
  IF f = 0 THEN w
  ELSE [w EXCEPT !.used = @ \cup Run(f, n),
                 !.mem = [g \in Frame |-> IF g \in Run(f, n) THEN Blank ELSE @[g]],
                 !.cont = [g \in Frame |-> IF g \in Run(f, n) THEN "zero" ELSE @[g]]]

(* A caller that does not check the answer goes on with address 0: it      *)
(* writes to memory that is not its own and later frees frames of others.  *)
(* Nothing is known of what follows; the model stops.                      *)
TakeUnchecked(w, f, n) == IF f = 0 THEN [w EXCEPT !.core = "lost"] ELSE Take(w, f, n)

-----------------------------------------------------------------------------
(* The index of an address in the table of a level, 1 for the PML4.        *)
LevelEntry(virt, level) == (PageOf(virt) \div Span[level]) % Fan

(* Seeded change: a table entry that keeps user programs out.              *)
get_next_level_kernel(w, e) ==
  IF w.core = "lost" THEN w
  ELSE IF w.mem[w.at][e] # NoEntry THEN [w EXCEPT !.at = w.mem[w.at][e].at]
  ELSE LET f == alloc(w.used, 1)
           t == TakeUnchecked(w, f, 1)
       IN  [t EXCEPT !.mem[w.at][e] = Entry(f, 3),
                     !.tables = push_back(@, f), !.at = f]

(* `!x & 1` is (!x) & 1: a table is allocated only for an entry that is 0. *)
(* When there is no frame the entry gets frame 0 and the walk goes on      *)
(* there.                                                                  *)
get_next_level(w, e) ==
  IF w.core = "lost" THEN w
  ELSE IF w.mem[w.at][e] # NoEntry THEN [w EXCEPT !.at = w.mem[w.at][e].at]
  ELSE LET f == alloc(w.used, 1)
           t == TakeUnchecked(w, f, 1)
       IN  [t EXCEPT !.mem[w.at][e] = Entry(f, 7),
                     !.tables = push_back(@, f), !.at = f]

(* From the top table of a pagemap to the last-level table of an address.  *)
Walk(w, top, virt) ==
  LET pdp == get_next_level([w EXCEPT !.at = top], LevelEntry(virt, 1))
      pd == get_next_level(pdp, LevelEntry(virt, 2))
  IN  get_next_level(pd, LevelEntry(virt, 3))

map_page(w, top, virt, phys, flags) ==
  LET l == Walk(w, top, virt)
  IN  IF l.core = "lost" THEN l
      ELSE [l EXCEPT !.mem[l.at][LevelEntry(virt, 4)] = Entry(phys, flags)]

(* The answer is in the field at.                                          *)
virtual_to_physical(w, top, virt) ==
  LET l == Walk(w, top, virt)
  IN  IF l.core = "lost" THEN l ELSE [l EXCEPT !.at = l.mem[l.at][LevelEntry(virt, 4)].at]

(* Seeded change: the loop with `i < length`.                              *)
map_range_raw_exact(w, top, virt, phys, length, prot) ==
  LET n == length \div PageSize
      loop[i \in 0 .. n] ==
        IF i = 0 THEN w
        ELSE map_page(loop[i - 1], top, virt + (i - 1) * PageSize, phys + i - 1, prot)
  IN  loop[n]

(* `i <= length`, and every length is a multiple of the page size: the     *)
(* last page mapped is the one after the range, onto the frame after it.   *)
map_range_raw(w, top, virt, phys, length, prot) ==
  LET n == length \div PageSize + 1
      loop[i \in 0 .. n] ==
        IF i = 0 THEN w
        ELSE map_page(loop[i - 1], top, virt + (i - 1) * PageSize, phys + i - 1, prot)
  IN  loop[n]

MemArea(base, limit, prot) == [base |-> base, limit |-> limit, prot |-> prot]

-----------------------------------------------------------------------------
(* What the hardware finds, without allocating.                            *)
Below(m, f, e) == IF f = -1 \/ m[f][e] = NoEntry THEN -1 ELSE m[f][e].at

LeafIn(m, top, page) ==
  LET pdp == Below(m, top, LevelEntry(page * PageSize, 1))
      pd == Below(m, pdp, LevelEntry(page * PageSize, 2))
      pt == Below(m, pd, LevelEntry(page * PageSize, 3))
  IN  IF pt = -1 THEN NoEntry ELSE m[pt][LevelEntry(page * PageSize, 4)]

Leaf(p, page) == LeafIn(mem, proc[p].pml4, page)

Mapped(p, page) == Leaf(p, page) # NoEntry

AreaPages(a) == Run(PageOf(a.base), DIV_CEIL(a.limit, PageSize))

NoProc ==
  [st |-> "none", prog |-> 0, pml4 |-> 0, ranges |-> Empty, tables |-> Empty,
   i |-> 0, child |-> "none", rip |-> -1, args |-> 0,
   \* kept for the properties: the areas the process was given, the frames
   \* allocated for them, how many forks it is away from its program
   area |-> Empty, data |-> Empty, forks |-> 0]

Init ==
  /\ mem = [f \in Frame |-> Blank]
  /\ cont = [f \in Frame |-> "zero"]
  /\ used = {0, KernelTable}
  /\ proc = [p \in Proc |-> NoProc]
  /\ core = "ok"

(* Store a world and process p's record; a lost walk stops the model.      *)
Commit(w, procs) ==
  /\ mem' = w.mem /\ cont' = w.cont /\ used' = w.used
  /\ proc' = procs
  /\ core' = w.core

(* A step of process p, whose call is at st, on a core that still runs.    *)
In(p, st) == core = "ok" /\ proc[p].st = st

With(p, r) == [proc EXCEPT ![p] = r]
Set(p, st) == With(p, [proc[p] EXCEPT !.st = st])

(* new vmm(true): a frame for the PML4, with the kernel's entries.         *)
NewPagemap(f) ==
  LET w == TakeUnchecked([mem |-> mem, cont |-> cont, used |-> used, core |-> core], f, 1)
  IN  [w EXCEPT !.mem[f][KernelEntry] = Entry(KernelTable, 7)]

-----------------------------------------------------------------------------
(* create_program and Elf::load                                            *)

Creating == {"load", "stack", "args"}
Starts == Cardinality({p \in Proc : proc[p].st # "none" /\ proc[p].forks = 0})

(* init_proc starts its programs one after the other.                      *)
StartProgram(p, g) ==
  /\ In(p, "none") /\ Starts < MaxStarts
  /\ \A q \in Proc : proc[q].st \notin Creating
  /\ LET f == alloc(used, 1)
     IN  Commit(NewPagemap(f),
                With(p, [NoProc EXCEPT !.st = "load", !.prog = g, !.pml4 = f, !.i = 1]))

Segment(p) == Programs[proc[p].prog][proc[p].i]

(* Loading fails, when the file cannot be read or is not of the right      *)
(* kind: load returns -1, which create_program takes for an entry point.   *)
LoadFails(p) ==
  /\ In(p, "load")
  /\ proc' = Set(p, "stack")
  /\ UNCHANGED <<mem, cont, used, core>>

(* The frames of a segment, read from the file, then mapped.               *)
LoadSegment(p) ==
  /\ In(p, "load") /\ proc[p].i <= Len(Programs[proc[p].prog])
  /\ LET s == Segment(p)
         page_number == PageNumber(s)
         f == alloc(used, page_number)
         prot == IF s.write THEN 7 ELSE 5
         w == Take(World(p), f, page_number)
         filled == [w EXCEPT !.cont = [g \in Frame |->
                      IF g \in Run(f, page_number)
                      THEN <<proc[p].prog, PageOf(s.vaddr) + g - f>> ELSE @[g]]]
         m == map_range_raw(filled, proc[p].pml4, s.vaddr, f, page_number * PageSize, prot)
         range == MemArea(s.vaddr, page_number * PageSize, prot)
     IN  /\ f # 0
         /\ Commit(m, With(p, [proc[p] EXCEPT !.ranges = push_back(@, range),
                                              !.area = push_back(@, range),
                                              !.data = push_back(@, Run(f, page_number)),
                                              !.tables = m.tables, !.i = @ + 1]))

LoadDone(p) ==
  /\ In(p, "load") /\ proc[p].i > Len(Programs[proc[p].prog])
  /\ proc' = With(p, [proc[p] EXCEPT !.st = "stack",
                                     !.rip = Programs[proc[p].prog][1].vaddr])
  /\ UNCHANGED <<mem, cont, used, core>>

(* create_process: the stack's frames; nobody checks the answer.           *)
MapStack(p) ==
  /\ In(p, "stack")
  /\ LET f == alloc(used, StackPages)
         w == TakeUnchecked(World(p), f, StackPages)
         filled == [w EXCEPT !.cont = [g \in Frame |->
                      IF g \in Run(f, StackPages)
                      THEN <<proc[p].prog, PageOf(UserStack) + g - f>> ELSE @[g]]]
         m == map_range_raw(filled, proc[p].pml4, UserStack, f, StackPages * PageSize, 7)
         range == MemArea(UserStack, StackPages * PageSize, 7)
     IN  Commit(m, With(p, [proc[p] EXCEPT !.st = "args",
                                           !.ranges = push_back(@, range),
                                           !.area = push_back(@, range),
                                           !.data = push_back(@, Run(f, StackPages)),
                                           !.tables = m.tables]))

(* The arguments are written through the kernel's view of memory, below    *)
(* the frame that virtual_to_physical finds for the first stack pointer.   *)
PushArgs(p) ==
  /\ In(p, "args")
  /\ LET w == virtual_to_physical(World(p), proc[p].pml4, UserStack + StackPages * PageSize)
     IN  Commit(w, With(p, [proc[p] EXCEPT !.st = "run", !.args = w.at,
                                           !.tables = w.tables]))

-----------------------------------------------------------------------------
(* A process runs as long as the page of its instructions is there;        *)
(* isr_page_fault prints and halts the core for good.                      *)
Executable(p) == proc[p].rip # -1 /\ Mapped(p, PageOf(proc[p].rip))

PageFault(p) ==
  /\ In(p, "run") /\ ~Executable(p)
  /\ core' = "halted"
  /\ UNCHANGED <<mem, cont, used, proc>>

(* fork: duplicate begins with a new pagemap for the child.                *)
Fork(p, c) ==
  /\ In(p, "run") /\ Executable(p)
  /\ proc[c].st = "none"
  /\ LET f == alloc(used, 1)
         child == [NoProc EXCEPT !.st = "copied", !.prog = proc[p].prog, !.pml4 = f,
                                 !.rip = proc[p].rip, !.forks = proc[p].forks + 1]
     IN  Commit(NewPagemap(f),
                [proc EXCEPT ![p] = [@ EXCEPT !.st = "fork", !.child = c, !.i = 0],
                             ![c] = child])

(* Seeded change: the child shares the parent's frames.                    *)
DuplicatePageShared(w, p, page, prot) ==
  map_page(w, proc[proc[p].child].pml4, page * PageSize, Leaf(p, page).at, prot)

(* One page of the child: memcpy8 reads it through the parent's pagemap,   *)
(* which is the active one, into a frame that is used unchecked.  The      *)
(* field data collects the frames.                                         *)
DuplicatePage(w, p, page, prot) ==
  LET f == alloc(w.used, 1)
      t == TakeUnchecked(w, f, 1)
      copied == [t EXCEPT !.cont[f] = cont[Leaf(p, page).at]]
      m == map_page(copied, proc[proc[p].child].pml4, page * PageSize, f, prot)
  IN  IF w.core = "lost" THEN w ELSE [m EXCEPT !.data = @ \cup {f}]

DuplicatePages(w, p, page, n, prot) ==
  LET loop[t \in 0 .. n] ==
        IF t = 0 THEN w ELSE DuplicatePage(loop[t - 1], p, page + t - 1, prot)
  IN  loop[n]

(* Seeded change: the page after the range is copied too.                  *)
DuplicateRangeTooFar(p) ==
  /\ In(p, "fork") /\ InBounds(proc[p].ranges, proc[p].i)
  /\ LET range == At(proc[p].ranges, proc[p].i)
         c == proc[p].child
         w == DuplicatePages(World(c), p, PageOf(range.base), range.limit \div PageSize + 1,
                             range.prot)
     IN  Commit(w, [proc EXCEPT
           ![p].i = @ + 1,
           ![c] = [proc[c] EXCEPT !.tables = w.tables, !.data = push_back(@, w.data),
                                  !.area = push_back(@, range)]])

(* One range.  Its copy goes into what get_ranges returned, a vector of    *)
(* its own: the child's m_ranges stays empty.                              *)
DuplicateRange(p) ==
  /\ In(p, "fork") /\ InBounds(proc[p].ranges, proc[p].i)
  /\ LET range == At(proc[p].ranges, proc[p].i)
         page_amount == DIV_CEIL(range.limit, PageSize)
         c == proc[p].child
         w == DuplicatePages(World(c), p, PageOf(range.base), page_amount, range.prot)
     IN  Commit(w, [proc EXCEPT
           ![p].i = @ + 1,
           ![c] = [proc[c] EXCEPT !.tables = w.tables, !.data = push_back(@, w.data),
                                  !.area = push_back(@, range)]])

DuplicateDone(p) ==
  /\ In(p, "fork") /\ ~InBounds(proc[p].ranges, proc[p].i)
  /\ proc' = [proc EXCEPT ![p].st = "run", ![p].child = "none",
                          ![proc[p].child].st = "run"]
  /\ UNCHANGED <<mem, cont, used, core>>

-----------------------------------------------------------------------------
(* exit_process, after it switched to the kernel's pagemap: destroy        *)

Exit(p) ==
  /\ In(p, "run") /\ Executable(p)
  /\ proc' = With(p, [proc[p] EXCEPT !.st = "destroy", !.i = 0])
  /\ UNCHANGED <<mem, cont, used, core>>

(* Seeded change: destroy that frees one frame per range.                  *)
DestroyRangeFirstFrame(p) ==
  /\ In(p, "destroy") /\ InBounds(proc[p].ranges, proc[p].i)
  /\ LET w == virtual_to_physical(World(p), proc[p].pml4, At(proc[p].ranges, proc[p].i).base)
     IN  Commit([w EXCEPT !.used = @ \ {w.at}],
                With(p, [proc[p] EXCEPT !.i = @ + 1, !.tables = w.tables]))

DestroyRange(p) ==
  /\ In(p, "destroy") /\ InBounds(proc[p].ranges, proc[p].i)
  /\ LET range == At(proc[p].ranges, proc[p].i)
         w == virtual_to_physical(World(p), proc[p].pml4, range.base)
     IN  Commit([w EXCEPT !.used = @ \ Run(w.at, DIV_CEIL(range.limit, PageSize))],
                With(p, [proc[p] EXCEPT !.i = @ + 1, !.tables = w.tables]))

(* The tables, once no range is left.  ~vmm then deletes m_pml4, which is  *)
(* not an address of the heap: kfree returns without doing anything, and   *)
(* the frame stays taken.                                                  *)
DestroyTables(p) ==
  /\ In(p, "destroy") /\ ~InBounds(proc[p].ranges, proc[p].i)
  /\ used' = used \ Range(proc[p].tables)
  /\ proc' = Set(p, "gone")
  /\ UNCHANGED <<mem, cont, core>>

Next ==
  \E p \in Proc :
       \/ \E g \in DOMAIN Programs : StartProgram(p, g)
       \/ LoadFails(p) \/ LoadSegment(p) \/ LoadDone(p)
       \/ MapStack(p) \/ PushArgs(p)
       \/ PageFault(p)
       \/ \E c \in Proc : Fork(p, c)
       \/ DuplicateRange(p) \/ DuplicateDone(p)
       \/ Exit(p)
       \/ DestroyRange(p) \/ DestroyTables(p)

Spec == Init /\ [][Next]_vars

-----------------------------------------------------------------------------
(* Every structure has its type: entries name frames (the one after the    *)
(* last frame too, which map_range_raw can reach), vectors have no element *)
(* that was never stored.                                                  *)
TypeOK ==
  /\ mem \in [Frame -> [Index -> [at : 0 .. NFrames, flags : {0, 5, 7}]]]
  /\ used \subseteq Frame
  /\ core \in {"ok", "halted", "lost"}
  /\ \A p \in Proc :
       /\ proc[p].pml4 \in Frame
       /\ \A k \in 1 .. Size(proc[p].tables) : proc[p].tables[k] \in Frame
       /\ \A k \in 1 .. Size(proc[p].ranges) :
            proc[p].ranges[k] \in [base : Nat, limit : Nat, prot : {5, 7}]

Alive == {p \in Proc : proc[p].st \in Creating \cup {"run", "fork"}}

AllPages(p) == UNION {AreaPages(proc[p].area[k]) : k \in DOMAIN proc[p].area}

(* A process sees its own memory: each page of its areas leads, with the   *)
(* area's protection, to a frame that has this page's contents and that no *)
(* other process' areas lead to, whatever the others load, copy and free   *)
(* meanwhile; the kernel's half is the same in all pagemaps.  And a        *)
(* process can run exactly when its program was loaded and it is at most   *)
(* one fork away from it: duplicate leaves the child's list of ranges      *)
(* empty, so a child's child gets no memory.                               *)
OwnMemory ==
  core # "lost" =>
    \A p \in Alive :
      /\ mem[proc[p].pml4][KernelEntry] = Entry(KernelTable, 7)
      /\ \A k \in DOMAIN proc[p].area : \A page \in AreaPages(proc[p].area[k]) :
           /\ Leaf(p, page).flags = proc[p].area[k].prot
           /\ cont[Leaf(p, page).at] = <<proc[p].prog, page>>
           /\ \A q \in Alive \ {p} :
                \A other \in AllPages(q) : Leaf(q, other).at # Leaf(p, page).at
      /\ proc[p].st = "run" =>
           (Executable(p) <=> proc[p].rip # -1 /\ proc[p].forks <= 1)

Beyond(p) == {page \in UserPages : Mapped(p, page)} \ AllPages(p)
After(a) == Max(AreaPages(a)) + 1

(* What a pagemap maps beyond its areas: in a program that was loaded, the *)
(* page after each area, onto the frame after the area's frames; in a      *)
(* forked one, nothing.                                                    *)
StrayPages ==
  core # "lost" =>
    \A p \in Alive :
      IF proc[p].forks > 0 THEN Beyond(p) = {}
      ELSE /\ Beyond(p) = {After(proc[p].area[k]) : k \in DOMAIN proc[p].area} \ AllPages(p)
           /\ \A k \in DOMAIN proc[p].area :
                After(proc[p].area[k]) \in Beyond(p) =>
                  Leaf(p, After(proc[p].area[k])).at = Leaf(p, After(proc[p].area[k]) - 1).at + 1

(* The frames a process has: its PML4, the tables in page_tables_addr and  *)
(* those of its areas; destroy gives them back one by one, but never the   *)
(* PML4, and of a forked process none of the areas.                        *)
Held(p) ==
  LET freed == CASE proc[p].st = "gone" -> Size(proc[p].ranges)
                 [] proc[p].st = "destroy" -> proc[p].i
                 [] OTHER -> 0
      top == IF proc[p].st = "none" THEN {} ELSE {proc[p].pml4}
      tables == IF proc[p].st = "gone" THEN {} ELSE Range(proc[p].tables)
      areas == {k \in DOMAIN proc[p].data : proc[p].forks > 0 \/ k > freed}
  IN  top \cup tables \cup UNION {proc[p].data[k] : k \in areas}

(* A frame is taken exactly as long as a process has it, in the middle of  *)
(* a fork or of a destroy too, and no two processes have the same frame:   *)
(* destroy frees nothing twice and nothing of others, and what is leaked   *)
(* is the PML4 of every process and the memory of forked ones.             *)
FramesAccounted ==
  core # "lost" =>
    /\ used = {0, KernelTable} \cup UNION {Held(p) : p \in Proc}
    /\ \A p, q \in Proc : p # q => Held(p) \cap Held(q) = {}

(* create_program writes the arguments below the frame it finds for the    *)
(* address after the stack.  This is the end of the process' own stack     *)
(* only because the loop in map_range_raw maps one page too many.          *)
ArgsOnOwnStack ==
  \A p \in Alive :
    proc[p].st = "run" /\ proc[p].forks = 0 =>
      /\ proc[p].args = Leaf(p, PageOf(UserStack)).at + StackPages
      /\ \A k \in 0 .. StackPages - 1 :
           Leaf(p, PageOf(UserStack) + k).at = proc[p].args - StackPages + k
=============================================================================
