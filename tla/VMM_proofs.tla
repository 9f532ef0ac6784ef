----------------------------- MODULE VMM_proofs -----------------------------
(***************************************************************************)
(* Proofs about VMM, for every set of processes, all programs a linker     *)
(* makes, and tables and memory of any size.                               *)
(***************************************************************************)
EXTENDS VMM, NatSets, SequenceTheorems

(* What a frame is used for: the table of level lev, 1 to 4, and number    *)
(* num of process who (the tables of a level are numbered from the lowest  *)
(* address on); 5: a frame of the area num; 6: the PML4 that is left of a  *)
(* process that is gone; 0: nothing.                                       *)
T(p, l, x) == [who |-> p, lev |-> l, num |-> x]
Labels == [Frame -> [who : Proc \cup {"none"}, lev : 0 .. 6, num : Nat]]

Tabs(lab, p) == {f \in Frame : lab[f].who = p /\ lab[f].lev \in 2 .. 4}

(* An entry of a table that leads to another one: not the kernel's.        *)
Leads(lab, m, f, e) ==
  lab[f].lev \in 1 .. 3 /\ ~(lab[f].lev = 1 /\ e = KernelEntry) /\ m[f][e] # NoEntry

(* The tables form one tree per process, with the kernel's entry at the    *)
(* top: there is one table of each number at most, an entry leads to the   *)
(* table of its number, and each table has an entry that leads to it.      *)
Shape(lab, m) ==
  /\ \A f \in Frame : lab[f].lev # 0 => lab[f].who \in Proc
  /\ \A f, g \in Frame : lab[f].lev \in 1 .. 4 /\ lab[f] = lab[g] => f = g
  /\ \A f \in Frame : lab[f].lev = 1 =>
       lab[f].num = 0 /\ m[f][KernelEntry] = Entry(KernelTable, 7)
  /\ \A f \in Frame : \A e \in Index : Leads(lab, m, f, e) =>
       /\ m[f][e].at \in Frame
       /\ lab[m[f][e].at] = T(lab[f].who, lab[f].lev + 1, lab[f].num * Fan + e)
  /\ \A f \in Frame : lab[f].lev \in 2 .. 4 =>
       \E g \in Frame, e \in Index :
         /\ Leads(lab, m, g, e) /\ m[g][e].at = f
         /\ lab[g].who = lab[f].who /\ lab[g].lev = lab[f].lev - 1
         /\ lab[f].num = lab[g].num * Fan + e

(* The frames given out are the two of the kernel and the labelled ones.   *)
UsedAre(lab, u) ==
  /\ u = {0, KernelTable} \cup {f \in Frame : lab[f].lev # 0}
  /\ lab[0].lev = 0 /\ lab[KernelTable].lev = 0

-----------------------------------------------------------------------------
(* The state                                                               *)

First(a) == PageOf(a.base)
Count(a) == DIV_CEIL(a.limit, PageSize)
AreaType == [base : Nat, limit : Nat, prot : {5, 7}]
AreaOK(a) == a \in AreaType /\ First(a) \in Nat /\ Count(a) \in Nat \ {0} /\ First(a) + Count(a) \in UserPages

States == {"none", "load", "stack", "args", "run", "copied", "fork", "destroy", "gone"}
ProcType ==
  [st : States, prog : Nat, pml4 : Frame, ranges : Seq(AreaType), tables : Seq(Frame),
   i : Nat, child : Proc \cup {"none"}, rip : Int, args : 0 .. NFrames,
   area : Seq(AreaType), data : Seq(SUBSET Nat), forks : Nat]
Content == (Nat \X Nat) \cup {"zero"}
MemType == [Frame -> [Index -> [at : 0 .. NFrames, flags : {0, 5, 7}]]]

(* How many of its areas destroy has freed; of a forked process, none.     *)
Freed(r) ==
  IF r.forks > 0 THEN 0
  ELSE IF r.st = "gone" THEN Len(r.ranges) ELSE IF r.st = "destroy" THEN r.i ELSE 0

(* The labels of the frames of process p.                                  *)
Account(lab, p, r) ==
  /\ \A f \in Frame : lab[f] = T(p, 1, 0) <=> f = r.pml4 /\ r.st \notin {"none", "gone"}
  /\ \A f \in Frame : (lab[f].who = p /\ lab[f].lev = 6) <=> f = r.pml4 /\ r.st = "gone"
  /\ \A f \in Frame : f \in Tabs(lab, p) <=> f \in Range(r.tables) /\ r.st # "gone"
  /\ \A f \in Frame, k \in Nat :
       lab[f] = T(p, 5, k) <=> k \in 1 .. Len(r.data) /\ f \in r.data[k] /\ k > Freed(r)

Pages(r) == UNION {AreaPages(r.area[k]) : k \in 1 .. Len(r.area)}

(* The areas of a process are apart from each other.                       *)
AreasOK(r) ==
  /\ Len(r.data) = Len(r.area)
  /\ \A k \in 1 .. Len(r.area) : AreaOK(r.area[k]) /\ r.data[k] \subseteq Frame
  /\ \A j, k \in 1 .. Len(r.area) : j < k => First(r.area[j]) + Count(r.area[j]) <= First(r.area[k])

(* The areas of a program are its segments, as far as they are loaded,     *)
(* and the stack.                                                          *)
SegArea(s) == MemArea(s.vaddr, PageNumber(s) * PageSize, IF s.write THEN 7 ELSE 5)
StackArea == MemArea(UserStack, StackPages * PageSize, 7)

Program(r) ==
  LET segs == Programs[r.prog]
      n == Len(r.area)
  IN  /\ r.prog \in DOMAIN Programs /\ r.ranges = r.area
      /\ r.st = "load" => r.i = n + 1
      /\ r.st \in {"load", "stack"} => n <= Len(segs) /\ \A k \in 1 .. n : r.area[k] = SegArea(segs[k])
      /\ r.st \notin {"load", "stack"} =>
           /\ n \in 1 .. Len(segs) + 1 /\ r.area[n] = StackArea
           /\ \A k \in 1 .. n - 1 : r.area[k] = SegArea(segs[k])
      /\ r.rip # -1 => r.st # "load" /\ r.rip = segs[1].vaddr /\ n >= 1 /\ r.area[1] = SegArea(segs[1])
      /\ r.st = "destroy" => r.i <= n

(* What a program that was loaded finds: in an area its frames, one after  *)
(* the other; in the page after it, the frame after them.                  *)
SeesRun(m, r, k, f) ==
  /\ f \in Frame /\ r.data[k] = Run(f, Count(r.area[k])) /\ Run(f, Count(r.area[k])) \subseteq Frame
  /\ \A j \in 0 .. Count(r.area[k]) - 1 :
       LeafIn(m, r.pml4, First(r.area[k]) + j) = Entry(f + j, r.area[k].prot)
  /\ First(r.area[k]) + Count(r.area[k]) \notin Pages(r) =>
       LeafIn(m, r.pml4, First(r.area[k]) + Count(r.area[k]))
         = Entry(f + Count(r.area[k]), r.area[k].prot)

SeesProgram(m, r) ==
  /\ \A k \in 1 .. Len(r.area) : \E f \in Frame : SeesRun(m, r, k, f)
  /\ \A page \in UserPages : LeafIn(m, r.pml4, page) # NoEntry =>
       page \in Pages(r) \/ \E k \in 1 .. Len(r.area) : page = First(r.area[k]) + Count(r.area[k])
  /\ r.st \in {"run", "fork", "destroy"} =>
       r.args = LeafIn(m, r.pml4, PageOf(UserStack)).at + StackPages

(* A forked process finds its areas and nothing else.                      *)
SeesCopy(m, r) ==
  /\ \A k \in 1 .. Len(r.area) : \A page \in AreaPages(r.area[k]) :
       /\ LeafIn(m, r.pml4, page) # NoEntry /\ LeafIn(m, r.pml4, page).at \in r.data[k]
       /\ LeafIn(m, r.pml4, page).flags = r.area[k].prot
  /\ \A page \in UserPages : LeafIn(m, r.pml4, page) # NoEntry => page \in Pages(r)

Copy(r) ==
  /\ r.ranges = <<>> /\ r.st \in {"copied", "run", "fork", "destroy", "gone"}
  /\ r.forks > 1 => r.area = <<>>
  /\ r.forks = 1 /\ r.st # "copied" /\ r.rip # -1 => PageOf(r.rip) \in Pages(r)
  /\ r.rip # -1 => PageOf(r.rip) \in UserPages

(* The frames of an area have the contents of its pages.                   *)
Contents(m, c, r) ==
  \A k \in 1 .. Len(r.area) : \A page \in AreaPages(r.area[k]) :
    c[LeafIn(m, r.pml4, page).at] = <<r.prog, page>>

Holds(m, c, r) ==
  /\ r.st = "none" => r = NoProc
  /\ AreasOK(r)
  /\ r.st # "none" /\ r.forks = 0 => r.st # "copied" /\ Program(r) /\ (r.st # "gone" => SeesProgram(m, r))
  /\ r.st # "none" /\ r.forks > 0 => Copy(r) /\ (r.st # "gone" => SeesCopy(m, r))
  /\ r.st \notin {"none", "destroy", "gone"} => Contents(m, c, r)

(* A fork copies the ranges of the parent, in order.                       *)
Copying(r, s) ==
  /\ s.st = "copied" /\ s.prog = r.prog /\ s.rip = r.rip /\ s.forks = r.forks + 1
  /\ r.i <= Len(r.ranges) /\ Len(s.area) = r.i
  /\ \A k \in 1 .. r.i : s.area[k] = r.ranges[k]

Forks(ps) ==
  /\ \A p \in Proc : ps[p].st = "fork" => ps[p].child \in Proc /\ Copying(ps[p], ps[ps[p].child])
  /\ \A p, q \in Proc :
       ps[p].st = "fork" /\ ps[q].st = "fork" /\ ps[p].child = ps[q].child => p = q

Good(lab, m, c, u, ps) ==
  /\ lab \in Labels /\ Shape(lab, m) /\ UsedAre(lab, u)
  /\ \A p \in Proc : Account(lab, p, ps[p])
  /\ \A p \in Proc : Holds(m, c, ps[p])

(* What PushArgs wrote stays at the end of the process' own stack.         *)
ArgsOK(m, r) ==
  r.st = "run" /\ r.forks = 0 =>
    /\ r.args = LeafIn(m, r.pml4, PageOf(UserStack)).at + StackPages
    /\ \A k \in 0 .. StackPages - 1 :
         LeafIn(m, r.pml4, PageOf(UserStack) + k).at = r.args - StackPages + k

Sound(m, c, u, ps, k) ==
  /\ m \in MemType /\ u \subseteq Frame /\ k \in {"ok", "halted", "lost"}
  /\ c \in [Frame -> Content] /\ ps \in [Proc -> ProcType]
  /\ k # "lost" => Forks(ps) /\ \E lab : Good(lab, m, c, u, ps)
  /\ \A p \in Proc : ArgsOK(m, ps[p])

VMMInv == Sound(mem, cont, used, proc, core)

-----------------------------------------------------------------------------
(* Page numbers                                                            *)

LEMMA DivIs ==
  ASSUME NEW d \in Nat \ {0}, NEW q \in Nat, NEW r \in Nat, r < d
  PROVE  (q * d + r) \div d = q /\ (q * d + r) % d = r
<1> DEFINE n == q * d + r
           a == n \div d
           b == n % d
<1>1. n \in Nat
  OBVIOUS
<1>2. a \in Nat /\ b \in Nat /\ b < d /\ n = a * d + b
  <2> HIDE DEF n
  <2> QED  BY <1>1
<1> HIDE DEF a, b
<1>3. ~(q < a)
  <2> SUFFICES ASSUME q + 1 <= a PROVE FALSE
    BY <1>2
  <2>1. (q + 1) * d <= a * d
    BY <1>2
  <2>2. (q + 1) * d = q * d + d
    OBVIOUS
  <2> QED  BY <1>2, <2>1, <2>2
<1>4. ~(a < q)
  <2> SUFFICES ASSUME a + 1 <= q PROVE FALSE
    BY <1>2
  <2>1. (a + 1) * d <= q * d
    BY <1>2
  <2>2. (a + 1) * d = a * d + d
    BY <1>2
  <2> QED  BY <1>2, <2>1, <2>2
<1>5. a = q
  BY <1>2, <1>3, <1>4
<1> QED  BY <1>2, <1>5 DEF a, b

LEMMA DivFacts ==
  ASSUME NEW n \in Nat, NEW d \in Nat \ {0}
  PROVE  n \div d \in Nat /\ n % d \in Nat /\ n % d < d /\ n = (n \div d) * d + (n % d)
OBVIOUS

(* Dividing twice is dividing by the product.                              *)
LEMMA DivDiv ==
  ASSUME NEW n \in Nat, NEW c \in Nat \ {0}, NEW d \in Nat \ {0}
  PROVE  n \div (c * d) = (n \div d) \div c
<1> DEFINE q == n \div d
           r == n % d
           a == q \div c
           b == q % c
<1>1. q \in Nat /\ r \in Nat /\ r < d /\ n = q * d + r
  BY DivFacts
<1>2. a \in Nat /\ b \in Nat /\ b < c /\ q = a * c + b
  <2> HIDE DEF q
  <2> QED  BY <1>1, DivFacts
<1> HIDE DEF q, r
<1>3. c * d \in Nat \ {0}
  OBVIOUS
<1>4. b * d + r \in Nat /\ b * d + r < c * d
  <2>1. b * d <= (c - 1) * d /\ b * d \in Nat
    BY <1>2
  <2>2. (c - 1) * d = c * d - d
    OBVIOUS
  <2> QED  BY <1>1, <2>1, <2>2, <1>3
<1>5. n = a * (c * d) + (b * d + r)
  <2>1. (a * c + b) * d = a * (c * d) + b * d
    BY <1>2
  <2>2. n = (a * c + b) * d + r
    BY <1>1, <1>2
  <2>3. a * (c * d) \in Nat /\ b * d \in Nat
    BY <1>2, <1>3
  <2> DEFINE X == (a * c + b) * d
             Y == a * (c * d)
             Z == b * d
  <2>4. X = Y + Z /\ n = X + r /\ Y \in Nat /\ Z \in Nat /\ r \in Nat
    BY <1>1, <2>1, <2>2, <2>3
  <2>5. n = Y + (Z + r)
    <3> HIDE DEF X, Y, Z
    <3> QED  BY <2>4
  <2> QED  BY <2>5
<1>6. (a * (c * d) + (b * d + r)) \div (c * d) = a
  <2> HIDE DEF a, b
  <2>1. \A x \in Nat \ {0}, y \in Nat : y < x => (a * x + y) \div x = a
    BY <1>2, DivIs
  <2> QED  BY <1>3, <1>4, <2>1
<1> QED  BY <1>5, <1>6 DEF q

(* The number of the table of level l that page lies in, and its entry.    *)
N2(page) == page \div Span[1]
N3(page) == page \div Span[2]
N4(page) == page \div Span[3]
E(page, l) == LevelEntry(page * PageSize, l)

LEMMA PageFacts ==
  /\ \A virt \in Nat : PageOf(virt) \in Nat
  /\ \A page \in Nat : PageOf(page * PageSize) = page
  /\ \A virt \in Nat, n \in Nat : PageOf(virt + n * PageSize) = PageOf(virt) + n
<1>1. ASSUME NEW virt \in Nat PROVE PageOf(virt) \in Nat
  BY VMMAssumption, DivFacts DEF PageOf
<1>2. ASSUME NEW page \in Nat PROVE PageOf(page * PageSize) = page
  <2>1. (page * PageSize + 0) \div PageSize = page
    BY VMMAssumption, DivIs
  <2>2. page * PageSize + 0 = page * PageSize
    BY VMMAssumption
  <2> QED  BY <2>1, <2>2 DEF PageOf
<1>3. ASSUME NEW virt \in Nat, NEW n \in Nat PROVE PageOf(virt + n * PageSize) = PageOf(virt) + n
  <2> DEFINE q == virt \div PageSize
             r == virt % PageSize
  <2>1. q \in Nat /\ r \in Nat /\ r < PageSize /\ virt = q * PageSize + r
    BY VMMAssumption, DivFacts
  <2> HIDE DEF q, r
  <2>2. virt + n * PageSize = (q + n) * PageSize + r
    BY VMMAssumption, <2>1
  <2>3. ((q + n) * PageSize + r) \div PageSize = q + n
    BY VMMAssumption, <2>1, DivIs
  <2> QED  BY <2>2, <2>3 DEF PageOf, q
<1> QED  BY <1>1, <1>2, <1>3

LEMMA EntryOfPage ==
  ASSUME NEW virt \in Nat, NEW l
  PROVE  LevelEntry(virt, l) = E(PageOf(virt), l)
BY PageFacts DEF LevelEntry, E

LEMMA SpanFacts ==
  /\ Span[1] = Fan * Fan * Fan /\ Span[2] = Fan * Fan /\ Span[3] = Fan /\ Span[4] = 1
  /\ Span[1] \in Nat \ {0} /\ Span[2] \in Nat \ {0}
BY VMMAssumption DEF Span

LEMMA Digits ==
  ASSUME NEW page \in UserPages
  PROVE  /\ page \in Nat /\ N2(page) \in Nat /\ N3(page) \in Nat /\ N4(page) \in Nat
         /\ E(page, 1) \in Index /\ E(page, 2) \in Index /\ E(page, 3) \in Index /\ E(page, 4) \in Index
         /\ E(page, 1) # KernelEntry /\ N2(page) = 0 * Fan + E(page, 1)
         /\ N3(page) = N2(page) * Fan + E(page, 2)
         /\ N4(page) = N3(page) * Fan + E(page, 3)
         /\ page = N4(page) * Fan + E(page, 4)
<1>1. Fan \in Nat /\ Fan > 1
  BY VMMAssumption
<1>2. page \in Nat /\ page < (Fan - 1) * (Fan * Fan * Fan)
  BY <1>1, SpanFacts DEF UserPages
<1>0. \A c, d \in Nat \ {0} : page \div (c * d) = (page \div d) \div c
  BY <1>2, DivDiv
<1>3. \A l : E(page, l) = (page \div Span[l]) % Fan
  BY <1>2, PageFacts DEF E, LevelEntry
<1>4. N4(page) = page \div Fan /\ N4(page) \in Nat
  BY <1>1, <1>2, SpanFacts, DivFacts DEF N4
<1>5. N3(page) = N4(page) \div Fan
  <2>1. page \div (Fan * Fan) = (page \div Fan) \div Fan
    BY <1>1, <1>0
  <2> QED  BY <1>4, <2>1, SpanFacts DEF N3
<1>6. N3(page) \in Nat
  BY <1>1, <1>4, <1>5, DivFacts
<1>7. N2(page) = N3(page) \div Fan
  <2>1. page \div (Fan * (Fan * Fan)) = (page \div (Fan * Fan)) \div Fan
    <3>1. Fan * Fan \in Nat \ {0}
      BY <1>1
    <3> QED  BY <1>1, <1>0, <3>1
  <2>2. Fan * (Fan * Fan) = Fan * Fan * Fan
    BY <1>1
  <2> QED  BY <2>1, <2>2, SpanFacts DEF N2, N3
<1>8. N2(page) \in Nat
  BY <1>1, <1>6, <1>7, DivFacts
<1>9. /\ page = N4(page) * Fan + (page % Fan) /\ N4(page) = N3(page) * Fan + (N4(page) % Fan)
      /\ N3(page) = N2(page) * Fan + (N3(page) % Fan)
  BY <1>1, <1>2, <1>4, <1>5, <1>6, <1>7, DivFacts
<1>10. N2(page) < Fan - 1
  <2> SUFFICES ASSUME N2(page) >= Fan - 1 PROVE FALSE
    BY <1>1, <1>8
  <2> DEFINE S == Fan * Fan * Fan
  <2>1. S \in Nat \ {0}
    BY <1>1
  <2>2. page >= N2(page) * S
    <3> HIDE DEF S
    <3>1. page = (page \div S) * S + (page % S) /\ page % S \in Nat /\ page \div S \in Nat
      BY <1>2, <2>1, DivFacts
    <3>2. N2(page) = page \div S
      BY SpanFacts DEF N2, S
    <3>3. N2(page) * S \in Nat
      BY <1>8, <2>1
    <3> QED  BY <3>1, <3>2, <3>3
  <2>3. N2(page) * S >= (Fan - 1) * S
    <3> HIDE DEF S
    <3> QED  BY <1>1, <1>8, <2>1
  <2> HIDE DEF S
  <2>4. page < (Fan - 1) * S
    BY <1>2 DEF S
  <2>5. (Fan - 1) * S \in Nat /\ N2(page) * S \in Nat
    BY <1>1, <1>8, <2>1
  <2> QED  BY <1>2, <2>2, <2>3, <2>4, <2>5
<1>11. E(page, 1) = N2(page) /\ E(page, 2) = N3(page) % Fan /\ E(page, 3) = N4(page) % Fan
  <2>1. N2(page) % Fan = N2(page)
    <3>1. (0 * Fan + N2(page)) % Fan = N2(page)
      BY <1>1, <1>8, <1>10, DivIs
    <3> QED  BY <1>1, <1>8, <3>1
  <2> QED  BY <1>3, <2>1 DEF N2, N3, N4
<1>12. E(page, 4) = page % Fan
  <2>1. page \div 1 = page
    BY <1>2
  <2> QED  BY <1>3, <2>1, SpanFacts
<1>13. \A n \in Nat : n % Fan \in Index
  <2>1. \A n \in Nat : n % Fan \in Nat /\ n % Fan < Fan
    BY <1>1, DivFacts
  <2> QED  BY <1>1, <2>1 DEF Index
<1>14. E(page, 1) \in Index /\ E(page, 1) # KernelEntry
  BY <1>1, <1>8, <1>10, <1>11 DEF Index, KernelEntry
<1>15. E(page, 2) \in Index /\ E(page, 3) \in Index /\ E(page, 4) \in Index
  BY <1>2, <1>4, <1>6, <1>11, <1>12, <1>13
<1>16. 0 * Fan + E(page, 1) = N2(page)
  BY <1>1, <1>8, <1>11
<1> HIDE DEF N2, N3, N4, E
<1> QED  BY <1>2, <1>4, <1>6, <1>8, <1>9, <1>11, <1>12, <1>14, <1>15, <1>16

LEMMA SameDigits ==
  ASSUME NEW x \in Nat, NEW y \in Nat, NEW d \in Index, NEW e \in Index, x * Fan + d = y * Fan + e
  PROVE  x = y /\ d = e
<1>1. Fan \in Nat \ {0} /\ d \in Nat /\ e \in Nat /\ d < Fan /\ e < Fan
  BY VMMAssumption DEF Index
<1>2. (x * Fan + d) \div Fan = x /\ (y * Fan + e) \div Fan = y
  BY <1>1, DivIs
<1>3. (x * Fan + d) % Fan = d /\ (y * Fan + e) % Fan = e
  BY <1>1, DivIs
<1> QED  BY <1>2, <1>3
-----------------------------------------------------------------------------
(* The tree of tables                                                      *)

LEMMA LabelFacts ==
  ASSUME NEW lab \in Labels, NEW f \in Frame
  PROVE  /\ lab[f] = T(lab[f].who, lab[f].lev, lab[f].num) /\ lab[f].num \in Nat
         /\ lab[f].lev \in 0 .. 6
BY DEF Labels, T

LEMMA TFacts ==
  ASSUME NEW p, NEW l, NEW x
  PROVE  T(p, l, x).who = p /\ T(p, l, x).lev = l /\ T(p, l, x).num = x
BY DEF T

(* The table above a table.                                                *)
LEMMA Parent ==
  ASSUME NEW lab \in Labels, NEW m, Shape(lab, m), NEW p, NEW l \in 1 .. 3, NEW x \in Nat,
         NEW e \in Index, NEW k, k = l + 1, NEW y, y = x * Fan + e,
         NEW g \in Frame, lab[g] = T(p, k, y)
  PROVE  \E f \in Frame : lab[f] = T(p, l, x) /\ Leads(lab, m, f, e) /\ m[f][e].at = g
<1>1. lab[g].lev = k /\ lab[g].who = p /\ lab[g].num = y /\ lab[g].lev \in 2 .. 4
  BY TFacts
<1>2. PICK f \in Frame, d \in Index :
        /\ Leads(lab, m, f, d) /\ m[f][d].at = g
        /\ lab[f].who = p /\ lab[f].lev = l /\ x * Fan + e = lab[f].num * Fan + d
  BY <1>1 DEF Shape
<1>3. lab[f].num = x /\ d = e
  BY <1>2, LabelFacts, SameDigits
<1> QED  BY <1>2, <1>3, LabelFacts

(* One level of the walk: f is the table of number x, or there is none.    *)
Has(lab, p, l, x, f) == f \in Frame /\ lab[f] = T(p, l, x)
Finds(lab, p, l, x, f) == (f = -1 /\ \A g \in Frame : lab[g] # T(p, l, x)) \/ Has(lab, p, l, x, f)

(* An entry leads to the table of its number, if there is one.             *)
LEMMA Under ==
  ASSUME NEW lab \in Labels, NEW m \in MemType, Shape(lab, m), NEW p, NEW l \in 1 .. 3, NEW x \in Nat,
         NEW f \in Frame, lab[f] = T(p, l, x), NEW e \in Index, ~(l = 1 /\ e = KernelEntry),
         NEW k, k = l + 1, NEW y, y = x * Fan + e
  PROVE  /\ Finds(lab, p, k, y, Below(m, f, e))
         /\ Below(m, f, e) = IF m[f][e] = NoEntry THEN -1 ELSE m[f][e].at
<1>1. lab[f].who = p /\ lab[f].lev = l /\ lab[f].num = x
  BY TFacts
<1>2. ASSUME m[f][e] = NoEntry, NEW g \in Frame, lab[g] = T(p, k, y) PROVE FALSE
  <2>1. PICK h \in Frame : lab[h] = T(p, l, x) /\ Leads(lab, m, h, e)
    BY <1>2, Parent
  <2>2. h = f
    BY <1>1, <2>1 DEF Shape
  <2> QED  BY <1>2, <2>1, <2>2 DEF Leads
<1>3. m[f][e] # NoEntry => Leads(lab, m, f, e)
  BY <1>1 DEF Leads
<1>4. f # -1
  BY DEF Frame
<1>5. Below(m, f, e) = IF m[f][e] = NoEntry THEN -1 ELSE m[f][e].at
  BY <1>4 DEF Below
<1>6. m[f][e] # NoEntry => m[f][e].at \in Frame /\ lab[m[f][e].at] = T(p, k, y)
  BY <1>1, <1>3 DEF Shape
<1> QED  BY <1>2, <1>5, <1>6 DEF Finds, Has

LEMMA FindsNext ==
  ASSUME NEW lab \in Labels, NEW m \in MemType, Shape(lab, m), NEW p, NEW l \in 1 .. 3, NEW x \in Nat,
         NEW f, Finds(lab, p, l, x, f), NEW e \in Index, ~(l = 1 /\ e = KernelEntry),
         NEW k, k = l + 1, NEW y, y = x * Fan + e
  PROVE  Finds(lab, p, k, y, Below(m, f, e))
<1>1. CASE f = -1 /\ \A g \in Frame : lab[g] # T(p, l, x)
  <2>1. Below(m, f, e) = -1
    BY <1>1 DEF Below
  <2>2. ASSUME NEW g \in Frame, lab[g] = T(p, k, y) PROVE FALSE
    BY <1>1, <2>2, Parent
  <2> QED  BY <2>1, <2>2 DEF Finds
<1>2. CASE f \in Frame /\ lab[f] = T(p, l, x)
  BY <1>2, Under
<1> QED  BY <1>1, <1>2 DEF Finds, Has

(* What the processor finds is in the last table of the page's number.     *)
LEMMA LeafOf ==
  ASSUME NEW lab \in Labels, NEW m \in MemType, Shape(lab, m), NEW p, NEW top \in Frame,
         lab[top] = T(p, 1, 0), NEW page \in UserPages
  PROVE  /\ \A f \in Frame : lab[f] = T(p, 4, N4(page)) => LeafIn(m, top, page) = m[f][E(page, 4)]
         /\ (\A f \in Frame : lab[f] # T(p, 4, N4(page))) => LeafIn(m, top, page) = NoEntry
<1> DEFINE pdp == Below(m, top, E(page, 1))
           pd == Below(m, pdp, E(page, 2))
           pt == Below(m, pd, E(page, 3))
<1>0. LeafIn(m, top, page) = IF pt = -1 THEN NoEntry ELSE m[pt][E(page, 4)]
  BY DEF LeafIn, E
<1>1. Finds(lab, p, 2, N2(page), pdp)
  <2>1. 0 \in Nat /\ 1 \in 1 .. 3 /\ 2 = 1 + 1
    OBVIOUS
  <2>2. E(page, 1) \in Index /\ E(page, 1) # KernelEntry /\ N2(page) = 0 * Fan + E(page, 1)
    BY Digits
  <2>3. Finds(lab, p, 1, 0, top)
    BY DEF Finds, Has
  <2> QED  BY <2>1, <2>2, <2>3, FindsNext
<1> HIDE DEF pdp
<1>2. Finds(lab, p, 3, N3(page), pd)
  <2>1. 2 \in 1 .. 3 /\ 3 = 2 + 1 /\ 2 # 1
    OBVIOUS
  <2>2. E(page, 2) \in Index /\ N3(page) = N2(page) * Fan + E(page, 2) /\ N2(page) \in Nat
    BY Digits
  <2> QED  BY <1>1, <2>1, <2>2, FindsNext
<1> HIDE DEF pd
<1>3. Finds(lab, p, 4, N4(page), pt)
  <2>1. 3 \in 1 .. 3 /\ 4 = 3 + 1 /\ 3 # 1
    OBVIOUS
  <2>2. E(page, 3) \in Index /\ N4(page) = N3(page) * Fan + E(page, 3) /\ N3(page) \in Nat
    BY Digits
  <2> QED  BY <1>2, <2>1, <2>2, FindsNext
<1> HIDE DEF pt
<1>4. pt # -1 => \A f \in Frame : lab[f] = T(p, 4, N4(page)) => f = pt
  BY <1>3, TFacts DEF Shape, Finds, Has
<1>5. -1 \notin Frame
  BY DEF Frame
<1> QED  BY <1>0, <1>3, <1>4, <1>5 DEF Finds, Has
(* No pagemap shows anything different.                                    *)
SameLeaves(lab, m, n) ==
  \A q \in Proc, t \in Frame, page \in UserPages :
    lab[t] = T(q, 1, 0) => LeafIn(n, t, page) = LeafIn(m, t, page)

(* A new, empty table, and an entry that leads to it.                      *)
LEMMA AddTable ==
  ASSUME NEW lab \in Labels, NEW m \in MemType, Shape(lab, m), NEW p \in Proc,
         NEW l \in 1 .. 3, NEW x \in Nat, NEW f \in Frame, lab[f] = T(p, l, x),
         NEW e \in Index, ~(l = 1 /\ e = KernelEntry), m[f][e] = NoEntry,
         NEW k, k = l + 1, NEW y, y = x * Fan + e,
         NEW new \in Frame, lab[new].lev = 0, new # 0,
         NEW n \in MemType, \A d \in Index : n[new][d] = NoEntry, n[f][e] = Entry(new, 7),
         \A d \in Index \ {e} : n[f][d] = m[f][d], \A g \in Frame \ {f, new} : n[g] = m[g],
         NEW lab2 \in Labels, lab2[new] = T(p, k, y), \A g \in Frame \ {new} : lab2[g] = lab[g]
  PROVE  Shape(lab2, n) /\ SameLeaves(lab, m, n)
<1>0. y \in Nat /\ k \in 2 .. 4
  BY VMMAssumption DEF Index
<1>1. lab2 \in Labels /\ lab2[new] = T(p, k, y) /\ \A g \in Frame \ {new} : lab2[g] = lab[g]
  OBVIOUS
<1>2. f # new /\ lab[f].lev = l /\ lab[f].who = p /\ lab[f].num = x
  BY TFacts
<1>3. /\ lab2[new].lev = k /\ lab2[new].who = p /\ lab2[new].num = y
  BY <1>1, TFacts
<1>4. \A g \in Frame : lab[g] # T(p, k, y)
  <2>1. Finds(lab, p, k, y, Below(m, f, e))
    BY Under
  <2>2. Below(m, f, e) = -1 /\ -1 \notin Frame
    BY DEF Below, Frame
  <2> QED  BY <2>1, <2>2 DEF Finds, Has
<1>5. /\ \A d \in Index : n[new][d] = NoEntry
      /\ \A d \in Index \ {e} : n[f][d] = m[f][d]
      /\ n[f][e] = Entry(new, 7) /\ n[f][e] # NoEntry /\ n[f][e].at = new
  BY DEF Entry, NoEntry
<1>6. \A g \in Frame, d \in Index : g # new /\ ~(g = f /\ d = e) => n[g][d] = m[g][d]
  BY <1>5
<1>7. \A g \in Frame, d \in Index :
        Leads(lab2, n, g, d) <=> (g = f /\ d = e) \/ (g # new /\ Leads(lab, m, g, d))
  <2> TAKE g \in Frame, d \in Index
  <2>1. CASE g = new
    BY <1>2, <1>5, <2>1 DEF Leads
  <2>2. CASE g = f /\ d = e
    BY <1>1, <1>2, <1>5, <2>2 DEF Leads
  <2>3. CASE g # new /\ ~(g = f /\ d = e)
    BY <1>1, <1>6, <2>3 DEF Leads
  <2> QED  BY <2>1, <2>2, <2>3
<1>8. Shape(lab2, n)
  <2>1. \A g \in Frame : lab2[g].lev # 0 => lab2[g].who \in Proc
    BY <1>1, <1>3 DEF Shape
  <2>2. \A g, h \in Frame : lab2[g].lev \in 1 .. 4 /\ lab2[g] = lab2[h] => g = h
    BY <1>1, <1>4 DEF Shape
  <2>3. ASSUME NEW g \in Frame, lab2[g].lev = 1
        PROVE  lab2[g].num = 0 /\ n[g][KernelEntry] = Entry(KernelTable, 7)
    <3>1. g # new /\ lab2[g] = lab[g]
      BY <1>0, <1>1, <1>3, <2>3
    <3>2. KernelEntry \in Index
      BY VMMAssumption DEF Index, KernelEntry
    <3>3. ~(g = f /\ KernelEntry = e)
      BY <1>2, <2>3, <3>1
    <3> QED  BY <1>6, <2>3, <3>1, <3>2, <3>3 DEF Shape
  <2>4. ASSUME NEW g \in Frame, NEW d \in Index, Leads(lab2, n, g, d)
        PROVE  /\ n[g][d].at \in Frame
               /\ lab2[n[g][d].at] = T(lab2[g].who, lab2[g].lev + 1, lab2[g].num * Fan + d)
    <3>1. CASE g = f /\ d = e
      BY <1>1, <1>2, <1>5, <3>1
    <3>2. CASE g # new /\ ~(g = f /\ d = e)
      <4>1. Leads(lab, m, g, d) /\ n[g][d] = m[g][d] /\ lab2[g] = lab[g]
        BY <1>1, <1>6, <1>7, <2>4, <3>2
      <4>2. m[g][d].at \in Frame /\ lab[m[g][d].at] = T(lab[g].who, lab[g].lev + 1, lab[g].num * Fan + d)
        BY <4>1 DEF Shape
      <4>3. lab[m[g][d].at].lev # 0
        BY <4>1, <4>2, TFacts DEF Leads
      <4> QED  BY <1>1, <4>1, <4>2, <4>3
    <3> QED  BY <1>2, <1>7, <2>4, <3>1, <3>2
  <2>5. ASSUME NEW h \in Frame, lab2[h].lev \in 2 .. 4
        PROVE  \E g \in Frame, d \in Index :
                 /\ Leads(lab2, n, g, d) /\ n[g][d].at = h
                 /\ lab2[g].who = lab2[h].who /\ lab2[g].lev = lab2[h].lev - 1
                 /\ lab2[h].num = lab2[g].num * Fan + d
    <3>1. CASE h = new
      BY <1>1, <1>2, <1>3, <1>5, <1>7, <3>1
    <3>2. CASE h # new
      <4>1. lab2[h] = lab[h]
        BY <1>1, <3>2
      <4>2. PICK g \in Frame, d \in Index :
              /\ Leads(lab, m, g, d) /\ m[g][d].at = h
              /\ lab[g].who = lab[h].who /\ lab[g].lev = lab[h].lev - 1
              /\ lab[h].num = lab[g].num * Fan + d
        BY <2>5, <4>1 DEF Shape
      <4>3. g # new /\ ~(g = f /\ d = e)
        BY <4>2 DEF Leads
      <4> QED  BY <1>1, <1>6, <1>7, <4>1, <4>2, <4>3
    <3> QED  BY <3>1, <3>2
  <2> QED  BY <2>1, <2>2, <2>3, <2>4, <2>5 DEF Shape
<1>9. ASSUME NEW q \in Proc, NEW t \in Frame, NEW page \in UserPages, lab[t] = T(q, 1, 0)
      PROVE  LeafIn(n, t, page) = LeafIn(m, t, page)
  <2>1. lab2[t] = T(q, 1, 0)
    BY <1>1, <1>9, TFacts
  <2>2. E(page, 4) \in Index
    BY Digits
  <2>3. CASE \E h \in Frame : lab[h] = T(q, 4, N4(page))
    <3>1. PICK h \in Frame : lab[h] = T(q, 4, N4(page))
      BY <2>3
    <3>2. h # new /\ h # f /\ lab2[h] = lab[h] /\ n[h] = m[h]
      BY <1>1, <1>2, <3>1, TFacts
    <3>3. LeafIn(n, t, page) = n[h][E(page, 4)]
      BY <1>1, <1>8, <2>1, <3>1, <3>2, LeafOf
    <3>4. LeafIn(m, t, page) = m[h][E(page, 4)]
      BY <1>9, <3>1, LeafOf
    <3> QED  BY <3>2, <3>3, <3>4
  <2>4. CASE \A h \in Frame : lab[h] # T(q, 4, N4(page))
    <3>1. LeafIn(m, t, page) = NoEntry
      BY <1>9, <2>4, LeafOf
    <3>2. CASE lab2[new] = T(q, 4, N4(page))
      <4>1. LeafIn(n, t, page) = n[new][E(page, 4)]
        BY <1>1, <1>8, <2>1, <3>2, LeafOf
      <4> QED  BY <1>5, <2>2, <3>1, <4>1
    <3>3. CASE lab2[new] # T(q, 4, N4(page))
      <4>1. \A h \in Frame : lab2[h] # T(q, 4, N4(page))
        BY <1>1, <2>4, <3>3
      <4>2. LeafIn(n, t, page) = NoEntry
        BY <1>1, <1>8, <2>1, <4>1, LeafOf
      <4> QED  BY <3>1, <4>2
    <3> QED  BY <3>2, <3>3
  <2> QED  BY <2>3, <2>4
<1> QED  BY <1>8, <1>9 DEF SameLeaves

(* A new entry in a last-level table: one page is shown differently.       *)
LEMMA SetEntry ==
  ASSUME NEW lab \in Labels, NEW m \in MemType, Shape(lab, m), NEW p \in Proc,
         NEW page \in UserPages, NEW f \in Frame, lab[f] = T(p, 4, N4(page)),
         NEW v, NEW n \in MemType, n[f][E(page, 4)] = v,
         \A d \in Index \ {E(page, 4)} : n[f][d] = m[f][d],
         \A g \in Frame \ {f} : n[g] = m[g]
  PROVE  /\ Shape(lab, n)
         /\ \A t \in Frame : lab[t] = T(p, 1, 0) => LeafIn(n, t, page) = v
         /\ \A q \in Proc, t \in Frame, z \in UserPages :
              lab[t] = T(q, 1, 0) /\ ~(q = p /\ z = page) => LeafIn(n, t, z) = LeafIn(m, t, z)
<1>1. lab[f].lev = 4 /\ lab[f].who = p /\ lab[f].num = N4(page)
  BY TFacts
<1>2. E(page, 4) \in Index
  BY Digits
<1>3. /\ \A g \in Frame \ {f} : n[g] = m[g]
      /\ n[f][E(page, 4)] = v
      /\ \A d \in Index \ {E(page, 4)} : n[f][d] = m[f][d]
  OBVIOUS
<1>4. \A g \in Frame : lab[g].lev \in 1 .. 3 => n[g] = m[g]
  BY <1>1, <1>3
<1>5. \A g \in Frame, d \in Index : Leads(lab, n, g, d) <=> Leads(lab, m, g, d)
  BY <1>4 DEF Leads
<1>6. Shape(lab, n)
  <2>1. ASSUME NEW g \in Frame, lab[g].lev = 1
        PROVE  lab[g].num = 0 /\ n[g][KernelEntry] = Entry(KernelTable, 7)
    BY <1>4, <2>1 DEF Shape
  <2>2. ASSUME NEW g \in Frame, NEW d \in Index, Leads(lab, n, g, d)
        PROVE  /\ n[g][d].at \in Frame
               /\ lab[n[g][d].at] = T(lab[g].who, lab[g].lev + 1, lab[g].num * Fan + d)
    <3>1. Leads(lab, m, g, d) /\ n[g] = m[g]
      BY <1>4, <1>5, <2>2 DEF Leads
    <3> QED  BY <3>1 DEF Shape
  <2>3. ASSUME NEW h \in Frame, lab[h].lev \in 2 .. 4
        PROVE  \E g \in Frame, d \in Index :
                 /\ Leads(lab, n, g, d) /\ n[g][d].at = h
                 /\ lab[g].who = lab[h].who /\ lab[g].lev = lab[h].lev - 1
                 /\ lab[h].num = lab[g].num * Fan + d
    <3>1. PICK g \in Frame, d \in Index :
            /\ Leads(lab, m, g, d) /\ m[g][d].at = h
            /\ lab[g].who = lab[h].who /\ lab[g].lev = lab[h].lev - 1
            /\ lab[h].num = lab[g].num * Fan + d
      BY <2>3 DEF Shape
    <3>2. n[g] = m[g]
      BY <1>4, <3>1 DEF Leads
    <3> QED  BY <1>5, <3>1, <3>2
  <2> QED  BY <2>1, <2>2, <2>3 DEF Shape
<1>7. ASSUME NEW t \in Frame, lab[t] = T(p, 1, 0) PROVE LeafIn(n, t, page) = v
  <2>1. LeafIn(n, t, page) = n[f][E(page, 4)]
    BY <1>6, <1>7, LeafOf
  <2> QED  BY <1>3, <2>1
<1>8. ASSUME NEW q \in Proc, NEW t \in Frame, NEW z \in UserPages,
             lab[t] = T(q, 1, 0), ~(q = p /\ z = page)
      PROVE  LeafIn(n, t, z) = LeafIn(m, t, z)
  <2>1. E(z, 4) \in Index
    BY Digits
  <2>2. CASE \E h \in Frame : lab[h] = T(q, 4, N4(z))
    <3>1. PICK h \in Frame : lab[h] = T(q, 4, N4(z))
      BY <2>2
    <3>2. LeafIn(n, t, z) = n[h][E(z, 4)]
      BY <1>6, <1>8, <3>1, LeafOf
    <3>3. LeafIn(m, t, z) = m[h][E(z, 4)]
      BY <1>8, <3>1, LeafOf
    <3>4. n[h][E(z, 4)] = m[h][E(z, 4)]
      <4>1. CASE h # f
        BY <1>3, <4>1
      <4>2. CASE h = f
        <5>1. q = p /\ N4(z) = N4(page)
          BY <1>1, <3>1, <4>2, TFacts
        <5>2. z = N4(z) * Fan + E(z, 4) /\ page = N4(page) * Fan + E(page, 4)
          BY Digits
        <5>3. E(z, 4) # E(page, 4)
          BY <1>8, <5>1, <5>2
        <5> QED  BY <1>3, <2>1, <4>2, <5>3
      <4> QED  BY <4>1, <4>2
    <3> QED  BY <3>2, <3>3, <3>4
  <2>3. CASE \A h \in Frame : lab[h] # T(q, 4, N4(z))
    <3>1. LeafIn(n, t, z) = NoEntry
      BY <1>6, <1>8, <2>3, LeafOf
    <3>2. LeafIn(m, t, z) = NoEntry
      BY <1>8, <2>3, LeafOf
    <3> QED  BY <3>1, <3>2
  <2> QED  BY <2>2, <2>3
<1> QED  BY <1>6, <1>7, <1>8

(* Other frames and labels may change as they like, and all tables of some *)
(* processes, those outside S, may go.                                     *)
Kept(lab, m, lab2, n, S) ==
  /\ \A f \in Frame : lab2[f].lev # 0 => lab2[f].who \in Proc
  /\ \A f \in Frame : lab[f].lev \in 1 .. 4 /\ lab[f].who \in S => lab2[f] = lab[f] /\ n[f] = m[f]
  /\ \A f \in Frame : lab2[f].lev \in 1 .. 4 => lab2[f] = lab[f] /\ lab[f].who \in S

LEMMA Keep ==
  ASSUME NEW lab \in Labels, NEW m \in MemType, Shape(lab, m),
         NEW lab2 \in Labels, NEW n \in MemType, NEW S, Kept(lab, m, lab2, n, S)
  PROVE  /\ Shape(lab2, n)
         /\ \A q \in S, t \in Frame, page \in UserPages :
              lab[t] = T(q, 1, 0) => lab2[t] = lab[t] /\ LeafIn(n, t, page) = LeafIn(m, t, page)
<1> USE DEF Kept
<1>1. \A g \in Frame : lab2[g].lev \in 1 .. 4 => lab2[g] = lab[g] /\ n[g] = m[g] /\ lab[g].who \in S
  OBVIOUS
<1>2. \A g \in Frame, d \in Index :
        Leads(lab2, n, g, d) <=> Leads(lab, m, g, d) /\ lab[g].who \in S
  <2> TAKE g \in Frame, d \in Index
  <2>1. CASE lab2[g].lev \in 1 .. 3
    BY <1>1, <2>1 DEF Leads
  <2>2. CASE lab2[g].lev \notin 1 .. 3
    BY <2>2 DEF Leads
  <2> QED  BY <2>1, <2>2
<1>3. Shape(lab2, n)
  <2>1. \A g, h \in Frame : lab2[g].lev \in 1 .. 4 /\ lab2[g] = lab2[h] => g = h
    BY <1>1 DEF Shape
  <2>2. ASSUME NEW g \in Frame, lab2[g].lev = 1
        PROVE  lab2[g].num = 0 /\ n[g][KernelEntry] = Entry(KernelTable, 7)
    BY <1>1, <2>2 DEF Shape
  <2>3. ASSUME NEW g \in Frame, NEW d \in Index, Leads(lab2, n, g, d)
        PROVE  /\ n[g][d].at \in Frame
               /\ lab2[n[g][d].at] = T(lab2[g].who, lab2[g].lev + 1, lab2[g].num * Fan + d)
    <3>1. Leads(lab, m, g, d) /\ lab[g].who \in S /\ lab[g].lev \in 1 .. 3
      BY <1>2, <2>3 DEF Leads
    <3>2. lab2[g] = lab[g] /\ n[g] = m[g]
      BY <3>1
    <3>3. m[g][d].at \in Frame /\ lab[m[g][d].at] = T(lab[g].who, lab[g].lev + 1, lab[g].num * Fan + d)
      BY <3>1 DEF Shape
    <3>4. lab[m[g][d].at].lev \in 1 .. 4 /\ lab[m[g][d].at].who \in S
      BY <3>1, <3>3, TFacts
    <3> QED  BY <3>2, <3>3, <3>4
  <2>4. ASSUME NEW h \in Frame, lab2[h].lev \in 2 .. 4
        PROVE  \E g \in Frame, d \in Index :
                 /\ Leads(lab2, n, g, d) /\ n[g][d].at = h
                 /\ lab2[g].who = lab2[h].who /\ lab2[g].lev = lab2[h].lev - 1
                 /\ lab2[h].num = lab2[g].num * Fan + d
    <3>1. lab2[h] = lab[h] /\ lab[h].who \in S
      BY <1>1, <2>4
    <3>2. PICK g \in Frame, d \in Index :
            /\ Leads(lab, m, g, d) /\ m[g][d].at = h
            /\ lab[g].who = lab[h].who /\ lab[g].lev = lab[h].lev - 1
            /\ lab[h].num = lab[g].num * Fan + d
      BY <2>4, <3>1 DEF Shape
    <3>3. lab2[g] = lab[g] /\ n[g] = m[g] /\ Leads(lab2, n, g, d)
      <4>1. lab[g].lev \in 1 .. 4 /\ lab[g].who \in S
        BY <3>1, <3>2 DEF Leads
      <4> QED  BY <1>2, <3>2, <4>1
    <3> QED  BY <3>1, <3>2, <3>3
  <2> QED  BY <2>1, <2>2, <2>3, <2>4 DEF Shape
<1>4. ASSUME NEW q \in S, NEW t \in Frame, NEW page \in UserPages, lab[t] = T(q, 1, 0)
      PROVE  lab2[t] = lab[t] /\ LeafIn(n, t, page) = LeafIn(m, t, page)
  <2>1. lab2[t] = T(q, 1, 0) /\ lab2[t] = lab[t]
    BY <1>4, TFacts
  <2>2. CASE \E h \in Frame : lab[h] = T(q, 4, N4(page))
    <3>1. PICK h \in Frame : lab[h] = T(q, 4, N4(page))
      BY <2>2
    <3>2. lab2[h] = lab[h] /\ n[h] = m[h]
      BY <3>1, TFacts
    <3>3. LeafIn(n, t, page) = n[h][E(page, 4)]
      BY <1>3, <2>1, <3>1, <3>2, LeafOf
    <3>4. LeafIn(m, t, page) = m[h][E(page, 4)]
      BY <1>4, <3>1, LeafOf
    <3> QED  BY <2>1, <3>2, <3>3, <3>4
  <2>3. CASE \A h \in Frame : lab[h] # T(q, 4, N4(page))
    <3>1. \A h \in Frame : lab2[h] # T(q, 4, N4(page))
      <4> SUFFICES ASSUME NEW h \in Frame, lab2[h] = T(q, 4, N4(page)) PROVE FALSE
        OBVIOUS
      <4>1. lab2[h].lev = 4
        BY TFacts
      <4> QED  BY <1>1, <2>3, <4>1
    <3>2. LeafIn(n, t, page) = NoEntry
      BY <1>3, <2>1, <3>1, LeafOf
    <3>3. LeafIn(m, t, page) = NoEntry
      BY <1>4, <2>3, LeafOf
    <3> QED  BY <2>1, <3>2, <3>3
  <2> QED  BY <2>2, <2>3
<1> QED  BY <1>3, <1>4

(* A process does not depend on the frames of others.                      *)
LEMMA OwnTables ==
  ASSUME NEW lab \in Labels, NEW m \in MemType, Shape(lab, m), NEW q, NEW n,
         \A f \in Frame : lab[f].lev # 0 /\ lab[f].who = q => n[f] = m[f],
         NEW t \in Frame, lab[t] = T(q, 1, 0), NEW page \in UserPages
  PROVE  LeafIn(n, t, page) = LeafIn(m, t, page)
<1> DEFINE pdp == Below(m, t, E(page, 1))
           pd == Below(m, pdp, E(page, 2))
           pt == Below(m, pd, E(page, 3))
<1>0. LeafIn(m, t, page) = IF pt = -1 THEN NoEntry ELSE m[pt][E(page, 4)]
  BY DEF LeafIn, E
<1>1. ASSUME NEW l \in 1 .. 4, NEW x, NEW f, Finds(lab, q, l, x, f), NEW e
      PROVE  /\ Below(n, f, e) = Below(m, f, e)
             /\ f # -1 => n[f] = m[f]
  BY <1>1, TFacts DEF Below, Finds, Has
<1>2. Finds(lab, q, 2, N2(page), pdp) /\ Below(n, t, E(page, 1)) = pdp
  <2>1. 0 \in Nat /\ 1 \in 1 .. 3 /\ 1 \in 1 .. 4 /\ 2 = 1 + 1
    OBVIOUS
  <2>2. E(page, 1) \in Index /\ E(page, 1) # KernelEntry /\ N2(page) = 0 * Fan + E(page, 1)
    BY Digits
  <2>3. Finds(lab, q, 1, 0, t)
    BY DEF Finds, Has
  <2>4. Finds(lab, q, 2, N2(page), pdp)
    BY <2>1, <2>2, <2>3, FindsNext
  <2> QED  BY <1>1, <2>1, <2>3, <2>4
<1> HIDE DEF pdp
<1>3. Finds(lab, q, 3, N3(page), pd) /\ Below(n, pdp, E(page, 2)) = pd
  <2>1. 2 \in 1 .. 3 /\ 2 \in 1 .. 4 /\ 3 = 2 + 1 /\ 2 # 1
    OBVIOUS
  <2>2. E(page, 2) \in Index /\ N3(page) = N2(page) * Fan + E(page, 2) /\ N2(page) \in Nat
    BY Digits
  <2>4. Finds(lab, q, 3, N3(page), pd)
    BY <1>2, <2>1, <2>2, FindsNext
  <2> QED  BY <1>1, <1>2, <2>1, <2>4
<1> HIDE DEF pd
<1>4. Finds(lab, q, 4, N4(page), pt) /\ Below(n, pd, E(page, 3)) = pt
  <2>1. 3 \in 1 .. 3 /\ 3 \in 1 .. 4 /\ 4 = 3 + 1 /\ 3 # 1
    OBVIOUS
  <2>2. E(page, 3) \in Index /\ N4(page) = N3(page) * Fan + E(page, 3) /\ N3(page) \in Nat
    BY Digits
  <2>4. Finds(lab, q, 4, N4(page), pt)
    BY <1>3, <2>1, <2>2, FindsNext
  <2> QED  BY <1>1, <1>3, <2>1, <2>4
<1>5. LeafIn(n, t, page) = IF pt = -1 THEN NoEntry ELSE n[pt][E(page, 4)]
  BY <1>2, <1>3, <1>4 DEF LeafIn, E
<1>6. pt # -1 => n[pt] = m[pt]
  BY <1>1, <1>4
<1> QED  BY <1>0, <1>5, <1>6
(* A new pagemap: empty but for the kernel's entry.                        *)
LEMMA AddTop ==
  ASSUME NEW lab \in Labels, NEW m \in MemType, Shape(lab, m), NEW p \in Proc,
         \A f \in Frame : lab[f].who = p => lab[f].lev \notin 1 .. 4,
         NEW new \in Frame, lab[new].lev = 0,
         NEW n \in MemType, \A e \in Index : n[new][e] = IF e = KernelEntry THEN Entry(KernelTable, 7) ELSE NoEntry,
         \A g \in Frame \ {new} : n[g] = m[g]
  PROVE  LET lab2 == [lab EXCEPT ![new] = T(p, 1, 0)]
         IN  /\ lab2 \in Labels /\ Shape(lab2, n) /\ SameLeaves(lab, m, n)
             /\ \A page \in UserPages : LeafIn(n, new, page) = NoEntry
<1> DEFINE lab2 == [lab EXCEPT ![new] = T(p, 1, 0)]
<1>1. lab2 \in Labels /\ lab2[new] = T(p, 1, 0) /\ \A g \in Frame \ {new} : lab2[g] = lab[g]
  BY DEF Labels, T
<1>2. lab2[new].lev = 1 /\ lab2[new].who = p /\ lab2[new].num = 0
  BY <1>1, TFacts
<1> HIDE DEF lab2
<1>3. \A g \in Frame, d \in Index : Leads(lab2, n, g, d) <=> Leads(lab, m, g, d)
  <2> TAKE g \in Frame, d \in Index
  <2>1. CASE g = new
    BY <1>2, <2>1 DEF Leads
  <2>2. CASE g # new
    BY <1>1, <2>2 DEF Leads
  <2> QED  BY <2>1, <2>2
<1>4. \A g \in Frame, d \in Index : Leads(lab, m, g, d) => g # new
  BY DEF Leads
<1>5. Shape(lab2, n)
  <2>1. \A g \in Frame : lab2[g].lev # 0 => lab2[g].who \in Proc
    BY <1>1, <1>2 DEF Shape
  <2>2. \A g, h \in Frame : lab2[g].lev \in 1 .. 4 /\ lab2[g] = lab2[h] => g = h
    BY <1>1, <1>2 DEF Shape
  <2>3. ASSUME NEW g \in Frame, lab2[g].lev = 1
        PROVE  lab2[g].num = 0 /\ n[g][KernelEntry] = Entry(KernelTable, 7)
    <3>1. KernelEntry \in Index
      BY VMMAssumption DEF Index, KernelEntry
    <3> QED  BY <1>1, <1>2, <2>3, <3>1 DEF Shape
  <2>4. ASSUME NEW g \in Frame, NEW d \in Index, Leads(lab2, n, g, d)
        PROVE  /\ n[g][d].at \in Frame
               /\ lab2[n[g][d].at] = T(lab2[g].who, lab2[g].lev + 1, lab2[g].num * Fan + d)
    <3>1. Leads(lab, m, g, d) /\ n[g] = m[g] /\ lab2[g] = lab[g]
      BY <1>1, <1>3, <1>4, <2>4
    <3>2. m[g][d].at \in Frame /\ lab[m[g][d].at] = T(lab[g].who, lab[g].lev + 1, lab[g].num * Fan + d)
      BY <3>1 DEF Shape
    <3>3. lab[m[g][d].at].lev # 0
      BY <3>1, <3>2, TFacts DEF Leads
    <3> QED  BY <1>1, <3>1, <3>2, <3>3
  <2>5. ASSUME NEW h \in Frame, lab2[h].lev \in 2 .. 4
        PROVE  \E g \in Frame, d \in Index :
                 /\ Leads(lab2, n, g, d) /\ n[g][d].at = h
                 /\ lab2[g].who = lab2[h].who /\ lab2[g].lev = lab2[h].lev - 1
                 /\ lab2[h].num = lab2[g].num * Fan + d
    <3>1. h # new /\ lab2[h] = lab[h]
      BY <1>1, <1>2, <2>5
    <3>2. PICK g \in Frame, d \in Index :
            /\ Leads(lab, m, g, d) /\ m[g][d].at = h
            /\ lab[g].who = lab[h].who /\ lab[g].lev = lab[h].lev - 1
            /\ lab[h].num = lab[g].num * Fan + d
      BY <2>5, <3>1 DEF Shape
    <3>3. g # new /\ n[g] = m[g] /\ lab2[g] = lab[g]
      BY <1>1, <1>4, <3>2
    <3> QED  BY <1>3, <3>1, <3>2, <3>3
  <2> QED  BY <2>1, <2>2, <2>3, <2>4, <2>5 DEF Shape
<1>6. ASSUME NEW q \in Proc, NEW t \in Frame, NEW page \in UserPages, lab[t] = T(q, 1, 0)
      PROVE  LeafIn(n, t, page) = LeafIn(m, t, page)
  <2>1. \A f \in Frame : lab[f].lev # 0 /\ lab[f].who = q => n[f] = m[f]
    OBVIOUS
  <2> QED  BY <1>6, <2>1, OwnTables
<1>7. ASSUME NEW page \in UserPages PROVE LeafIn(n, new, page) = NoEntry
  <2>1. \A h \in Frame : lab2[h] # T(p, 4, N4(page))
    <3> SUFFICES ASSUME NEW h \in Frame, lab2[h] = T(p, 4, N4(page)) PROVE FALSE
      OBVIOUS
    <3>1. lab2[h].lev = 4 /\ lab2[h].who = p
      BY TFacts
    <3> QED  BY <1>1, <1>2, <3>1
  <2> QED  BY <1>1, <1>5, <2>1, LeafOf
<1> QED  BY <1>1, <1>5, <1>6, <1>7 DEF SameLeaves, lab2

-----------------------------------------------------------------------------
(* Allocation                                                              *)

LEMMA MinIn ==
  ASSUME NEW S \in SUBSET Nat, S # {}
  PROVE  Min(S) \in S /\ \A y \in S : Min(S) <= y
BY Least DEF Min

LEMMA AllocFacts ==
  ASSUME NEW u, NEW n \in Nat \ {0}
  PROVE  /\ alloc(u, n) \in Frame
         /\ alloc(u, n) # 0 => /\ Run(alloc(u, n), n) \subseteq Frame /\ Run(alloc(u, n), n) \cap u = {}
                               /\ alloc(u, n) \in Run(alloc(u, n), n) /\ alloc(u, n) + n <= NFrames
<1> DEFINE C == Candidates(u, n)
<1>1. C \in SUBSET Nat
  BY VMMAssumption DEF Candidates
<1>2. CASE C = {}
  BY <1>2, VMMAssumption DEF alloc, Frame
<1>3. CASE C # {}
  <2>1. Min(C) \in C /\ alloc(u, n) = Min(C)
    <3> HIDE DEF C
    <3> QED  BY <1>1, <1>3, MinIn DEF alloc, C
  <2> DEFINE f == alloc(u, n)
  <2>2. f \in 1 .. NFrames - n /\ Run(f, n) \cap u = {}
    BY <2>1 DEF Candidates
  <2> HIDE DEF f
  <2>3. f \in Frame /\ Run(f, n) \subseteq Frame /\ f \in Run(f, n) /\ f + n <= NFrames
    BY <2>2, VMMAssumption DEF Frame, Run
  <2> QED  BY <2>2, <2>3 DEF f
<1> QED  BY <1>2, <1>3

WorldType == [mem : MemType, cont : [Frame -> Content], used : SUBSET Frame, tables : Seq(Frame),
           data : SUBSET Nat, at : 0 .. NFrames, core : {"ok", "lost"}]

LEMMA TakeFacts ==
  ASSUME NEW w \in WorldType, NEW n \in Nat \ {0}, NEW f \in Frame, f # 0, Run(f, n) \subseteq Frame
  PROVE  /\ Take(w, f, n) \in WorldType /\ TakeUnchecked(w, f, n) = Take(w, f, n)
         /\ Take(w, f, n).used = w.used \cup Run(f, n)
         /\ Take(w, f, n).tables = w.tables /\ Take(w, f, n).data = w.data
         /\ Take(w, f, n).at = w.at /\ Take(w, f, n).core = w.core
         /\ \A g \in Run(f, n) : Take(w, f, n).mem[g] = Blank
         /\ \A g \in Frame \ Run(f, n) : Take(w, f, n).mem[g] = w.mem[g] /\ Take(w, f, n).cont[g] = w.cont[g]
<1>1. Blank \in [Index -> [at : 0 .. NFrames, flags : {0, 5, 7}]]
  BY VMMAssumption DEF Blank, NoEntry, Entry
<1> DEFINE t == Take(w, f, n)
           M == [g \in Frame |-> IF g \in Run(f, n) THEN Blank ELSE w.mem[g]]
           C == [g \in Frame |-> IF g \in Run(f, n) THEN "zero" ELSE w.cont[g]]
<1>2. t = [w EXCEPT !.used = w.used \cup Run(f, n), !.mem = M, !.cont = C]
  BY DEF Take
<1>3. M \in MemType /\ C \in [Frame -> Content] /\ w.used \cup Run(f, n) \in SUBSET Frame
  BY <1>1 DEF WorldType, MemType, Content
<1>4. /\ \A g \in Run(f, n) : M[g] = Blank
      /\ \A g \in Frame \ Run(f, n) : M[g] = w.mem[g] /\ C[g] = w.cont[g]
  OBVIOUS
<1> HIDE DEF M, C, t
<1>5. /\ t \in WorldType /\ t.used = w.used \cup Run(f, n) /\ t.mem = M /\ t.cont = C
      /\ t.tables = w.tables /\ t.data = w.data /\ t.at = w.at /\ t.core = w.core
  BY <1>2, <1>3 DEF WorldType
<1>6. TakeUnchecked(w, f, n) = t
  BY DEF TakeUnchecked, t
<1> QED  BY <1>4, <1>5, <1>6 DEF t
-----------------------------------------------------------------------------
(* Walks.  What a walk on the pagemap of process p leaves: the labels of   *)
(* the world are right (WGood), it grew only by tables of p (Grown), and   *)
(* the frames of others are as before (Spares), even if it got lost.       *)

WGood(w, lab, p) ==
  /\ w \in WorldType /\ w.core = "ok"
  /\ lab \in Labels /\ Shape(lab, w.mem) /\ UsedAre(lab, w.used)
  /\ \A f \in Frame : f \in Tabs(lab, p) <=> f \in Range(w.tables)

Grown(lab, lab2, p, L) ==
  /\ \A f \in Frame : lab[f].lev # 0 => lab2[f] = lab[f]
  /\ \A f \in Frame : lab2[f] # lab[f] => lab2[f].who = p /\ lab2[f].lev \in L

Spares(lab, w, w2, p) ==
  \A f \in Frame : lab[f].lev # 0 /\ lab[f].who # p => w2.mem[f] = w.mem[f]

SameCont(lab, w, w2) == \A f \in Frame : lab[f].lev # 0 => w2.cont[f] = w.cont[f]

Goes(w, lab, w2, lab2, p, L) ==
  /\ WGood(w2, lab2, p) /\ Grown(lab, lab2, p, L) /\ Spares(lab, w, w2, p) /\ SameCont(lab, w, w2)

LEMMA GoesTrans ==
  ASSUME NEW p, NEW L, NEW w1, NEW w2, NEW w3, NEW l1, NEW l2, NEW l3,
         Goes(w1, l1, w2, l2, p, L), Goes(w2, l2, w3, l3, p, L)
  PROVE  Goes(w1, l1, w3, l3, p, L)
BY DEF Goes, Grown, Spares, SameCont

LEMMA LeavesTrans ==
  ASSUME NEW p, NEW L, NEW l1, NEW l2, Grown(l1, l2, p, L), NEW m1, NEW m2, NEW m3,
         SameLeaves(l1, m1, m2), SameLeaves(l2, m2, m3)
  PROVE  SameLeaves(l1, m1, m3)
<1> SUFFICES ASSUME NEW q \in Proc, NEW t \in Frame, NEW page \in UserPages, l1[t] = T(q, 1, 0)
             PROVE  LeafIn(m3, t, page) = LeafIn(m1, t, page)
  BY DEF SameLeaves
<1>1. l2[t] = T(q, 1, 0)
  BY TFacts DEF Grown
<1> QED  BY <1>1 DEF SameLeaves

LEMMA SparesTrans ==
  ASSUME NEW p, NEW L, NEW w1, NEW w2, NEW w3, NEW l1, NEW l2,
         Grown(l1, l2, p, L), Spares(l1, w1, w2, p), Spares(l2, w2, w3, p)
  PROVE  Spares(l1, w1, w3, p)
BY DEF Grown, Spares

LEMMA PushBack ==
  ASSUME NEW X, NEW v \in Seq(X), NEW x \in X
  PROVE  /\ push_back(v, x) \in Seq(X) /\ Len(push_back(v, x)) = Len(v) + 1
         /\ push_back(v, x)[Len(v) + 1] = x
         /\ \A k \in 1 .. Len(v) : push_back(v, x)[k] = v[k]
         /\ push_back(v, x) = Append(v, x)
<1> DEFINE n == Len(v) + 1
           s == [i \in 1 .. n |-> IF i = n THEN x ELSE v[i]]
<1>1. n \in Nat /\ n = Len(v) + 1 /\ \A i \in 1 .. Len(v) : v[i] \in X
  OBVIOUS
<1>2. resize(v, n) = [i \in 1 .. n |-> IF i <= Len(v) THEN v[i] ELSE Undefined]
  BY DEF resize, Size
<1>3. push_back(v, x) = [resize(v, n) EXCEPT ![n] = x]
  BY DEF push_back, Put, Size
<1>4. push_back(v, x) = s
  BY <1>1, <1>2, <1>3
<1>5. s \in Seq(X) /\ Len(s) = n
  <2>1. s \in [1 .. n -> X]
    BY <1>1
  <2> HIDE DEF s
  <2> QED  BY <1>1, <2>1
<1>6. s[n] = x /\ \A k \in 1 .. Len(v) : s[k] = v[k]
  BY <1>1
<1>7. s = Append(v, x)
  <2>1. Append(v, x) \in Seq(X) /\ Len(Append(v, x)) = n
    BY AppendProperties
  <2>2. \A k \in 1 .. n : Append(v, x)[k] = s[k]
    BY <1>1, <1>6, AppendProperties
  <2> HIDE DEF s
  <2> QED  BY <1>5, <2>1, <2>2, SeqEqual
<1> HIDE DEF s
<1> QED  BY <1>1, <1>4, <1>5, <1>6, <1>7

Pushes(v, x, s) == Len(s) = Len(v) + 1 /\ s[Len(v) + 1] = x /\ \A k \in 1 .. Len(v) : s[k] = v[k]

LEMMA PushesIt ==
  ASSUME NEW X, NEW v \in Seq(X), NEW x \in X
  PROVE  Pushes(v, x, push_back(v, x))
BY PushBack DEF Pushes

LEMMA RangeIs ==
  ASSUME NEW X, NEW v \in Seq(X)
  PROVE  \A y : y \in Range(v) <=> \E k \in 1 .. Len(v) : v[k] = y
BY DEF Range

LEMMA PushRange ==
  ASSUME NEW X, NEW v \in Seq(X), NEW x \in X
  PROVE  \A y : y \in Range(push_back(v, x)) <=> y \in Range(v) \/ y = x
<1> DEFINE s == push_back(v, x)
<1>1. s \in Seq(X) /\ Len(s) = Len(v) + 1 /\ s[Len(v) + 1] = x /\ \A k \in 1 .. Len(v) : s[k] = v[k]
  BY PushBack
<1> HIDE DEF s
<1>2. \A y : y \in Range(s) <=> \E k \in 1 .. Len(s) : s[k] = y
  BY <1>1, RangeIs
<1>3. \A y : y \in Range(v) <=> \E k \in 1 .. Len(v) : v[k] = y
  BY RangeIs
<1>4. Len(v) \in Nat
  OBVIOUS
<1>5. \A k \in 1 .. Len(s) : k = Len(v) + 1 \/ k \in 1 .. Len(v)
  BY <1>1, <1>4
<1>6. Len(v) + 1 \in 1 .. Len(s) /\ \A k \in 1 .. Len(v) : k \in 1 .. Len(s)
  BY <1>1, <1>4
<1> QED  BY <1>1, <1>2, <1>3, <1>5, <1>6 DEF s
LEMMA UsedLabels ==
  ASSUME NEW lab \in Labels, NEW u, UsedAre(lab, u)
  PROVE  /\ \A f \in Frame : lab[f].lev # 0 => f \in u /\ f # 0 /\ f # KernelTable
         /\ \A f \in Frame \ u : lab[f].lev = 0 /\ f # 0 /\ f # KernelTable
         /\ 0 \in Frame /\ KernelTable \in Frame
BY VMMAssumption DEF UsedAre, Frame, KernelTable

(* A world whose labels hold, with its field at moved.                     *)
LEMMA MoveAt ==
  ASSUME NEW w, NEW lab, NEW p, WGood(w, lab, p), NEW a \in 0 .. NFrames
  PROVE  LET w2 == [w EXCEPT !.at = a]
         IN  /\ Goes(w, lab, w2, lab, p, 2 .. 4) /\ w2.at = a /\ w2.mem = w.mem /\ w2.cont = w.cont
             /\ w2.data = w.data /\ w2.used = w.used /\ w2.tables = w.tables
             /\ \A L : Grown(lab, lab, p, L)
BY DEF WGood, WorldType, Goes, Grown, Spares, SameCont

(* One more table of process p.                                            *)
Link(w, g, e, f) ==
  [Take(w, f, 1) EXCEPT !.mem[g][e] = Entry(f, 7), !.tables = push_back(@, f), !.at = f]

TableAdded(w, g, e, f, v) ==
  /\ v \in WorldType /\ v.mem[g][e] = Entry(f, 7)
  /\ \A d \in Index : v.mem[f][d] = NoEntry
  /\ \A d \in Index \ {e} : v.mem[g][d] = w.mem[g][d]
  /\ \A h \in Frame \ {g, f} : v.mem[h] = w.mem[h]
  /\ v.used = w.used \cup {f} /\ v.tables = push_back(w.tables, f) /\ v.at = f
  /\ v.core = w.core /\ v.data = w.data
  /\ \A h \in Frame \ {f} : v.cont[h] = w.cont[h]

LEMMA TakeTable ==
  ASSUME NEW w \in WorldType, NEW g \in Frame, NEW e \in Index,
         NEW f \in Frame, f # 0, f \notin w.used, g \in w.used
  PROVE  TableAdded(w, g, e, f, Link(w, g, e, f))
<1> DEFINE t == Take(w, f, 1)
<1>1. Run(f, 1) = {f} /\ 1 \in Nat \ {0} /\ Run(f, 1) \subseteq Frame /\ g # f
  BY DEF Run, Frame
<1>2. /\ t \in WorldType /\ t.used = w.used \cup Run(f, 1) /\ t.tables = w.tables /\ t.data = w.data
      /\ t.core = w.core /\ \A h \in Run(f, 1) : t.mem[h] = Blank
      /\ \A h \in Frame \ Run(f, 1) : t.mem[h] = w.mem[h] /\ t.cont[h] = w.cont[h]
  BY <1>1, TakeFacts
<1> HIDE DEF t
<1> DEFINE n == [t.mem EXCEPT ![g][e] = Entry(f, 7)]
           ts == push_back(t.tables, f)
           v == [t EXCEPT !.mem[g][e] = Entry(f, 7), !.tables = push_back(@, f), !.at = f]
<1>4. Entry(f, 7) \in [at : 0 .. NFrames, flags : {0, 5, 7}]
  BY VMMAssumption DEF Entry, Frame
<1>5. /\ n \in MemType /\ (\A d \in Index : n[f][d] = NoEntry) /\ n[g][e] = Entry(f, 7)
      /\ \A d \in Index \ {e} : n[g][d] = w.mem[g][d]
      /\ \A h \in Frame \ {g, f} : n[h] = w.mem[h]
  <2>1. t.mem \in MemType /\ \A d \in Index : t.mem[f][d] = NoEntry
    BY <1>1, <1>2 DEF WorldType, Blank
  <2> QED  BY <1>1, <1>2, <1>4, <2>1 DEF MemType
<1>6. ts \in Seq(Frame) /\ f \in 0 .. NFrames
  <2>1. t.tables \in Seq(Frame) /\ f \in 0 .. NFrames
    BY <1>2, VMMAssumption DEF WorldType, Frame
  <2> QED  BY <2>1, PushBack
<1>7. v = [t EXCEPT !.mem = n, !.tables = ts, !.at = f]
  BY <1>2 DEF WorldType
<1> HIDE DEF n, ts, v
<1>8. /\ v \in WorldType /\ v.mem = n /\ v.used = t.used /\ v.cont = t.cont
      /\ v.tables = ts /\ v.at = f /\ v.core = t.core /\ v.data = t.data
  BY <1>2, <1>5, <1>6, <1>7 DEF WorldType
<1>9. v.used = w.used \cup {f} /\ ts = push_back(w.tables, f)
  BY <1>1, <1>2, <1>8 DEF ts
<1>10. \A h \in Frame \ {f} : v.cont[h] = w.cont[h]
  BY <1>1, <1>2, <1>8
<1>11. TableAdded(w, g, e, f, v)
  BY <1>2, <1>5, <1>8, <1>9, <1>10 DEF TableAdded
<1> QED  BY <1>11 DEF v, t, Link

LEMMA NewTable ==
  ASSUME NEW w, NEW lab, NEW p \in Proc, WGood(w, lab, p),
         NEW l \in 1 .. 3, NEW x \in Nat, NEW g \in Frame, lab[g] = T(p, l, x),
         NEW e \in Index, ~(l = 1 /\ e = KernelEntry), w.mem[g][e] = NoEntry,
         NEW k, k = l + 1, NEW y, y = x * Fan + e,
         NEW f \in Frame, f # 0, f \notin w.used,
         NEW v, TableAdded(w, g, e, f, v)
  PROVE  /\ \E lab2 : Goes(w, lab, v, lab2, p, 2 .. 4) /\ Has(lab2, p, k, y, v.at)
         /\ SameLeaves(lab, w.mem, v.mem)
<1> DEFINE lab2 == [lab EXCEPT ![f] = T(p, k, y)]
<1> USE DEF TableAdded
<1>0. w \in WorldType /\ lab \in Labels /\ w.core = "ok" /\ Shape(lab, w.mem) /\ UsedAre(lab, w.used)
  BY DEF WGood
<1>3. lab[f].lev = 0 /\ g # f /\ lab[g].lev = l /\ f # KernelTable
  BY <1>0, UsedLabels, TFacts
<1>7. k \in 2 .. 4 /\ y \in Nat
  BY VMMAssumption DEF Index
<1>8. /\ lab2[f] = T(p, k, y) /\ \A h \in Frame \ {f} : lab2[h] = lab[h]
      /\ lab2[f].who = p /\ lab2[f].lev = k /\ lab2 \in Labels
  BY <1>0, <1>7, TFacts DEF Labels, T
<1> HIDE DEF lab2
<1>6. Shape(lab2, v.mem) /\ SameLeaves(lab, w.mem, v.mem)
  <2> DEFINE m == w.mem
             n == v.mem
  <2>2. /\ m \in MemType /\ Shape(lab, m) /\ m[g][e] = NoEntry
        /\ n \in MemType /\ n[g][e] = Entry(f, 7) /\ \A d \in Index \ {e} : n[g][d] = m[g][d]
        /\ \A d \in Index : n[f][d] = NoEntry /\ \A h \in Frame \ {g, f} : n[h] = m[h]
    BY <1>0 DEF WorldType
  <2> HIDE DEF n, m
  <2>3. Shape(lab2, n) /\ SameLeaves(lab, m, n)
    BY <1>0, <1>3, <1>8, <2>2, AddTable
  <2> QED  BY <2>3 DEF m, n
<1>9. UsedAre(lab2, v.used)
  BY <1>0, <1>3, <1>7, <1>8, UsedLabels DEF UsedAre
<1>10. \A h \in Frame : h \in Tabs(lab2, p) <=> h \in Range(v.tables)
  <2>1. \A h : h \in Range(v.tables) <=> h \in Range(w.tables) \/ h = f
    <3>1. w.tables \in Seq(Frame)
      BY <1>0 DEF WorldType
    <3> QED  BY <3>1, PushRange
  <2>2. \A h \in Frame : h \in Tabs(lab2, p) <=> h \in Tabs(lab, p) \/ h = f
    BY <1>7, <1>8 DEF Tabs
  <2> QED  BY <2>1, <2>2 DEF WGood
<1>11. WGood(v, lab2, p)
  BY <1>0, <1>6, <1>8, <1>9, <1>10 DEF WGood
<1>12. Grown(lab, lab2, p, 2 .. 4)
  BY <1>3, <1>7, <1>8 DEF Grown
<1>13. Spares(lab, w, v, p) /\ SameCont(lab, w, v)
  <2>1. lab[g].who = p
    BY TFacts
  <2> QED  BY <1>3, <2>1 DEF Spares, SameCont
<1>14. Has(lab2, p, k, y, v.at)
  BY <1>8 DEF Has
<1> QED  BY <1>6, <1>11, <1>12, <1>13, <1>14 DEF Goes

(* The walk has reached the table of level l and number x.                 *)
Reaches(w, lab, p, l, x, v) ==
  /\ v \in WorldType /\ Spares(lab, w, v, p) /\ v.data = w.data
  /\ v.core = "ok" =>
       \E lab2 : /\ Goes(w, lab, v, lab2, p, 2 .. 4) /\ Has(lab2, p, l, x, v.at)
                 /\ SameLeaves(lab, w.mem, v.mem)

LEMMA NextLevel ==
  ASSUME NEW w, NEW lab, NEW p \in Proc, WGood(w, lab, p),
         NEW l \in 1 .. 3, NEW x \in Nat, Has(lab, p, l, x, w.at),
         NEW e \in Index, ~(l = 1 /\ e = KernelEntry),
         NEW k, k = l + 1, NEW y, y = x * Fan + e
  PROVE  Reaches(w, lab, p, k, y, get_next_level(w, e))
<1> DEFINE v == get_next_level(w, e)
           g == w.at
           f == alloc(w.used, 1)
<1>0. /\ w \in WorldType /\ lab \in Labels /\ w.core = "ok" /\ Shape(lab, w.mem) /\ UsedAre(lab, w.used)
      /\ w.mem \in MemType
  BY DEF WGood, WorldType
<1>1. g \in Frame /\ lab[g] = T(p, l, x) /\ lab[g].who = p
  BY TFacts DEF Has
<1>2. CASE w.mem[g][e] # NoEntry
  <2>1. v = [w EXCEPT !.at = w.mem[g][e].at]
    BY <1>0, <1>2 DEF get_next_level
  <2> HIDE DEF v
  <2>2. Below(w.mem, g, e) = w.mem[g][e].at /\ Finds(lab, p, k, y, w.mem[g][e].at)
    <3> DEFINE m == w.mem
               h == w.at
    <3>1. m \in MemType /\ Shape(lab, m) /\ m[h][e] # NoEntry /\ h \in Frame /\ lab[h] = T(p, l, x)
      BY <1>0, <1>1, <1>2
    <3> HIDE DEF m, h
    <3>2. Finds(lab, p, k, y, Below(m, h, e))
      BY <1>0, <3>1, Under
    <3>4. Below(m, h, e) = IF m[h][e] = NoEntry THEN -1 ELSE m[h][e].at
      BY <3>1 DEF Below, Frame
    <3>3. Below(m, h, e) = m[h][e].at /\ Finds(lab, p, k, y, m[h][e].at)
      BY <3>1, <3>2, <3>4
    <3> QED  BY <3>3 DEF m, h
  <2>3. w.mem[g][e].at \in Frame
    <3>1. lab[g].lev = l
      BY <1>1, TFacts
    <3> QED  BY <1>0, <1>1, <1>2, <3>1 DEF Shape, Leads
  <2>4. w.mem[g][e].at \in 0 .. NFrames /\ w.mem[g][e].at # -1
    BY <2>3, VMMAssumption DEF Frame
  <2>5. Goes(w, lab, v, lab, p, 2 .. 4) /\ v.at = w.mem[g][e].at /\ v.mem = w.mem /\ v.data = w.data
    BY <2>1, <2>4, MoveAt
  <2>6. Has(lab, p, k, y, v.at)
    BY <2>2, <2>4, <2>5 DEF Finds
  <2>7. SameLeaves(lab, w.mem, v.mem)
    BY <2>5 DEF SameLeaves
  <2> QED  BY <2>5, <2>6, <2>7 DEF Reaches, Goes, WGood, v
<1>3. CASE w.mem[g][e] = NoEntry
  <2> DEFINE t == TakeUnchecked(w, f, 1)
  <2>1. v = [t EXCEPT !.mem[g][e] = Entry(f, 7), !.tables = push_back(@, f), !.at = f]
    BY <1>0, <1>3 DEF get_next_level
  <2> HIDE DEF v
  <2>2. f \in Frame /\ (f # 0 => f \notin w.used /\ Run(f, 1) \subseteq Frame)
    <3>1. 1 \in Nat \ {0}
      OBVIOUS
    <3> QED  BY <3>1, AllocFacts
  <2> HIDE DEF f
  <2>3. CASE f = 0
    <3>1. t = [w EXCEPT !.core = "lost"]
      BY <2>3 DEF TakeUnchecked
    <3>2. t \in WorldType /\ t.mem = w.mem /\ t.core = "lost" /\ t.data = w.data /\ t.tables = w.tables
      BY <1>0, <3>1 DEF WorldType
    <3> HIDE DEF t
    <3> DEFINE n == [t.mem EXCEPT ![g][e] = Entry(f, 7)]
    <3>3. n \in MemType /\ \A h \in Frame \ {g} : n[h] = w.mem[h]
      <4>1. Entry(f, 7) \in [at : 0 .. NFrames, flags : {0, 5, 7}]
        BY <2>2, VMMAssumption DEF Entry, Frame
      <4> QED  BY <1>0, <1>1, <3>2, <4>1 DEF MemType
    <3>4. push_back(t.tables, f) \in Seq(Frame) /\ f \in 0 .. NFrames
      <4>1. t.tables \in Seq(Frame) /\ f \in 0 .. NFrames
        BY <2>2, <3>2, VMMAssumption DEF WorldType, Frame
      <4> QED  BY <2>2, <4>1, PushBack
    <3>5. v \in WorldType /\ v.mem = n /\ v.core = "lost" /\ v.data = w.data
      BY <2>1, <3>2, <3>3, <3>4 DEF WorldType
    <3>6. Spares(lab, w, v, p)
      BY <1>1, <3>3, <3>5 DEF Spares
    <3> QED  BY <3>5, <3>6 DEF Reaches, v
  <2>4. CASE f # 0
    <3>1. t = Take(w, f, 1)
      BY <2>4 DEF TakeUnchecked
    <3> HIDE DEF t
    <3>2. TableAdded(w, g, e, f, v)
      <4>1. g \in w.used
        BY <1>0, <1>1, UsedLabels, TFacts
      <4> HIDE DEF g
      <4>2. TableAdded(w, g, e, f, Link(w, g, e, f))
        BY <1>0, <1>1, <2>2, <2>4, <4>1, TakeTable
      <4> QED  BY <2>1, <3>1, <4>2 DEF Link
    <3>3. /\ \E lab2 : Goes(w, lab, v, lab2, p, 2 .. 4) /\ Has(lab2, p, k, y, v.at)
          /\ SameLeaves(lab, w.mem, v.mem)
      <4> HIDE DEF g
      <4> QED  BY <1>1, <1>3, <2>2, <2>4, <3>2, NewTable
    <3> QED  BY <3>2, <3>3 DEF Reaches, Goes, WGood, TableAdded, v
  <2> QED  BY <2>3, <2>4
<1> QED  BY <1>2, <1>3
LEMMA ReachesNext ==
  ASSUME NEW w, NEW lab, NEW p \in Proc, NEW v, NEW l \in 1 .. 3, NEW x \in Nat, Reaches(w, lab, p, l, x, v),
         NEW e \in Index, ~(l = 1 /\ e = KernelEntry),
         NEW k, k = l + 1, NEW y, y = x * Fan + e
  PROVE  Reaches(w, lab, p, k, y, get_next_level(v, e))
<1> DEFINE u == get_next_level(v, e)
<1>0. v \in WorldType /\ Spares(lab, w, v, p) /\ v.data = w.data
  BY DEF Reaches
<1>1. CASE v.core # "ok"
  <2>1. v.core = "lost"
    BY <1>0, <1>1 DEF WorldType
  <2>2. u = v
    BY <2>1 DEF get_next_level
  <2> QED  BY <1>0, <1>1, <2>2 DEF Reaches
<1>2. CASE v.core = "ok"
  <2>1. PICK lab2 : /\ Goes(w, lab, v, lab2, p, 2 .. 4) /\ Has(lab2, p, l, x, v.at)
                    /\ SameLeaves(lab, w.mem, v.mem)
    BY <1>2 DEF Reaches
  <2>2. WGood(v, lab2, p) /\ Grown(lab, lab2, p, 2 .. 4)
    BY <2>1 DEF Goes
  <2>3. Reaches(v, lab2, p, k, y, u)
    BY <2>1, <2>2, NextLevel
  <2> HIDE DEF u
  <2>4. u \in WorldType /\ Spares(lab2, v, u, p) /\ u.data = v.data
    BY <2>3 DEF Reaches
  <2>5. Spares(lab, w, u, p) /\ u.data = w.data
    BY <1>0, <2>2, <2>4, SparesTrans
  <2>6. ASSUME u.core = "ok"
        PROVE  \E lab3 : /\ Goes(w, lab, u, lab3, p, 2 .. 4) /\ Has(lab3, p, k, y, u.at)
                         /\ SameLeaves(lab, w.mem, u.mem)
    <3>1. PICK lab3 : /\ Goes(v, lab2, u, lab3, p, 2 .. 4) /\ Has(lab3, p, k, y, u.at)
                      /\ SameLeaves(lab2, v.mem, u.mem)
      BY <2>3, <2>6 DEF Reaches
    <3>2. Goes(w, lab, u, lab3, p, 2 .. 4)
      BY <2>1, <3>1, GoesTrans
    <3>3. SameLeaves(lab, w.mem, u.mem)
      BY <2>1, <2>2, <3>1, LeavesTrans
    <3> QED  BY <3>1, <3>2, <3>3
  <2>7. Reaches(w, lab, p, k, y, u)
    BY <2>4, <2>5, <2>6 DEF Reaches
  <2> QED  BY <2>7 DEF u
<1> QED  BY <1>1, <1>2

LEMMA WalkReaches ==
  ASSUME NEW w, NEW lab, NEW p \in Proc, WGood(w, lab, p), NEW top \in Frame, lab[top] = T(p, 1, 0),
         NEW virt \in Nat, NEW page \in UserPages, page = PageOf(virt)
  PROVE  Reaches(w, lab, p, 4, N4(page), Walk(w, top, virt))
<1> DEFINE start == [w EXCEPT !.at = top]
           pdp == get_next_level(start, E(page, 1))
           pd == get_next_level(pdp, E(page, 2))
<1>1. Walk(w, top, virt) = get_next_level(pd, E(page, 3))
  BY EntryOfPage DEF Walk
<1>2. Reaches(w, lab, p, 1, 0, start)
  <2>1. top \in 0 .. NFrames
    BY VMMAssumption DEF Frame
  <2>2. /\ Goes(w, lab, start, lab, p, 2 .. 4) /\ start.at = top /\ start.mem = w.mem /\ start.data = w.data
    BY <2>1, MoveAt
  <2> HIDE DEF start
  <2>3. SameLeaves(lab, w.mem, start.mem)
    BY <2>2 DEF SameLeaves
  <2>4. Has(lab, p, 1, 0, start.at)
    BY <2>2 DEF Has
  <2>5. Spares(lab, w, start, p) /\ start \in WorldType
    BY <2>2 DEF Goes, WGood
  <2> QED  BY <2>2, <2>3, <2>4, <2>5 DEF Reaches
<1> HIDE DEF start
<1>3. Reaches(w, lab, p, 2, N2(page), pdp)
  <2>1. 0 \in Nat /\ 1 \in 1 .. 3 /\ 2 = 1 + 1
    OBVIOUS
  <2>2. E(page, 1) \in Index /\ E(page, 1) # KernelEntry /\ N2(page) = 0 * Fan + E(page, 1)
    BY Digits
  <2> QED  BY <1>2, <2>1, <2>2, ReachesNext
<1> HIDE DEF pdp
<1>4. Reaches(w, lab, p, 3, N3(page), pd)
  <2>1. 2 \in 1 .. 3 /\ 3 = 2 + 1 /\ 2 # 1
    OBVIOUS
  <2>2. E(page, 2) \in Index /\ N3(page) = N2(page) * Fan + E(page, 2) /\ N2(page) \in Nat
    BY Digits
  <2> QED  BY <1>3, <2>1, <2>2, ReachesNext
<1> HIDE DEF pd
<1>5. Reaches(w, lab, p, 4, N4(page), get_next_level(pd, E(page, 3)))
  <2>1. 3 \in 1 .. 3 /\ 4 = 3 + 1 /\ 3 # 1
    OBVIOUS
  <2>2. E(page, 3) \in Index /\ N4(page) = N3(page) * Fan + E(page, 3) /\ N3(page) \in Nat
    BY Digits
  <2> QED  BY <1>4, <2>1, <2>2, ReachesNext
<1> QED  BY <1>1, <1>5

(* Of process p, i pages from page on show the frames from phys on; all    *)
(* other pages are as before.                                              *)
Painted(lab, p, m, n, page, i, phys, prot) ==
  \A q \in Proc, t \in Frame, z \in UserPages : lab[t] = T(q, 1, 0) =>
    LeafIn(n, t, z) = IF q = p /\ z >= page /\ z < page + i THEN Entry(phys + (z - page), prot)
                      ELSE LeafIn(m, t, z)

Maps(w, lab, p, page, i, phys, prot, u) ==
  /\ u \in WorldType /\ Spares(lab, w, u, p) /\ u.data = w.data
  /\ u.core = "ok" => w.core = "ok"
  /\ u.core = "ok" => \E lab2 : /\ Goes(w, lab, u, lab2, p, 2 .. 4)
                                /\ Painted(lab, p, w.mem, u.mem, page, i, phys, prot)

LEMMA MapPage ==
  ASSUME NEW w, NEW lab, NEW p \in Proc, WGood(w, lab, p), NEW top \in Frame, lab[top] = T(p, 1, 0),
         NEW virt \in Nat, NEW page \in UserPages, page = PageOf(virt),
         NEW phys \in 0 .. NFrames, NEW prot \in {5, 7}
  PROVE  Maps(w, lab, p, page, 1, phys, prot, map_page(w, top, virt, phys, prot))
<1> DEFINE l == Walk(w, top, virt)
           u == map_page(w, top, virt, phys, prot)
           e == E(page, 4)
<1>1. Reaches(w, lab, p, 4, N4(page), l)
  BY WalkReaches
<1>2. u = IF l.core = "lost" THEN l ELSE [l EXCEPT !.mem[l.at][e] = Entry(phys, prot)]
  BY EntryOfPage DEF map_page
<1> HIDE DEF l, u
<1>3. l \in WorldType /\ Spares(lab, w, l, p) /\ l.data = w.data
  BY <1>1 DEF Reaches
<1>4. CASE l.core = "lost"
  <2>1. u = l
    BY <1>2, <1>4
  <2> QED  BY <1>3, <1>4, <2>1 DEF Maps, u
<1>5. CASE l.core # "lost"
  <2>0. l.core = "ok"
    BY <1>3, <1>5 DEF WorldType
  <2>1. PICK lab2 : /\ Goes(w, lab, l, lab2, p, 2 .. 4) /\ Has(lab2, p, 4, N4(page), l.at)
                    /\ SameLeaves(lab, w.mem, l.mem)
    BY <1>1, <2>0 DEF Reaches
  <2> DEFINE f == l.at
             n == [l.mem EXCEPT ![f][e] = Entry(phys, prot)]
  <2>2. f \in Frame /\ lab2[f] = T(p, 4, N4(page))
    BY <2>1 DEF Has
  <2>3. e \in Index
    BY Digits
  <2>4. /\ n \in MemType /\ n[f][e] = Entry(phys, prot) /\ \A d \in Index \ {e} : n[f][d] = l.mem[f][d]
        /\ \A g \in Frame \ {f} : n[g] = l.mem[g]
    <3>1. l.mem \in MemType /\ Entry(phys, prot) \in [at : 0 .. NFrames, flags : {0, 5, 7}]
      BY <1>3 DEF WorldType, Entry
    <3> HIDE DEF f, e
    <3> QED  BY <2>2, <2>3, <3>1 DEF MemType
  <2>5. u = [l EXCEPT !.mem = n]
    BY <1>2, <1>3, <1>5 DEF WorldType
  <2> HIDE DEF n, f
  <2>6. /\ u \in WorldType /\ u.mem = n /\ u.core = "ok" /\ u.data = l.data /\ u.used = l.used
        /\ u.tables = l.tables /\ u.cont = l.cont
    BY <1>3, <2>0, <2>4, <2>5 DEF WorldType
  <2>7. lab2 \in Labels /\ l.mem \in MemType /\ Shape(lab2, l.mem) /\ Grown(lab, lab2, p, 2 .. 4)
    BY <2>1 DEF Goes, WGood, WorldType
  <2>8. /\ Shape(lab2, n)
        /\ \A t \in Frame : lab2[t] = T(p, 1, 0) => LeafIn(n, t, page) = Entry(phys, prot)
        /\ \A q \in Proc, t \in Frame, z \in UserPages :
              lab2[t] = T(q, 1, 0) /\ ~(q = p /\ z = page) => LeafIn(n, t, z) = LeafIn(l.mem, t, z)
    <3> DEFINE m == l.mem
    <3>1. /\ m \in MemType /\ Shape(lab2, m) /\ \A d \in Index \ {e} : n[f][d] = m[f][d]
          /\ \A g \in Frame \ {f} : n[g] = m[g]
      BY <2>4, <2>7
    <3> HIDE DEF m
    <3>2. /\ Shape(lab2, n)
          /\ \A t \in Frame : lab2[t] = T(p, 1, 0) => LeafIn(n, t, page) = Entry(phys, prot)
          /\ \A q \in Proc, t \in Frame, z \in UserPages :
              lab2[t] = T(q, 1, 0) /\ ~(q = p /\ z = page) => LeafIn(n, t, z) = LeafIn(m, t, z)
      BY <2>2, <2>4, <2>7, <3>1, SetEntry
    <3> QED  BY <3>2 DEF m
  <2>9. WGood(u, lab2, p)
    BY <2>1, <2>6, <2>7, <2>8 DEF WGood, Goes
  <2>10. Spares(lab, w, u, p)
    <3>1. ASSUME NEW g \in Frame, lab[g].lev # 0, lab[g].who # p PROVE u.mem[g] = w.mem[g]
      <4>1. lab2[g] = lab[g] /\ lab2[f].who = p
        BY <2>2, <2>7, <3>1, TFacts DEF Grown
      <4>2. g # f
        BY <3>1, <4>1
      <4> QED  BY <1>3, <2>4, <2>6, <3>1, <4>2 DEF Spares
    <3> QED  BY <3>1 DEF Spares
  <2>11. Goes(w, lab, u, lab2, p, 2 .. 4)
    BY <2>1, <2>6, <2>7, <2>9, <2>10 DEF Goes, SameCont
  <2>12. Painted(lab, p, w.mem, u.mem, page, 1, phys, prot)
    <3> SUFFICES ASSUME NEW q \in Proc, NEW t \in Frame, NEW z \in UserPages, lab[t] = T(q, 1, 0)
                 PROVE  LeafIn(u.mem, t, z) = IF q = p /\ z >= page /\ z < page + 1
                          THEN Entry(phys + (z - page), prot) ELSE LeafIn(w.mem, t, z)
      BY DEF Painted
    <3>0. z \in Nat /\ page \in Nat /\ (z >= page /\ z < page + 1 <=> z = page)
      BY Digits
    <3>1. lab2[t] = T(q, 1, 0)
      BY <2>7, TFacts DEF Grown
    <3>2. CASE q = p /\ z = page
      <4>1. LeafIn(n, t, z) = Entry(phys, prot) /\ phys + (z - page) = phys
        BY <2>8, <3>0, <3>1, <3>2
      <4> QED  BY <2>6, <3>0, <3>2, <4>1
    <3>3. CASE ~(q = p /\ z = page)
      <4>1. LeafIn(n, t, z) = LeafIn(l.mem, t, z)
        BY <2>8, <3>1, <3>3
      <4>2. LeafIn(l.mem, t, z) = LeafIn(w.mem, t, z)
        BY <2>1 DEF SameLeaves
      <4> QED  BY <2>6, <3>0, <3>3, <4>1, <4>2
    <3> QED  BY <3>2, <3>3
  <2>13. Maps(w, lab, p, page, 1, phys, prot, u)
    BY <1>3, <2>6, <2>10, <2>11, <2>12 DEF Maps, WGood
  <2> QED  BY <2>13 DEF u
<1> QED  BY <1>4, <1>5
Fits(w, f) == w.core = "ok" => f \in 0 .. NFrames

(* The next page of a range.  A walk that is lost stays where it is.       *)
LEMMA MapNext ==
  ASSUME NEW w, NEW lab, NEW p \in Proc, NEW top \in Frame, lab[top] = T(p, 1, 0),
         NEW page \in Nat, NEW i \in Nat, NEW phys \in Nat, NEW prot \in {5, 7}, NEW u,
         Maps(w, lab, p, page, i, phys, prot, u),
         NEW virt \in Nat, NEW z \in UserPages, z = page + i, z = PageOf(virt),
         NEW f \in Nat, f = phys + i, Fits(w, f), NEW j, j = i + 1
  PROVE  Maps(w, lab, p, page, j, phys, prot, map_page(u, top, virt, f, prot))
<1> DEFINE v == map_page(u, top, virt, f, prot)
<1>0. u \in WorldType /\ Spares(lab, w, u, p) /\ u.data = w.data
  BY DEF Maps
<1>1. CASE u.core # "ok"
  <2> DEFINE s == [u EXCEPT !.at = top]
  <2>1. s \in WorldType /\ s.core = "lost" /\ s.mem = u.mem /\ s.data = u.data
    <3>1. top \in 0 .. NFrames
      BY VMMAssumption DEF Frame
    <3> QED  BY <1>0, <1>1, <3>1 DEF WorldType
  <2> HIDE DEF s
  <2>2. \A e : get_next_level(s, e) = s
    BY <2>1 DEF get_next_level
  <2>3. Walk(u, top, virt) = s
    BY <2>2 DEF Walk, s
  <2>4. v = s
    BY <2>1, <2>3 DEF map_page
  <2> HIDE DEF v
  <2> QED  BY <1>0, <2>1, <2>4 DEF Maps, Spares, v
<1>2. CASE u.core = "ok"
  <2>1. PICK lab2 : /\ Goes(w, lab, u, lab2, p, 2 .. 4) /\ Painted(lab, p, w.mem, u.mem, page, i, phys, prot)
    BY <1>2 DEF Maps
  <2>2. WGood(u, lab2, p) /\ Grown(lab, lab2, p, 2 .. 4) /\ lab2[top] = T(p, 1, 0)
    BY <2>1, TFacts DEF Goes, Grown
  <2>0. w.core = "ok" /\ f \in 0 .. NFrames
    BY <1>2 DEF Maps, Fits
  <2>3. Maps(u, lab2, p, z, 1, f, prot, v)
    BY <2>0, <2>2, MapPage
  <2> HIDE DEF v
  <2>4. v \in WorldType /\ Spares(lab2, u, v, p) /\ v.data = w.data
    BY <1>0, <2>3 DEF Maps
  <2>5. Spares(lab, w, v, p)
    BY <1>0, <2>2, <2>4, SparesTrans
  <2>6. ASSUME v.core = "ok"
        PROVE  \E lab3 : /\ Goes(w, lab, v, lab3, p, 2 .. 4) /\ Painted(lab, p, w.mem, v.mem, page, j, phys, prot)
    <3>1. PICK lab3 : /\ Goes(u, lab2, v, lab3, p, 2 .. 4) /\ Painted(lab2, p, u.mem, v.mem, z, 1, f, prot)
      BY <2>3, <2>6 DEF Maps
    <3>2. Goes(w, lab, v, lab3, p, 2 .. 4)
      BY <2>1, <3>1, GoesTrans
    <3>3. Painted(lab, p, w.mem, v.mem, page, j, phys, prot)
      <4> SUFFICES ASSUME NEW q \in Proc, NEW t \in Frame, NEW y \in UserPages, lab[t] = T(q, 1, 0)
                   PROVE  LeafIn(v.mem, t, y) = IF q = p /\ y >= page /\ y < page + j
                            THEN Entry(phys + (y - page), prot) ELSE LeafIn(w.mem, t, y)
        BY DEF Painted
      <4>0. y \in Nat /\ z \in Nat
        BY Digits
      <4>1. lab2[t] = T(q, 1, 0)
        BY <2>2, TFacts DEF Grown
      <4>2. LeafIn(v.mem, t, y) = IF q = p /\ y >= z /\ y < z + 1
                            THEN Entry(f + (y - z), prot) ELSE LeafIn(u.mem, t, y)
        BY <3>1, <4>1 DEF Painted
      <4>3. LeafIn(u.mem, t, y) = IF q = p /\ y >= page /\ y < page + i
                            THEN Entry(phys + (y - page), prot) ELSE LeafIn(w.mem, t, y)
        BY <2>1 DEF Painted
      <4>4. f + (y - z) = phys + (y - page)
        BY <4>0
      <4>5. (y >= page /\ y < page + j) <=> (y >= z /\ y < z + 1) \/ (y >= page /\ y < page + i)
        BY <4>0
      <4> QED  BY <4>2, <4>3, <4>4, <4>5
    <3> QED  BY <3>2, <3>3
  <2>7. Maps(w, lab, p, page, j, phys, prot, v)
    BY <2>0, <2>4, <2>5, <2>6 DEF Maps
  <2> QED  BY <2>7 DEF v
<1> QED  BY <1>1, <1>2

(* A range, with the page after it.                                        *)
LEMMA MapRange ==
  ASSUME NEW w, NEW lab, NEW p \in Proc, NEW top \in Frame, lab[top] = T(p, 1, 0),
         NEW virt \in Nat, NEW c \in Nat \ {0}, PageOf(virt) + c \in UserPages,
         NEW phys \in Frame, w.core = "ok" => phys + c <= NFrames, NEW prot \in {5, 7},
         Maps(w, lab, p, PageOf(virt), 0, phys, prot, w)
  PROVE  Maps(w, lab, p, PageOf(virt), c + 1, phys, prot,
              map_range_raw(w, top, virt, phys, c * PageSize, prot))
<1> DEFINE n == (c * PageSize) \div PageSize + 1
           page == PageOf(virt)
           Page(u, k) == map_page(u, top, virt + (k - 1) * PageSize, phys + k - 1, prot)
           Value(g, k) == IF k = 0 THEN w ELSE Page(g[k - 1], k)
           Step(g, m) == [k \in 0 .. m |-> Value(g, k)]
           loop == CHOOSE g : g = Step(g, n)
           M(k, u) == Maps(w, lab, p, page, k, phys, prot, u)
           S == {m \in Nat : \E g : g = Step(g, m)}
<1>0. n = c + 1 /\ page \in Nat /\ page + c < (Fan - 1) * Span[1]
  <2>1. (c * PageSize + 0) \div PageSize = c
    BY VMMAssumption, DivIs
  <2>2. c * PageSize + 0 = c * PageSize
    BY VMMAssumption
  <2>3. page \in Nat
    BY PageFacts
  <2> QED  BY <2>1, <2>2, <2>3, SpanFacts, VMMAssumption DEF UserPages
<1>1. map_range_raw(w, top, virt, phys, c * PageSize, prot) = loop[n]
  BY DEF map_range_raw
<1>2. ASSUME NEW k \in 0 .. c, NEW u, M(k, u) PROVE M(k + 1, Page(u, k + 1))
  <2> DEFINE at == virt + (k + 1 - 1) * PageSize
             f == phys + (k + 1) - 1
             z == page + k
             j == k + 1
  <2>1. k \in Nat /\ at \in Nat /\ at = virt + k * PageSize
    BY VMMAssumption
  <2>2. Fits(w, f) /\ f = phys + k /\ phys \in Nat /\ f \in Nat
    BY VMMAssumption DEF Frame, Fits
  <2>3. z = PageOf(at) /\ z \in UserPages
    <3>1. PageOf(virt + k * PageSize) = page + k
      BY <2>1, PageFacts
    <3>2. page + k \in Nat /\ page + k <= page + c
      BY <1>0, <2>1
    <3>3. page + k \in UserPages
      BY <1>0, <3>2, SpanFacts, VMMAssumption DEF UserPages
    <3> QED  BY <2>1, <3>1, <3>3
  <2> HIDE DEF at, f
  <2>4. z = page + k /\ j = k + 1
    OBVIOUS
  <2>5. Maps(w, lab, p, page, k, phys, prot, u)
    BY <1>2
  <2> HIDE DEF z, page, j
  <2>6. /\ page \in Nat /\ k \in Nat /\ phys \in Nat /\ at \in Nat /\ z \in UserPages /\ f \in Nat /\ Fits(w, f)
        /\ z = page + k /\ z = PageOf(at) /\ f = phys + k /\ j = k + 1
    BY <1>0, <2>1, <2>2, <2>3, <2>4
  <2>7. Maps(w, lab, p, page, j, phys, prot, map_page(u, top, at, f, prot))
    BY <2>5, <2>6, MapNext
  <2> QED  BY <2>7 DEF at, f, j, page
<1>3. 0 \in S
  <2> DEFINE g == [k \in 0 .. 0 |-> w]
  <2>2. g = Step(g, 0)
    OBVIOUS
  <2> QED  BY <2>2
<1>4. ASSUME NEW m \in Nat, m \in S PROVE m + 1 \in S
  <2>1. PICK g : g = Step(g, m)
    BY <1>4
  <2> DEFINE h == [k \in 0 .. m + 1 |-> IF k = m + 1 THEN Page(g[m], m + 1) ELSE g[k]]
  <2> HIDE DEF Page
  <2>2. ASSUME NEW k \in 0 .. m + 1
        PROVE  h[k] = Value(h, k)
    <3>1. CASE k = m + 1
      <4>1. k # 0 /\ k - 1 = m /\ h[m] = g[m]
        BY <3>1
      <4> QED  BY <3>1, <4>1
    <3>2. CASE k # m + 1
      <4>1. k \in 0 .. m /\ h[k] = g[k] /\ (k # 0 => k - 1 \in 0 .. m /\ h[k - 1] = g[k - 1])
        BY <3>2
      <4>2. g[k] = Value(g, k)
        BY <2>1, <4>1
      <4> QED  BY <4>1, <4>2
    <3> QED  BY <3>1, <3>2
  <2>3. h = Step(h, m + 1)
    BY <2>2
  <2> HIDE DEF h, Value
  <2> QED  BY <2>3
<1>5. n \in S
  <2>1. Nat \subseteq S
    <3> HIDE DEF S
    <3> QED  BY <1>3, <1>4, SetInduction
  <2>2. n \in Nat
    BY <1>0
  <2> HIDE DEF S, n
  <2> QED  BY <2>1, <2>2
<1> HIDE DEF n
<1>6. \A k \in 0 .. n : loop[k] = Value(loop, k)
  <2>1. loop = Step(loop, n)
    BY <1>5
  <2> HIDE DEF loop, Value
  <2> QED  BY <2>1
<1> HIDE DEF loop, Page, M
<1>7. \A k \in 0 .. n : M(k, loop[k])
  <2> DEFINE G == {k \in Nat : k <= n => M(k, loop[k])}
  <2>1. 0 \in G
    <3>1. loop[0] = w
      BY <1>0, <1>6
    <3> QED  BY <3>1 DEF M
  <2>2. ASSUME NEW k \in Nat, k \in G PROVE k + 1 \in G
    <3> SUFFICES ASSUME k + 1 <= n PROVE M(k + 1, loop[k + 1])
      OBVIOUS
    <3>1. M(k, loop[k]) /\ k \in 0 .. c
      BY <1>0, <2>2
    <3>2. loop[k + 1] = Page(loop[k], k + 1)
      BY <1>0, <1>6
    <3> QED  BY <1>2, <3>1, <3>2
  <2>3. Nat \subseteq G
    <3> HIDE DEF G
    <3> QED  BY <2>1, <2>2, SetInduction
  <2> QED  BY <1>0, <2>3
<1>8. M(c + 1, loop[n])
  BY <1>0, <1>7
<1> QED  BY <1>1, <1>8 DEF M
-----------------------------------------------------------------------------
(* Frames for an area                                                      *)

DataTaken(w, f, n, v) ==
  /\ v \in WorldType /\ v.used = w.used \cup Run(f, n) /\ v.tables = w.tables /\ v.core = w.core
  /\ \A g \in Frame \ Run(f, n) : v.mem[g] = w.mem[g] /\ v.cont[g] = w.cont[g]

(* The frames of area k of process p, and no others, are new.              *)
NewData(lab, lab2, p, k, S) ==
  \A g \in Frame, j \in Nat : lab2[g] = T(p, 5, j) <=> lab[g] = T(p, 5, j) \/ (j = k /\ g \in S)

LEMMA TakeData ==
  ASSUME NEW w, NEW lab, NEW p \in Proc, WGood(w, lab, p), NEW n \in Nat \ {0}, NEW f \in Frame,
         Run(f, n) \subseteq Frame, Run(f, n) \cap w.used = {}, NEW k \in Nat,
         NEW v, DataTaken(w, f, n, v)
  PROVE  \E lab2 : /\ Goes(w, lab, v, lab2, p, 2 .. 5) /\ SameLeaves(lab, w.mem, v.mem)
                   /\ NewData(lab, lab2, p, k, Run(f, n))
<1> DEFINE R == Run(f, n)
           lab2 == [g \in Frame |-> IF g \in R THEN T(p, 5, k) ELSE lab[g]]
<1>0. /\ w \in WorldType /\ lab \in Labels /\ w.core = "ok" /\ Shape(lab, w.mem) /\ UsedAre(lab, w.used)
      /\ w.mem \in MemType /\ v.mem \in MemType
  BY DEF WGood, WorldType, DataTaken
<1>1. lab2 \in Labels
  BY <1>0 DEF Labels, T
<1>2. \A g \in R : lab2[g] = T(p, 5, k) /\ lab2[g].lev = 5 /\ lab2[g].who = p
  BY TFacts
<1>3. \A g \in Frame \ R : lab2[g] = lab[g]
  OBVIOUS
<1>4. \A g \in R : lab[g].lev = 0 /\ g # 0 /\ g # KernelTable
  BY <1>0, UsedLabels
<1> HIDE DEF lab2
<1>5. Shape(lab2, v.mem) /\ SameLeaves(lab, w.mem, v.mem)
  <2> DEFINE m == w.mem
             o == v.mem
  <2>1. \A g \in Frame : lab2[g].lev # 0 => lab2[g].who \in Proc
    BY <1>0, <1>2, <1>3 DEF Shape
  <2>2. \A g \in Frame : lab[g].lev \in 1 .. 4 /\ lab[g].who \in Proc => lab2[g] = lab[g] /\ o[g] = m[g]
    BY <1>3, <1>4 DEF DataTaken
  <2>3. \A g \in Frame : lab2[g].lev \in 1 .. 4 => lab2[g] = lab[g] /\ lab[g].who \in Proc
    BY <1>0, <1>2, <1>3 DEF Shape
  <2>4. m \in MemType /\ o \in MemType /\ Shape(lab, m)
    BY <1>0
  <2> HIDE DEF m, o
  <2>5. Kept(lab, m, lab2, o, Proc)
    BY <2>1, <2>2, <2>3 DEF Kept
  <2>6. /\ Shape(lab2, o)
        /\ \A q \in Proc, t \in Frame, page \in UserPages :
              lab[t] = T(q, 1, 0) => lab2[t] = lab[t] /\ LeafIn(o, t, page) = LeafIn(m, t, page)
    BY <1>0, <1>1, <2>4, <2>5, Keep
  <2> QED  BY <2>6 DEF SameLeaves, m, o
<1>6. UsedAre(lab2, v.used)
  <2>1. \A g \in Frame : lab2[g].lev # 0 <=> lab[g].lev # 0 \/ g \in R
    BY <1>2, <1>3
  <2>2. 0 \notin R /\ KernelTable \notin R /\ 0 \in Frame /\ KernelTable \in Frame
    BY <1>0, <1>4, UsedLabels
  <2>3. v.used = w.used \cup R
    BY DEF DataTaken
  <2>4. w.used = {0, KernelTable} \cup {g \in Frame : lab[g].lev # 0} /\ lab[0].lev = 0 /\ lab[KernelTable].lev = 0
    BY <1>0 DEF UsedAre
  <2>5. R \subseteq Frame
    OBVIOUS
  <2> HIDE DEF R
  <2>6. v.used = {0, KernelTable} \cup {g \in Frame : lab2[g].lev # 0}
    BY <2>1, <2>3, <2>4, <2>5
  <2>7. lab2[0].lev = 0 /\ lab2[KernelTable].lev = 0
    BY <1>3, <2>2, <2>4
  <2> QED  BY <2>6, <2>7 DEF UsedAre
<1>7. \A g \in Frame : g \in Tabs(lab2, p) <=> g \in Range(v.tables)
  <2>1. \A g \in Frame : g \in Tabs(lab2, p) <=> g \in Tabs(lab, p)
    BY <1>2, <1>3, <1>4 DEF Tabs
  <2> QED  BY <2>1 DEF WGood, DataTaken
<1>8. WGood(v, lab2, p)
  BY <1>0, <1>1, <1>5, <1>6, <1>7 DEF WGood, DataTaken
<1>9. Grown(lab, lab2, p, 2 .. 5)
  BY <1>2, <1>3, <1>4 DEF Grown
<1>10. Spares(lab, w, v, p) /\ SameCont(lab, w, v)
  BY <1>4 DEF Spares, SameCont, DataTaken
<1>11. NewData(lab, lab2, p, k, R)
  <2> SUFFICES ASSUME NEW g \in Frame, NEW j \in Nat
               PROVE  lab2[g] = T(p, 5, j) <=> lab[g] = T(p, 5, j) \/ (j = k /\ g \in R)
    BY DEF NewData
  <2>1. CASE g \in R
    <3>1. lab[g] # T(p, 5, j)
      BY <1>4, <2>1, TFacts
    <3>2. lab2[g] = T(p, 5, j) <=> j = k
      BY <1>2, <2>1, TFacts
    <3> QED  BY <2>1, <3>1, <3>2
  <2>2. CASE g \notin R
    BY <1>3, <2>2
  <2> QED  BY <2>1, <2>2
<1> QED  BY <1>5, <1>8, <1>9, <1>10, <1>11 DEF Goes

LEMMA GoesMore ==
  ASSUME NEW p, NEW w1, NEW w2, NEW l1, NEW l2, Goes(w1, l1, w2, l2, p, 2 .. 4)
  PROVE  /\ Goes(w1, l1, w2, l2, p, 2 .. 5)
         /\ \A g \in Frame, j \in Nat : l2[g] = T(p, 5, j) <=> l1[g] = T(p, 5, j)
<1>1. Grown(l1, l2, p, 2 .. 4)
  BY DEF Goes
<1>2. Grown(l1, l2, p, 2 .. 5)
  BY <1>1 DEF Grown
<1>3. ASSUME NEW g \in Frame, NEW j \in Nat PROVE l2[g] = T(p, 5, j) <=> l1[g] = T(p, 5, j)
  BY <1>1, TFacts DEF Grown
<1> QED  BY <1>2, <1>3 DEF Goes

(* The frames of an area are filled.                                       *)
Filled(w, f, c, x, page) ==
  [w EXCEPT !.cont = [g \in Frame |-> IF g \in Run(f, c) THEN <<x, page + g - f>> ELSE @[g]]]

IsFilled(w, f, c, x, page, v) ==
  /\ v \in WorldType /\ v.mem = w.mem /\ v.used = w.used /\ v.tables = w.tables
  /\ v.core = w.core /\ v.data = w.data /\ v.at = w.at
  /\ \A g \in Frame \ Run(f, c) : v.cont[g] = w.cont[g]
  /\ \A g \in Frame : g \in Run(f, c) => v.cont[g] = <<x, page + g - f>>

LEMMA FilledFacts ==
  ASSUME NEW w \in WorldType, NEW f \in Frame, NEW c \in Nat, NEW x \in Nat, NEW page \in Nat
  PROVE  IsFilled(w, f, c, x, page, Filled(w, f, c, x, page))
<1> DEFINE C == [g \in Frame |-> IF g \in Run(f, c) THEN <<x, page + g - f>> ELSE w.cont[g]]
           v == Filled(w, f, c, x, page)
<1>1. v = [w EXCEPT !.cont = C]
  BY DEF Filled
<1>2. C \in [Frame -> Content]
  <2>1. \A g \in Run(f, c) : page + g - f \in Nat
    BY DEF Run, Frame
  <2>2. w.cont \in [Frame -> Content]
    BY DEF WorldType
  <2> QED  BY <2>1, <2>2 DEF Content
<1>3. /\ \A g \in Frame \ Run(f, c) : C[g] = w.cont[g]
      /\ \A g \in Frame : g \in Run(f, c) => C[g] = <<x, page + g - f>>
  OBVIOUS
<1> HIDE DEF C, v
<1>4. /\ v \in WorldType /\ v.mem = w.mem /\ v.used = w.used /\ v.tables = w.tables
      /\ v.core = w.core /\ v.data = w.data /\ v.at = w.at /\ v.cont = C
  BY <1>1, <1>2 DEF WorldType
<1> QED  BY <1>3, <1>4 DEF v, IsFilled

(* What allocating, filling and mapping an area leaves.                    *)
AreaGot(w, lab, p, k, page, c, f, prot, x, m) ==
  /\ m \in WorldType /\ Spares(lab, w, m, p)
  /\ m.core = "ok" =>
       /\ f # 0 /\ Run(f, c) \subseteq Frame
       /\ \E lab2 : Goes(w, lab, m, lab2, p, 2 .. 5) /\ NewData(lab, lab2, p, k, Run(f, c))
       /\ Painted(lab, p, w.mem, m.mem, page, c + 1, f, prot)
       /\ \A g \in Run(f, c) : m.cont[g] = <<x, page + g - f>>

LEMMA GetArea ==
  ASSUME NEW w, NEW lab, NEW p \in Proc, WGood(w, lab, p), NEW top \in Frame, lab[top] = T(p, 1, 0),
         NEW virt \in Nat, NEW c \in Nat \ {0}, PageOf(virt) + c \in UserPages,
         NEW prot \in {5, 7}, NEW x \in Nat, NEW k \in Nat, NEW f, f = alloc(w.used, c)
  PROVE  AreaGot(w, lab, p, k, PageOf(virt), c, f, prot, x,
                 map_range_raw(Filled(TakeUnchecked(w, f, c), f, c, x, PageOf(virt)), top, virt, f,
                               c * PageSize, prot))
<1> DEFINE page == PageOf(virt)
           t == TakeUnchecked(w, f, c)
           s == Filled(t, f, c, x, page)
           m == map_range_raw(s, top, virt, f, c * PageSize, prot)
<1>0. w \in WorldType /\ w.core = "ok" /\ page \in Nat
  BY PageFacts DEF WGood
<1>1. f \in Frame /\ (f # 0 => Run(f, c) \subseteq Frame /\ Run(f, c) \cap w.used = {} /\ f + c <= NFrames)
  BY AllocFacts
<1>2. CASE f = 0
  <2>1. t = [w EXCEPT !.core = "lost"]
    BY <1>2 DEF TakeUnchecked
  <2>2. t \in WorldType /\ t.mem = w.mem /\ t.core = "lost"
    BY <1>0, <2>1 DEF WorldType
  <2> HIDE DEF t
  <2>3. s \in WorldType /\ s.mem = w.mem /\ s.core = "lost"
    <3>1. IsFilled(t, f, c, x, page, s)
      BY <1>0, <1>1, <2>2, FilledFacts
    <3> QED  BY <2>2, <3>1 DEF IsFilled
  <2> HIDE DEF s
  <2>4. Maps(s, lab, p, page, 0, f, prot, s) /\ (s.core = "ok" => f + c <= NFrames)
    BY <2>3 DEF Maps, Spares
  <2> HIDE DEF page
  <2>5. Maps(s, lab, p, page, c + 1, f, prot, m)
    BY <1>1, <2>4, MapRange DEF page
  <2> HIDE DEF m
  <2>6. m \in WorldType /\ m.core # "ok" /\ Spares(lab, s, m, p)
    BY <2>3, <2>5 DEF Maps
  <2>7. Spares(lab, w, m, p)
    BY <2>3, <2>6 DEF Spares
  <2> QED  BY <2>6, <2>7 DEF AreaGot, m, s, t, page
<1>3. CASE f # 0
  <2>1. t = Take(w, f, c)
    BY <1>3 DEF TakeUnchecked
  <2>2. /\ t \in WorldType /\ t.used = w.used \cup Run(f, c) /\ t.tables = w.tables /\ t.core = w.core
        /\ t.data = w.data
        /\ \A g \in Frame \ Run(f, c) : t.mem[g] = w.mem[g] /\ t.cont[g] = w.cont[g]
    BY <1>0, <1>1, <1>3, <2>1, TakeFacts
  <2> HIDE DEF t
  <2>3. /\ s \in WorldType /\ s.mem = t.mem /\ s.used = t.used /\ s.tables = t.tables
        /\ s.core = t.core /\ s.data = t.data
        /\ \A g \in Frame \ Run(f, c) : s.cont[g] = t.cont[g]
        /\ \A g \in Frame : g \in Run(f, c) => s.cont[g] = <<x, page + g - f>>
    <3>1. IsFilled(t, f, c, x, page, s)
      BY <1>0, <1>1, <2>2, FilledFacts
    <3> QED  BY <3>1 DEF IsFilled
  <2> HIDE DEF s
  <2>4. DataTaken(w, f, c, s)
    BY <2>2, <2>3 DEF DataTaken
  <2>5. PICK lab1 : /\ Goes(w, lab, s, lab1, p, 2 .. 5) /\ SameLeaves(lab, w.mem, s.mem)
                    /\ NewData(lab, lab1, p, k, Run(f, c))
    BY <1>1, <1>3, <2>4, TakeData
  <2>6. WGood(s, lab1, p) /\ lab1[top] = T(p, 1, 0) /\ Grown(lab, lab1, p, 2 .. 5)
    BY <2>5, TFacts DEF Goes, Grown
  <2>7. Maps(s, lab1, p, page, 0, f, prot, s)
    <3>1. Goes(s, lab1, s, lab1, p, 2 .. 4)
      BY <2>6 DEF Goes, Grown, Spares, SameCont
    <3>2. Painted(lab1, p, s.mem, s.mem, page, 0, f, prot)
      <4>1. \A z \in UserPages : ~(z >= page /\ z < page + 0)
        BY <1>0, Digits
      <4> QED  BY <4>1 DEF Painted
    <3> QED  BY <2>3, <3>1, <3>2 DEF Maps, Spares
  <2> HIDE DEF page
  <2>8. Maps(s, lab1, p, page, c + 1, f, prot, m)
    BY <1>1, <1>3, <2>6, <2>7, MapRange DEF page
  <2> HIDE DEF m
  <2>9. m \in WorldType /\ Spares(lab1, s, m, p)
    BY <2>8 DEF Maps
  <2>10. Spares(lab, w, m, p)
    <3>1. Spares(lab, w, s, p)
      BY <2>5 DEF Goes
    <3> QED  BY <2>6, <2>9, <3>1, SparesTrans
  <2>11. ASSUME m.core = "ok"
         PROVE  /\ \E lab2 : Goes(w, lab, m, lab2, p, 2 .. 5) /\ NewData(lab, lab2, p, k, Run(f, c))
                /\ Painted(lab, p, w.mem, m.mem, page, c + 1, f, prot)
                /\ \A g \in Run(f, c) : m.cont[g] = <<x, page + g - f>>
    <3>1. PICK lab2 : /\ Goes(s, lab1, m, lab2, p, 2 .. 4)
                      /\ Painted(lab1, p, s.mem, m.mem, page, c + 1, f, prot)
      BY <2>8, <2>11 DEF Maps
    <3>2. /\ Goes(s, lab1, m, lab2, p, 2 .. 5)
          /\ \A g \in Frame, j \in Nat : lab2[g] = T(p, 5, j) <=> lab1[g] = T(p, 5, j)
      BY <3>1, GoesMore
    <3>3. Goes(w, lab, m, lab2, p, 2 .. 5)
      BY <2>5, <3>2, GoesTrans
    <3>4. NewData(lab, lab2, p, k, Run(f, c))
      BY <2>5, <3>2 DEF NewData
    <3>5. Painted(lab, p, w.mem, m.mem, page, c + 1, f, prot)
      <4> SUFFICES ASSUME NEW q \in Proc, NEW tt \in Frame, NEW z \in UserPages, lab[tt] = T(q, 1, 0)
                   PROVE  LeafIn(m.mem, tt, z) = IF q = p /\ z >= page /\ z < page + (c + 1)
                            THEN Entry(f + (z - page), prot) ELSE LeafIn(w.mem, tt, z)
        BY DEF Painted
      <4>1. lab1[tt] = T(q, 1, 0)
        BY <2>6, TFacts DEF Grown
      <4>2. LeafIn(m.mem, tt, z) = IF q = p /\ z >= page /\ z < page + (c + 1)
                            THEN Entry(f + (z - page), prot) ELSE LeafIn(s.mem, tt, z)
        BY <3>1, <4>1 DEF Painted
      <4>3. LeafIn(s.mem, tt, z) = LeafIn(w.mem, tt, z)
        BY <2>5 DEF SameLeaves
      <4> QED  BY <4>2, <4>3
    <3>6. ASSUME NEW g \in Run(f, c) PROVE m.cont[g] = <<x, page + g - f>>
      <4>1. g \in Frame /\ lab1[g] = T(p, 5, k)
        BY <1>1, <1>3, <2>5 DEF NewData
      <4>2. lab1[g].lev # 0
        BY <4>1, TFacts
      <4>3. m.cont[g] = s.cont[g]
        BY <3>1, <4>1, <4>2 DEF Goes, SameCont
      <4> QED  BY <2>3, <4>1, <4>3
    <3> QED  BY <3>3, <3>4, <3>5, <3>6
  <2>12. AreaGot(w, lab, p, k, page, c, f, prot, x, m)
    BY <1>1, <1>3, <2>9, <2>10, <2>11 DEF AreaGot
  <2> QED  BY <2>12 DEF m, s, t, page
<1> QED  BY <1>2, <1>3
-----------------------------------------------------------------------------
(* Copying a range                                                         *)

(* Of process c, i pages from page on show frames of D with the contents   *)
(* of program x there; all other pages are as before.                      *)
ShownAt(n, t, z, C, D, prot, x) ==
  /\ LeafIn(n, t, z).at \in D /\ LeafIn(n, t, z).flags = prot
  /\ C[LeafIn(n, t, z).at] = <<x, z>>

Shown(lab, c, m, n, C, D, page, i, prot, x) ==
  \A q \in Proc, t \in Frame, z \in UserPages : lab[t] = T(q, 1, 0) =>
    IF q = c /\ z >= page /\ z < page + i THEN ShownAt(n, t, z, C, D, prot, x)
    ELSE LeafIn(n, t, z) = LeafIn(m, t, z)

Dup(w, lab, c, k, page, i, prot, x, u) ==
  /\ u \in WorldType /\ Spares(lab, w, u, c)
  /\ u.core = "ok" =>
       /\ \E lab2 : Goes(w, lab, u, lab2, c, 2 .. 5) /\ NewData(lab, lab2, c, k, u.data)
       /\ u.data \subseteq Frame
       /\ Shown(lab, c, w.mem, u.mem, u.cont, u.data, page, i, prot, x)

Prots == {5, 7}

(* The frame for one page, and the copy in it.                             *)
Copied(u, f, y) == [TakeUnchecked(u, f, 1) EXCEPT !.cont[f] = y]

DupOf(u, f, y, top, z, prot) ==
  [map_page(Copied(u, f, y), top, z * PageSize, f, prot) EXCEPT !.data = @ \cup {f}]

PageDup(u, lab, c, k, z, f, prot, x, v) ==
  /\ v \in WorldType /\ Spares(lab, u, v, c)
  /\ v.core = "ok" =>
       \E lab2 : /\ Goes(u, lab, v, lab2, c, 2 .. 5) /\ NewData(lab, lab2, c, k, {f})
                 /\ Painted(lab, c, u.mem, v.mem, z, 1, f, prot)
                 /\ v.cont[f] = <<x, z>> /\ v.data = u.data \cup {f} /\ f \in Frame

(* Process r forks into the pagemap top; its page z has program x's data.  *)
ForksInto(r, top) == proc[proc[r].child].pml4 = top
HasPage(r, z, x) == cont[Leaf(r, z).at] = <<x, z>>
HasPages(r, page, n, x) == \A z \in page .. page + n - 1 : z \in UserPages /\ HasPage(r, z, x)

LEMMA CopiedFacts ==
  ASSUME NEW u \in WorldType, u.core = "ok", NEW f, f = alloc(u.used, 1), NEW y \in Content
  PROVE  LET s == Copied(u, f, y)
         IN  /\ f \in Frame /\ s \in WorldType /\ s.data = u.data
             /\ f = 0 => s.core = "lost" /\ s.mem = u.mem
             /\ f # 0 => /\ Run(f, 1) = {f} /\ Run(f, 1) \cap u.used = {}
                         /\ DataTaken(u, f, 1, s) /\ s.cont[f] = y
<1> DEFINE t == TakeUnchecked(u, f, 1)
           s == Copied(u, f, y)
           C == [t.cont EXCEPT ![f] = y]
<1>1. f \in Frame /\ (f # 0 => Run(f, 1) \cap u.used = {})
  <2>1. 1 \in Nat \ {0}
    OBVIOUS
  <2> QED  BY <2>1, AllocFacts
<1>2. Run(f, 1) = {f}
  BY <1>1 DEF Run, Frame
<1>3. t \in WorldType /\ t.data = u.data /\ (f = 0 => t.core = "lost" /\ t.mem = u.mem)
      /\ (f # 0 => DataTaken(u, f, 1, t))
  <2>1. CASE f = 0
    <3>1. t = [u EXCEPT !.core = "lost"]
      BY <2>1 DEF TakeUnchecked
    <3> QED  BY <2>1, <3>1 DEF WorldType
  <2>2. CASE f # 0
    <3>1. t = Take(u, f, 1) /\ 1 \in Nat \ {0} /\ Run(f, 1) \subseteq Frame
      BY <1>1, <1>2, <2>2 DEF TakeUnchecked
    <3>2. /\ t \in WorldType /\ t.used = u.used \cup Run(f, 1) /\ t.tables = u.tables /\ t.core = u.core
          /\ t.data = u.data
          /\ \A g \in Frame \ Run(f, 1) : t.mem[g] = u.mem[g] /\ t.cont[g] = u.cont[g]
      <4> HIDE DEF t
      <4> QED  BY <1>1, <2>2, <3>1, TakeFacts
    <3> HIDE DEF t
    <3>3. DataTaken(u, f, 1, t)
      BY <3>2 DEF DataTaken
    <3> QED  BY <2>2, <3>2, <3>3
  <2> QED  BY <2>1, <2>2
<1>4. s = [t EXCEPT !.cont = C]
  BY DEF Copied
<1> HIDE DEF t
<1>5. C \in [Frame -> Content] /\ C[f] = y /\ \A g \in Frame \ {f} : C[g] = t.cont[g]
  <2>1. t.cont \in [Frame -> Content]
    BY <1>3 DEF WorldType
  <2> QED  BY <1>1, <2>1
<1> HIDE DEF C, s
<1>6. /\ s \in WorldType /\ s.data = t.data /\ s.core = t.core /\ s.mem = t.mem /\ s.cont = C
      /\ s.used = t.used /\ s.tables = t.tables
  BY <1>3, <1>4, <1>5 DEF WorldType
<1>7. f # 0 => DataTaken(u, f, 1, s)
  BY <1>2, <1>3, <1>5, <1>6 DEF DataTaken
<1>8. s.cont[f] = y
  BY <1>5, <1>6
<1>9. f = 0 => s.core = "lost" /\ s.mem = u.mem
  BY <1>3, <1>6
<1> QED  BY <1>1, <1>2, <1>3, <1>6, <1>7, <1>8, <1>9 DEF s

(* A lost world does not change when a page is mapped.                     *)
LEMMA MapLost ==
  ASSUME NEW u \in WorldType, u.core = "lost", NEW top \in Frame, NEW virt, NEW f, NEW prot
  PROVE  LET v == map_page(u, top, virt, f, prot)
         IN  v \in WorldType /\ v.core = "lost" /\ v.mem = u.mem /\ v.data = u.data
<1> DEFINE s == [u EXCEPT !.at = top]
           v == map_page(u, top, virt, f, prot)
<1>1. s \in WorldType /\ s.core = "lost" /\ s.mem = u.mem /\ s.data = u.data
  <2>1. top \in 0 .. NFrames
    BY VMMAssumption DEF Frame
  <2> QED  BY <2>1 DEF WorldType
<1> HIDE DEF s
<1>2. \A e : get_next_level(s, e) = s
  BY <1>1 DEF get_next_level
<1>3. Walk(u, top, virt) = s
  BY <1>2 DEF Walk, s
<1>4. v = s
  BY <1>1, <1>3 DEF map_page
<1> QED  BY <1>1, <1>4

(* One page, from a world that is not lost.                                *)
LEMMA DupPage ==
  ASSUME NEW u, NEW lab, NEW c \in Proc, WGood(u, lab, c), NEW top \in Frame, lab[top] = T(c, 1, 0),
         NEW z \in UserPages, NEW prot \in {5, 7}, NEW x \in Nat, NEW k \in Nat,
         NEW y, y = <<x, z>>, NEW f, f = alloc(u.used, 1)
  PROVE  PageDup(u, lab, c, k, z, f, prot, x, DupOf(u, f, y, top, z, prot))
<1> DEFINE m == map_page(Copied(u, f, y), top, z * PageSize, f, prot)
           v == DupOf(u, f, y, top, z, prot)
           s == Copied(u, f, y)
<1>0. u \in WorldType /\ u.core = "ok" /\ z \in Nat /\ y \in Content
  <2>1. z \in Nat
    BY Digits
  <2> QED  BY <2>1 DEF WGood, Content
<1>1. /\ f \in Frame /\ s \in WorldType /\ s.data = u.data
      /\ f = 0 => s.core = "lost" /\ s.mem = u.mem
      /\ f # 0 => /\ Run(f, 1) = {f} /\ Run(f, 1) \cap u.used = {}
                  /\ DataTaken(u, f, 1, s) /\ s.cont[f] = y
  BY <1>0, CopiedFacts
<1>2. f \in Nat /\ {f} \subseteq Nat /\ f \in 0 .. NFrames
  BY <1>1, VMMAssumption DEF Frame
<1>6. v = [m EXCEPT !.data = @ \cup {f}]
  BY DEF DupOf
<1> HIDE DEF s, m, v
<1>3. ASSUME m \in WorldType
      PROVE  /\ v \in WorldType /\ v.mem = m.mem /\ v.cont = m.cont /\ v.used = m.used
             /\ v.tables = m.tables /\ v.core = m.core /\ v.data = m.data \cup {f}
  BY <1>2, <1>3, <1>6 DEF WorldType
<1>4. CASE f = 0
  <2>1. m \in WorldType /\ m.core = "lost" /\ m.mem = s.mem
    <3>1. s \in WorldType /\ s.core = "lost" /\ m = map_page(s, top, z * PageSize, f, prot)
      BY <1>1, <1>4 DEF s, m
    <3> QED  BY <3>1, MapLost
  <2> QED  BY <1>1, <1>3, <1>4, <2>1 DEF Spares, PageDup, v
<1>5. CASE f # 0
  <2>1. PICK lab1 : /\ Goes(u, lab, s, lab1, c, 2 .. 5) /\ SameLeaves(lab, u.mem, s.mem)
                    /\ NewData(lab, lab1, c, k, Run(f, 1))
    <3>1. 1 \in Nat \ {0} /\ Run(f, 1) \subseteq Frame /\ Run(f, 1) \cap u.used = {} /\ DataTaken(u, f, 1, s)
      BY <1>1, <1>5
    <3> QED  BY <1>1, <3>1, TakeData
  <2>2. WGood(s, lab1, c) /\ lab1[top] = T(c, 1, 0) /\ Grown(lab, lab1, c, 2 .. 5) /\ Spares(lab, u, s, c)
    BY <2>1, TFacts DEF Goes, Grown
  <2>3. Maps(s, lab1, c, z, 1, f, prot, m)
    <3> DEFINE virt == z * PageSize
    <3>1. virt \in Nat /\ z = PageOf(virt)
      BY <1>0, VMMAssumption, PageFacts
    <3>2. m = map_page(s, top, virt, f, prot)
      BY DEF s, m
    <3> HIDE DEF virt
    <3> QED  BY <1>2, <2>2, <3>1, <3>2, MapPage
  <2>4. m \in WorldType /\ Spares(lab1, s, m, c) /\ m.data = s.data
    BY <2>3 DEF Maps
  <2>5. /\ v \in WorldType /\ v.mem = m.mem /\ v.cont = m.cont /\ v.used = m.used
        /\ v.tables = m.tables /\ v.core = m.core /\ v.data = u.data \cup {f}
    BY <1>1, <1>3, <2>4
  <2>6. Spares(lab, u, v, c)
    <3>1. Spares(lab, u, m, c)
      BY <2>2, <2>4, SparesTrans
    <3> QED  BY <2>5, <3>1 DEF Spares
  <2>7. ASSUME v.core = "ok"
        PROVE  \E lab2 : /\ Goes(u, lab, v, lab2, c, 2 .. 5) /\ NewData(lab, lab2, c, k, {f})
                         /\ Painted(lab, c, u.mem, v.mem, z, 1, f, prot)
                         /\ v.cont[f] = <<x, z>>
    <3>1. PICK lab2 : Goes(s, lab1, m, lab2, c, 2 .. 4) /\ Painted(lab1, c, s.mem, m.mem, z, 1, f, prot)
      BY <2>3, <2>5, <2>7 DEF Maps
    <3>2. /\ Goes(s, lab1, m, lab2, c, 2 .. 5)
          /\ \A g \in Frame, j \in Nat : lab2[g] = T(c, 5, j) <=> lab1[g] = T(c, 5, j)
      BY <3>1, GoesMore
    <3>3. Goes(u, lab, m, lab2, c, 2 .. 5)
      BY <2>1, <3>2, GoesTrans
    <3>4. Goes(u, lab, v, lab2, c, 2 .. 5)
      BY <2>5, <3>3 DEF Goes, WGood, Spares, SameCont
    <3>5. NewData(lab, lab2, c, k, {f})
      BY <1>1, <1>5, <2>1, <3>2 DEF NewData
    <3>6. Painted(lab, c, u.mem, v.mem, z, 1, f, prot)
      <4> SUFFICES ASSUME NEW q \in Proc, NEW t \in Frame, NEW o \in UserPages, lab[t] = T(q, 1, 0)
                   PROVE  LeafIn(v.mem, t, o) = IF q = c /\ o >= z /\ o < z + 1
                            THEN Entry(f + (o - z), prot) ELSE LeafIn(u.mem, t, o)
        BY DEF Painted
      <4>1. lab1[t] = T(q, 1, 0)
        BY <2>2, TFacts DEF Grown
      <4>2. LeafIn(m.mem, t, o) = IF q = c /\ o >= z /\ o < z + 1
                            THEN Entry(f + (o - z), prot) ELSE LeafIn(s.mem, t, o)
        BY <3>1, <4>1 DEF Painted
      <4>3. LeafIn(s.mem, t, o) = LeafIn(u.mem, t, o)
        BY <2>1 DEF SameLeaves
      <4> QED  BY <2>5, <4>2, <4>3
    <3>7. v.cont[f] = <<x, z>>
      <4>1. f \in Frame /\ lab1[f] = T(c, 5, k)
        BY <1>1, <1>5, <2>1 DEF NewData
      <4>2. lab1[f].lev # 0
        BY <4>1, TFacts
      <4>3. m.cont[f] = s.cont[f]
        BY <3>1, <4>1, <4>2 DEF Goes, SameCont
      <4> QED  BY <1>1, <1>5, <2>5, <4>3
    <3> QED  BY <3>4, <3>5, <3>6, <3>7
  <2> QED  BY <1>1, <2>5, <2>6, <2>7 DEF PageDup, v
<1> QED  BY <1>4, <1>5
LEMMA DupNext ==
  ASSUME NEW w, NEW lab, NEW c \in Proc, NEW top \in Frame, lab[top] = T(c, 1, 0),
         NEW page \in Nat, NEW i \in Nat, NEW prot \in Prots, NEW x \in Nat, NEW k \in Nat, NEW u,
         Dup(w, lab, c, k, page, i, prot, x, u),
         NEW r, ForksInto(r, top),
         NEW z \in UserPages, z = page + i, HasPage(r, z, x), NEW j, j = i + 1
  PROVE  Dup(w, lab, c, k, page, j, prot, x, DuplicatePage(u, r, z, prot))
<1> DEFINE v == DuplicatePage(u, r, z, prot)
<1>0. u \in WorldType /\ Spares(lab, w, u, c)
  BY DEF Dup
<1>1. CASE u.core # "ok"
  <2>1. u.core = "lost"
    BY <1>0, <1>1 DEF WorldType
  <2>2. v = u
    BY <2>1 DEF DuplicatePage
  <2> QED  BY <1>0, <1>1, <2>2 DEF Dup
<1>2. CASE u.core = "ok"
  <2>1. PICK lab1 : Goes(w, lab, u, lab1, c, 2 .. 5) /\ NewData(lab, lab1, c, k, u.data)
    BY <1>2 DEF Dup
  <2>2. /\ u.data \subseteq Frame
        /\ Shown(lab, c, w.mem, u.mem, u.cont, u.data, page, i, prot, x)
    BY <1>2 DEF Dup
  <2>3. WGood(u, lab1, c) /\ Grown(lab, lab1, c, 2 .. 5) /\ lab1[top] = T(c, 1, 0)
    BY <2>1, TFacts DEF Goes, Grown
  <2> DEFINE f == alloc(u.used, 1)
             y == <<x, z>>
  <2>4. v = DupOf(u, f, y, top, z, prot)
    BY <1>2 DEF DuplicatePage, Copied, DupOf, ForksInto, HasPage
  <2> HIDE DEF f, y, v
  <2>5. y = <<x, z>> /\ f = alloc(u.used, 1)
    BY DEF f, y
  <2>6. PageDup(u, lab1, c, k, z, f, prot, x, v)
    BY <2>3, <2>4, <2>5, DupPage DEF Prots
  <2>7. Spares(lab, w, v, c)
    <3>1. Spares(lab1, u, v, c)
      BY <2>6 DEF PageDup
    <3> QED  BY <1>0, <2>3, <3>1, SparesTrans
  <2>8. ASSUME v.core = "ok"
        PROVE  /\ \E lab2 : Goes(w, lab, v, lab2, c, 2 .. 5) /\ NewData(lab, lab2, c, k, v.data)
               /\ v.data \subseteq Frame
               /\ Shown(lab, c, w.mem, v.mem, v.cont, v.data, page, j, prot, x)
    <3>1. PICK lab2 : /\ Goes(u, lab1, v, lab2, c, 2 .. 5) /\ NewData(lab1, lab2, c, k, {f})
                      /\ Painted(lab1, c, u.mem, v.mem, z, 1, f, prot)
                      /\ v.cont[f] = <<x, z>> /\ v.data = u.data \cup {f} /\ f \in Frame
      BY <2>6, <2>8 DEF PageDup
    <3>2. Goes(w, lab, v, lab2, c, 2 .. 5)
      BY <2>1, <3>1, GoesTrans
    <3>3. NewData(lab, lab2, c, k, v.data)
      BY <2>1, <3>1 DEF NewData
    <3>4. v.data \subseteq Frame
      BY <2>2, <3>1
    <3>5. Shown(lab, c, w.mem, v.mem, v.cont, v.data, page, j, prot, x)
      <4> SUFFICES ASSUME NEW q \in Proc, NEW t \in Frame, NEW o \in UserPages, lab[t] = T(q, 1, 0)
                   PROVE  IF q = c /\ o >= page /\ o < page + j THEN ShownAt(v.mem, t, o, v.cont, v.data, prot, x)
                          ELSE LeafIn(v.mem, t, o) = LeafIn(w.mem, t, o)
        BY DEF Shown
      <4>0. o \in Nat /\ z \in Nat
        BY Digits
      <4>1. lab1[t] = T(q, 1, 0)
        BY <2>3, TFacts DEF Grown
      <4>2. LeafIn(v.mem, t, o) = IF q = c /\ o >= z /\ o < z + 1
                            THEN Entry(f + (o - z), prot) ELSE LeafIn(u.mem, t, o)
        BY <3>1, <4>1 DEF Painted
      <4>3. IF q = c /\ o >= page /\ o < page + i THEN ShownAt(u.mem, t, o, u.cont, u.data, prot, x)
            ELSE LeafIn(u.mem, t, o) = LeafIn(w.mem, t, o)
        BY <2>2 DEF Shown
      <4>4. CASE q = c /\ o = z
        <5>1. LeafIn(v.mem, t, o) = Entry(f + (o - z), prot) /\ f + (o - z) = f
          BY <3>1, <4>0, <4>2, <4>4 DEF Frame
        <5>2. LeafIn(v.mem, t, o).at = f /\ LeafIn(v.mem, t, o).flags = prot
          BY <5>1 DEF Entry
        <5>3. ShownAt(v.mem, t, o, v.cont, v.data, prot, x)
          BY <3>1, <4>4, <5>2 DEF ShownAt
        <5> QED  BY <4>0, <4>4, <5>3
      <4>5. CASE q = c /\ o >= page /\ o < page + i
        <5>1. LeafIn(v.mem, t, o) = LeafIn(u.mem, t, o) /\ ShownAt(u.mem, t, o, u.cont, u.data, prot, x)
          BY <4>0, <4>2, <4>3, <4>5
        <5> DEFINE a == LeafIn(u.mem, t, o).at
        <5>2. a \in u.data /\ a \in Frame
          BY <2>2, <5>1 DEF ShownAt
        <5>3. lab1[a] = T(c, 5, k)
          BY <2>1, <5>2 DEF NewData
        <5>4. v.cont[a] = u.cont[a]
          BY <3>1, <5>2, <5>3, TFacts DEF Goes, SameCont
        <5>5. ShownAt(v.mem, t, o, v.cont, v.data, prot, x)
          BY <3>1, <5>1, <5>2, <5>4 DEF ShownAt
        <5> QED  BY <4>0, <4>5, <5>5
      <4>6. CASE ~(q = c /\ o >= page /\ o < page + j)
        BY <4>0, <4>2, <4>3, <4>6
      <4> QED  BY <4>0, <4>4, <4>5, <4>6
    <3> QED  BY <3>2, <3>3, <3>4, <3>5
  <2>9. Dup(w, lab, c, k, page, j, prot, x, v)
    BY <2>6, <2>7, <2>8 DEF Dup, PageDup
  <2> QED  BY <2>9 DEF v
<1> QED  BY <1>1, <1>2

LEMMA DupRange ==
  ASSUME NEW w, NEW lab, NEW c \in Proc, WGood(w, lab, c), w.data = {}, NEW top \in Frame, lab[top] = T(c, 1, 0),
         NEW page \in Nat, NEW n \in Nat,
         NEW prot \in Prots, NEW x \in Nat, NEW k \in Nat,
         NEW r, ForksInto(r, top), HasPages(r, page, n, x)
  PROVE  Dup(w, lab, c, k, page, n, prot, x, DuplicatePages(w, r, page, n, prot))
<1> DEFINE Page(u, t) == DuplicatePage(u, r, page + t - 1, prot)
           Value(g, t) == IF t = 0 THEN w ELSE Page(g[t - 1], t)
           Step(g, m) == [t \in 0 .. m |-> Value(g, t)]
           loop == CHOOSE g : g = Step(g, n)
           M(t, u) == Dup(w, lab, c, k, page, t, prot, x, u)
           S == {m \in Nat : \E g : g = Step(g, m)}
<1>1. DuplicatePages(w, r, page, n, prot) = loop[n]
  BY DEF DuplicatePages
<1>2. ASSUME NEW t \in 0 .. n, t # n, NEW u, M(t, u) PROVE M(t + 1, Page(u, t + 1))
  <2> DEFINE z == page + (t + 1) - 1
             j == t + 1
  <2>1. /\ t \in Nat /\ z = page + t /\ z \in page .. page + n - 1 /\ j = t + 1
    BY <1>2
  <2> HIDE DEF z, j
  <2>2. z \in UserPages /\ HasPage(r, z, x) /\ t \in Nat /\ z = page + t /\ j = t + 1
    BY <2>1 DEF HasPages
  <2>3. Dup(w, lab, c, k, page, t, prot, x, u)
    BY <1>2
  <2>4. Dup(w, lab, c, k, page, j, prot, x, DuplicatePage(u, r, z, prot))
    BY <2>2, <2>3, DupNext
  <2> QED  BY <2>4 DEF z, j
<1>3. 0 \in S
  <2> DEFINE g == [t \in 0 .. 0 |-> w]
  <2>2. g = Step(g, 0)
    OBVIOUS
  <2> QED  BY <2>2
<1>4. ASSUME NEW m \in Nat, m \in S PROVE m + 1 \in S
  <2>1. PICK g : g = Step(g, m)
    BY <1>4
  <2> DEFINE h == [t \in 0 .. m + 1 |-> IF t = m + 1 THEN Page(g[m], m + 1) ELSE g[t]]
  <2> HIDE DEF Page
  <2>2. ASSUME NEW t \in 0 .. m + 1
        PROVE  h[t] = Value(h, t)
    <3>1. CASE t = m + 1
      <4>1. t # 0 /\ t - 1 = m /\ h[m] = g[m]
        BY <3>1
      <4> QED  BY <3>1, <4>1
    <3>2. CASE t # m + 1
      <4>1. t \in 0 .. m /\ h[t] = g[t] /\ (t # 0 => t - 1 \in 0 .. m /\ h[t - 1] = g[t - 1])
        BY <3>2
      <4>2. g[t] = Value(g, t)
        BY <2>1, <4>1
      <4> QED  BY <4>1, <4>2
    <3> QED  BY <3>1, <3>2
  <2>3. h = Step(h, m + 1)
    BY <2>2
  <2> HIDE DEF h, Value
  <2> QED  BY <2>3
<1>5. n \in S
  <2>1. Nat \subseteq S
    <3> HIDE DEF S
    <3> QED  BY <1>3, <1>4, SetInduction
  <2> HIDE DEF S
  <2> QED  BY <2>1
<1>6. \A t \in 0 .. n : loop[t] = Value(loop, t)
  <2>1. loop = Step(loop, n)
    BY <1>5
  <2> HIDE DEF loop, Value
  <2> QED  BY <2>1
<1>7. Dup(w, lab, c, k, page, 0, prot, x, w)
  <2>1. Goes(w, lab, w, lab, c, 2 .. 5) /\ NewData(lab, lab, c, k, w.data)
    BY DEF Goes, Grown, Spares, SameCont, NewData
  <2>2. Shown(lab, c, w.mem, w.mem, w.cont, w.data, page, 0, prot, x)
    <3>1. \A z \in UserPages : ~(z >= page /\ z < page + 0)
      BY Digits
    <3> QED  BY <3>1 DEF Shown
  <2>3. w \in WorldType /\ Spares(lab, w, w, c) /\ w.data \subseteq Frame
    BY DEF WGood, Spares
  <2> QED  BY <2>1, <2>2, <2>3 DEF Dup
<1> HIDE DEF loop, Page, M
<1>8. \A t \in 0 .. n : M(t, loop[t])
  <2> DEFINE G == {t \in Nat : t <= n => M(t, loop[t])}
  <2>1. 0 \in G
    <3>1. loop[0] = w
      BY <1>6
    <3> QED  BY <1>7, <3>1 DEF M
  <2>2. ASSUME NEW t \in Nat, t \in G PROVE t + 1 \in G
    <3> SUFFICES ASSUME t + 1 <= n PROVE M(t + 1, loop[t + 1])
      OBVIOUS
    <3>1. M(t, loop[t]) /\ t \in 0 .. n /\ t # n
      BY <2>2
    <3>2. loop[t + 1] = Page(loop[t], t + 1)
      BY <1>6
    <3> QED  BY <1>2, <3>1, <3>2
  <2>3. Nat \subseteq G
    <3> HIDE DEF G
    <3> QED  BY <2>1, <2>2, SetInduction
  <2> QED  BY <2>3
<1>9. M(n, loop[n])
  BY <1>8
<1> QED  BY <1>1, <1>9 DEF M

(* A walk to a page that is mapped allocates nothing.                      *)
LEMMA WalkThere ==
  ASSUME NEW w \in WorldType, w.core = "ok", NEW top \in Frame, NEW virt \in Nat, NEW page \in UserPages,
         page = PageOf(virt), LeafIn(w.mem, top, page) # NoEntry
  PROVE  virtual_to_physical(w, top, virt) = [w EXCEPT !.at = LeafIn(w.mem, top, page).at]
<1> DEFINE a == Below(w.mem, top, E(page, 1))
           b == Below(w.mem, a, E(page, 2))
           d == Below(w.mem, b, E(page, 3))
           L == LeafIn(w.mem, top, page)
<1>1. L = IF d = -1 THEN NoEntry ELSE w.mem[d][E(page, 4)]
  BY DEF LeafIn, E
<1>2. d # -1 /\ b # -1 /\ a # -1 /\ top # -1
  <2>1. d # -1
    <3> HIDE DEF d
    <3> QED  BY <1>1
  <2>2. b # -1
    <3> HIDE DEF b
    <3> QED  BY <2>1 DEF Below
  <2>3. a # -1
    <3> HIDE DEF a
    <3> QED  BY <2>2 DEF Below
  <2> QED  BY <2>1, <2>2, <2>3 DEF Frame
<1>3. ASSUME NEW g, g # -1, NEW e, Below(w.mem, g, e) # -1
      PROVE  get_next_level([w EXCEPT !.at = g], e) = [w EXCEPT !.at = Below(w.mem, g, e)]
  <2> DEFINE s == [w EXCEPT !.at = g]
  <2>1. s.core = "ok" /\ s.mem = w.mem /\ s.at = g
    BY DEF WorldType
  <2>2. w.mem[g][e] # NoEntry /\ Below(w.mem, g, e) = w.mem[g][e].at
    BY <1>3 DEF Below
  <2>3. get_next_level(s, e) = [s EXCEPT !.at = s.mem[s.at][e].at]
    BY <2>1, <2>2 DEF get_next_level
  <2>4. get_next_level(s, e) = [s EXCEPT !.at = Below(w.mem, g, e)]
    BY <2>1, <2>2, <2>3
  <2> QED  BY <2>4
<1> HIDE DEF a, b, d, L
<1>4. get_next_level([w EXCEPT !.at = top], E(page, 1)) = [w EXCEPT !.at = a]
  BY <1>2, <1>3 DEF a
<1>5. get_next_level([w EXCEPT !.at = a], E(page, 2)) = [w EXCEPT !.at = b]
  BY <1>2, <1>3 DEF b
<1>6. get_next_level([w EXCEPT !.at = b], E(page, 3)) = [w EXCEPT !.at = d]
  BY <1>2, <1>3 DEF d
<1>7. Walk(w, top, virt) = [w EXCEPT !.at = d]
  BY <1>4, <1>5, <1>6, EntryOfPage DEF Walk
<1> DEFINE s == [w EXCEPT !.at = d]
<1>8. s.core = "ok" /\ s.mem = w.mem /\ s.at = d
  BY DEF WorldType
<1>9. virtual_to_physical(w, top, virt) = [s EXCEPT !.at = s.mem[s.at][E(page, 4)].at]
  BY <1>7, <1>8, EntryOfPage DEF virtual_to_physical
<1>10. s.mem[s.at][E(page, 4)].at = L.at
  BY <1>1, <1>2, <1>8
<1> HIDE DEF s
<1>11. virtual_to_physical(w, top, virt) = [s EXCEPT !.at = L.at]
  BY <1>9, <1>10
<1> QED  BY <1>11 DEF s, L
-----------------------------------------------------------------------------
(* What a process sees                                                     *)

LEMMA ProcFacts ==
  ASSUME NEW r \in ProcType
  PROVE  /\ r.st \in States /\ r.prog \in Nat /\ r.pml4 \in Frame /\ r.ranges \in Seq(AreaType)
         /\ r.tables \in Seq(Frame) /\ r.i \in Nat /\ r.child \in Proc \cup {"none"} /\ r.rip \in Int
         /\ r.args \in 0 .. NFrames /\ r.area \in Seq(AreaType) /\ r.data \in Seq(SUBSET Nat) /\ r.forks \in Nat
         /\ Len(r.area) \in Nat /\ Len(r.ranges) \in Nat /\ Len(r.data) \in Nat
BY DEF ProcType

LEMMA UserDown ==
  ASSUME NEW y \in UserPages, NEW z \in Nat, z <= y
  PROVE  z \in UserPages
<1>1. (Fan - 1) * Span[1] \in Int
  BY SpanFacts, VMMAssumption
<1> QED  BY <1>1 DEF UserPages

LEMMA StackFacts ==
  /\ PageOf(UserStack) \in Nat /\ StackPages \in Nat \ {0}
  /\ \A k \in 0 .. StackPages : PageOf(UserStack) + k \in UserPages
  /\ PageOf(UserStack) \in UserPages
<1>1. PageOf(UserStack) \in Nat /\ StackPages \in Nat \ {0}
  BY VMMAssumption, PageFacts
<1> DEFINE u == PageOf(UserStack)
<1>2. u \in Nat /\ u + StackPages \in UserPages
  BY <1>1, ProgramsAssumption
<1> HIDE DEF u
<1>3. \A k \in 0 .. StackPages : u + k \in UserPages
  BY <1>1, <1>2, UserDown
<1>4. u + 0 = u /\ 0 \in 0 .. StackPages
  BY <1>1, <1>2
<1>5. u \in UserPages
  BY <1>3, <1>4
<1> QED  BY <1>1, <1>3, <1>5 DEF u

LEMMA AreaFacts ==
  ASSUME NEW r \in ProcType, AreasOK(r), NEW k \in 1 .. Len(r.area)
  PROVE  LET a == r.area[k]
         IN  /\ a \in AreaType /\ First(a) \in Nat /\ Count(a) \in Nat \ {0} /\ First(a) + Count(a) \in UserPages
             /\ \A page : page \in AreaPages(a) <=> page \in Nat /\ page >= First(a) /\ page < First(a) + Count(a)
             /\ \A page \in AreaPages(a) : page \in UserPages
             /\ r.data[k] \subseteq Frame
<1> DEFINE a == r.area[k]
<1>1. /\ a \in AreaType /\ First(a) \in Nat /\ Count(a) \in Nat \ {0} /\ First(a) + Count(a) \in UserPages
      /\ r.data[k] \subseteq Frame
  BY DEF AreasOK, AreaOK
<1>2. AreaPages(a) = Run(First(a), Count(a))
  BY DEF AreaPages, First, Count
<1> HIDE DEF a
<1>3. \A page : page \in AreaPages(a) <=> page \in Nat /\ page >= First(a) /\ page < First(a) + Count(a)
  BY <1>1, <1>2 DEF Run
<1>4. \A page \in AreaPages(a) : page \in UserPages
  BY <1>1, <1>3, UserDown
<1> QED  BY <1>1, <1>3, <1>4 DEF a

(* In every area the process sees the area's own frames.                   *)
SeesData(m, r) ==
  \A k \in 1 .. Len(r.area) : \A page \in AreaPages(r.area[k]) :
    /\ LeafIn(m, r.pml4, page).at \in r.data[k] /\ LeafIn(m, r.pml4, page).flags = r.area[k].prot
    /\ LeafIn(m, r.pml4, page) # NoEntry

LEMMA SeesItsData ==
  ASSUME NEW r \in ProcType, NEW m, NEW c, Holds(m, c, r), r.st \notin {"none", "gone"}
  PROVE  SeesData(m, r)
<1> SUFFICES ASSUME NEW k \in 1 .. Len(r.area), NEW page \in AreaPages(r.area[k])
             PROVE  /\ LeafIn(m, r.pml4, page).at \in r.data[k] /\ LeafIn(m, r.pml4, page).flags = r.area[k].prot
                    /\ LeafIn(m, r.pml4, page) # NoEntry
  BY DEF SeesData
<1>0. AreasOK(r)
  BY DEF Holds
<1>1. CASE r.forks > 0
  BY <1>1 DEF Holds, SeesCopy
<1>2. CASE r.forks = 0
  <2>1. PICK f \in Frame : SeesRun(m, r, k, f)
    BY <1>2 DEF Holds, SeesProgram
  <2> DEFINE a == r.area[k]
             j == page - First(a)
  <2>2. /\ First(a) \in Nat /\ Count(a) \in Nat /\ page \in Nat /\ page >= First(a) /\ page < First(a) + Count(a)
        /\ a.prot \in {5, 7}
    BY <1>0, AreaFacts DEF AreaType
  <2>3. j \in 0 .. Count(a) - 1 /\ First(a) + j = page
    BY <2>2
  <2>4. LeafIn(m, r.pml4, page) = Entry(f + j, a.prot) /\ r.data[k] = Run(f, Count(a))
    BY <2>1, <2>3 DEF SeesRun
  <2> HIDE DEF j, a
  <2>5. f + j \in Run(f, Count(a))
    BY <2>2, <2>3 DEF Run, Frame
  <2> USE DEF a
  <2> QED  BY <2>2, <2>4, <2>5 DEF Entry, NoEntry
<1> QED  BY <1>1, <1>2, ProcFacts

(* It still holds if what the process sees and has is the same.            *)
SameSight(m, n, top) == \A page \in UserPages : LeafIn(n, top, page) = LeafIn(m, top, page)

LEMMA SeesKept ==
  ASSUME NEW r \in ProcType, NEW m, NEW n, AreasOK(r), SameSight(m, n, r.pml4), r.st # "none",
         r.forks = 0 => Program(r)
  PROVE  /\ r.forks = 0 /\ SeesProgram(m, r) => SeesProgram(n, r)
         /\ SeesCopy(m, r) => SeesCopy(n, r)
<1>1. ASSUME NEW k \in 1 .. Len(r.area)
      PROVE  /\ First(r.area[k]) + Count(r.area[k]) \in UserPages /\ First(r.area[k]) \in Nat
             /\ Count(r.area[k]) \in Nat
             /\ \A page \in AreaPages(r.area[k]) : page \in UserPages
             /\ \A j \in 0 .. Count(r.area[k]) - 1 : First(r.area[k]) + j \in UserPages
  <2>1. /\ First(r.area[k]) + Count(r.area[k]) \in UserPages /\ First(r.area[k]) \in Nat
        /\ Count(r.area[k]) \in Nat /\ \A page \in AreaPages(r.area[k]) : page \in UserPages
    BY AreaFacts
  <2> QED  BY <2>1, UserDown
<1>2. ASSUME SeesCopy(m, r) PROVE SeesCopy(n, r)
  <2>1. \A k \in 1 .. Len(r.area) : \A page \in AreaPages(r.area[k]) : LeafIn(n, r.pml4, page) = LeafIn(m, r.pml4, page)
    BY <1>1 DEF SameSight
  <2> QED  BY <1>2, <2>1 DEF SeesCopy, SameSight
<1>3. ASSUME r.forks = 0, SeesProgram(m, r) PROVE SeesProgram(n, r)
  <2>1. ASSUME NEW k \in 1 .. Len(r.area), NEW f, SeesRun(m, r, k, f) PROVE SeesRun(n, r, k, f)
    <3>1. LeafIn(n, r.pml4, First(r.area[k]) + Count(r.area[k])) = LeafIn(m, r.pml4, First(r.area[k]) + Count(r.area[k]))
      BY <1>1 DEF SameSight
    <3>2. \A j \in 0 .. Count(r.area[k]) - 1 :
             LeafIn(n, r.pml4, First(r.area[k]) + j) = LeafIn(m, r.pml4, First(r.area[k]) + j)
      BY <1>1 DEF SameSight
    <3> QED  BY <2>1, <3>1, <3>2 DEF SeesRun
  <2>2. LeafIn(n, r.pml4, PageOf(UserStack)) = LeafIn(m, r.pml4, PageOf(UserStack))
    <3>1. PageOf(UserStack) \in UserPages
      BY StackFacts
    <3> QED  BY <3>1 DEF SameSight
  <2> QED  BY <1>3, <2>1, <2>2 DEF SeesProgram, SameSight
<1> QED  BY <1>2, <1>3

LEMMA HoldsKept ==
  ASSUME NEW r \in ProcType, NEW m, NEW c, NEW n, NEW d, Holds(m, c, r),
         r.st \notin {"none", "gone"} => SameSight(m, n, r.pml4),
         r.st \notin {"none", "destroy", "gone"} =>
           \A k \in 1 .. Len(r.area), f \in Frame : f \in r.data[k] => d[f] = c[f]
  PROVE  Holds(n, d, r)
<1>0. r.forks \in Nat
  BY ProcFacts
<1>1. CASE r.st = "none"
  BY <1>1 DEF Holds
<1>2. CASE r.st = "gone"
  BY <1>2 DEF Holds
<1>3. CASE r.st \notin {"none", "gone"}
  <2>1. AreasOK(r) /\ SeesData(m, r)
    BY <1>3, SeesItsData DEF Holds
  <2>2. r.forks = 0 => SeesProgram(n, r)
    BY <1>3, <2>1, SeesKept DEF Holds
  <2>3. r.forks > 0 => SeesCopy(n, r)
    BY <1>0, <1>3, <2>1, SeesKept DEF Holds
  <2>4. ASSUME r.st # "destroy" PROVE Contents(n, d, r)
    <3> SUFFICES ASSUME NEW k \in 1 .. Len(r.area), NEW page \in AreaPages(r.area[k])
                 PROVE  d[LeafIn(n, r.pml4, page).at] = <<r.prog, page>>
      BY DEF Contents
    <3>1. page \in UserPages /\ r.data[k] \subseteq Frame
      BY <2>1, AreaFacts
    <3>2. LeafIn(n, r.pml4, page) = LeafIn(m, r.pml4, page)
      BY <1>3, <3>1 DEF SameSight
    <3>3. LeafIn(m, r.pml4, page).at \in r.data[k]
      BY <2>1 DEF SeesData
    <3>4. d[LeafIn(m, r.pml4, page).at] = c[LeafIn(m, r.pml4, page).at]
      BY <1>3, <2>4, <3>1, <3>3
    <3>5. c[LeafIn(m, r.pml4, page).at] = <<r.prog, page>>
      BY <1>3, <2>4 DEF Holds, Contents
    <3> QED  BY <3>2, <3>4, <3>5
  <2> QED  BY <1>3, <2>1, <2>2, <2>3, <2>4 DEF Holds
<1> QED  BY <1>1, <1>2, <1>3

(* The labels of others do not matter to a process.                        *)
OwnLabels(lab, lab2, q) ==
  \A f \in Frame : lab2[f] # lab[f] =>
    (lab[f].lev = 0 \/ lab[f].who # q) /\ (lab2[f].lev = 0 \/ lab2[f].who # q)

LEMMA AccountKept ==
  ASSUME NEW lab, NEW lab2, NEW q, NEW r, Account(lab, q, r), OwnLabels(lab, lab2, q)
  PROVE  Account(lab2, q, r)
<1>1. ASSUME NEW f \in Frame, NEW l, l # 0, NEW x PROVE lab2[f] = T(q, l, x) <=> lab[f] = T(q, l, x)
  BY <1>1, TFacts DEF OwnLabels
<1>2. \A f \in Frame : f \in Tabs(lab2, q) <=> f \in Tabs(lab, q)
  BY DEF OwnLabels, Tabs
<1>3. 1 # 0 /\ 5 # 0 /\ 6 # 0
  OBVIOUS
<1>4. \A f \in Frame : lab2[f] = T(q, 1, 0) <=> lab[f] = T(q, 1, 0)
  BY <1>1, <1>3
<1>5. \A f \in Frame : (lab2[f].who = q /\ lab2[f].lev = 6) <=> (lab[f].who = q /\ lab[f].lev = 6)
  BY DEF OwnLabels
<1>6. \A f \in Frame, k \in Nat : lab2[f] = T(q, 5, k) <=> lab[f] = T(q, 5, k)
  BY <1>1, <1>3
<1> QED  BY <1>2, <1>4, <1>5, <1>6 DEF Account
(* The pagemap of process q shows, and its frames contain, the same.       *)
SameView(lab, m, n, q) ==
  \A t \in Frame, page \in UserPages : lab[t] = T(q, 1, 0) => LeafIn(n, t, page) = LeafIn(m, t, page)
SameConts(lab, c, d, q) == \A f \in Frame : lab[f].lev # 0 /\ lab[f].who = q => d[f] = c[f]

LEMMA OtherKept ==
  ASSUME NEW lab, NEW lab2, NEW q \in Proc, NEW r \in ProcType, NEW m, NEW c, NEW n, NEW d,
         Account(lab, q, r), Holds(m, c, r),
         OwnLabels(lab, lab2, q), SameView(lab, m, n, q), SameConts(lab, c, d, q)
  PROVE  Account(lab2, q, r) /\ Holds(n, d, r)
<1>1. Account(lab2, q, r)
  BY AccountKept
<1>2. ASSUME r.st \notin {"none", "gone"} PROVE SameSight(m, n, r.pml4)
  <2>1. r.pml4 \in Frame /\ lab[r.pml4] = T(q, 1, 0)
    BY <1>2, ProcFacts DEF Account
  <2> QED  BY <2>1 DEF SameView, SameSight
<1>3. ASSUME r.st \notin {"none", "destroy", "gone"}, NEW k \in 1 .. Len(r.area), NEW f \in Frame, f \in r.data[k]
      PROVE  d[f] = c[f]
  <2>1. Freed(r) = 0
    BY <1>3 DEF Freed
  <2>2. k \in 1 .. Len(r.data) /\ k \in Nat /\ k > 0
    BY <1>3, ProcFacts DEF Holds, AreasOK
  <2>3. lab[f] = T(q, 5, k)
    BY <1>3, <2>1, <2>2 DEF Account
  <2> QED  BY <2>3, TFacts DEF SameConts
<1>4. Holds(n, d, r)
  BY <1>2, <1>3, HoldsKept
<1> QED  BY <1>1, <1>4

LEMMA GrownOwn ==
  ASSUME NEW lab, NEW lab2, NEW p, NEW L, Grown(lab, lab2, p, L), NEW q, q # p
  PROVE  OwnLabels(lab, lab2, q)
BY DEF Grown, OwnLabels

LEMMA CeilIs ==
  ASSUME NEW n \in Nat
  PROVE  DIV_CEIL(n * PageSize, PageSize) = n
<1>1. PageSize \in Nat \ {0} /\ PageSize - 1 \in Nat /\ PageSize - 1 < PageSize
  BY VMMAssumption
<1>2. n * PageSize + PageSize - 1 = n * PageSize + (PageSize - 1)
  BY <1>1
<1>3. (n * PageSize + (PageSize - 1)) \div PageSize = n
  BY <1>1, DivIs
<1> QED  BY <1>2, <1>3 DEF DIV_CEIL

LEMMA StackAreaFacts ==
  /\ First(StackArea) = PageOf(UserStack) /\ Count(StackArea) = StackPages
  /\ AreaOK(StackArea) /\ StackArea.prot = 7 /\ StackArea.base = UserStack
<1>1. /\ StackArea.base = UserStack /\ StackArea.limit = StackPages * PageSize /\ StackArea.prot = 7
      /\ StackArea = [base |-> UserStack, limit |-> StackPages * PageSize, prot |-> 7]
  BY DEF StackArea, MemArea
<1>2. StackPages \in Nat \ {0} /\ PageOf(UserStack) \in Nat /\ PageOf(UserStack) + StackPages \in UserPages
  BY StackFacts, ProgramsAssumption
<1>3. First(StackArea) = PageOf(UserStack) /\ Count(StackArea) = StackPages
  BY <1>1, <1>2, CeilIs DEF First, Count
<1>4. StackArea \in AreaType
  <2>1. UserStack \in Nat /\ StackPages * PageSize \in Nat
    BY <1>2, VMMAssumption
  <2> QED  BY <1>1, <2>1 DEF AreaType
<1> QED  BY <1>1, <1>2, <1>3, <1>4 DEF AreaOK

LEMMA SegAreaFacts ==
  ASSUME NEW g \in DOMAIN Programs, NEW k \in 1 .. Len(Programs[g]), NEW s, s = Programs[g][k]
  PROVE  /\ s.vaddr \in Nat /\ PageNumber(s) \in Nat \ {0} /\ s.write \in BOOLEAN
         /\ First(SegArea(s)) = PageOf(s.vaddr) /\ Count(SegArea(s)) = PageNumber(s) /\ AreaOK(SegArea(s))
         /\ SegArea(s).prot = (IF s.write THEN 7 ELSE 5) /\ SegArea(s).base = s.vaddr
         /\ First(SegArea(s)) + Count(SegArea(s)) <= First(StackArea)
         /\ \A j \in 1 .. k - 1 :
              First(SegArea(Programs[g][j])) + Count(SegArea(Programs[g][j])) <= First(SegArea(s))
<1> DEFINE Seg == [vaddr : Nat, memsz : Nat \ {0}, write : BOOLEAN]
<1>1. Programs \in Seq(Seq(Seg)) /\ Programs[g] \in Seq(Seg) /\ DOMAIN Programs[g] = 1 .. Len(Programs[g])
  BY ProgramsAssumption
<1>2. ASSUME NEW j \in DOMAIN Programs[g], NEW t, t = Programs[g][j]
      PROVE  /\ t \in Seg /\ t.vaddr \in Nat /\ PageNumber(t) \in Nat \ {0}
             /\ First(SegArea(t)) = PageOf(t.vaddr) /\ Count(SegArea(t)) = PageNumber(t)
             /\ SegArea(t).prot = (IF t.write THEN 7 ELSE 5) /\ SegArea(t).base = t.vaddr
             /\ SegArea(t) \in AreaType
  <2>1. t \in Seg
    <3> DEFINE P == Programs[g]
    <3>1. P \in Seq(Seg) /\ j \in 1 .. Len(P) /\ t = P[j]
      BY <1>1, <1>2
    <3> HIDE DEF P, Seg
    <3> QED  BY <3>1
  <2>2. t.vaddr \in Nat /\ t.memsz \in Nat \ {0} /\ t.write \in BOOLEAN
    BY <2>1
  <2>3. PageNumber(t) \in Nat \ {0}
    <3> DEFINE a == t.memsz + (t.vaddr % PageSize)
               b == a + PageSize - 1
    <3>1. PageSize \in Nat \ {0} /\ t.vaddr % PageSize \in Nat
      BY <2>2, VMMAssumption, DivFacts
    <3>2. b \in Nat /\ b >= PageSize
      <4> DEFINE x == t.memsz
                 y == t.vaddr % PageSize
      <4>1. x \in Nat \ {0} /\ y \in Nat /\ b = x + y + PageSize - 1
        BY <2>2, <3>1
      <4> HIDE DEF x, y, b
      <4> QED  BY <3>1, <4>1
    <3> HIDE DEF b
    <3>3. b \div PageSize \in Nat /\ b % PageSize < PageSize /\ b % PageSize \in Nat
          /\ b = (b \div PageSize) * PageSize + (b % PageSize)
      BY <3>1, <3>2, DivFacts
    <3>4. b \div PageSize # 0
      <4> SUFFICES ASSUME b \div PageSize = 0 PROVE FALSE
        OBVIOUS
      <4>1. b = 0 * PageSize + (b % PageSize)
        BY <3>3
      <4> QED  BY <3>1, <3>2, <3>3, <4>1
    <3> QED  BY <3>3, <3>4 DEF PageNumber, DIV_CEIL, b
  <2>4. /\ SegArea(t).base = t.vaddr /\ SegArea(t).limit = PageNumber(t) * PageSize
        /\ SegArea(t).prot = (IF t.write THEN 7 ELSE 5)
        /\ SegArea(t) = [base |-> t.vaddr, limit |-> PageNumber(t) * PageSize, prot |-> IF t.write THEN 7 ELSE 5]
    BY DEF SegArea, MemArea
  <2>5. First(SegArea(t)) = PageOf(t.vaddr) /\ Count(SegArea(t)) = PageNumber(t)
    BY <2>3, <2>4, CeilIs DEF First, Count
  <2>6. SegArea(t) \in AreaType
    <3>1. PageNumber(t) * PageSize \in Nat
      BY <2>3, VMMAssumption
    <3> QED  BY <2>2, <2>4, <3>1 DEF AreaType
  <2> QED  BY <2>1, <2>2, <2>3, <2>4, <2>5, <2>6
<1>3. /\ s \in Seg /\ s.vaddr \in Nat /\ PageNumber(s) \in Nat \ {0}
      /\ First(SegArea(s)) = PageOf(s.vaddr) /\ Count(SegArea(s)) = PageNumber(s)
      /\ SegArea(s).prot = (IF s.write THEN 7 ELSE 5) /\ SegArea(s).base = s.vaddr
      /\ SegArea(s) \in AreaType
  BY <1>1, <1>2
<1>4. PageOf(s.vaddr) + PageNumber(s) <= PageOf(UserStack)
  BY <1>1, ProgramsAssumption
<1>5. PageOf(s.vaddr) + PageNumber(s) \in UserPages /\ PageOf(s.vaddr) \in Nat
  <2>1. PageOf(s.vaddr) \in Nat
    BY <1>3, PageFacts
  <2> QED  BY <1>3, <1>4, <2>1, StackFacts, UserDown
<1>6. ASSUME NEW j \in 1 .. k - 1
      PROVE  First(SegArea(Programs[g][j])) + Count(SegArea(Programs[g][j])) <= First(SegArea(s))
  <2> DEFINE t == Programs[g][j]
  <2>1. j \in DOMAIN Programs[g] /\ k \in DOMAIN Programs[g] /\ j < k
    <3> DEFINE n == Len(Programs[g])
    <3>1. n \in Nat /\ k \in 1 .. n /\ DOMAIN Programs[g] = 1 .. n
      BY <1>1
    <3> HIDE DEF n
    <3> QED  BY <3>1
  <2>2. PageOf(t.vaddr) + PageNumber(t) <= PageOf(s.vaddr)
    BY <2>1, ProgramsAssumption
  <2>3. First(SegArea(t)) = PageOf(t.vaddr) /\ Count(SegArea(t)) = PageNumber(t)
    BY <1>2, <2>1
  <2> HIDE DEF t
  <2>4. First(SegArea(t)) + Count(SegArea(t)) <= First(SegArea(s))
    BY <1>3, <2>2, <2>3
  <2> QED  BY <2>4 DEF t
<1>7. s.write \in BOOLEAN
  BY <1>3
<1> QED  BY <1>3, <1>4, <1>5, <1>6, <1>7, StackAreaFacts DEF AreaOK
LEMMA PrimedInv ==
  ASSUME Sound(mem', cont', used', proc', core')
  PROVE  VMMInv'
BY DEF VMMInv

(* A process whose memory is in order has its arguments on its stack.      *)
LEMMA ArgsHold ==
  ASSUME NEW r \in ProcType, NEW m, NEW c, Holds(m, c, r)
  PROVE  ArgsOK(m, r)
<1> SUFFICES ASSUME r.st = "run", r.forks = 0 PROVE ArgsOK(m, r)
  BY DEF ArgsOK
<1>1. AreasOK(r) /\ Program(r) /\ SeesProgram(m, r)
  BY DEF Holds
<1> DEFINE n == Len(r.area)
           u == PageOf(UserStack)
<1>2. n \in 1 .. n /\ n \in Nat /\ r.area[n] = StackArea
  <2>1. n \in 1 .. Len(Programs[r.prog]) + 1 /\ r.area[n] = StackArea
    BY <1>1 DEF Program
  <2>2. n \in Nat
    BY ProcFacts
  <2> HIDE DEF n
  <2> QED  BY <2>1, <2>2
<1> HIDE DEF n
<1>3. PICK f \in Frame : SeesRun(m, r, n, f)
  BY <1>1, <1>2 DEF SeesProgram, n
<1>4. \A j \in 0 .. StackPages - 1 : LeafIn(m, r.pml4, u + j) = Entry(f + j, 7)
  BY <1>2, <1>3, StackAreaFacts DEF SeesRun
<1>5. r.args = LeafIn(m, r.pml4, u).at + StackPages
  BY <1>1 DEF SeesProgram
<1>6. StackPages \in Nat \ {0} /\ u \in Nat /\ f \in Nat
  BY StackFacts DEF Frame
<1> HIDE DEF u
<1>7. LeafIn(m, r.pml4, u).at = f
  <2>1. u + 0 = u /\ f + 0 = f /\ 0 \in 0 .. StackPages - 1
    BY <1>6
  <2>2. LeafIn(m, r.pml4, u) = Entry(f, 7)
    BY <1>4, <2>1
  <2> QED  BY <2>2 DEF Entry
<1>8. ASSUME NEW k \in 0 .. StackPages - 1 PROVE LeafIn(m, r.pml4, u + k).at = r.args - StackPages + k
  <2>0. LeafIn(m, r.pml4, u + k) = Entry(f + k, 7)
    BY <1>4
  <2>1. LeafIn(m, r.pml4, u + k).at = f + k
    BY <2>0 DEF Entry
  <2> QED  BY <1>5, <1>6, <1>7, <2>1
<1> QED  BY <1>5, <1>8 DEF ArgsOK, u

(* And it keeps them if only frames of others are written.                 *)
LEMMA ArgsKept ==
  ASSUME NEW r \in ProcType, NEW lab \in Labels, NEW m \in MemType, Shape(lab, m), NEW q \in Proc,
         Account(lab, q, r), ArgsOK(m, r), NEW n,
         \A f \in Frame : lab[f].lev # 0 /\ lab[f].who = q => n[f] = m[f]
  PROVE  ArgsOK(n, r)
<1> SUFFICES ASSUME r.st = "run", r.forks = 0 PROVE ArgsOK(n, r)
  BY DEF ArgsOK
<1>1. r.pml4 \in Frame /\ lab[r.pml4] = T(q, 1, 0)
  BY ProcFacts DEF Account
<1>2. \A page \in UserPages : LeafIn(n, r.pml4, page) = LeafIn(m, r.pml4, page)
  BY <1>1, OwnTables
<1>3. PageOf(UserStack) \in UserPages /\ \A k \in 0 .. StackPages - 1 : PageOf(UserStack) + k \in UserPages
  BY StackFacts
<1> QED  BY <1>2, <1>3 DEF ArgsOK

LEMMA GrownAccount ==
  ASSUME NEW lab, NEW lab2, NEW p, Grown(lab, lab2, p, 2 .. 5)
  PROVE  \A f \in Frame : /\ lab2[f] = T(p, 1, 0) <=> lab[f] = T(p, 1, 0)
                          /\ (lab2[f].who = p /\ lab2[f].lev = 6) <=> (lab[f].who = p /\ lab[f].lev = 6)
BY TFacts DEF Grown
(* A process that got one more area a, behind the others, with frames S.   *)
Bigger(r, r2, a, S) ==
  /\ r2 \in ProcType /\ r2.pml4 = r.pml4 /\ r2.prog = r.prog /\ r2.forks = r.forks
  /\ Len(r2.area) = Len(r.area) + 1 /\ Len(r2.data) = Len(r.data) + 1
  /\ r2.area[Len(r.area) + 1] = a /\ r2.data[Len(r.area) + 1] = S
  /\ \A k \in 1 .. Len(r.area) : r2.area[k] = r.area[k] /\ r2.data[k] = r.data[k]

Behind(r, a) ==
  AreaOK(a) /\ \A k \in 1 .. Len(r.area) : First(r.area[k]) + Count(r.area[k]) <= First(a)

LEMMA BiggerAreas ==
  ASSUME NEW r \in ProcType, AreasOK(r), NEW a, Behind(r, a), NEW S, S \subseteq Frame,
         NEW r2, Bigger(r, r2, a, S)
  PROVE  /\ AreasOK(r2)
         /\ \A page : page \in Pages(r2) <=> page \in Pages(r) \/ page \in AreaPages(a)
         /\ \A page \in Pages(r) : page < First(a)
         /\ \A page : page \in AreaPages(a) <=> page \in Nat /\ page >= First(a) /\ page < First(a) + Count(a)
<1> DEFINE n == Len(r.area)
<1>1. n \in Nat /\ Len(r.data) = n
  BY ProcFacts DEF AreasOK
<1>2. AreaOK(a) /\ First(a) \in Nat /\ Count(a) \in Nat \ {0}
  BY DEF Behind, AreaOK
<1>3. /\ Len(r2.area) = n + 1 /\ Len(r2.data) = n + 1 /\ r2.area[n + 1] = a /\ r2.data[n + 1] = S
      /\ \A k \in 1 .. n : r2.area[k] = r.area[k] /\ r2.data[k] = r.data[k]
  BY <1>1 DEF Bigger
<1>4. \A k \in 1 .. n : /\ AreaOK(r.area[k]) /\ r.data[k] \subseteq Frame
                        /\ First(r.area[k]) + Count(r.area[k]) <= First(a)
  BY DEF AreasOK, Behind
<1>5. \A j, k \in 1 .. n : j < k => First(r.area[j]) + Count(r.area[j]) <= First(r.area[k])
  BY DEF AreasOK
<1> HIDE DEF n
<1>6. \A k \in 1 .. n + 1 : k = n + 1 \/ k \in 1 .. n
  BY <1>1
<1>7. AreasOK(r2)
  <2>1. \A k \in 1 .. n + 1 : AreaOK(r2.area[k]) /\ r2.data[k] \subseteq Frame
    BY <1>2, <1>3, <1>4, <1>6
  <2>2. ASSUME NEW j \in 1 .. n + 1, NEW k \in 1 .. n + 1, j < k
        PROVE  First(r2.area[j]) + Count(r2.area[j]) <= First(r2.area[k])
    <3>1. j \in 1 .. n
      BY <1>1, <2>2
    <3>2. CASE k = n + 1
      BY <1>3, <1>4, <3>1, <3>2
    <3>3. CASE k \in 1 .. n
      BY <1>3, <1>5, <2>2, <3>1, <3>3
    <3> QED  BY <1>6, <3>2, <3>3
  <2> QED  BY <1>3, <2>1, <2>2 DEF AreasOK
<1>8. ASSUME NEW page PROVE page \in Pages(r2) <=> page \in Pages(r) \/ page \in AreaPages(a)
  <2>1. page \in Pages(r2) <=> \E k \in 1 .. n + 1 : page \in AreaPages(r2.area[k])
    BY <1>3 DEF Pages
  <2>2. page \in Pages(r) <=> \E k \in 1 .. n : page \in AreaPages(r.area[k])
    BY DEF Pages, n
  <2>3. n + 1 \in 1 .. n + 1 /\ \A k \in 1 .. n : k \in 1 .. n + 1
    BY <1>1
  <2> QED  BY <1>3, <1>6, <2>1, <2>2, <2>3
<1>9. ASSUME NEW page \in Pages(r) PROVE page < First(a)
  <2>1. PICK k \in 1 .. n : page \in AreaPages(r.area[k])
    BY DEF Pages, n
  <2> DEFINE b == r.area[k]
  <2>2. page \in Nat /\ page < First(b) + Count(b) /\ First(b) \in Nat /\ Count(b) \in Nat
    <3>1. k \in 1 .. Len(r.area)
      BY DEF n
    <3> QED  BY <2>1, <3>1, AreaFacts
  <2>3. First(b) + Count(b) <= First(a)
    BY <1>4
  <2> HIDE DEF b
  <2> QED  BY <1>2, <2>2, <2>3
<1>10. \A page : page \in AreaPages(a) <=> page \in Nat /\ page >= First(a) /\ page < First(a) + Count(a)
  <2>1. AreaPages(a) = Run(First(a), Count(a))
    BY DEF AreaPages, First, Count
  <2> QED  BY <1>2, <2>1 DEF Run
<1> QED  BY <1>7, <1>8, <1>9, <1>10

(* The labels of a process that got one more area.                         *)
LEMMA BiggerAccount ==
  ASSUME NEW r \in ProcType, NEW p, NEW lab, NEW lab2, Account(lab, p, r), AreasOK(r),
         r.st \notin {"none", "gone", "destroy"},
         Grown(lab, lab2, p, 2 .. 5), NEW k, k = Len(r.area) + 1, NEW S, NewData(lab, lab2, p, k, S),
         NEW a, NEW r2, Bigger(r, r2, a, S), r2.st \notin {"none", "gone", "destroy"},
         \A f \in Frame : f \in Tabs(lab2, p) <=> f \in Range(r2.tables)
  PROVE  Account(lab2, p, r2)
<1>1. Freed(r) = 0 /\ Freed(r2) = 0
  BY DEF Freed
<1>2. Len(r.data) = Len(r.area) /\ Len(r.area) \in Nat
  BY ProcFacts DEF AreasOK
<1> DEFINE n == Len(r.area)
<1>3. /\ Len(r2.data) = n + 1 /\ r2.data[n + 1] = S /\ \A j \in 1 .. n : r2.data[j] = r.data[j]
      /\ r2.pml4 = r.pml4
  BY <1>2 DEF Bigger
<1>4. \A f \in Frame, j \in Nat : lab[f] = T(p, 5, j) <=> j \in 1 .. n /\ f \in r.data[j]
  <2> SUFFICES ASSUME NEW f \in Frame, NEW j \in Nat PROVE lab[f] = T(p, 5, j) <=> j \in 1 .. n /\ f \in r.data[j]
    OBVIOUS
  <2>1. lab[f] = T(p, 5, j) <=> j \in 1 .. Len(r.data) /\ f \in r.data[j] /\ j > Freed(r)
    BY DEF Account
  <2> QED  BY <1>1, <1>2, <2>1
<1> HIDE DEF n
<1>5. ASSUME NEW f \in Frame, NEW j \in Nat
      PROVE  lab2[f] = T(p, 5, j) <=> j \in 1 .. Len(r2.data) /\ f \in r2.data[j] /\ j > Freed(r2)
  <2>1. lab2[f] = T(p, 5, j) <=> lab[f] = T(p, 5, j) \/ (j = n + 1 /\ f \in S)
    BY DEF NewData, n
  <2>2. n \in Nat
    BY <1>2 DEF n
  <2>3. CASE j = n + 1
    BY <1>1, <1>3, <1>4, <2>1, <2>2, <2>3
  <2>4. CASE j # n + 1
    BY <1>1, <1>3, <1>4, <2>1, <2>2, <2>4
  <2> QED  BY <2>3, <2>4
<1>6. \A f \in Frame : /\ lab2[f] = T(p, 1, 0) <=> lab[f] = T(p, 1, 0)
                       /\ (lab2[f].who = p /\ lab2[f].lev = 6) <=> (lab[f].who = p /\ lab[f].lev = 6)
  BY GrownAccount
<1>7. \A f \in Frame : lab2[f] = T(p, 1, 0) <=> f = r2.pml4 /\ r2.st \notin {"none", "gone"}
  BY <1>3, <1>6 DEF Account
<1>8. \A f \in Frame : (lab2[f].who = p /\ lab2[f].lev = 6) <=> f = r2.pml4 /\ r2.st = "gone"
  BY <1>6 DEF Account
<1> QED  BY <1>5, <1>7, <1>8 DEF Account
(* Over the pages from x to x + i a pagemap shows the frames from f on;    *)
(* elsewhere what it did.                                                  *)
Over(m, n, top, x, i, f, prot) ==
  /\ \A z \in UserPages : z < x => LeafIn(n, top, z) = LeafIn(m, top, z)
  /\ \A z \in UserPages : z > x + i => LeafIn(n, top, z) = LeafIn(m, top, z)
  /\ \A z \in UserPages : z >= x /\ z <= x + i => LeafIn(n, top, z) = Entry(f + (z - x), prot)

LEMMA PaintedOver ==
  ASSUME NEW lab, NEW p \in Proc, NEW m, NEW n, NEW x \in Nat, NEW i \in Nat, NEW f, NEW prot,
         Painted(lab, p, m, n, x, i + 1, f, prot), NEW top \in Frame, lab[top] = T(p, 1, 0)
  PROVE  Over(m, n, top, x, i, f, prot)
<1>1. \A z \in UserPages : z \in Nat
  BY DEF UserPages
<1>2. \A z \in UserPages :
        LeafIn(n, top, z) = IF z >= x /\ z < x + (i + 1) THEN Entry(f + (z - x), prot) ELSE LeafIn(m, top, z)
  BY DEF Painted
<1>3. ASSUME NEW z \in UserPages
      PROVE  /\ z < x => LeafIn(n, top, z) = LeafIn(m, top, z)
             /\ z > x + i => LeafIn(n, top, z) = LeafIn(m, top, z)
             /\ z >= x /\ z <= x + i => LeafIn(n, top, z) = Entry(f + (z - x), prot)
  <2>1. z \in Nat
    BY <1>1
  <2>2. z >= x /\ z < x + (i + 1) <=> z >= x /\ z <= x + i
    BY <2>1
  <2>3. ~(z < x /\ z >= x) /\ ~(z > x + i /\ z <= x + i)
    BY <2>1
  <2> QED  BY <1>2, <2>2, <2>3
<1> QED  BY <1>3 DEF Over

LEMMA OldRun ==
  ASSUME NEW r \in ProcType, AreasOK(r), NEW a, Behind(r, a), NEW S, S \subseteq Frame,
         NEW r2, Bigger(r, r2, a, S), NEW m, NEW n, NEW i, NEW g,
         Over(m, n, r.pml4, First(a), i, g, a.prot),
         NEW k \in 1 .. Len(r.area), NEW f, SeesRun(m, r, k, f)
  PROVE  SeesRun(n, r2, k, f)
<1> DEFINE b == r.area[k]
<1>1. /\ First(b) \in Nat /\ Count(b) \in Nat \ {0} /\ First(b) + Count(b) \in UserPages
      /\ First(b) + Count(b) <= First(a) /\ First(a) \in Nat /\ Count(a) \in Nat \ {0}
  BY AreaFacts DEF Behind, AreaOK
<1>2. r2.area[k] = b /\ r2.data[k] = r.data[k] /\ r2.pml4 = r.pml4
  BY DEF Bigger
<1>3. /\ f \in Frame /\ r.data[k] = Run(f, Count(b)) /\ Run(f, Count(b)) \subseteq Frame
      /\ \A j \in 0 .. Count(b) - 1 : LeafIn(m, r.pml4, First(b) + j) = Entry(f + j, b.prot)
      /\ First(b) + Count(b) \notin Pages(r) => LeafIn(m, r.pml4, First(b) + Count(b)) = Entry(f + Count(b), b.prot)
  BY DEF SeesRun
<1> HIDE DEF b
<1>4. ASSUME NEW j \in 0 .. Count(b) - 1 PROVE LeafIn(n, r.pml4, First(b) + j) = Entry(f + j, b.prot)
  <2> DEFINE z == First(b) + j
  <2>1. z \in Nat /\ z <= First(b) + Count(b) /\ z < First(a)
    <3> DEFINE x == First(b)
               y == Count(b)
               v == First(a)
    <3>1. x \in Nat /\ y \in Nat \ {0} /\ v \in Nat /\ x + y <= v /\ j \in 0 .. y - 1
      BY <1>1
    <3> HIDE DEF x, y, v
    <3>2. x + j \in Nat /\ x + j <= x + y /\ x + j < v
      BY <3>1
    <3> QED  BY <3>2 DEF x, y, v
  <2>2. z \in UserPages
    BY <1>1, <2>1, UserDown
  <2> HIDE DEF z
  <2>3. LeafIn(n, r.pml4, z) = LeafIn(m, r.pml4, z)
    BY <2>1, <2>2 DEF Over
  <2> QED  BY <1>3, <2>3 DEF z
<1>5. ASSUME First(b) + Count(b) \notin Pages(r2)
      PROVE  LeafIn(n, r.pml4, First(b) + Count(b)) = Entry(f + Count(b), b.prot)
  <2> DEFINE z == First(b) + Count(b)
  <2>1. z \notin Pages(r) /\ z \notin AreaPages(a)
    BY <1>5, BiggerAreas
  <2>2. First(a) \in AreaPages(a)
    <3>1. First(a) >= First(a) /\ First(a) < First(a) + Count(a)
      BY <1>1
    <3>2. \A page : page \in AreaPages(a) <=> page \in Nat /\ page >= First(a) /\ page < First(a) + Count(a)
      BY BiggerAreas
    <3> QED  BY <1>1, <3>1, <3>2
  <2>3. z # First(a) /\ z \in Nat /\ z <= First(a) /\ z \in UserPages
    BY <1>1, <2>1, <2>2
  <2>5. LeafIn(m, r.pml4, z) = Entry(f + Count(b), b.prot)
    BY <1>3, <2>1
  <2> HIDE DEF z
  <2>4. LeafIn(n, r.pml4, z) = LeafIn(m, r.pml4, z)
    <3>1. z < First(a)
      BY <1>1, <2>3
    <3> QED  BY <2>3, <3>1 DEF Over
  <2>6. LeafIn(n, r.pml4, z) = Entry(f + Count(b), b.prot)
    BY <2>4, <2>5
  <2> QED  BY <2>6 DEF z
<1> QED  BY <1>2, <1>3, <1>4, <1>5 DEF SeesRun

(* A program that got one more area sees it.                               *)
LEMMA MoreSeen ==
  ASSUME NEW r \in ProcType, AreasOK(r), NEW a, Behind(r, a), NEW f \in Frame, Run(f, Count(a)) \subseteq Frame,
         NEW r2, Bigger(r, r2, a, Run(f, Count(a))), NEW m, NEW n,
         Over(m, n, r.pml4, First(a), Count(a), f, a.prot),
         SeesProgram(m, r), r2.st \in {"load", "args"}
  PROVE  SeesProgram(n, r2)
<1> DEFINE N == Len(r.area)
           S == Run(f, Count(a))
<1>1. N \in Nat /\ First(a) \in Nat /\ Count(a) \in Nat \ {0} /\ First(a) + Count(a) \in UserPages
  BY ProcFacts DEF Behind, AreaOK
<1>2. /\ Len(r2.area) = N + 1 /\ r2.area[N + 1] = a /\ r2.data[N + 1] = S /\ r2.pml4 = r.pml4
      /\ \A k \in 1 .. N : r2.area[k] = r.area[k] /\ r2.data[k] = r.data[k]
  BY DEF Bigger
<1>3. \A k \in 1 .. N + 1 : k \in 1 .. N \/ k = N + 1
  BY <1>1
<1>4. ASSUME NEW k \in 1 .. N PROVE \E g \in Frame : SeesRun(n, r2, k, g)
  <2>1. PICK g \in Frame : SeesRun(m, r, k, g)
    BY DEF SeesProgram
  <2>2. SeesRun(n, r2, k, g)
    BY <2>1, OldRun
  <2> QED  BY <2>2
<1>5. SeesRun(n, r2, N + 1, f)
  <2>1. ASSUME NEW j \in 0 .. Count(a) PROVE LeafIn(n, r.pml4, First(a) + j) = Entry(f + j, a.prot)
    <3> DEFINE z == First(a) + j
    <3>1. z \in Nat /\ z <= First(a) + Count(a) /\ z >= First(a) /\ z - First(a) = j
      BY <1>1
    <3>2. z \in UserPages
      BY <1>1, <3>1, UserDown
    <3> HIDE DEF z
    <3>3. LeafIn(n, r.pml4, z) = Entry(f + (z - First(a)), a.prot)
      BY <3>1, <3>2 DEF Over
    <3> QED  BY <3>1, <3>3 DEF z
  <2>2. Count(a) \in 0 .. Count(a) /\ \A j \in 0 .. Count(a) - 1 : j \in 0 .. Count(a)
    BY <1>1
  <2> QED  BY <1>2, <2>1, <2>2 DEF SeesRun
<1>6. ASSUME NEW page \in UserPages, LeafIn(n, r.pml4, page) # NoEntry
      PROVE  page \in Pages(r2) \/ \E k \in 1 .. N + 1 : page = First(r2.area[k]) + Count(r2.area[k])
  <2>0. page \in Nat
    BY DEF UserPages
  <2>1. CASE page >= First(a) /\ page <= First(a) + Count(a)
    <3>1. CASE page = First(a) + Count(a)
      <4>1. N + 1 \in 1 .. N + 1
        BY <1>1
      <4> QED  BY <1>2, <3>1, <4>1
    <3>2. CASE page # First(a) + Count(a)
      <4>1. page < First(a) + Count(a)
        BY <1>1, <2>0, <2>1, <3>2
      <4> QED  BY <2>0, <2>1, <4>1, BiggerAreas
    <3> QED  BY <3>1, <3>2
  <2>2. CASE ~(page >= First(a) /\ page <= First(a) + Count(a))
    <3>1. page < First(a) \/ page > First(a) + Count(a)
      BY <1>1, <2>0, <2>2
    <3>2. LeafIn(m, r.pml4, page) # NoEntry
      BY <1>6, <3>1 DEF Over
    <3>3. page \in Pages(r) \/ \E k \in 1 .. N : page = First(r.area[k]) + Count(r.area[k])
      BY <3>2 DEF SeesProgram
    <3>4. \A k \in 1 .. N : k \in 1 .. N + 1
      BY <1>1
    <3>5. page \in Pages(r) => page \in Pages(r2)
      BY BiggerAreas
    <3> HIDE DEF N
    <3> QED  BY <1>2, <3>3, <3>4, <3>5
  <2> QED  BY <2>1, <2>2
<1> HIDE DEF N
<1>7. \A k \in 1 .. N + 1 : \E g \in Frame : SeesRun(n, r2, k, g)
  BY <1>3, <1>4, <1>5
<1> QED  BY <1>2, <1>6, <1>7 DEF SeesProgram
(* The frames of the areas of a process keep their contents.               *)
KeepsData(r, c, d) == \A k \in 1 .. Len(r.area), g \in Frame : g \in r.data[k] => d[g] = c[g]

LEMMA MoreContents ==
  ASSUME NEW r \in ProcType, AreasOK(r), NEW a, Behind(r, a), NEW f \in Frame, Run(f, Count(a)) \subseteq Frame,
         NEW r2, Bigger(r, r2, a, Run(f, Count(a))), NEW m, NEW n,
         Over(m, n, r.pml4, First(a), Count(a), f, a.prot),
         NEW c, NEW d, SeesData(m, r), Contents(m, c, r), KeepsData(r, c, d),
         \A g \in Run(f, Count(a)) : d[g] = <<r.prog, First(a) + g - f>>
  PROVE  Contents(n, d, r2)
<1> DEFINE N == Len(r.area)
<1>1. N \in Nat /\ First(a) \in Nat /\ Count(a) \in Nat \ {0} /\ First(a) + Count(a) \in UserPages /\ f \in Nat
  BY ProcFacts DEF Behind, AreaOK, Frame
<1>2. /\ Len(r2.area) = N + 1 /\ r2.area[N + 1] = a /\ r2.pml4 = r.pml4 /\ r2.prog = r.prog
      /\ \A k \in 1 .. N : r2.area[k] = r.area[k]
  BY DEF Bigger
<1>3. ASSUME NEW k \in 1 .. N, NEW page \in AreaPages(r.area[k])
      PROVE  d[LeafIn(n, r.pml4, page).at] = <<r.prog, page>>
  <2>1. page \in UserPages /\ r.data[k] \subseteq Frame
    BY AreaFacts
  <2>2. page \in Pages(r)
    BY DEF Pages
  <2>3. page < First(a)
    BY <2>2, BiggerAreas
  <2>4. LeafIn(n, r.pml4, page) = LeafIn(m, r.pml4, page)
    BY <2>1, <2>3 DEF Over
  <2>5. LeafIn(m, r.pml4, page).at \in r.data[k]
    BY DEF SeesData
  <2>6. c[LeafIn(m, r.pml4, page).at] = <<r.prog, page>>
    BY DEF Contents
  <2>7. d[LeafIn(m, r.pml4, page).at] = c[LeafIn(m, r.pml4, page).at]
    BY <2>1, <2>5 DEF KeepsData
  <2> QED  BY <2>4, <2>6, <2>7
<1>4. ASSUME NEW page \in AreaPages(a) PROVE d[LeafIn(n, r.pml4, page).at] = <<r.prog, page>>
  <2>1. page \in Nat /\ page >= First(a) /\ page < First(a) + Count(a)
    <3>1. \A z : z \in AreaPages(a) <=> z \in Nat /\ z >= First(a) /\ z < First(a) + Count(a)
      BY BiggerAreas
    <3> QED  BY <3>1
  <2> DEFINE x == First(a)
             y == Count(a)
             g == f + (page - x)
  <2>2. x \in Nat /\ y \in Nat /\ page \in Nat /\ page >= x /\ page < x + y /\ x + y \in UserPages
    BY <1>1, <2>1
  <2>3. LeafIn(n, r.pml4, page) = Entry(f + (page - x), a.prot)
    <3>1. page <= x + y
      BY <2>2
    <3>2. page \in UserPages
      BY <2>2, <3>1, UserDown
    <3> QED  BY <2>1, <3>1, <3>2 DEF Over
  <2>4. \A h \in Run(f, y) : d[h] = <<r.prog, x + h - f>>
    OBVIOUS
  <2> HIDE DEF x, y
  <2>5. g \in Run(f, y) /\ x + g - f = page
    BY <1>1, <2>2 DEF Run
  <2>6. LeafIn(n, r.pml4, page).at = g
    BY <2>3 DEF Entry
  <2> HIDE DEF g
  <2> QED  BY <2>4, <2>5, <2>6
<1>5. \A k \in 1 .. N + 1 : k \in 1 .. N \/ k = N + 1
  BY <1>1
<1> HIDE DEF N
<1> QED  BY <1>2, <1>3, <1>4, <1>5 DEF Contents

(* What processes outside S see, have and contain is the same.             *)
Others(lab, lab2, m, n, c, d, S) ==
  \A q \in Proc : q \notin S => /\ OwnLabels(lab, lab2, q) /\ SameView(lab, m, n, q) /\ SameConts(lab, c, d, q)

LEMMA GoesOthers ==
  ASSUME NEW w, NEW lab, NEW v, NEW lab2, NEW p, Goes(w, lab, v, lab2, p, 2 .. 5), w \in WorldType, NEW S, p \in S,
         lab \in Labels, Shape(lab, w.mem)
  PROVE  Others(lab, lab2, w.mem, v.mem, w.cont, v.cont, S)
<1> SUFFICES ASSUME NEW q \in Proc, q \notin S
             PROVE  OwnLabels(lab, lab2, q) /\ SameView(lab, w.mem, v.mem, q) /\ SameConts(lab, w.cont, v.cont, q)
  BY DEF Others
<1>0. q # p /\ w.mem \in MemType
  BY DEF WorldType
<1>1. OwnLabels(lab, lab2, q)
  BY <1>0, GrownOwn DEF Goes
<1>2. SameConts(lab, w.cont, v.cont, q)
  BY DEF Goes, SameCont, SameConts
<1>3. \A f \in Frame : lab[f].lev # 0 /\ lab[f].who = q => v.mem[f] = w.mem[f]
  BY <1>0 DEF Goes, Spares
<1>4. SameView(lab, w.mem, v.mem, q)
  BY <1>0, <1>3, OwnTables DEF SameView
<1> QED  BY <1>1, <1>2, <1>4

(* A step that is not lost, of the processes in S.                         *)
LEMMA SoundStep ==
  ASSUME NEW lab, NEW m, NEW c, NEW u, NEW ps \in [Proc -> ProcType], Good(lab, m, c, u, ps),
         NEW lab2 \in Labels, NEW n \in MemType, NEW d \in [Frame -> Content], NEW u2 \in SUBSET Frame,
         NEW ps2 \in [Proc -> ProcType], NEW k \in {"ok", "halted"},
         Shape(lab2, n), UsedAre(lab2, u2), NEW S, Others(lab, lab2, m, n, c, d, S),
         \A q \in Proc : q \notin S => ps2[q] = ps[q],
         \A q \in Proc : q \in S => Account(lab2, q, ps2[q]) /\ Holds(n, d, ps2[q]),
         Forks(ps2)
  PROVE  Sound(n, d, u2, ps2, k)
<1>1. ASSUME NEW q \in Proc, q \notin S PROVE Account(lab2, q, ps2[q]) /\ Holds(n, d, ps2[q])
  <2>1. Account(lab, q, ps[q]) /\ Holds(m, c, ps[q]) /\ ps[q] \in ProcType
    BY DEF Good
  <2>2. ps2[q] = ps[q] /\ OwnLabels(lab, lab2, q) /\ SameView(lab, m, n, q) /\ SameConts(lab, c, d, q)
    BY <1>1 DEF Others
  <2>3. Account(lab2, q, ps[q]) /\ Holds(n, d, ps[q])
    BY <2>1, <2>2, OtherKept
  <2> QED  BY <2>2, <2>3
<1>2. Good(lab2, n, d, u2, ps2)
  BY <1>1 DEF Good
<1>3. \A q \in Proc : ArgsOK(n, ps2[q])
  <2> TAKE q \in Proc
  <2>1. ps2[q] \in ProcType /\ Holds(n, d, ps2[q])
    BY <1>2 DEF Good
  <2> QED  BY <2>1, ArgsHold
<1>4. \E l : Good(l, n, d, u2, ps2)
  BY <1>2
<1> QED  BY <1>3, <1>4 DEF Sound

(* A step of the processes in S that is lost.                              *)
Untouched(lab, m, n, S) == \A f \in Frame : lab[f].lev # 0 /\ lab[f].who \notin S => n[f] = m[f]
OnlyOf(ps, ps2, S) == \A q \in Proc : q \notin S => ps2[q] = ps[q]
NotRunning(ps2, S) == \A q \in Proc : q \in S => ps2[q].st # "run"

LEMMA LostStep ==
  ASSUME NEW lab, NEW m \in MemType, NEW c, NEW u, NEW ps \in [Proc -> ProcType], Good(lab, m, c, u, ps),
         NEW n \in MemType, NEW d \in [Frame -> Content], NEW u2 \in SUBSET Frame,
         NEW ps2 \in [Proc -> ProcType], NEW S,
         Untouched(lab, m, n, S), OnlyOf(ps, ps2, S), NotRunning(ps2, S)
  PROVE  Sound(n, d, u2, ps2, "lost")
<1>1. ASSUME NEW q \in Proc PROVE ArgsOK(n, ps2[q])
  <2>1. CASE q \in S
    BY <2>1 DEF ArgsOK, NotRunning
  <2>2. CASE q \notin S
    <3>1. ps[q] \in ProcType /\ lab \in Labels /\ Shape(lab, m) /\ Account(lab, q, ps[q]) /\ Holds(m, c, ps[q])
      BY DEF Good
    <3>2. ArgsOK(m, ps[q])
      BY <3>1, ArgsHold
    <3>3. \A f \in Frame : lab[f].lev # 0 /\ lab[f].who = q => n[f] = m[f]
      BY <2>2 DEF Untouched
    <3>4. ArgsOK(n, ps[q])
      BY <3>1, <3>2, <3>3, ArgsKept
    <3> QED  BY <2>2, <3>4 DEF OnlyOf
  <2> QED  BY <2>1, <2>2
<1> QED  BY <1>1 DEF Sound
(* A step of a process that takes no part in a fork.                       *)
LEMMA ForksKept ==
  ASSUME NEW ps, Forks(ps), NEW p \in Proc, ps[p].st \notin {"fork", "copied"},
         NEW ps2, ps2[p].st # "fork", \A q \in Proc : q \notin {p} => ps2[q] = ps[q]
  PROVE  Forks(ps2)
<1>1. ASSUME NEW q \in Proc, ps2[q].st = "fork"
      PROVE  q # p /\ ps2[q] = ps[q] /\ ps[q].child \in Proc /\ ps[q].child # p
             /\ Copying(ps2[q], ps2[ps2[q].child])
  <2>1. q # p /\ ps2[q] = ps[q]
    BY <1>1
  <2>2. ps[q].child \in Proc /\ Copying(ps[q], ps[ps[q].child])
    BY <1>1, <2>1 DEF Forks
  <2>3. ps[q].child # p
    BY <2>2 DEF Copying
  <2> QED  BY <2>1, <2>2, <2>3
<1>2. ASSUME NEW q \in Proc, NEW s \in Proc, ps2[q].st = "fork", ps2[s].st = "fork", ps2[q].child = ps2[s].child
      PROVE  q = s
  BY <1>1, <1>2 DEF Forks
<1> QED  BY <1>1, <1>2 DEF Forks

(* The world a process works on.                                           *)
LEMMA WorldFacts ==
  ASSUME NEW p \in Proc, core = "ok", mem \in MemType, cont \in [Frame -> Content], used \subseteq Frame,
         proc \in [Proc -> ProcType], NEW lab, Good(lab, mem, cont, used, proc)
  PROVE  /\ World(p) \in WorldType /\ World(p).mem = mem /\ World(p).cont = cont /\ World(p).used = used
         /\ World(p).core = "ok" /\ World(p).data = {}
         /\ proc[p].st \notin {"none", "gone"} =>
              /\ WGood(World(p), lab, p) /\ proc[p].pml4 \in Frame /\ lab[proc[p].pml4] = T(p, 1, 0)
<1>1. proc[p] \in ProcType /\ proc[p].tables \in Seq(Frame) /\ proc[p].pml4 \in Frame
  BY ProcFacts
<1> DEFINE w == World(p)
<1>2. w = [mem |-> mem, cont |-> cont, used |-> used, tables |-> proc[p].tables, data |-> {}, at |-> 0, core |-> core]
  BY DEF World
<1>3. /\ w.mem = mem /\ w.cont = cont /\ w.used = used /\ w.core = "ok" /\ w.data = {}
      /\ w.tables = proc[p].tables
  BY <1>2
<1>4. w \in WorldType
  <2>1. 0 \in 0 .. NFrames /\ {} \in SUBSET Nat
    BY VMMAssumption
  <2> QED  BY <1>1, <1>2, <2>1 DEF WorldType
<1> HIDE DEF w
<1>5. ASSUME proc[p].st \notin {"none", "gone"} PROVE WGood(w, lab, p) /\ lab[proc[p].pml4] = T(p, 1, 0)
  <2>1. Account(lab, p, proc[p]) /\ lab \in Labels /\ Shape(lab, mem) /\ UsedAre(lab, used)
    BY DEF Good
  <2>2. lab[proc[p].pml4] = T(p, 1, 0)
    BY <1>1, <1>5, <2>1 DEF Account
  <2>3. \A f \in Frame : f \in Tabs(lab, p) <=> f \in Range(w.tables)
    BY <1>3, <1>5, <2>1 DEF Account
  <2> QED  BY <1>3, <1>4, <2>1, <2>2, <2>3 DEF WGood
<1> QED  BY <1>1, <1>3, <1>4, <1>5 DEF w

(* A program gets one more area.                                           *)
LEMMA AreaStep ==
  ASSUME NEW lab, NEW u, NEW ps \in [Proc -> ProcType], NEW p \in Proc, NEW w, WGood(w, lab, p),
         Good(lab, w.mem, w.cont, u, ps), Forks(ps), NEW r, r = ps[p], r.st \in {"load", "stack"},
         NEW a, Behind(r, a), NEW k, k = Len(r.area) + 1, NEW f \in Frame, NEW v,
         AreaGot(w, lab, p, k, First(a), Count(a), f, a.prot, r.prog, v),
         NEW r2, Bigger(r, r2, a, Run(f, Count(a))), r2.st \in {"load", "args"}, r2.tables = v.tables, Program(r2),
         NEW ps2 \in [Proc -> ProcType], ps2[p] = r2, OnlyOf(ps, ps2, {p})
  PROVE  Sound(v.mem, v.cont, v.used, ps2, v.core)
<1>0. /\ r \in ProcType /\ Account(lab, p, r) /\ Holds(w.mem, w.cont, r) /\ lab \in Labels /\ Shape(lab, w.mem)
      /\ w \in WorldType /\ w.mem \in MemType
  BY DEF Good, WGood, WorldType
<1>1. /\ v \in WorldType /\ v.mem \in MemType /\ v.cont \in [Frame -> Content] /\ v.used \in SUBSET Frame
      /\ Spares(lab, w, v, p) /\ v.core \in {"ok", "lost"}
  BY DEF AreaGot, WorldType
<1>2. CASE v.core # "ok"
  <2>1. v.core = "lost"
    BY <1>1, <1>2
  <2>2. Untouched(lab, w.mem, v.mem, {p})
    BY <1>1 DEF Spares, Untouched
  <2>3. NotRunning(ps2, {p}) /\ OnlyOf(ps, ps2, {p})
    BY DEF NotRunning
  <2>4. Sound(v.mem, v.cont, v.used, ps2, "lost")
    BY <1>0, <1>1, <2>2, <2>3, LostStep
  <2> QED  BY <2>1, <2>4
<1>3. CASE v.core = "ok"
  <2> DEFINE R == Run(f, Count(a))
  <2>1. PICK lab2 : Goes(w, lab, v, lab2, p, 2 .. 5) /\ NewData(lab, lab2, p, k, R)
    BY <1>3 DEF AreaGot
  <2>2. /\ R \subseteq Frame /\ Painted(lab, p, w.mem, v.mem, First(a), Count(a) + 1, f, a.prot)
        /\ \A g \in R : v.cont[g] = <<r.prog, First(a) + g - f>>
    BY <1>3 DEF AreaGot
  <2>3. /\ lab2 \in Labels /\ Shape(lab2, v.mem) /\ UsedAre(lab2, v.used) /\ Grown(lab, lab2, p, 2 .. 5)
        /\ \A g \in Frame : g \in Tabs(lab2, p) <=> g \in Range(r2.tables)
    BY <2>1 DEF Goes, WGood
  <2>4. /\ r.st \notin {"none", "gone", "destroy"} /\ r2.st \notin {"none", "gone", "destroy"} /\ AreasOK(r)
        /\ r.forks = 0 /\ SeesProgram(w.mem, r) /\ Contents(w.mem, w.cont, r)
    BY <1>0, ProcFacts DEF Holds, Copy
  <2>5. Account(lab2, p, r2)
    BY <1>0, <2>1, <2>3, <2>4, BiggerAccount
  <2>6. lab[r.pml4] = T(p, 1, 0) /\ r.pml4 \in Frame
    BY <1>0, <2>4, ProcFacts DEF Account
  <2>7. Over(w.mem, v.mem, r.pml4, First(a), Count(a), f, a.prot)
    <3>1. First(a) \in Nat /\ Count(a) \in Nat
      BY DEF Behind, AreaOK
    <3> QED  BY <2>2, <2>6, <3>1, PaintedOver
  <2>8. SeesProgram(v.mem, r2)
    BY <1>0, <2>2, <2>4, <2>7, MoreSeen
  <2>9. Contents(v.mem, v.cont, r2)
    <3>1. SeesData(w.mem, r)
      BY <1>0, <2>4, SeesItsData
    <3>2. KeepsData(r, w.cont, v.cont)
      <4> SUFFICES ASSUME NEW j \in 1 .. Len(r.area), NEW g \in Frame, g \in r.data[j] PROVE v.cont[g] = w.cont[g]
        BY DEF KeepsData
      <4>1. j \in Nat /\ j \in 1 .. Len(r.data) /\ j > 0
        BY <1>0, <2>4, ProcFacts DEF AreasOK
      <4>2. Freed(r) = 0
        BY <2>4 DEF Freed
      <4>3. lab[g] = T(p, 5, j)
        BY <1>0, <4>1, <4>2 DEF Account
      <4>4. lab[g].lev # 0
        BY <4>3, TFacts
      <4> QED  BY <2>1, <4>4 DEF Goes, SameCont
    <3> QED  BY <1>0, <2>2, <2>4, <2>7, <3>1, <3>2, MoreContents
  <2>10. Holds(v.mem, v.cont, r2)
    <3>1. AreasOK(r2)
      BY <1>0, <2>2, <2>4, BiggerAreas
    <3>2. r2.forks = 0
      BY <2>4 DEF Bigger
    <3> QED  BY <2>4, <2>8, <2>9, <3>1, <3>2 DEF Holds
  <2>11. Forks(ps2)
    <3>1. ps[p].st \notin {"fork", "copied"} /\ ps2[p].st # "fork"
      OBVIOUS
    <3> QED  BY <3>1, ForksKept DEF OnlyOf
  <2>12. Others(lab, lab2, w.mem, v.mem, w.cont, v.cont, {p})
    BY <1>0, <2>1, GoesOthers
  <2>13. \A q \in Proc : q \in {p} => Account(lab2, q, ps2[q]) /\ Holds(v.mem, v.cont, ps2[q])
    BY <2>5, <2>10
  <2>14. v.core \in {"ok", "halted"}
    BY <1>3
  <2> QED  BY <1>1, <2>3, <2>11, <2>12, <2>13, <2>14, SoundStep DEF OnlyOf
<1> QED  BY <1>2, <1>3
-----------------------------------------------------------------------------
(* The steps                                                               *)

(* The record of a process with one more area.                             *)
LEMMA Pushed ==
  ASSUME NEW r \in ProcType, AreasOK(r), NEW a \in AreaType, NEW S \in SUBSET Nat, NEW r2 \in ProcType,
         r2.pml4 = r.pml4, r2.prog = r.prog, r2.forks = r.forks,
         r2.area = push_back(r.area, a), r2.data = push_back(r.data, S)
  PROVE  Bigger(r, r2, a, S)
<1>1. /\ r.area \in Seq(AreaType) /\ r.data \in Seq(SUBSET Nat) /\ Len(r.area) \in Nat /\ Len(r.data) = Len(r.area)
  BY ProcFacts DEF AreasOK
<1>2. Pushes(r.area, a, push_back(r.area, a))
  BY <1>1, PushesIt
<1>3. Pushes(r.data, S, push_back(r.data, S))
  BY <1>1, PushesIt
<1> QED  BY <1>1, <1>2, <1>3 DEF Bigger, Pushes

LEMMA PushTypes ==
  ASSUME NEW r \in ProcType, NEW a \in AreaType, NEW S \in SUBSET Nat
  PROVE  /\ push_back(r.ranges, a) \in Seq(AreaType) /\ push_back(r.area, a) \in Seq(AreaType)
         /\ push_back(r.data, S) \in Seq(SUBSET Nat)
BY ProcFacts, PushBack

(* What the invariant says while the system runs.                          *)
LEMMA Running ==
  ASSUME VMMInv, core = "ok"
  PROVE  /\ mem \in MemType /\ used \subseteq Frame /\ cont \in [Frame -> Content] /\ proc \in [Proc -> ProcType]
         /\ Forks(proc) /\ \E lab : Good(lab, mem, cont, used, proc)
BY DEF VMMInv, Sound

(* The record after LoadSegment or MapStack.                               *)
Grew(r, r2, a, S, tabs) ==
  /\ r2.prog = r.prog /\ r2.pml4 = r.pml4 /\ r2.forks = r.forks /\ r2.rip = r.rip
  /\ r2.child = r.child /\ r2.args = r.args /\ r2.tables = tabs
  /\ r2.area = push_back(r.area, a) /\ r2.ranges = push_back(r.ranges, a) /\ r2.data = push_back(r.data, S)

IsProc(r) == r = [st |-> r.st, prog |-> r.prog, pml4 |-> r.pml4, ranges |-> r.ranges, tables |-> r.tables,
                  i |-> r.i, child |-> r.child, rip |-> r.rip, args |-> r.args,
                  area |-> r.area, data |-> r.data, forks |-> r.forks]

LEMMA GrewType ==
  ASSUME NEW r \in ProcType, NEW a \in AreaType, NEW S \in SUBSET Nat, NEW tabs \in Seq(Frame),
         NEW r2, IsProc(r2), Grew(r, r2, a, S, tabs), r2.st \in States, r2.i \in Nat
  PROVE  r2 \in ProcType
<1>1. /\ r2.ranges \in Seq(AreaType) /\ r2.area \in Seq(AreaType) /\ r2.data \in Seq(SUBSET Nat)
      /\ r2.tables \in Seq(Frame)
  BY PushTypes DEF Grew
<1>2. /\ r2.prog \in Nat /\ r2.pml4 \in Frame /\ r2.forks \in Nat /\ r2.rip \in Int
      /\ r2.child \in Proc \cup {"none"} /\ r2.args \in 0 .. NFrames
  BY ProcFacts DEF Grew
<1> QED  BY <1>1, <1>2 DEF IsProc, ProcType

(* Frames for an area, mapped.                                             *)
LEMMA GetsArea ==
  ASSUME VMMInv, core = "ok", NEW p \in Proc, NEW r, r = proc[p], r.st \in {"load", "stack"},
         NEW a, Behind(r, a), NEW c, c = Count(a), NEW f, f = alloc(used, c), NEW virt \in Nat, virt = a.base,
         NEW prot, prot = a.prot, NEW w, w = World(p), NEW v,
         v = map_range_raw(Filled(TakeUnchecked(w, f, c), f, c, r.prog, PageOf(virt)), r.pml4, virt, f, c * PageSize, prot),
         NEW r2, IsProc(r2), Grew(r, r2, a, Run(f, c), v.tables), r2.st \in {"load", "args"}, r2.i \in Nat,
         Program(r2)
  PROVE  Sound(v.mem, v.cont, v.used, [proc EXCEPT ![p] = r2], v.core)
<1>1. /\ mem \in MemType /\ used \subseteq Frame /\ cont \in [Frame -> Content] /\ proc \in [Proc -> ProcType]
      /\ Forks(proc)
  BY Running
<1>2. PICK lab : Good(lab, mem, cont, used, proc)
  BY Running
<1>3. r \in ProcType /\ Holds(mem, cont, r) /\ AreasOK(r) /\ r.prog \in Nat /\ Len(r.area) \in Nat
  BY <1>1, <1>2, ProcFacts DEF Good, Holds
<1>4. /\ WGood(w, lab, p) /\ r.pml4 \in Frame /\ lab[r.pml4] = T(p, 1, 0) /\ w.mem = mem /\ w.cont = cont /\ w.used = used
  BY <1>1, <1>2, WorldFacts
<1>5. /\ c \in Nat \ {0} /\ PageOf(virt) = First(a) /\ First(a) + c \in UserPages /\ prot \in {5, 7} /\ a \in AreaType
  BY DEF Behind, AreaOK, AreaType, First
<1>6. f \in Frame
  BY <1>5, AllocFacts
<1>7. Run(f, c) \in SUBSET Nat
  BY <1>5, <1>6 DEF Run, Frame
<1> DEFINE k == Len(r.area) + 1
<1>8. AreaGot(w, lab, p, k, PageOf(virt), c, f, prot, r.prog, v)
  <2>1. f = alloc(w.used, c) /\ k \in Nat /\ PageOf(virt) + c \in UserPages
    BY <1>3, <1>4, <1>5
  <2> HIDE DEF k
  <2> QED  BY <1>3, <1>4, <1>5, <2>1, GetArea
<1>9. v.tables \in Seq(Frame)
  BY <1>8 DEF AreaGot, WorldType
<1>10. r2 \in ProcType
  <2>1. r2.st \in States
    BY DEF States
  <2> QED  BY <1>3, <1>5, <1>7, <1>9, <2>1, GrewType
<1>11. Bigger(r, r2, a, Run(f, c))
  BY <1>3, <1>5, <1>7, <1>10, Pushed DEF Grew
<1> DEFINE ps2 == [proc EXCEPT ![p] = r2]
<1>12. ps2 \in [Proc -> ProcType] /\ ps2[p] = r2 /\ OnlyOf(proc, ps2, {p})
  BY <1>1, <1>10 DEF OnlyOf
<1>13. Good(lab, w.mem, w.cont, used, proc)
  BY <1>2, <1>4
<1>14. /\ AreaGot(w, lab, p, k, First(a), Count(a), f, a.prot, r.prog, v)
       /\ Bigger(r, r2, a, Run(f, Count(a))) /\ r2.tables = v.tables /\ k = Len(r.area) + 1 /\ Program(r2)
  BY <1>5, <1>8, <1>11 DEF Grew
<1> HIDE DEF k, ps2
<1>15. Sound(v.mem, v.cont, v.used, ps2, v.core)
  <2>1. /\ proc \in [Proc -> ProcType] /\ WGood(w, lab, p) /\ Good(lab, w.mem, w.cont, used, proc) /\ Forks(proc)
        /\ f \in Frame /\ ps2 \in [Proc -> ProcType] /\ ps2[p] = r2 /\ OnlyOf(proc, ps2, {p})
        /\ AreaGot(w, lab, p, k, First(a), Count(a), f, a.prot, r.prog, v)
        /\ Bigger(r, r2, a, Run(f, Count(a))) /\ r2.tables = v.tables /\ k = Len(r.area) + 1 /\ Program(r2)
    BY <1>1, <1>4, <1>6, <1>12, <1>13, <1>14
  <2> QED  BY <2>1, AreaStep, ZenonT(60)
<1> QED  BY <1>15 DEF ps2
LEMMA LoadSegmentStep ==
  ASSUME VMMInv, NEW p \in Proc, LoadSegment(p)
  PROVE  VMMInv'
<1> DEFINE r == proc[p]
           g == r.prog
           i == r.i
           s == Programs[g][i]
           c == PageNumber(s)
           f == alloc(used, c)
           prot == IF s.write THEN 7 ELSE 5
           w == World(p)
           fill == Filled(Take(w, f, c), f, c, g, PageOf(s.vaddr))
           v == map_range_raw(fill, r.pml4, s.vaddr, f, c * PageSize, prot)
           a == SegArea(s)
           r2 == [r EXCEPT !.ranges = push_back(@, a), !.area = push_back(@, a),
                           !.data = push_back(@, Run(f, c)), !.tables = v.tables, !.i = @ + 1]
<1>0. core = "ok" /\ r.st = "load" /\ i <= Len(Programs[g])
  BY DEF LoadSegment, In
<1>1. a = MemArea(s.vaddr, c * PageSize, prot)
  BY DEF SegArea
<1>2. fill = [Take(w, f, c) EXCEPT !.cont = [h \in Frame |-> IF h \in Run(f, c)
                THEN <<g, PageOf(s.vaddr) + h - f>> ELSE @[h]]]
  BY DEF Filled
<1>3. f # 0 /\ Commit(v, [proc EXCEPT ![p] = r2])
  BY Zenon DEF LoadSegment, Segment, With, Filled, SegArea
<1>4. r \in ProcType /\ AreasOK(r) /\ r.forks = 0 /\ Program(r)
  <2>1. proc \in [Proc -> ProcType] /\ \E lab : Good(lab, mem, cont, used, proc)
    BY <1>0, Running
  <2>2. r \in ProcType /\ Holds(mem, cont, r)
    BY <2>1 DEF Good
  <2> QED  BY <1>0, <2>2, ProcFacts DEF Holds, Copy
<1> DEFINE n == Len(r.area)
           segs == Programs[g]
<1>5. /\ g \in DOMAIN Programs /\ r.ranges = r.area /\ i = n + 1 /\ n \in Nat /\ g \in Nat /\ r.rip = -1
      /\ \A j \in 1 .. n : r.area[j] = SegArea(segs[j])
  BY <1>0, <1>4, ProcFacts DEF Program
<1>6. i \in 1 .. Len(segs) /\ i \in Nat
  <2>1. Len(segs) \in Nat
    BY <1>5, ProgramsAssumption
  <2> HIDE DEF segs, n, i
  <2> QED  BY <1>0, <1>5, <2>1 DEF segs
<1> HIDE DEF g, i
<1>7. /\ s.vaddr \in Nat /\ c \in Nat \ {0} /\ s.write \in BOOLEAN /\ Count(a) = c /\ AreaOK(a)
      /\ a.prot = prot /\ a.base = s.vaddr
      /\ \A j \in 1 .. i - 1 : First(SegArea(segs[j])) + Count(SegArea(segs[j])) <= First(a)
  <2> DEFINE t == s
  <2> HIDE DEF t
  <2>1. t = Programs[g][i] /\ i \in 1 .. Len(Programs[g])
    BY <1>6 DEF t
  <2>2. /\ t.vaddr \in Nat /\ PageNumber(t) \in Nat \ {0} /\ t.write \in BOOLEAN
        /\ Count(SegArea(t)) = PageNumber(t) /\ AreaOK(SegArea(t))
        /\ SegArea(t).prot = (IF t.write THEN 7 ELSE 5) /\ SegArea(t).base = t.vaddr
        /\ \A j \in 1 .. i - 1 : First(SegArea(Programs[g][j])) + Count(SegArea(Programs[g][j])) <= First(SegArea(t))
    BY <1>5, <2>1, SegAreaFacts
  <2> QED  BY <2>2 DEF t
<1>8. Behind(r, a)
  <2>1. \A j \in 1 .. n : j \in 1 .. i - 1
    BY <1>5
  <2> HIDE DEF n, a, segs
  <2>2. \A j \in 1 .. n : First(r.area[j]) + Count(r.area[j]) <= First(a)
    BY <1>5, <1>7, <2>1
  <2> QED  BY <1>7, <2>2 DEF Behind, n
<1> DEFINE R == Run(f, c)
<1> HIDE DEF s, c, f, prot, w, fill, v, a, R
<1>9. IsProc(r2) /\ Grew(r, r2, a, R, v.tables) /\ r2.st = "load" /\ r2.i = i + 1
  <2> HIDE DEF r
  <2>1. r2 = [r EXCEPT !.ranges = push_back(@, a), !.area = push_back(@, a),
                       !.data = push_back(@, R), !.tables = v.tables, !.i = @ + 1]
    BY DEF R
  <2> HIDE DEF r2
  <2>2. /\ r2.ranges = push_back(r.ranges, a) /\ r2.area = push_back(r.area, a) /\ r2.data = push_back(r.data, R)
        /\ r2.tables = v.tables /\ r2.i = r.i + 1 /\ r2.st = r.st /\ r2.prog = r.prog /\ r2.pml4 = r.pml4
        /\ r2.forks = r.forks /\ r2.rip = r.rip /\ r2.child = r.child /\ r2.args = r.args
    BY <1>4, <2>1 DEF ProcType
  <2>3. IsProc(r2)
    BY <1>4, <2>1 DEF ProcType, IsProc
  <2> QED  BY <1>0, <2>2, <2>3 DEF Grew, r, i
<1> HIDE DEF r2
<1>10. a \in AreaType
  BY <1>7 DEF AreaOK
<1>11. Program(r2)
  <2>1. Pushes(r.area, a, push_back(r.area, a))
    BY <1>4, <1>10, ProcFacts, PushesIt
  <2>2. r2.area = push_back(r.area, a) /\ r2.ranges = push_back(r.ranges, a) /\ r2.prog = g /\ r2.rip = -1
    BY <1>5, <1>9 DEF Grew, g
  <2>3. Len(r2.area) = n + 1 /\ r2.area[n + 1] = a /\ \A j \in 1 .. n : r2.area[j] = r.area[j]
    BY <2>1, <2>2 DEF Pushes
  <2> HIDE DEF n, r
  <2>4. \A j \in 1 .. n + 1 : j \in 1 .. n \/ j = n + 1
    BY <1>5
  <2>5. a = SegArea(segs[n + 1])
    BY <1>5 DEF a, s
  <2>6. \A j \in 1 .. n + 1 : r2.area[j] = SegArea(segs[j])
    BY <1>5, <2>3, <2>4, <2>5
  <2>7. n + 1 <= Len(segs)
    BY <1>5, <1>6
  <2>8. r2.ranges = r2.area
    BY <1>5, <2>2
  <2> QED  BY <1>5, <1>9, <2>2, <2>3, <2>6, <2>7, <2>8 DEF Program
<1>12. Sound(v.mem, v.cont, v.used, [proc EXCEPT ![p] = r2], v.core)
  <2>1. v = map_range_raw(Filled(TakeUnchecked(w, f, c), f, c, r.prog, PageOf(s.vaddr)), r.pml4, s.vaddr, f, c * PageSize, prot)
    <3>1. TakeUnchecked(w, f, c) = Take(w, f, c)
      BY <1>3 DEF TakeUnchecked
    <3> QED  BY <3>1 DEF v, fill, g
  <2>2. f = alloc(used, c) /\ w = World(p) /\ s.vaddr = a.base /\ prot = a.prot /\ c = Count(a) /\ r.st \in {"load", "stack"}
    BY <1>0, <1>7 DEF f, w
  <2>3. r2.st \in {"load", "args"} /\ r2.i \in Nat /\ Grew(r, r2, a, Run(f, c), v.tables) /\ r = proc[p]
    BY <1>6, <1>9 DEF R
  <2> HIDE DEF r
  <2> QED  BY <1>0, <1>7, <1>8, <1>9, <1>11, <2>1, <2>2, <2>3, GetsArea
<1> QED  BY <1>3, <1>12, PrimedInv DEF Commit
LEMMA SegCount ==
  ASSUME NEW g \in DOMAIN Programs
  PROVE  Len(Programs[g]) \in Nat \ {0}
<1> DEFINE X == [vaddr : Nat, memsz : Nat \ {0}, write : BOOLEAN]
           P == Programs[g]
<1>1. P \in Seq(X) /\ P # <<>>
  BY ProgramsAssumption
<1> HIDE DEF P, X
<1>2. Len(P) \in Nat /\ Len(P) # 0
  BY <1>1, EmptySeq
<1> QED  BY <1>2 DEF P

LEMMA MapStackStep ==
  ASSUME VMMInv, NEW p \in Proc, MapStack(p)
  PROVE  VMMInv'
<1> DEFINE r == proc[p]
           c == StackPages
           f == alloc(used, c)
           w == World(p)
           fill == Filled(TakeUnchecked(w, f, c), f, c, r.prog, PageOf(UserStack))
           v == map_range_raw(fill, r.pml4, UserStack, f, c * PageSize, 7)
           a == StackArea
           r2 == [r EXCEPT !.st = "args", !.ranges = push_back(@, a), !.area = push_back(@, a),
                           !.data = push_back(@, Run(f, c)), !.tables = v.tables]
<1>0. core = "ok" /\ r.st = "stack"
  BY DEF MapStack, In
<1>1. Commit(v, [proc EXCEPT ![p] = r2])
  BY Zenon DEF MapStack, With, Filled, StackArea
<1>4. r \in ProcType /\ AreasOK(r) /\ r.forks = 0 /\ Program(r)
  <2>1. proc \in [Proc -> ProcType] /\ \E lab : Good(lab, mem, cont, used, proc)
    BY <1>0, Running
  <2>2. r \in ProcType /\ Holds(mem, cont, r)
    BY <2>1 DEF Good
  <2> QED  BY <1>0, <2>2, ProcFacts DEF Holds, Copy
<1> DEFINE n == Len(r.area)
           g == r.prog
           segs == Programs[g]
<1>5. /\ g \in DOMAIN Programs /\ r.ranges = r.area /\ n \in Nat /\ n <= Len(segs)
      /\ \A j \in 1 .. n : r.area[j] = SegArea(segs[j])
      /\ r.rip # -1 => r.rip = segs[1].vaddr /\ n >= 1 /\ r.area[1] = SegArea(segs[1])
  BY <1>0, <1>4, ProcFacts DEF Program
<1>6. Len(segs) \in Nat
  <2> HIDE DEF g
  <2> QED  BY <1>5, SegCount
<1>7. AreaOK(a) /\ Count(a) = c /\ a.base = UserStack /\ a.prot = 7 /\ a \in AreaType
  BY StackAreaFacts DEF AreaOK
<1>8. Behind(r, a)
  <2>1. ASSUME NEW j \in 1 .. n PROVE First(r.area[j]) + Count(r.area[j]) <= First(a)
    <3> DEFINE t == segs[j]
    <3>1. j \in 1 .. Len(Programs[g])
      <4> HIDE DEF n
      <4> QED  BY <1>5, <1>6
    <3> HIDE DEF g, t
    <3>2. First(SegArea(t)) + Count(SegArea(t)) <= First(StackArea)
      BY <1>5, <3>1, SegAreaFacts DEF t
    <3> QED  BY <1>5, <3>2 DEF t
  <2> QED  BY <1>7, <2>1 DEF Behind
<1> DEFINE R == Run(f, c)
<1> HIDE DEF f, w, fill, v, a, R
<1>9. IsProc(r2) /\ Grew(r, r2, a, R, v.tables) /\ r2.st = "args" /\ r2.i = r.i
  <2> HIDE DEF r
  <2>1. r2 = [r EXCEPT !.st = "args", !.ranges = push_back(@, a), !.area = push_back(@, a),
                       !.data = push_back(@, R), !.tables = v.tables]
    BY DEF R
  <2> HIDE DEF r2
  <2>2. /\ r2.ranges = push_back(r.ranges, a) /\ r2.area = push_back(r.area, a) /\ r2.data = push_back(r.data, R)
        /\ r2.tables = v.tables /\ r2.i = r.i /\ r2.st = "args" /\ r2.prog = r.prog /\ r2.pml4 = r.pml4
        /\ r2.forks = r.forks /\ r2.rip = r.rip /\ r2.child = r.child /\ r2.args = r.args
    BY <1>4, <2>1 DEF ProcType
  <2>3. IsProc(r2)
    BY <1>4, <2>1 DEF ProcType, IsProc
  <2> QED  BY <2>2, <2>3 DEF Grew
<1> HIDE DEF r2
<1>11. Program(r2)
  <2>1. Pushes(r.area, a, push_back(r.area, a))
    BY <1>4, <1>7, ProcFacts, PushesIt
  <2>2. r2.area = push_back(r.area, a) /\ r2.ranges = push_back(r.ranges, a) /\ r2.prog = g /\ r2.rip = r.rip
    BY <1>9 DEF Grew
  <2>3. Len(r2.area) = n + 1 /\ r2.area[n + 1] = a /\ \A j \in 1 .. n : r2.area[j] = r.area[j]
    BY <2>1, <2>2 DEF Pushes
  <2>8. r2.ranges = r2.area
    BY <1>5, <2>2
  <2> HIDE DEF n, r, segs
  <2>4. n + 1 \in 1 .. Len(segs) + 1 /\ (n + 1) - 1 = n
    BY <1>5, <1>6
  <2>6. \A j \in 1 .. (n + 1) - 1 : r2.area[j] = SegArea(segs[j])
    BY <1>5, <2>3, <2>4
  <2>7. r2.rip # -1 => r2.rip = segs[1].vaddr /\ n + 1 >= 1 /\ r2.area[1] = SegArea(segs[1])
    <3>1. n >= 1 => 1 \in 1 .. n
      BY <1>5
    <3> QED  BY <1>5, <1>6, <2>2, <2>3, <3>1
  <2>9. /\ r2.prog \in DOMAIN Programs /\ Programs[r2.prog] = segs /\ r2.area[n + 1] = StackArea
    BY <1>5, <2>2, <2>3 DEF segs, a, g
  <2> QED  BY <1>9, <2>3, <2>4, <2>6, <2>7, <2>8, <2>9 DEF Program
<1>12. Sound(v.mem, v.cont, v.used, [proc EXCEPT ![p] = r2], v.core)
  <2>1. v = map_range_raw(Filled(TakeUnchecked(w, f, c), f, c, r.prog, PageOf(UserStack)), r.pml4, UserStack, f, c * PageSize, a.prot)
    BY <1>7 DEF v, fill
  <2>2. f = alloc(used, c) /\ w = World(p) /\ UserStack = a.base /\ c = Count(a) /\ r.st \in {"load", "stack"} /\ UserStack \in Nat
    BY <1>0, <1>7, VMMAssumption DEF f, w
  <2>3. r2.st \in {"load", "args"} /\ r2.i \in Nat /\ Grew(r, r2, a, Run(f, c), v.tables) /\ r = proc[p]
    BY <1>4, <1>9, ProcFacts DEF R
  <2> DEFINE prot == a.prot
  <2> HIDE DEF r, prot
  <2>4. /\ prot = a.prot
        /\ v = map_range_raw(Filled(TakeUnchecked(w, f, c), f, c, r.prog, PageOf(UserStack)), r.pml4, UserStack, f, c * PageSize, prot)
    BY <2>1 DEF prot
  <2> QED  BY <1>0, <1>8, <1>9, <1>11, <2>2, <2>3, <2>4, GetsArea
<1> QED  BY <1>1, <1>12, PrimedInv DEF Commit
(* A step that leaves memory, and what the process has, alone.             *)
SameHas(r, r2) ==
  /\ r2.pml4 = r.pml4 /\ r2.tables = r.tables /\ r2.data = r.data /\ r2.area = r.area /\ r2.ranges = r.ranges
  /\ r2.prog = r.prog /\ r2.forks = r.forks

LEMMA AccountSame ==
  ASSUME NEW lab, NEW p, NEW r, NEW r2, Account(lab, p, r), SameHas(r, r2), Freed(r2) = Freed(r),
         r.st \notin {"none", "gone"}, r2.st \notin {"none", "gone"}
  PROVE  Account(lab, p, r2)
BY DEF Account, SameHas

LEMMA SeesSame ==
  ASSUME NEW r, NEW r2, SameHas(r, r2), NEW m, NEW c
  PROVE  /\ AreasOK(r) => AreasOK(r2)
         /\ Pages(r2) = Pages(r)
         /\ SeesCopy(m, r) => SeesCopy(m, r2)
         /\ Contents(m, c, r) => Contents(m, c, r2)
         /\ \A k, f : SeesRun(m, r, k, f) => SeesRun(m, r2, k, f)
<1>1. /\ r2.pml4 = r.pml4 /\ r2.data = r.data /\ r2.area = r.area /\ r2.prog = r.prog
  BY DEF SameHas
<1>2. Pages(r2) = Pages(r)
  BY <1>1 DEF Pages
<1> QED  BY <1>1, <1>2 DEF AreasOK, SeesCopy, Contents, SeesRun

LEMMA SeesProgramSame ==
  ASSUME NEW r, NEW r2, SameHas(r, r2), NEW m, SeesProgram(m, r),
         r2.st \in {"run", "fork", "destroy"} => r2.args = LeafIn(m, r.pml4, PageOf(UserStack)).at + StackPages
  PROVE  SeesProgram(m, r2)
<1>1. r2.pml4 = r.pml4 /\ r2.area = r.area /\ Pages(r2) = Pages(r)
  BY SeesSame DEF SameHas
<1>2. \A k, f : SeesRun(m, r, k, f) => SeesRun(m, r2, k, f)
  BY SeesSame
<1> QED  BY <1>1, <1>2 DEF SeesProgram

LEMMA RecordStep ==
  ASSUME VMMInv, core = "ok", NEW p \in Proc, NEW r, r = proc[p], NEW r2 \in ProcType, SameHas(r, r2),
         Freed(r2) = Freed(r), r.st \notin {"none", "gone", "fork", "copied"},
         r2.st \notin {"none", "gone", "fork"}, Holds(mem, cont, r) => Holds(mem, cont, r2),
         NEW k \in {"ok", "halted"}
  PROVE  Sound(mem, cont, used, [proc EXCEPT ![p] = r2], k)
<1>1. /\ mem \in MemType /\ used \in SUBSET Frame /\ cont \in [Frame -> Content] /\ proc \in [Proc -> ProcType]
      /\ Forks(proc)
  BY Running
<1>2. PICK lab : Good(lab, mem, cont, used, proc)
  BY Running
<1>3. lab \in Labels /\ Shape(lab, mem) /\ UsedAre(lab, used) /\ Account(lab, p, r) /\ Holds(mem, cont, r)
  BY <1>2 DEF Good
<1>4. Account(lab, p, r2) /\ Holds(mem, cont, r2)
  BY <1>3, AccountSame
<1> DEFINE ps2 == [proc EXCEPT ![p] = r2]
<1>5. ps2 \in [Proc -> ProcType] /\ ps2[p] = r2 /\ \A q \in Proc : q \notin {p} => ps2[q] = proc[q]
  BY <1>1
<1> HIDE DEF ps2
<1>6. Forks(ps2)
  <2>1. ps2[p].st # "fork" /\ proc[p].st \notin {"fork", "copied"}
    BY <1>5
  <2> QED  BY <1>1, <1>5, <2>1, ForksKept
<1>7. Others(lab, lab, mem, mem, cont, cont, {p})
  BY DEF Others, OwnLabels, SameView, SameConts
<1>8. \A q \in Proc : q \in {p} => Account(lab, q, ps2[q]) /\ Holds(mem, cont, ps2[q])
  BY <1>4, <1>5
<1>9. Sound(mem, cont, used, ps2, k)
  BY <1>1, <1>2, <1>3, <1>5, <1>6, <1>7, <1>8, SoundStep
<1> QED  BY <1>9 DEF ps2

LEMMA RunningProc ==
  ASSUME VMMInv, core = "ok", NEW p \in Proc
  PROVE  proc[p] \in ProcType /\ Holds(mem, cont, proc[p]) /\ AreasOK(proc[p])
<1>1. proc \in [Proc -> ProcType] /\ \E lab : Good(lab, mem, cont, used, proc)
  BY Running
<1> QED  BY <1>1 DEF Good, Holds

LEMMA LoadFailsStep ==
  ASSUME VMMInv, NEW p \in Proc, LoadFails(p)
  PROVE  VMMInv'
<1> DEFINE r == proc[p]
           r2 == [r EXCEPT !.st = "stack"]
<1>0. core = "ok" /\ r.st = "load" /\ proc' = [proc EXCEPT ![p] = r2]
  BY DEF LoadFails, In, Set, With
<1>1. r \in ProcType
  BY <1>0, RunningProc
<1> HIDE DEF r
<1>2. /\ r2 \in ProcType /\ SameHas(r, r2) /\ r2.st = "stack" /\ r2.rip = r.rip
  BY <1>1 DEF ProcType, States, SameHas
<1> HIDE DEF r2
<1>3. Freed(r2) = Freed(r)
  BY <1>0, <1>2 DEF Freed, SameHas
<1>4. ASSUME Holds(mem, cont, r) PROVE Holds(mem, cont, r2)
  <2>1. r.forks = 0 /\ Program(r) /\ SeesProgram(mem, r) /\ Contents(mem, cont, r) /\ AreasOK(r)
    BY <1>0, <1>1, <1>4, ProcFacts DEF Holds, Copy
  <2>2. SeesProgram(mem, r2) /\ Contents(mem, cont, r2) /\ AreasOK(r2)
    BY <1>2, <2>1, SeesSame, SeesProgramSame
  <2>3. Program(r2)
    BY <1>0, <1>2, <2>1 DEF Program, SameHas
  <2>4. r2.forks = 0
    BY <1>2, <2>1 DEF SameHas
  <2> QED  BY <1>2, <2>2, <2>3, <2>4 DEF Holds
<1>5. Sound(mem, cont, used, [proc EXCEPT ![p] = r2], "ok")
  <2>1. /\ r.st \notin {"none", "gone", "fork", "copied"} /\ r2.st \notin {"none", "gone", "fork"}
        /\ "ok" \in {"ok", "halted"} /\ r = proc[p] /\ (Holds(mem, cont, r) => Holds(mem, cont, r2))
    BY <1>0, <1>2, <1>4 DEF r
  <2> QED  BY <1>0, <1>2, <1>3, <2>1, RecordStep
<1>6. mem' = mem /\ cont' = cont /\ used' = used /\ core' = "ok"
  BY <1>0 DEF LoadFails
<1> QED  BY <1>0, <1>5, <1>6, PrimedInv

LEMMA NotForked ==
  ASSUME NEW r \in ProcType, NEW m, NEW c, Holds(m, c, r), r.st \in {"load", "stack", "args"}
  PROVE  r.forks = 0 /\ Program(r) /\ SeesProgram(m, r) /\ Contents(m, c, r)
<1>1. r.forks \in Nat
  BY ProcFacts
<1>2. r.forks = 0
  BY <1>1 DEF Holds, Copy
<1> QED  BY <1>2 DEF Holds

LEMMA LoadDoneStep ==
  ASSUME VMMInv, NEW p \in Proc, LoadDone(p)
  PROVE  VMMInv'
<1> DEFINE r == proc[p]
           n == Len(r.area)
           segs == Programs[r.prog]
           entry == segs[1].vaddr
           r2 == [r EXCEPT !.st = "stack", !.rip = entry]
<1>0. core = "ok" /\ r.st = "load" /\ proc' = [proc EXCEPT ![p] = r2] /\ r.i > Len(segs)
  BY DEF LoadDone, In, With
<1>1. r \in ProcType /\ r.forks = 0 /\ Program(r)
  <2>1. r \in ProcType /\ Holds(mem, cont, r) /\ r.st \in {"load", "stack", "args"}
    BY <1>0, RunningProc
  <2> HIDE DEF r
  <2> QED  BY <2>1, NotForked
<1>2. r.prog \in DOMAIN Programs /\ r.i = n + 1 /\ n \in Nat
  BY <1>0, <1>1, ProcFacts DEF Program
<1>3. entry \in Nat /\ n >= Len(segs)
  <2> DEFINE g == r.prog
  <2> HIDE DEF g
  <2>1. Len(Programs[g]) \in Nat \ {0} /\ 1 \in 1 .. Len(Programs[g])
    BY <1>2, SegCount DEF g
  <2>2. Programs[g][1].vaddr \in Nat
    BY <1>2, <2>1, SegAreaFacts DEF g
  <2>3. Programs[g] = segs
    BY DEF g
  <2> HIDE DEF n, segs
  <2> QED  BY <1>0, <1>2, <2>1, <2>2, <2>3
<1> HIDE DEF r, entry
<1>4. /\ r2 \in ProcType /\ SameHas(r, r2) /\ r2.st = "stack" /\ r2.rip = entry
  <2>1. entry \in Int /\ "stack" \in States
    BY <1>3 DEF States
  <2>2. r2 \in ProcType /\ r2.st = "stack" /\ r2.rip = entry
    BY <1>1, <2>1 DEF ProcType
  <2>3. SameHas(r, r2)
    BY <1>1 DEF ProcType, SameHas
  <2> QED  BY <2>2, <2>3
<1> HIDE DEF r2
<1>5. Freed(r2) = Freed(r)
  BY <1>0, <1>4 DEF Freed, SameHas
<1>6. ASSUME Holds(mem, cont, r) PROVE Holds(mem, cont, r2)
  <2>1. SeesProgram(mem, r) /\ Contents(mem, cont, r) /\ AreasOK(r)
    BY <1>0, <1>1, <1>6 DEF Holds
  <2>2. SeesProgram(mem, r2) /\ Contents(mem, cont, r2) /\ AreasOK(r2)
    BY <1>4, <2>1, SeesSame, SeesProgramSame
  <2>3. Program(r2)
    <3>1. 1 \in 1 .. n
      <4>1. Len(segs) \in Nat \ {0}
        BY <1>2, SegCount
      <4> HIDE DEF n, segs
      <4> QED  BY <1>2, <1>3, <4>1
    <3>2. r.area[1] = SegArea(segs[1])
      BY <1>0, <1>1, <3>1 DEF Program
    <3>3. n >= 1
      BY <1>2, <3>1
    <3> QED  BY <1>0, <1>1, <1>4, <3>2, <3>3 DEF Program, SameHas, entry
  <2>4. r2.forks = 0
    BY <1>1, <1>4 DEF SameHas
  <2> QED  BY <1>4, <2>2, <2>3, <2>4 DEF Holds
<1>7. Sound(mem, cont, used, [proc EXCEPT ![p] = r2], "ok")
  <2>1. /\ r.st \notin {"none", "gone", "fork", "copied"} /\ r2.st \notin {"none", "gone", "fork"}
        /\ "ok" \in {"ok", "halted"} /\ r = proc[p] /\ (Holds(mem, cont, r) => Holds(mem, cont, r2))
    BY <1>0, <1>4, <1>6 DEF r
  <2> QED  BY <1>0, <1>4, <1>5, <2>1, RecordStep
<1>8. mem' = mem /\ cont' = cont /\ used' = used /\ core' = "ok"
  <2>1. UNCHANGED <<mem, cont, used, core>> /\ core = "ok"
    BY DEF LoadDone, In
  <2> QED  BY <2>1
<1> QED  BY <1>0, <1>7, <1>8, PrimedInv
(* The page after the stack leads to the frame after the stack's.          *)
LEMMA StackTop ==
  ASSUME NEW r \in ProcType, NEW m, AreasOK(r), Program(r), SeesProgram(m, r), r.st \notin {"load", "stack"}
  PROVE  \E f \in Frame : /\ LeafIn(m, r.pml4, PageOf(UserStack)).at = f
                          /\ LeafIn(m, r.pml4, PageOf(UserStack) + StackPages) = Entry(f + StackPages, 7)
                          /\ f + StackPages \in 0 .. NFrames
<1> DEFINE n == Len(r.area)
           u == PageOf(UserStack)
           z == u + StackPages
<1>1. n \in 1 .. n /\ n \in Nat /\ r.area[n] = StackArea
  <2>1. n \in 1 .. Len(Programs[r.prog]) + 1 /\ r.area[n] = StackArea
    BY DEF Program
  <2>2. n \in Nat
    BY ProcFacts
  <2> HIDE DEF n
  <2> QED  BY <2>1, <2>2
<1>2. u \in Nat /\ StackPages \in Nat \ {0} /\ First(StackArea) = u /\ Count(StackArea) = StackPages /\ StackArea.prot = 7
  BY StackFacts, StackAreaFacts
<1>3. PICK f \in Frame : SeesRun(m, r, n, f)
  BY <1>1 DEF SeesProgram
<1>4. z \notin Pages(r)
  <2> SUFFICES ASSUME NEW k \in 1 .. n, z \in AreaPages(r.area[k]) PROVE FALSE
    BY DEF Pages
  <2> DEFINE a == r.area[k]
  <2>1. z < First(a) + Count(a) /\ First(a) \in Nat /\ Count(a) \in Nat
    BY AreaFacts
  <2>2. CASE k = n
    <3>1. First(a) + Count(a) = z
      BY <1>1, <1>2, <2>2
    <3> HIDE DEF a
    <3> QED  BY <1>2, <2>1, <3>1
  <2>3. CASE k # n
    <3>1. k < n
      <4> HIDE DEF n
      <4> QED  BY <1>1, <2>3
    <3>2. First(a) + Count(a) <= First(r.area[n])
      BY <1>1, <3>1 DEF AreasOK
    <3>3. First(r.area[n]) = u
      BY <1>1, <1>2
    <3> HIDE DEF a, u, n
    <3> QED  BY <1>2, <2>1, <3>2, <3>3
  <2> QED  BY <2>2, <2>3
<1> HIDE DEF n
<1>5. LeafIn(m, r.pml4, z) = Entry(f + StackPages, 7)
  BY <1>1, <1>2, <1>3, <1>4 DEF SeesRun
<1>6. LeafIn(m, r.pml4, u) = Entry(f, 7)
  <2>1. \A j \in 0 .. StackPages - 1 : LeafIn(m, r.pml4, u + j) = Entry(f + j, 7)
    BY <1>1, <1>2, <1>3 DEF SeesRun
  <2>2. u + 0 = u /\ f + 0 = f /\ 0 \in 0 .. StackPages - 1
    BY <1>2 DEF Frame
  <2> QED  BY <2>1, <2>2
<1>7. f + StackPages \in 0 .. NFrames
  <2>1. Run(f, StackPages) \subseteq Frame
    BY <1>1, <1>2, <1>3 DEF SeesRun
  <2>2. f + StackPages - 1 \in Run(f, StackPages)
    BY <1>2 DEF Run, Frame
  <2>3. f + StackPages - 1 \in Frame /\ f \in Nat
    BY <2>1, <2>2 DEF Frame
  <2> QED  BY <1>2, <2>3, VMMAssumption DEF Frame
<1> QED  BY <1>5, <1>6, <1>7 DEF Entry

LEMMA PushArgsStep ==
  ASSUME VMMInv, NEW p \in Proc, PushArgs(p)
  PROVE  VMMInv'
<1> DEFINE r == proc[p]
           w == World(p)
           virt == UserStack + StackPages * PageSize
           u == PageOf(UserStack)
           z == u + StackPages
           v == virtual_to_physical(w, r.pml4, virt)
           r2 == [r EXCEPT !.st = "run", !.args = v.at, !.tables = v.tables]
<1>0. core = "ok" /\ r.st = "args" /\ Commit(v, [proc EXCEPT ![p] = r2])
  BY DEF PushArgs, In, With
<1>1. r \in ProcType /\ AreasOK(r) /\ r.forks = 0 /\ Program(r) /\ SeesProgram(mem, r)
  <2>1. r \in ProcType /\ Holds(mem, cont, r) /\ r.st \in {"load", "stack", "args"} /\ AreasOK(r)
    BY <1>0, RunningProc
  <2> HIDE DEF r
  <2> QED  BY <2>1, NotForked
<1>2. PICK f \in Frame : /\ LeafIn(mem, r.pml4, u).at = f
                         /\ LeafIn(mem, r.pml4, z) = Entry(f + StackPages, 7)
                         /\ f + StackPages \in 0 .. NFrames
  <2>1. r.st \notin {"load", "stack"}
    BY <1>0
  <2> HIDE DEF r
  <2> QED  BY <1>1, <2>1, StackTop
<1>3. z \in UserPages /\ virt \in Nat /\ PageOf(virt) = z
  <2>1. UserStack \in Nat /\ StackPages \in Nat /\ PageSize \in Nat
    BY VMMAssumption
  <2>2. PageOf(UserStack + StackPages * PageSize) = PageOf(UserStack) + StackPages
    BY <2>1, PageFacts
  <2>3. UserStack + StackPages * PageSize \in Nat
    BY <2>1
  <2>4. StackPages \in 0 .. StackPages
    BY <2>1
  <2> QED  BY <2>2, <2>3, <2>4, StackFacts
<1>4. /\ w \in WorldType /\ w.mem = mem /\ w.core = "ok" /\ w.cont = cont /\ w.used = used
      /\ w.tables = r.tables /\ r.pml4 \in Frame
  <2>1. /\ mem \in MemType /\ used \subseteq Frame /\ cont \in [Frame -> Content] /\ proc \in [Proc -> ProcType]
    BY <1>0, Running
  <2>2. PICK lab : Good(lab, mem, cont, used, proc)
    BY <1>0, Running
  <2>3. w.tables = r.tables
    BY DEF World
  <2> QED  BY <1>0, <1>1, <2>1, <2>2, <2>3, WorldFacts, ProcFacts
<1>5. LeafIn(mem, r.pml4, z) # NoEntry /\ LeafIn(mem, r.pml4, z).at = f + StackPages
  BY <1>2 DEF Entry, NoEntry
<1>6. v = [w EXCEPT !.at = f + StackPages]
  <2> DEFINE top == r.pml4
  <2>1. LeafIn(w.mem, top, z) # NoEntry /\ LeafIn(w.mem, top, z).at = f + StackPages /\ top \in Frame
    BY <1>4, <1>5
  <2> HIDE DEF r, w, z, virt, top
  <2>2. virtual_to_physical(w, top, virt) = [w EXCEPT !.at = LeafIn(w.mem, top, z).at]
    BY <1>3, <1>4, <2>1, WalkThere
  <2> QED  BY <2>1, <2>2 DEF top
<1> HIDE DEF r, w, v, z, u
<1>7. v.mem = mem /\ v.cont = cont /\ v.used = used /\ v.core = "ok" /\ v.at = f + StackPages /\ v.tables = r.tables
  BY <1>4, <1>6 DEF WorldType
<1>8. /\ r2 \in ProcType /\ r2.st = "run" /\ r2.args = f + StackPages /\ SameHas(r, r2) /\ r2.rip = r.rip
  <2>1. v.at \in 0 .. NFrames /\ v.tables \in Seq(Frame) /\ "run" \in States
    BY <1>1, <1>2, <1>7, ProcFacts DEF States
  <2>2. r2 \in ProcType /\ r2.st = "run" /\ r2.args = v.at /\ r2.tables = v.tables /\ r2.rip = r.rip
    BY <1>1, <2>1 DEF ProcType
  <2>3. /\ r2.pml4 = r.pml4 /\ r2.data = r.data /\ r2.area = r.area /\ r2.ranges = r.ranges
        /\ r2.prog = r.prog /\ r2.forks = r.forks
    BY <1>1 DEF ProcType
  <2> QED  BY <1>7, <2>2, <2>3 DEF SameHas
<1> HIDE DEF r2
<1>9. Freed(r2) = Freed(r)
  BY <1>0, <1>8 DEF Freed, SameHas
<1>10. ASSUME Holds(mem, cont, r) PROVE Holds(mem, cont, r2)
  <2>1. Contents(mem, cont, r)
    BY <1>0, <1>10 DEF Holds
  <2>2. SeesProgram(mem, r2)
    BY <1>1, <1>2, <1>8, SeesProgramSame DEF u
  <2>3. Contents(mem, cont, r2) /\ AreasOK(r2)
    BY <1>1, <1>8, <2>1, SeesSame
  <2>4. Program(r2)
    BY <1>0, <1>1, <1>8 DEF Program, SameHas
  <2>5. r2.forks = 0
    BY <1>1, <1>8 DEF SameHas
  <2> QED  BY <1>8, <2>2, <2>3, <2>4, <2>5 DEF Holds
<1>11. Sound(mem, cont, used, [proc EXCEPT ![p] = r2], "ok")
  <2>1. /\ r.st \notin {"none", "gone", "fork", "copied"} /\ r2.st \notin {"none", "gone", "fork"}
        /\ "ok" \in {"ok", "halted"} /\ r = proc[p] /\ (Holds(mem, cont, r) => Holds(mem, cont, r2))
    BY <1>0, <1>8, <1>10 DEF r
  <2> QED  BY <1>0, <1>8, <1>9, <2>1, RecordStep
<1> QED  BY <1>0, <1>7, <1>11, PrimedInv DEF Commit

LEMMA ExitStep ==
  ASSUME VMMInv, NEW p \in Proc, Exit(p)
  PROVE  VMMInv'
<1> DEFINE r == proc[p]
           r2 == [r EXCEPT !.st = "destroy", !.i = 0]
<1>0. core = "ok" /\ r.st = "run" /\ proc' = [proc EXCEPT ![p] = r2]
  BY DEF Exit, In, With
<1>1. r \in ProcType
  BY <1>0, RunningProc
<1>2. mem' = mem /\ cont' = cont /\ used' = used /\ core' = "ok"
  <2>1. UNCHANGED <<mem, cont, used, core>> /\ core = "ok"
    BY DEF Exit, In
  <2> QED  BY <2>1
<1> HIDE DEF r
<1>3. /\ r2 \in ProcType /\ SameHas(r, r2) /\ r2.st = "destroy" /\ r2.i = 0 /\ r2.args = r.args /\ r2.rip = r.rip
  <2>1. "destroy" \in States /\ 0 \in Nat
    BY DEF States
  <2>2. r2 \in ProcType /\ r2.st = "destroy" /\ r2.i = 0 /\ r2.args = r.args /\ r2.rip = r.rip
    BY <1>1, <2>1 DEF ProcType
  <2>3. SameHas(r, r2)
    BY <1>1 DEF ProcType, SameHas
  <2> QED  BY <2>2, <2>3
<1> HIDE DEF r2
<1>4. Freed(r2) = Freed(r)
  BY <1>0, <1>3 DEF Freed, SameHas
<1>5. ASSUME Holds(mem, cont, r) PROVE Holds(mem, cont, r2)
  <2>1. AreasOK(r2) /\ r2.forks = r.forks
    BY <1>3, <1>5, SeesSame DEF Holds, SameHas
  <2>2. ASSUME r.forks = 0 PROVE Program(r2) /\ SeesProgram(mem, r2)
    <3>1. Program(r) /\ SeesProgram(mem, r)
      BY <1>0, <1>5, <2>2 DEF Holds
    <3>2. SeesProgram(mem, r2)
      <4>1. r2.args = LeafIn(mem, r.pml4, PageOf(UserStack)).at + StackPages
        BY <1>0, <1>3, <3>1 DEF SeesProgram
      <4> QED  BY <1>3, <3>1, <4>1, SeesProgramSame
    <3>3. Program(r2)
      <4>1. Len(r2.area) \in Nat
        BY <1>3, ProcFacts
      <4>2. r2.i <= Len(r2.area)
        BY <1>3, <4>1
      <4> QED  BY <1>0, <1>3, <3>1, <4>2 DEF Program, SameHas
    <3> QED  BY <3>2, <3>3
  <2>3. ASSUME r.forks > 0 PROVE Copy(r2) /\ SeesCopy(mem, r2)
    <3>1. Copy(r) /\ SeesCopy(mem, r)
      BY <1>0, <1>5, <2>3 DEF Holds
    <3>2. SeesCopy(mem, r2) /\ Pages(r2) = Pages(r)
      BY <1>3, <3>1, SeesSame
    <3> QED  BY <1>0, <1>3, <3>1, <3>2 DEF Copy, SameHas
  <2> QED  BY <1>3, <2>1, <2>2, <2>3 DEF Holds
<1>6. Sound(mem, cont, used, [proc EXCEPT ![p] = r2], "ok")
  <2>1. /\ r.st \notin {"none", "gone", "fork", "copied"} /\ r2.st \notin {"none", "gone", "fork"}
        /\ "ok" \in {"ok", "halted"} /\ r = proc[p] /\ (Holds(mem, cont, r) => Holds(mem, cont, r2))
    BY <1>0, <1>3, <1>5 DEF r
  <2> QED  BY <1>0, <1>3, <1>4, <2>1, RecordStep
<1> QED  BY <1>0, <1>2, <1>6, PrimedInv
LEMMA PageFaultStep ==
  ASSUME VMMInv, NEW p \in Proc, PageFault(p)
  PROVE  VMMInv'
<1>1. core = "ok" /\ core' = "halted" /\ mem' = mem /\ cont' = cont /\ used' = used /\ proc' = proc
  BY DEF PageFault, In
<1>2. Sound(mem, cont, used, proc, "halted")
  BY <1>1 DEF VMMInv, Sound
<1> QED  BY <1>1, <1>2, PrimedInv

(* A program's entry point is in its first area.                           *)
LEMMA EntryPage ==
  ASSUME NEW r \in ProcType, AreasOK(r), Program(r), r.rip # -1
  PROVE  /\ 1 \in 1 .. Len(r.area) /\ PageOf(r.rip) \in AreaPages(r.area[1])
         /\ PageOf(r.rip) \in Pages(r)
<1>1. Len(r.area) \in Nat
  BY ProcFacts
<1> DEFINE g == r.prog
           s == Programs[g][1]
           a == r.area[1]
<1>2. g \in DOMAIN Programs /\ r.rip = s.vaddr /\ Len(r.area) >= 1 /\ a = SegArea(s)
  BY DEF Program
<1>3. 1 \in 1 .. Len(r.area)
  BY <1>1, <1>2
<1>4. First(SegArea(s)) = PageOf(s.vaddr)
  <2>1. 1 \in 1 .. Len(Programs[g])
    <3> HIDE DEF g
    <3> QED  BY <1>2, SegCount
  <2> HIDE DEF g
  <2> QED  BY <1>2, <2>1, SegAreaFacts
<1>5. /\ First(a) \in Nat /\ Count(a) \in Nat \ {0}
      /\ \A page : page \in AreaPages(a) <=> page \in Nat /\ page >= First(a) /\ page < First(a) + Count(a)
  BY <1>3, AreaFacts
<1>6. First(a) = PageOf(r.rip)
  BY <1>2, <1>4
<1> HIDE DEF a
<1>7. First(a) \in AreaPages(a)
  <2>1. First(a) >= First(a) /\ First(a) < First(a) + Count(a)
    BY <1>5
  <2> QED  BY <1>5, <2>1
<1>8. PageOf(r.rip) \in AreaPages(r.area[1])
  BY <1>6, <1>7 DEF a
<1> QED  BY <1>3, <1>8 DEF Pages

(* The child of a fork that is done.                                       *)
LEMMA ForkedEntry ==
  ASSUME NEW r \in ProcType, NEW s \in ProcType, NEW m, NEW c, Holds(m, c, r), r.st = "fork", Copying(r, s),
         r.i >= Len(r.ranges), s.forks = 1, s.rip # -1
  PROVE  PageOf(s.rip) \in Pages(s)
<1>1. /\ r.forks \in Nat /\ r.i \in Nat /\ Len(r.ranges) \in Nat
      /\ r.i <= Len(r.ranges) /\ s.forks = r.forks + 1 /\ s.rip = r.rip
  BY ProcFacts DEF Copying
<1>2. r.forks = 0 /\ r.i = Len(r.ranges)
  BY <1>1
<1>3. Program(r) /\ AreasOK(r) /\ r.ranges = r.area
  BY <1>2 DEF Holds, Program
<1>4. 1 \in 1 .. Len(r.area) /\ PageOf(r.rip) \in AreaPages(r.area[1])
  BY <1>1, <1>3, EntryPage
<1>5. Len(s.area) = Len(r.area) /\ s.area[1] = r.area[1]
  BY <1>2, <1>3, <1>4 DEF Copying
<1> QED  BY <1>1, <1>4, <1>5 DEF Pages

(* A process that runs or forks has what it had.                           *)
LEMMA RunForks ==
  ASSUME NEW r, NEW r2, NEW m, NEW c, Holds(m, c, r), SameHas(r, r2), r2.args = r.args, r2.rip = r.rip,
         r.st \in {"run", "fork"}, r2.st \in {"run", "fork"}
  PROVE  Holds(m, c, r2)
<1>1. AreasOK(r2) /\ r2.forks = r.forks /\ Contents(m, c, r2)
  BY SeesSame DEF Holds, SameHas
<1>2. ASSUME r.forks = 0 PROVE Program(r2) /\ SeesProgram(m, r2)
  <2>1. Program(r) /\ SeesProgram(m, r)
    BY <1>2 DEF Holds
  <2>2. SeesProgram(m, r2)
    <3>1. r2.args = LeafIn(m, r.pml4, PageOf(UserStack)).at + StackPages
      BY <2>1 DEF SeesProgram
    <3> QED  BY <2>1, <3>1, SeesProgramSame
  <2>3. Program(r2)
    BY <2>1 DEF Program, SameHas
  <2> QED  BY <2>2, <2>3
<1>3. ASSUME r.forks > 0 PROVE Copy(r2) /\ SeesCopy(m, r2)
  <2>1. Copy(r) /\ SeesCopy(m, r)
    BY <1>3 DEF Holds
  <2>2. SeesCopy(m, r2) /\ Pages(r2) = Pages(r)
    BY <2>1, SeesSame
  <2> QED  BY <2>1, <2>2 DEF Copy, SameHas
<1> QED  BY <1>1, <1>2, <1>3 DEF Holds

LEMMA DuplicateDoneStep ==
  ASSUME VMMInv, NEW p \in Proc, DuplicateDone(p)
  PROVE  VMMInv'
<1> DEFINE r == proc[p]
           c == r.child
           s == proc[c]
           r2 == [r EXCEPT !.st = "run", !.child = "none"]
           s2 == [s EXCEPT !.st = "run"]
           ps2 == [proc EXCEPT ![p].st = "run", ![p].child = "none", ![c].st = "run"]
<1>0. core = "ok" /\ r.st = "fork" /\ ~InBounds(r.ranges, r.i) /\ proc' = ps2
  BY DEF DuplicateDone, In
<1>1. mem' = mem /\ cont' = cont /\ used' = used /\ core' = "ok"
  <2>1. UNCHANGED <<mem, cont, used, core>> /\ core = "ok"
    BY DEF DuplicateDone, In
  <2> QED  BY <2>1
<1>2. /\ mem \in MemType /\ used \in SUBSET Frame /\ cont \in [Frame -> Content] /\ proc \in [Proc -> ProcType]
      /\ Forks(proc)
  BY <1>0, Running
<1>3. PICK lab : Good(lab, mem, cont, used, proc)
  BY <1>0, Running
<1>4. c \in Proc /\ Copying(r, s) /\ s.st = "copied" /\ c # p
  BY <1>0, <1>2 DEF Forks, Copying
<1>5. r \in ProcType /\ s \in ProcType /\ Holds(mem, cont, r) /\ Holds(mem, cont, s) /\ Account(lab, p, r) /\ Account(lab, c, s)
  BY <1>2, <1>3, <1>4 DEF Good
<1>6. ps2 = [q \in Proc |-> IF q = p THEN r2 ELSE IF q = c THEN s2 ELSE proc[q]]
  BY <1>2, <1>4, <1>5 DEF ProcType
<1>7. r.i >= Len(r.ranges)
  BY <1>0, <1>5, ProcFacts DEF InBounds, Size
<1> HIDE DEF r, s, c
<1>8. /\ r2 \in ProcType /\ SameHas(r, r2) /\ r2.st = "run" /\ r2.args = r.args /\ r2.rip = r.rip
  <2>1. "run" \in States /\ "none" \in Proc \cup {"none"}
    BY DEF States
  <2>2. r2 \in ProcType /\ r2.st = "run" /\ r2.args = r.args /\ r2.rip = r.rip
    BY <1>5, <2>1 DEF ProcType
  <2>3. SameHas(r, r2)
    BY <1>5 DEF ProcType, SameHas
  <2> QED  BY <2>2, <2>3
<1>9. /\ s2 \in ProcType /\ SameHas(s, s2) /\ s2.st = "run" /\ s2.rip = s.rip
  <2>1. "run" \in States
    BY DEF States
  <2>2. s2 \in ProcType /\ s2.st = "run" /\ s2.rip = s.rip
    BY <1>5, <2>1 DEF ProcType
  <2>3. SameHas(s, s2)
    BY <1>5 DEF ProcType, SameHas
  <2> QED  BY <2>2, <2>3
<1>10. ps2 \in [Proc -> ProcType] /\ ps2[p] = r2 /\ ps2[c] = s2 /\ \A q \in Proc : q \notin {p, c} => ps2[q] = proc[q]
  BY <1>2, <1>4, <1>6, <1>8, <1>9
<1> HIDE DEF ps2, r2, s2
<1>11. Account(lab, p, r2) /\ Account(lab, c, s2)
  <2>1. Freed(r2) = Freed(r) /\ Freed(s2) = Freed(s)
    BY <1>0, <1>4, <1>8, <1>9 DEF Freed, SameHas
  <2>2. /\ r.st \notin {"none", "gone"} /\ r2.st \notin {"none", "gone"}
        /\ s.st \notin {"none", "gone"} /\ s2.st \notin {"none", "gone"}
    BY <1>0, <1>4, <1>8, <1>9
  <2> QED  BY <1>5, <1>8, <1>9, <2>1, <2>2, AccountSame
<1>12. Holds(mem, cont, r2)
  <2>1. r.st \in {"run", "fork"} /\ r2.st \in {"run", "fork"}
    BY <1>0, <1>8
  <2> QED  BY <1>5, <1>8, <2>1, RunForks
<1>13. Holds(mem, cont, s2)
  <2>1. AreasOK(s2) /\ s2.forks = s.forks /\ Contents(mem, cont, s2) /\ Pages(s2) = Pages(s)
    BY <1>4, <1>5, <1>9, SeesSame DEF Holds, SameHas
  <2>2. s.forks > 0
    BY <1>4, <1>5, ProcFacts DEF Copying
  <2>3. Copy(s) /\ SeesCopy(mem, s)
    BY <1>4, <1>5, <2>2 DEF Holds
  <2>4. SeesCopy(mem, s2)
    BY <1>9, <2>3, SeesSame
  <2>5. s.forks = 1 /\ s.rip # -1 => PageOf(s.rip) \in Pages(s)
    BY <1>0, <1>4, <1>5, <1>7, ForkedEntry
  <2>6. Copy(s2)
    BY <1>9, <2>1, <2>3, <2>5 DEF Copy, SameHas
  <2> QED  BY <1>9, <2>1, <2>2, <2>4, <2>6 DEF Holds
<1>14. Forks(ps2)
  <2>1. ASSUME NEW q \in Proc, ps2[q].st = "fork"
        PROVE  ps2[q] = proc[q] /\ proc[q].child \in Proc /\ Copying(ps2[q], ps2[ps2[q].child])
    <3>1. q \notin {p, c} /\ ps2[q] = proc[q]
      BY <1>8, <1>9, <1>10, <2>1
    <3>2. proc[q].child \in Proc /\ Copying(proc[q], proc[proc[q].child])
      BY <1>2, <2>1, <3>1 DEF Forks
    <3>3. proc[q].child # c
      BY <1>0, <1>2, <2>1, <3>1 DEF Forks, r, c
    <3>4. proc[q].child # p
      BY <1>0, <3>2 DEF Copying, r
    <3> QED  BY <1>10, <3>1, <3>2, <3>3, <3>4
  <2>2. ASSUME NEW q \in Proc, NEW t \in Proc, ps2[q].st = "fork", ps2[t].st = "fork", ps2[q].child = ps2[t].child
        PROVE  q = t
    BY <1>2, <2>1, <2>2 DEF Forks
  <2> QED  BY <2>1, <2>2 DEF Forks
<1>15. Others(lab, lab, mem, mem, cont, cont, {p, c})
  BY DEF Others, OwnLabels, SameView, SameConts
<1>16. \A q \in Proc : q \in {p, c} => Account(lab, q, ps2[q]) /\ Holds(mem, cont, ps2[q])
  BY <1>10, <1>11, <1>12, <1>13
<1>17. Sound(mem, cont, used, ps2, "ok")
  <2>1. lab \in Labels /\ Shape(lab, mem) /\ UsedAre(lab, used) /\ "ok" \in {"ok", "halted"}
    BY <1>3 DEF Good
  <2> QED  BY <1>2, <1>3, <1>10, <1>14, <1>15, <1>16, <2>1, SoundStep
<1> QED  BY <1>0, <1>1, <1>17, PrimedInv
(* A new pagemap for process c, in frame f.                                *)
TopLabel(lab, lab2, f, c) ==
  /\ lab2 \in Labels /\ lab2[f] = T(c, 1, 0) /\ lab[f].lev = 0 /\ \A g \in Frame \ {f} : lab2[g] = lab[g]

TopMade(lab, f, c, w) ==
  /\ f \in Frame /\ w.mem \in MemType /\ w.cont \in [Frame -> Content] /\ w.used \in SUBSET Frame
  /\ w.core \in {"ok", "lost"} /\ (w.core = "lost" => Untouched(lab, mem, w.mem, {}))
  /\ w.core = "ok" =>
       /\ \E lab2 : TopLabel(lab, lab2, f, c) /\ Shape(lab2, w.mem) /\ UsedAre(lab2, w.used)
       /\ SameLeaves(lab, mem, w.mem) /\ \A page \in UserPages : LeafIn(w.mem, f, page) = NoEntry
       /\ \A g \in Frame \ {f} : w.cont[g] = cont[g]

LEMMA NewTop ==
  ASSUME mem \in MemType, cont \in [Frame -> Content], used \subseteq Frame, core = "ok",
         NEW lab \in Labels, Shape(lab, mem), UsedAre(lab, used), NEW c \in Proc,
         \A g \in Frame : lab[g].who = c => lab[g].lev \notin 1 .. 4, NEW f, f = alloc(used, 1)
  PROVE  TopMade(lab, f, c, NewPagemap(f))
<1> DEFINE b == [mem |-> mem, cont |-> cont, used |-> used, core |-> core]
           t == TakeUnchecked(b, f, 1)
           w == NewPagemap(f)
           top == Entry(KernelTable, 7)
<1>1. w = [t EXCEPT !.mem[f][KernelEntry] = top]
  BY DEF NewPagemap
<1>2. /\ f \in Frame /\ f # 0 => Run(f, 1) = {f} /\ f \notin used
  <2>1. 1 \in Nat \ {0}
    OBVIOUS
  <2>2. /\ f \in Frame /\ f # 0 => Run(f, 1) \cap used = {} /\ f \in Run(f, 1)
    BY <2>1, AllocFacts
  <2>3. f \in Frame => Run(f, 1) = {f}
    BY DEF Run, Frame
  <2> QED  BY <2>2, <2>3
<1>0. f \in Frame
  <2>1. 1 \in Nat \ {0}
    OBVIOUS
  <2> QED  BY <2>1, AllocFacts
<1>3. /\ top \in [at : 0 .. NFrames, flags : {0, 5, 7}] /\ KernelEntry \in Index
      /\ Blank \in [Index -> [at : 0 .. NFrames, flags : {0, 5, 7}]] /\ \A e \in Index : Blank[e] = NoEntry
  BY VMMAssumption DEF Entry, KernelTable, KernelEntry, Index, Blank, NoEntry
<1> HIDE DEF top
<1>4. CASE f = 0
  <2>1. t = [mem |-> mem, cont |-> cont, used |-> used, core |-> "lost"]
    BY <1>4 DEF TakeUnchecked
  <2>2. /\ w.mem = [mem EXCEPT ![f] = [mem[f] EXCEPT ![KernelEntry] = top]]
        /\ w.cont = cont /\ w.used = used /\ w.core = "lost"
    BY <1>1, <2>1
  <2> HIDE DEF w
  <2>3. w.mem \in MemType /\ \A g \in Frame \ {f} : w.mem[g] = mem[g]
    BY <1>0, <1>3, <2>2 DEF MemType
  <2>4. Untouched(lab, mem, w.mem, {})
    BY <1>4, <2>3, UsedLabels DEF Untouched
  <2> QED  BY <1>0, <2>2, <2>3, <2>4 DEF TopMade, w
<1>5. CASE f # 0
  <2> DEFINE M == [g \in Frame |-> IF g = f THEN Blank ELSE mem[g]]
             C == [g \in Frame |-> IF g = f THEN "zero" ELSE cont[g]]
             N == [M EXCEPT ![f] = [M[f] EXCEPT ![KernelEntry] = top]]
  <2>0. \A g : g \in Run(f, 1) <=> g = f
    BY <1>0, <1>2, <1>5
  <2>1. t = [mem |-> M, cont |-> C, used |-> used \cup {f}, core |-> "ok"]
    <3>1. t = [b EXCEPT !.used = used \cup Run(f, 1),
                        !.mem = [g \in Frame |-> IF g \in Run(f, 1) THEN Blank ELSE mem[g]],
                        !.cont = [g \in Frame |-> IF g \in Run(f, 1) THEN "zero" ELSE cont[g]]]
      BY <1>5 DEF TakeUnchecked, Take
    <3>2. /\ used \cup Run(f, 1) = used \cup {f}
          /\ [g \in Frame |-> IF g \in Run(f, 1) THEN Blank ELSE mem[g]] = M
          /\ [g \in Frame |-> IF g \in Run(f, 1) THEN "zero" ELSE cont[g]] = C
      BY <2>0
    <3> HIDE DEF M, C
    <3> QED  BY <3>1, <3>2
  <2>2. /\ w.mem = N /\ w.cont = C /\ w.used = used \cup {f} /\ w.core = "ok"
    <3> HIDE DEF M, C, t
    <3> QED  BY <1>1, <2>1
  <2>3. /\ M \in MemType /\ C \in [Frame -> Content] /\ \A g \in Frame \ {f} : M[g] = mem[g] /\ C[g] = cont[g]
        /\ M[f] = Blank
    BY <1>0, <1>3 DEF MemType, Content
  <2> HIDE DEF M, C
  <2>4. /\ N \in MemType /\ \A g \in Frame \ {f} : N[g] = mem[g]
        /\ \A e \in Index : N[f][e] = IF e = KernelEntry THEN top ELSE NoEntry
    BY <1>0, <1>3, <2>3 DEF MemType
  <2> HIDE DEF N, w
  <2> DEFINE lab2 == [lab EXCEPT ![f] = T(c, 1, 0)]
  <2>5. lab[f].lev = 0 /\ f # KernelTable
    BY <1>0, <1>2, <1>5, UsedLabels
  <2>6. /\ lab2 \in Labels /\ Shape(lab2, N) /\ SameLeaves(lab, mem, N)
        /\ \A page \in UserPages : LeafIn(N, f, page) = NoEntry
    BY <1>0, <2>4, <2>5, AddTop DEF top
  <2>7. lab2[f] = T(c, 1, 0) /\ \A g \in Frame \ {f} : lab2[g] = lab[g]
    BY <1>0 DEF Labels
  <2> HIDE DEF lab2
  <2>8. lab2[f].lev = 1
    BY <2>7, TFacts
  <2>9. UsedAre(lab2, used \cup {f})
    <3>1. \A g \in Frame : lab2[g].lev # 0 <=> lab[g].lev # 0 \/ g = f
      BY <2>5, <2>7, <2>8
    <3>2. used = {0, KernelTable} \cup {g \in Frame : lab[g].lev # 0} /\ lab[0].lev = 0 /\ lab[KernelTable].lev = 0
      BY DEF UsedAre
    <3>3. 0 \in Frame /\ KernelTable \in Frame
      BY UsedLabels
    <3>4. used \cup {f} = {0, KernelTable} \cup {g \in Frame : lab2[g].lev # 0}
      BY <1>0, <3>1, <3>2
    <3>5. lab2[0].lev = 0 /\ lab2[KernelTable].lev = 0
      BY <1>5, <2>5, <2>7, <3>2, <3>3
    <3> QED  BY <3>4, <3>5 DEF UsedAre
  <2>10. TopLabel(lab, lab2, f, c)
    BY <2>5, <2>6, <2>7 DEF TopLabel
  <2>11. \E l : TopLabel(lab, l, f, c) /\ Shape(l, w.mem) /\ UsedAre(l, w.used)
    BY <2>2, <2>6, <2>9, <2>10
  <2>12. used \cup {f} \in SUBSET Frame
    BY <1>0
  <2>13. TopMade(lab, f, c, w)
    BY <1>0, <2>2, <2>3, <2>4, <2>6, <2>11, <2>12 DEF TopMade
  <2> QED  BY <2>13 DEF w
<1> QED  BY <1>4, <1>5
(* A process that has nothing but a new pagemap.                           *)
Bare(r, f) ==
  /\ r \in ProcType /\ r.pml4 = f /\ r.ranges = <<>> /\ r.tables = <<>> /\ r.area = <<>> /\ r.data = <<>>

LEMMA UnusedProc ==
  ASSUME NEW r \in ProcType, NEW m, NEW d, Holds(m, d, r), r.st = "none", NEW lab \in Labels, NEW c \in Proc, Account(lab, c, r),
         Shape(lab, m)
  PROVE  \A g \in Frame : lab[g].lev # 0 => lab[g].who # c
<1> SUFFICES ASSUME NEW g \in Frame, lab[g].lev # 0, lab[g].who = c PROVE FALSE
  OBVIOUS
<1>1. r = NoProc
  BY DEF Holds
<1>2. r.tables = <<>> /\ r.data = <<>>
  BY <1>1 DEF NoProc, Empty
<1>3. lab[g] = T(c, lab[g].lev, lab[g].num) /\ lab[g].lev \in 0 .. 6 /\ lab[g].num \in Nat
  BY LabelFacts
<1>4. CASE lab[g].lev \in 2 .. 4
  <2>1. g \in Range(r.tables)
    BY <1>4 DEF Account, Tabs
  <2> QED  BY <1>2, <2>1 DEF Range
<1>5. CASE lab[g].lev = 1
  <2>1. lab[g].num = 0
    BY <1>5 DEF Shape
  <2> QED  BY <1>3, <1>5, <2>1 DEF Account
<1>6. CASE lab[g].lev = 5
  <2>1. lab[g].num \in 1 .. Len(r.data)
    BY <1>3, <1>6 DEF Account
  <2> QED  BY <1>2, <2>1
<1>7. CASE lab[g].lev = 6
  BY <1>7 DEF Account
<1>8. lab[g].lev = 1 \/ lab[g].lev \in 2 .. 4 \/ lab[g].lev = 5 \/ lab[g].lev = 6
  BY <1>3
<1> QED  BY <1>4, <1>5, <1>6, <1>7, <1>8
LEMMA BareAccount ==
  ASSUME NEW lab, NEW lab2, NEW f, NEW c, TopLabel(lab, lab2, f, c), NEW r, Bare(r, f), r.st \in {"load", "copied"},
         \A g \in Frame : lab[g].lev # 0 => lab[g].who # c
  PROVE  Account(lab2, c, r)
<1>1. lab2[f] = T(c, 1, 0) /\ \A g \in Frame \ {f} : lab2[g] = lab[g]
  BY DEF TopLabel
<1>2. lab2[f].lev = 1 /\ lab2[f].who = c
  BY <1>1, TFacts
<1>3. ASSUME NEW g \in Frame, g # f, NEW l, l # 0, NEW x PROVE lab2[g] # T(c, l, x)
  BY <1>1, <1>3, TFacts
<1>4. r.pml4 = f /\ r.st \notin {"none", "gone"} /\ r.st # "gone" /\ Len(r.data) = 0 /\ Range(r.tables) = {}
  BY DEF Bare, Range
<1>5. ASSUME NEW g \in Frame PROVE lab2[g] = T(c, 1, 0) <=> g = r.pml4 /\ r.st \notin {"none", "gone"}
  <2>1. 1 # 0
    OBVIOUS
  <2> QED  BY <1>1, <1>3, <1>4, <2>1
<1>6. ASSUME NEW g \in Frame PROVE (lab2[g].who = c /\ lab2[g].lev = 6) <=> g = r.pml4 /\ r.st = "gone"
  BY <1>1, <1>2, <1>4
<1>7. ASSUME NEW g \in Frame PROVE g \in Tabs(lab2, c) <=> g \in Range(r.tables) /\ r.st # "gone"
  BY <1>1, <1>2, <1>4 DEF Tabs
<1>8. ASSUME NEW g \in Frame, NEW k \in Nat
      PROVE  lab2[g] = T(c, 5, k) <=> k \in 1 .. Len(r.data) /\ g \in r.data[k] /\ k > Freed(r)
  <2>1. 5 # 0 /\ 5 # 1
    OBVIOUS
  <2>2. lab2[g] # T(c, 5, k)
    BY <1>2, <1>3, <2>1, TFacts
  <2> QED  BY <1>4, <2>2
<1> QED  BY <1>5, <1>6, <1>7, <1>8 DEF Account

LEMMA BareHolds ==
  ASSUME NEW r, NEW f, Bare(r, f), r.st \in {"load", "copied"}, NEW n, NEW d,
         \A page \in UserPages : LeafIn(n, f, page) = NoEntry,
         r.forks = 0 => r.st = "load" /\ Program(r), r.forks > 0 => Copy(r)
  PROVE  Holds(n, d, r)
<1>1. Len(r.area) = 0 /\ Len(r.data) = 0 /\ r.pml4 = f
  BY DEF Bare
<1>2. AreasOK(r) /\ Contents(n, d, r)
  BY <1>1 DEF AreasOK, Contents
<1>3. SeesCopy(n, r)
  BY <1>1 DEF SeesCopy
<1>4. r.st = "load" => SeesProgram(n, r)
  BY <1>1 DEF SeesProgram
<1> QED  BY <1>2, <1>3, <1>4 DEF Holds

LEMMA TopOthers ==
  ASSUME NEW lab, NEW lab2, NEW f, NEW c, TopLabel(lab, lab2, f, c), NEW n, SameLeaves(lab, mem, n), NEW d,
         \A g \in Frame \ {f} : d[g] = cont[g], NEW q \in Proc, q # c
  PROVE  OwnLabels(lab, lab2, q) /\ SameView(lab, mem, n, q) /\ SameConts(lab, cont, d, q)
<1>1. lab2[f].who = c
  BY TFacts DEF TopLabel
<1>2. OwnLabels(lab, lab2, q)
  BY <1>1 DEF TopLabel, OwnLabels
<1>3. SameView(lab, mem, n, q)
  BY DEF SameLeaves, SameView
<1>4. SameConts(lab, cont, d, q)
  BY DEF TopLabel, SameConts
<1> QED  BY <1>2, <1>3, <1>4

LEMMA NoProcFacts ==
  /\ NoProc \in ProcType /\ NoProc.ranges = <<>> /\ NoProc.tables = <<>> /\ NoProc.area = <<>> /\ NoProc.data = <<>>
  /\ NoProc.forks = 0 /\ NoProc.rip = -1 /\ NoProc.st = "none"
<1>1. /\ NoProc.ranges = <<>> /\ NoProc.tables = <<>> /\ NoProc.area = <<>> /\ NoProc.data = <<>>
      /\ NoProc.forks = 0 /\ NoProc.rip = -1 /\ NoProc.st = "none" /\ NoProc.prog = 0 /\ NoProc.pml4 = 0
      /\ NoProc.i = 0 /\ NoProc.child = "none" /\ NoProc.args = 0
  BY DEF NoProc, Empty
<1>2. IsProc(NoProc)
  BY DEF NoProc, IsProc
<1>3. "none" \in States /\ "none" \in Proc \cup {"none"} /\ -1 \in Int /\ 0 \in 0 .. NFrames /\ 0 \in Frame
  BY VMMAssumption DEF States, Frame
<1>4. <<>> \in Seq(AreaType) /\ <<>> \in Seq(Frame) /\ <<>> \in Seq(SUBSET Nat)
  OBVIOUS
<1>5. /\ NoProc.st \in States /\ NoProc.prog \in Nat /\ NoProc.pml4 \in Frame /\ NoProc.i \in Nat
      /\ NoProc.child \in Proc \cup {"none"} /\ NoProc.rip \in Int /\ NoProc.args \in 0 .. NFrames
      /\ NoProc.forks \in Nat
  BY <1>1, <1>3
<1>6. /\ NoProc.ranges \in Seq(AreaType) /\ NoProc.tables \in Seq(Frame) /\ NoProc.area \in Seq(AreaType)
      /\ NoProc.data \in Seq(SUBSET Nat)
  BY <1>1, <1>4
<1>7. NoProc \in ProcType
  BY <1>2, <1>5, <1>6 DEF IsProc, ProcType
<1> QED  BY <1>1, <1>7

LEMMA StartProgramStep ==
  ASSUME VMMInv, NEW p \in Proc, NEW g \in DOMAIN Programs, StartProgram(p, g)
  PROVE  VMMInv'
<1> DEFINE f == alloc(used, 1)
           w == NewPagemap(f)
           r2 == [NoProc EXCEPT !.st = "load", !.prog = g, !.pml4 = f, !.i = 1]
           ps2 == [proc EXCEPT ![p] = r2]
<1>0. core = "ok" /\ proc[p].st = "none" /\ Commit(w, ps2)
  BY DEF StartProgram, In, With
<1>1. /\ mem \in MemType /\ used \in SUBSET Frame /\ cont \in [Frame -> Content] /\ proc \in [Proc -> ProcType]
      /\ Forks(proc)
  BY <1>0, Running
<1>2. PICK lab : Good(lab, mem, cont, used, proc)
  BY <1>0, Running
<1>3. /\ lab \in Labels /\ Shape(lab, mem) /\ UsedAre(lab, used) /\ Account(lab, p, proc[p])
      /\ Holds(mem, cont, proc[p]) /\ proc[p] \in ProcType
  BY <1>1, <1>2 DEF Good
<1>4. \A h \in Frame : lab[h].lev # 0 => lab[h].who # p
  <2> DEFINE r == proc[p]
  <2>1. r \in ProcType /\ Holds(mem, cont, r) /\ r.st = "none" /\ Account(lab, p, r)
    BY <1>0, <1>3
  <2> HIDE DEF r
  <2> QED  BY <1>3, <2>1, UnusedProc
<1>5. TopMade(lab, f, p, w)
  <2>1. \A h \in Frame : lab[h].who = p => lab[h].lev \notin 1 .. 4
    BY <1>4
  <2> HIDE DEF f
  <2>2. f = alloc(used, 1)
    BY DEF f
  <2> QED  BY <1>0, <1>1, <1>3, <2>1, <2>2, NewTop
<1> HIDE DEF f, w
<1>6. f \in Frame
  BY <1>5 DEF TopMade
<1>7. /\ Bare(r2, f) /\ r2.st = "load" /\ r2.prog = g /\ r2.i = 1 /\ r2.forks = 0 /\ r2.rip = -1
  <2>1. g \in Nat
    BY ProgramsAssumption
  <2>2. "load" \in States
    BY DEF States
  <2>3. /\ r2 \in ProcType /\ r2.pml4 = f /\ r2.st = "load" /\ r2.prog = g /\ r2.i = 1
        /\ r2.forks = NoProc.forks /\ r2.rip = NoProc.rip /\ r2.ranges = NoProc.ranges
        /\ r2.tables = NoProc.tables /\ r2.area = NoProc.area /\ r2.data = NoProc.data
    BY <1>6, <2>1, <2>2, NoProcFacts DEF ProcType
  <2> QED  BY <2>3, NoProcFacts DEF Bare
<1> HIDE DEF r2
<1>8. ps2 \in [Proc -> ProcType] /\ ps2[p] = r2 /\ \A q \in Proc : q \notin {p} => ps2[q] = proc[q]
  BY <1>1, <1>7 DEF Bare
<1> HIDE DEF ps2
<1>9. /\ w.mem \in MemType /\ w.cont \in [Frame -> Content] /\ w.used \in SUBSET Frame /\ w.core \in {"ok", "lost"}
  BY <1>5 DEF TopMade
<1>10. ASSUME w.core = "lost" PROVE Sound(w.mem, w.cont, w.used, ps2, w.core)
  <2>1. Untouched(lab, mem, w.mem, {p})
    BY <1>5, <1>10 DEF TopMade, Untouched
  <2>2. NotRunning(ps2, {p}) /\ OnlyOf(proc, ps2, {p})
    BY <1>7, <1>8 DEF NotRunning, OnlyOf
  <2>3. Sound(w.mem, w.cont, w.used, ps2, "lost")
    BY <1>1, <1>2, <1>8, <1>9, <2>1, <2>2, LostStep
  <2> QED  BY <1>10, <2>3
<1>11. ASSUME w.core = "ok" PROVE Sound(w.mem, w.cont, w.used, ps2, w.core)
  <2>1. PICK lab2 : TopLabel(lab, lab2, f, p) /\ Shape(lab2, w.mem) /\ UsedAre(lab2, w.used)
    BY <1>5, <1>11 DEF TopMade
  <2>2. /\ SameLeaves(lab, mem, w.mem) /\ \A page \in UserPages : LeafIn(w.mem, f, page) = NoEntry
        /\ \A h \in Frame \ {f} : w.cont[h] = cont[h]
    BY <1>5, <1>11 DEF TopMade
  <2>3. r2.st \in {"load", "copied"}
    BY <1>7
  <2>4. Account(lab2, p, r2)
    BY <1>4, <1>7, <2>1, <2>3, BareAccount
  <2>5. Program(r2)
    <3>1. Len(r2.area) = 0 /\ r2.ranges = r2.area
      BY <1>7 DEF Bare
    <3>2. Len(Programs[g]) \in Nat
      BY SegCount
    <3> QED  BY <1>7, <3>1, <3>2 DEF Program
  <2>6. Holds(w.mem, w.cont, r2)
    BY <1>7, <2>2, <2>3, <2>5, BareHolds
  <2>7. Others(lab, lab2, mem, w.mem, cont, w.cont, {p})
    BY <2>1, <2>2, TopOthers DEF Others
  <2>8. Forks(ps2)
    <3>1. proc[p].st \notin {"fork", "copied"} /\ ps2[p].st # "fork"
      BY <1>0, <1>7, <1>8
    <3> QED  BY <1>1, <1>8, <3>1, ForksKept
  <2>9. \A q \in Proc : q \in {p} => Account(lab2, q, ps2[q]) /\ Holds(w.mem, w.cont, ps2[q])
    BY <1>8, <2>4, <2>6
  <2>10. lab2 \in Labels /\ "ok" \in {"ok", "halted"}
    BY <2>1 DEF TopLabel
  <2>11. Sound(w.mem, w.cont, w.used, ps2, "ok")
    BY <1>1, <1>2, <1>8, <1>9, <2>1, <2>7, <2>8, <2>9, <2>10, SoundStep
  <2> QED  BY <1>11, <2>11
<1> QED  BY <1>0, <1>9, <1>10, <1>11, PrimedInv DEF Commit
(* The entry point is a page of the user's half.                           *)
LEMMA EntryUser ==
  ASSUME NEW r \in ProcType, NEW m, NEW c, Holds(m, c, r), r.st # "none", r.rip # -1
  PROVE  PageOf(r.rip) \in UserPages
<1>1. r.forks \in Nat /\ AreasOK(r)
  BY ProcFacts DEF Holds
<1>2. CASE r.forks = 0
  <2>1. Program(r)
    BY <1>2 DEF Holds
  <2>2. 1 \in 1 .. Len(r.area) /\ PageOf(r.rip) \in AreaPages(r.area[1])
    BY <1>1, <2>1, EntryPage
  <2> QED  BY <1>1, <2>2, AreaFacts
<1>3. CASE r.forks > 0
  BY <1>3 DEF Holds, Copy
<1> QED  BY <1>1, <1>2, <1>3

LEMMA ForkStep ==
  ASSUME VMMInv, NEW p \in Proc, NEW c \in Proc, Fork(p, c)
  PROVE  VMMInv'
<1> DEFINE r == proc[p]
           f == alloc(used, 1)
           w == NewPagemap(f)
           s2 == [NoProc EXCEPT !.st = "copied", !.prog = r.prog, !.pml4 = f,
                                !.rip = r.rip, !.forks = r.forks + 1]
           r2 == [r EXCEPT !.st = "fork", !.child = c, !.i = 0]
           ps2 == [proc EXCEPT ![p] = [@ EXCEPT !.st = "fork", !.child = c, !.i = 0], ![c] = s2]
<1>0. core = "ok" /\ r.st = "run" /\ proc[c].st = "none" /\ Commit(w, ps2)
  BY DEF Fork, In
<1>1. /\ mem \in MemType /\ used \in SUBSET Frame /\ cont \in [Frame -> Content] /\ proc \in [Proc -> ProcType]
      /\ Forks(proc)
  BY <1>0, Running
<1>2. PICK lab : Good(lab, mem, cont, used, proc)
  BY <1>0, Running
<1>3. /\ lab \in Labels /\ Shape(lab, mem) /\ UsedAre(lab, used) /\ Account(lab, p, r) /\ Account(lab, c, proc[c])
      /\ Holds(mem, cont, r) /\ Holds(mem, cont, proc[c]) /\ r \in ProcType /\ proc[c] \in ProcType /\ p # c
  BY <1>0, <1>1, <1>2 DEF Good
<1>4. \A h \in Frame : lab[h].lev # 0 => lab[h].who # c
  <2> DEFINE s == proc[c]
  <2>1. s \in ProcType /\ Holds(mem, cont, s) /\ s.st = "none" /\ Account(lab, c, s)
    BY <1>0, <1>3
  <2> HIDE DEF s
  <2> QED  BY <1>3, <2>1, UnusedProc
<1>5. TopMade(lab, f, c, w)
  <2>1. \A h \in Frame : lab[h].who = c => lab[h].lev \notin 1 .. 4
    BY <1>4
  <2> HIDE DEF f
  <2>2. f = alloc(used, 1)
    BY DEF f
  <2> QED  BY <1>0, <1>1, <1>3, <2>1, <2>2, NewTop
<1>6. ps2 = [q \in Proc |-> IF q = c THEN s2 ELSE IF q = p THEN r2 ELSE proc[q]]
  BY <1>1, <1>3 DEF ProcType
<1> HIDE DEF f, w
<1>7. f \in Frame
  BY <1>5 DEF TopMade
<1> HIDE DEF r
<1>8. /\ Bare(s2, f) /\ s2.st = "copied" /\ s2.prog = r.prog /\ s2.rip = r.rip /\ s2.forks = r.forks + 1
  <2>1. r.prog \in Nat /\ r.rip \in Int /\ r.forks + 1 \in Nat
    BY <1>3, ProcFacts
  <2>2. "copied" \in States
    BY DEF States
  <2>3. /\ s2 \in ProcType /\ s2.pml4 = f /\ s2.st = "copied" /\ s2.prog = r.prog
        /\ s2.forks = r.forks + 1 /\ s2.rip = r.rip /\ s2.ranges = NoProc.ranges
        /\ s2.tables = NoProc.tables /\ s2.area = NoProc.area /\ s2.data = NoProc.data
    BY <1>7, <2>1, <2>2, NoProcFacts DEF ProcType
  <2> QED  BY <2>3, NoProcFacts DEF Bare
<1>9. /\ r2 \in ProcType /\ SameHas(r, r2) /\ r2.st = "fork" /\ r2.args = r.args /\ r2.rip = r.rip
      /\ r2.child = c /\ r2.i = 0
  <2>1. "fork" \in States /\ c \in Proc \cup {"none"}
    BY DEF States
  <2>2. r2 \in ProcType /\ r2.st = "fork" /\ r2.args = r.args /\ r2.rip = r.rip /\ r2.child = c /\ r2.i = 0
    BY <1>3, <2>1 DEF ProcType
  <2>3. SameHas(r, r2)
    BY <1>3 DEF ProcType, SameHas
  <2> QED  BY <2>2, <2>3
<1> HIDE DEF s2, r2
<1>10. ps2 \in [Proc -> ProcType] /\ ps2[p] = r2 /\ ps2[c] = s2 /\ \A q \in Proc : q \notin {p, c} => ps2[q] = proc[q]
  BY <1>1, <1>3, <1>6, <1>8, <1>9 DEF Bare
<1> HIDE DEF ps2
<1>11. /\ w.mem \in MemType /\ w.cont \in [Frame -> Content] /\ w.used \in SUBSET Frame /\ w.core \in {"ok", "lost"}
  BY <1>5 DEF TopMade
<1>12. ASSUME w.core = "lost" PROVE Sound(w.mem, w.cont, w.used, ps2, w.core)
  <2>1. Untouched(lab, mem, w.mem, {p, c})
    BY <1>5, <1>12 DEF TopMade, Untouched
  <2>2. NotRunning(ps2, {p, c}) /\ OnlyOf(proc, ps2, {p, c})
    BY <1>8, <1>9, <1>10 DEF NotRunning, OnlyOf
  <2>3. Sound(w.mem, w.cont, w.used, ps2, "lost")
    BY <1>1, <1>2, <1>10, <1>11, <2>1, <2>2, LostStep
  <2> QED  BY <1>12, <2>3
<1>13. ASSUME w.core = "ok" PROVE Sound(w.mem, w.cont, w.used, ps2, w.core)
  <2>1. PICK lab2 : TopLabel(lab, lab2, f, c) /\ Shape(lab2, w.mem) /\ UsedAre(lab2, w.used)
    BY <1>5, <1>13 DEF TopMade
  <2>2. /\ SameLeaves(lab, mem, w.mem) /\ \A page \in UserPages : LeafIn(w.mem, f, page) = NoEntry
        /\ \A h \in Frame \ {f} : w.cont[h] = cont[h]
    BY <1>5, <1>13 DEF TopMade
  <2>3. s2.st \in {"load", "copied"}
    BY <1>8
  <2>4. Account(lab2, c, s2)
    BY <1>4, <1>8, <2>1, <2>3, BareAccount
  <2>5. r.forks \in Nat /\ s2.forks > 0 /\ s2.forks # 0
    BY <1>3, <1>8, ProcFacts
  <2>6. Copy(s2)
    <3>1. r.rip # -1 => PageOf(r.rip) \in UserPages
      BY <1>0, <1>3, <2>5, EntryUser
    <3> QED  BY <1>8, <3>1 DEF Copy, Bare
  <2>7. Holds(w.mem, w.cont, s2)
    BY <1>8, <2>2, <2>3, <2>5, <2>6, BareHolds
  <2>8. Others(lab, lab2, mem, w.mem, cont, w.cont, {p, c})
    BY <2>1, <2>2, TopOthers DEF Others
  <2>9. Account(lab2, p, r2) /\ Holds(w.mem, w.cont, r2)
    <3>1. OwnLabels(lab, lab2, p) /\ SameView(lab, mem, w.mem, p) /\ SameConts(lab, cont, w.cont, p)
      BY <1>3, <2>1, <2>2, TopOthers
    <3>2. Account(lab2, p, r) /\ Holds(w.mem, w.cont, r)
      BY <1>3, <3>1, OtherKept
    <3>3. Freed(r2) = Freed(r)
      BY <1>0, <1>9 DEF Freed, SameHas
    <3>4. r.st \in {"run", "fork"} /\ r2.st \in {"run", "fork"}
      BY <1>0, <1>9 DEF r
    <3>5. r.st \notin {"none", "gone"} /\ r2.st \notin {"none", "gone"}
      BY <1>0, <1>9
    <3> QED  BY <1>9, <3>2, <3>3, <3>4, <3>5, AccountSame, RunForks
  <2>10. Forks(ps2)
    <3>1. Copying(r2, s2)
      <4>1. Len(s2.area) = 0 /\ Len(r2.ranges) \in Nat /\ r2.i = 0
        BY <1>8, <1>9, ProcFacts DEF Bare
      <4>2. s2.prog = r2.prog /\ s2.rip = r2.rip /\ s2.forks = r2.forks + 1 /\ s2.st = "copied"
        BY <1>8, <1>9 DEF SameHas
      <4> QED  BY <4>1, <4>2 DEF Copying
    <3>2. ASSUME NEW q \in Proc, ps2[q].st = "fork", q # p
          PROVE  /\ ps2[q] = proc[q] /\ proc[q].st = "fork" /\ proc[q].child \in Proc
                 /\ Copying(ps2[q], ps2[ps2[q].child]) /\ ps2[q].child # c
      <4>1. q # c
        BY <1>8, <1>10, <3>2
      <4>2. ps2[q] = proc[q]
        BY <1>10, <3>2, <4>1
      <4>3. proc[q].child \in Proc /\ Copying(proc[q], proc[proc[q].child])
        BY <1>1, <3>2, <4>2 DEF Forks
      <4>4. proc[q].child # c /\ proc[q].child # p
        BY <1>0, <4>3 DEF Copying, r
      <4> QED  BY <1>10, <3>2, <4>2, <4>3, <4>4
    <3>3. ps2[p].child = c /\ Copying(ps2[p], ps2[ps2[p].child])
      BY <1>9, <1>10, <3>1
    <3>4. ASSUME NEW q \in Proc, ps2[q].st = "fork"
          PROVE  ps2[q].child \in Proc /\ Copying(ps2[q], ps2[ps2[q].child])
      BY <3>2, <3>3, <3>4
    <3>5. ASSUME NEW q \in Proc, NEW t \in Proc, ps2[q].st = "fork", ps2[t].st = "fork", ps2[q].child = ps2[t].child
          PROVE  q = t
      BY <1>1, <3>2, <3>3, <3>5 DEF Forks
    <3> QED  BY <3>4, <3>5 DEF Forks
  <2>11. \A q \in Proc : q \in {p, c} => Account(lab2, q, ps2[q]) /\ Holds(w.mem, w.cont, ps2[q])
    BY <1>10, <2>4, <2>7, <2>9
  <2>12. lab2 \in Labels /\ "ok" \in {"ok", "halted"}
    BY <2>1 DEF TopLabel
  <2>13. Sound(w.mem, w.cont, w.used, ps2, "ok")
    BY <1>1, <1>2, <1>10, <1>11, <2>1, <2>8, <2>10, <2>11, <2>12, SoundStep
  <2> QED  BY <1>13, <2>13
<1> QED  BY <1>0, <1>11, <1>12, <1>13, PrimedInv DEF Commit
(* A forked process with one more area sees it, and what it saw before.    *)
Copies(m, n, top, a, d, D, x) ==
  \A z \in UserPages :
    IF z >= First(a) /\ z < First(a) + Count(a) THEN ShownAt(n, top, z, d, D, a.prot, x)
    ELSE LeafIn(n, top, z) = LeafIn(m, top, z)

LEMMA MoreCopied ==
  ASSUME NEW s \in ProcType, AreasOK(s), NEW a, Behind(s, a), NEW D, D \subseteq Frame,
         NEW s2, Bigger(s, s2, a, D), NEW m, NEW n, NEW c, NEW d, SeesCopy(m, s), Contents(m, c, s),
         KeepsData(s, c, d), Copies(m, n, s.pml4, a, d, D, s.prog)
  PROVE  SeesCopy(n, s2) /\ Contents(n, d, s2)
<1>1. /\ AreasOK(s2) /\ \A page : page \in Pages(s2) <=> page \in Pages(s) \/ page \in AreaPages(a)
      /\ \A page \in Pages(s) : page < First(a)
      /\ \A page : page \in AreaPages(a) <=> page \in Nat /\ page >= First(a) /\ page < First(a) + Count(a)
  BY BiggerAreas
<1>2. /\ s2 \in ProcType /\ s2.pml4 = s.pml4 /\ s2.prog = s.prog /\ Len(s2.area) = Len(s.area) + 1
      /\ Len(s.area) \in Nat /\ s2.area[Len(s.area) + 1] = a /\ s2.data[Len(s.area) + 1] = D
      /\ \A k \in 1 .. Len(s.area) : s2.area[k] = s.area[k] /\ s2.data[k] = s.data[k]
  BY ProcFacts DEF Bigger
<1>3. First(a) \in Nat /\ Count(a) \in Nat /\ First(a) + Count(a) \in UserPages /\ a.prot \in {5, 7}
  BY DEF Behind, AreaOK, AreaType
<1>4. ASSUME NEW page \in AreaPages(a)
      PROVE  /\ page \in UserPages /\ ShownAt(n, s.pml4, page, d, D, a.prot, s.prog)
             /\ LeafIn(n, s.pml4, page) # NoEntry
  <2>1. page \in Nat /\ page >= First(a) /\ page < First(a) + Count(a)
    BY <1>1
  <2>2. page \in UserPages
    BY <1>3, <2>1, UserDown
  <2>3. ShownAt(n, s.pml4, page, d, D, a.prot, s.prog)
    BY <2>1, <2>2 DEF Copies
  <2>4. LeafIn(n, s.pml4, page) # NoEntry
    BY <1>3, <2>3 DEF ShownAt, NoEntry, Entry
  <2> QED  BY <2>2, <2>3, <2>4
<1>5. ASSUME NEW k \in 1 .. Len(s.area), NEW page \in AreaPages(s.area[k])
      PROVE  /\ page \in UserPages /\ LeafIn(n, s.pml4, page) = LeafIn(m, s.pml4, page)
             /\ LeafIn(m, s.pml4, page) # NoEntry /\ LeafIn(m, s.pml4, page).at \in s.data[k]
             /\ LeafIn(m, s.pml4, page).flags = s.area[k].prot
             /\ d[LeafIn(n, s.pml4, page).at] = <<s.prog, page>>
  <2>1. page \in UserPages /\ page \in Nat /\ s.data[k] \subseteq Frame
    BY <1>5, AreaFacts
  <2>2. page \in Pages(s)
    BY <1>5 DEF Pages
  <2>3. page < First(a)
    BY <1>1, <2>2
  <2>4. LeafIn(n, s.pml4, page) = LeafIn(m, s.pml4, page)
    BY <1>3, <2>1, <2>3 DEF Copies
  <2>5. /\ LeafIn(m, s.pml4, page) # NoEntry /\ LeafIn(m, s.pml4, page).at \in s.data[k]
        /\ LeafIn(m, s.pml4, page).flags = s.area[k].prot
    BY <1>5 DEF SeesCopy
  <2>6. c[LeafIn(m, s.pml4, page).at] = <<s.prog, page>>
    BY <1>5 DEF Contents
  <2>7. d[LeafIn(m, s.pml4, page).at] = c[LeafIn(m, s.pml4, page).at]
    BY <1>5, <2>1, <2>5 DEF KeepsData
  <2> QED  BY <2>1, <2>4, <2>5, <2>6, <2>7
<1>6. ASSUME NEW k \in 1 .. Len(s2.area), NEW page \in AreaPages(s2.area[k])
      PROVE  /\ LeafIn(n, s2.pml4, page) # NoEntry /\ LeafIn(n, s2.pml4, page).at \in s2.data[k]
             /\ LeafIn(n, s2.pml4, page).flags = s2.area[k].prot
             /\ d[LeafIn(n, s2.pml4, page).at] = <<s2.prog, page>>
  <2>1. CASE k = Len(s.area) + 1
    <3>1. page \in AreaPages(a) /\ s2.area[k] = a /\ s2.data[k] = D
      BY <1>2, <1>6, <2>1
    <3> QED  BY <1>2, <1>4, <3>1 DEF ShownAt
  <2>2. CASE k # Len(s.area) + 1
    <3>1. k \in 1 .. Len(s.area)
      BY <1>2, <2>2
    <3>2. page \in AreaPages(s.area[k]) /\ s2.area[k] = s.area[k] /\ s2.data[k] = s.data[k]
      BY <1>2, <1>6, <3>1
    <3> QED  BY <1>2, <1>5, <3>1, <3>2
  <2> QED  BY <2>1, <2>2
<1>7. ASSUME NEW page \in UserPages, LeafIn(n, s2.pml4, page) # NoEntry
      PROVE  page \in Pages(s2)
  <2>1. CASE page >= First(a) /\ page < First(a) + Count(a)
    BY <1>1, <2>1 DEF UserPages
  <2>2. CASE ~(page >= First(a) /\ page < First(a) + Count(a))
    <3>1. LeafIn(n, s.pml4, page) = LeafIn(m, s.pml4, page)
      BY <1>7, <2>2 DEF Copies
    <3> QED  BY <1>1, <1>2, <1>7, <3>1 DEF SeesCopy
  <2> QED  BY <2>1, <2>2
<1>8. SeesCopy(n, s2)
  BY <1>6, <1>7 DEF SeesCopy
<1>9. Contents(n, d, s2)
  BY <1>6 DEF Contents
<1> QED  BY <1>8, <1>9

(* A fork goes on with the range after the ones it copied.                 *)
LEMMA ForkAt ==
  ASSUME NEW r \in ProcType, NEW s \in ProcType, NEW m, NEW c, Holds(m, c, r), Holds(m, c, s), r.st = "fork",
         Copying(r, s), r.i < Len(r.ranges), NEW a, a = r.ranges[r.i + 1]
  PROVE  /\ r.forks = 0 /\ s.forks = 1 /\ r.ranges = r.area /\ r.i + 1 \in 1 .. Len(r.area) /\ Behind(s, a)
         /\ Contents(m, c, r)
<1>1. /\ r.i \in Nat /\ Len(r.ranges) \in Nat /\ r.forks \in Nat /\ AreasOK(r)
      /\ Contents(m, c, r)
  BY ProcFacts DEF Holds
<1>2. r.forks = 0
  <2>1. SUFFICES ASSUME r.forks > 0 PROVE FALSE
    BY <1>1
  <2>2. r.ranges = <<>>
    BY <2>1 DEF Holds, Copy
  <2> QED  BY <1>1, <2>2
<1>3. r.ranges = r.area
  BY <1>2 DEF Holds, Program
<1>4. r.i + 1 \in 1 .. Len(r.area) /\ a = r.area[r.i + 1]
  BY <1>1, <1>3
<1>5. AreaOK(a)
  BY <1>1, <1>4 DEF AreasOK
<1>6. ASSUME NEW k \in 1 .. Len(s.area) PROVE First(s.area[k]) + Count(s.area[k]) <= First(a)
  <2>1. k \in 1 .. r.i /\ s.area[k] = r.area[k]
    BY <1>3 DEF Copying
  <2>2. k \in 1 .. Len(r.area) /\ k < r.i + 1
    BY <1>1, <1>4, <2>1
  <2> QED  BY <1>1, <1>4, <2>1, <2>2 DEF AreasOK
<1> QED  BY <1>1, <1>2, <1>3, <1>4, <1>5, <1>6 DEF Behind, Copying
Copied1(r, r2, s, s2, tabs) ==
  /\ r2 \in ProcType /\ SameHas(r, r2) /\ r2.st = "fork" /\ r2.child = r.child /\ r2.rip = r.rip
  /\ r2.args = r.args /\ r2.i = r.i + 1
  /\ s2.st = "copied" /\ s2.rip = s.rip /\ s2.ranges = s.ranges /\ s2.tables = tabs

LEMMA CopyForks ==
  ASSUME NEW ps \in [Proc -> ProcType], Forks(ps), NEW p \in Proc, NEW c \in Proc, NEW r, r = ps[p], NEW s, s = ps[c],
         r.st = "fork", r.child = c, s.st = "copied", r.i < Len(r.ranges), NEW a, a = r.ranges[r.i + 1],
         NEW r2, NEW s2, NEW tabs, Copied1(r, r2, s, s2, tabs), NEW D, Bigger(s, s2, a, D),
         NEW ps2, ps2[p] = r2, ps2[c] = s2, OnlyOf(ps, ps2, {p, c})
  PROVE  Forks(ps2)
<1>1. Copying(r, s) /\ r \in ProcType /\ s \in ProcType /\ r.i \in Nat /\ Len(r.ranges) \in Nat
  BY ProcFacts DEF Forks
<1>2. /\ r2.ranges = r.ranges /\ r2.prog = r.prog /\ r2.forks = r.forks /\ r2.i = r.i + 1 /\ r2.rip = r.rip
      /\ r2.st = "fork" /\ r2.child = c /\ s2.st = "copied" /\ s2.rip = s.rip
  BY DEF Copied1, SameHas
<1>3. Copying(r2, s2)
  <2>1. s2.prog = r2.prog /\ s2.rip = r2.rip /\ s2.forks = r2.forks + 1 /\ Len(s2.area) = r2.i
    BY <1>1, <1>2 DEF Copying, Bigger
  <2>2. r2.i <= Len(r2.ranges)
    BY <1>1, <1>2
  <2>3. ASSUME NEW k \in 1 .. r2.i PROVE s2.area[k] = r2.ranges[k]
    <3>1. CASE k = r.i + 1
      BY <1>1, <1>2, <3>1 DEF Copying, Bigger
    <3>2. CASE k # r.i + 1
      <4>1. k \in 1 .. r.i /\ k \in 1 .. Len(s.area)
        BY <1>1, <1>2, <3>2 DEF Copying
      <4> QED  BY <1>1, <1>2, <4>1 DEF Copying, Bigger
    <3> QED  BY <3>1, <3>2
  <2> QED  BY <1>2, <2>1, <2>2, <2>3 DEF Copying
<1>4. ASSUME NEW q \in Proc, ps2[q].st = "fork", q # p
      PROVE  /\ ps2[q] = ps[q] /\ ps[q].st = "fork" /\ ps[q].child \in Proc
             /\ Copying(ps2[q], ps2[ps2[q].child]) /\ ps2[q].child # c
  <2>1. q # c
    BY <1>2, <1>4
  <2>2. ps2[q] = ps[q]
    BY <1>4, <2>1 DEF OnlyOf
  <2>3. ps[q].child \in Proc /\ Copying(ps[q], ps[ps[q].child])
    BY <1>4, <2>2 DEF Forks
  <2>4. ps[q].child # c
    BY <1>4, <2>2 DEF Forks
  <2>5. ps[q].child # p
    BY <2>3 DEF Copying
  <2> QED  BY <1>4, <2>2, <2>3, <2>4, <2>5 DEF OnlyOf
<1>5. ps2[p].child = c /\ Copying(ps2[p], ps2[ps2[p].child])
  BY <1>2, <1>3
<1>6. ASSUME NEW q \in Proc, ps2[q].st = "fork"
      PROVE  ps2[q].child \in Proc /\ Copying(ps2[q], ps2[ps2[q].child])
  BY <1>4, <1>5, <1>6
<1>7. ASSUME NEW q \in Proc, NEW t \in Proc, ps2[q].st = "fork", ps2[t].st = "fork", ps2[q].child = ps2[t].child
      PROVE  q = t
  BY <1>4, <1>5, <1>7 DEF Forks
<1> QED  BY <1>6, <1>7 DEF Forks

LEMMA CopyStep ==
  ASSUME NEW lab, NEW u, NEW ps \in [Proc -> ProcType], NEW p \in Proc, NEW c \in Proc, NEW w, WGood(w, lab, c),
         Good(lab, w.mem, w.cont, u, ps), Forks(ps), NEW r, r = ps[p], NEW s, s = ps[c],
         r.st = "fork", r.child = c, r.i < Len(r.ranges), NEW a, a = r.ranges[r.i + 1],
         NEW k, k = Len(s.area) + 1, NEW v, Dup(w, lab, c, k, First(a), Count(a), a.prot, s.prog, v),
         NEW r2, NEW s2, Copied1(r, r2, s, s2, v.tables), Bigger(s, s2, a, v.data),
         NEW ps2 \in [Proc -> ProcType], ps2[p] = r2, ps2[c] = s2, OnlyOf(ps, ps2, {p, c})
  PROVE  Sound(v.mem, v.cont, v.used, ps2, v.core)
<1>0. /\ r \in ProcType /\ Account(lab, p, r) /\ Holds(w.mem, w.cont, r) /\ lab \in Labels /\ Shape(lab, w.mem)
      /\ s \in ProcType /\ Account(lab, c, s) /\ Holds(w.mem, w.cont, s)
      /\ w \in WorldType /\ w.mem \in MemType
  BY DEF Good, WGood, WorldType
<1>1. /\ v \in WorldType /\ v.mem \in MemType /\ v.cont \in [Frame -> Content] /\ v.used \in SUBSET Frame
      /\ Spares(lab, w, v, c) /\ v.core \in {"ok", "lost"}
  BY DEF Dup, WorldType
<1>2. Copying(r, s) /\ s.st = "copied" /\ p # c
  BY DEF Forks, Copying
<1>3. r2.st = "fork" /\ s2.st = "copied"
  BY DEF Copied1
<1>4. CASE v.core # "ok"
  <2>1. v.core = "lost"
    BY <1>1, <1>4
  <2>2. Untouched(lab, w.mem, v.mem, {p, c})
    BY <1>1 DEF Spares, Untouched
  <2>3. NotRunning(ps2, {p, c}) /\ OnlyOf(ps, ps2, {p, c})
    BY <1>3 DEF NotRunning
  <2>4. Sound(v.mem, v.cont, v.used, ps2, "lost")
    BY <1>0, <1>1, <2>2, <2>3, LostStep
  <2> QED  BY <2>1, <2>4
<1>5. CASE v.core = "ok"
  <2> DEFINE D == v.data
  <2>1. PICK lab2 : Goes(w, lab, v, lab2, c, 2 .. 5) /\ NewData(lab, lab2, c, k, D)
    BY <1>5 DEF Dup
  <2>2. /\ D \subseteq Frame /\ Shown(lab, c, w.mem, v.mem, v.cont, D, First(a), Count(a), a.prot, s.prog)
    BY <1>5 DEF Dup
  <2>3. /\ lab2 \in Labels /\ Shape(lab2, v.mem) /\ UsedAre(lab2, v.used) /\ Grown(lab, lab2, c, 2 .. 5)
        /\ \A g \in Frame : g \in Tabs(lab2, c) <=> g \in Range(s2.tables)
    BY <2>1 DEF Goes, WGood, Copied1
  <2>4. /\ r.forks = 0 /\ s.forks = 1 /\ Behind(s, a)
    BY <1>0, <1>2, ForkAt
  <2>5. /\ s.st \notin {"none", "gone", "destroy"} /\ s2.st \notin {"none", "gone", "destroy"} /\ AreasOK(s)
        /\ SeesCopy(w.mem, s) /\ Contents(w.mem, w.cont, s) /\ Copy(s)
    BY <1>0, <1>2, <1>3, <2>4 DEF Holds
  <2> HIDE DEF D
  <2>6. Bigger(s, s2, a, D)
    BY DEF D
  <2>7. Account(lab2, c, s2)
    BY <1>0, <2>1, <2>3, <2>5, <2>6, BiggerAccount
  <2>8. lab[s.pml4] = T(c, 1, 0) /\ s.pml4 \in Frame
    BY <1>0, <2>5, ProcFacts DEF Account
  <2>9. Copies(w.mem, v.mem, s.pml4, a, v.cont, D, s.prog)
    BY <2>2, <2>8 DEF Shown, Copies
  <2>10. KeepsData(s, w.cont, v.cont)
    <3> SUFFICES ASSUME NEW j \in 1 .. Len(s.area), NEW g \in Frame, g \in s.data[j] PROVE v.cont[g] = w.cont[g]
      BY DEF KeepsData
    <3>1. j \in Nat /\ j \in 1 .. Len(s.data) /\ j > 0
      BY <1>0, <2>5, ProcFacts DEF AreasOK
    <3>2. Freed(s) = 0
      BY <2>4 DEF Freed
    <3>3. lab[g] = T(c, 5, j)
      BY <1>0, <3>1, <3>2 DEF Account
    <3>4. lab[g].lev # 0
      BY <3>3, TFacts
    <3> QED  BY <2>1, <3>4 DEF Goes, SameCont
  <2>11. SeesCopy(v.mem, s2) /\ Contents(v.mem, v.cont, s2)
    BY <1>0, <2>2, <2>4, <2>5, <2>6, <2>9, <2>10, MoreCopied
  <2>12. Holds(v.mem, v.cont, s2)
    <3>1. AreasOK(s2)
      BY <1>0, <2>2, <2>4, <2>5, <2>6, BiggerAreas
    <3>2. s2.forks = 1 /\ s2.ranges = <<>>
      BY <2>4, <2>5, <2>6 DEF Bigger, Copied1, Copy
    <3>3. Copy(s2)
      BY <1>3, <2>5, <3>2 DEF Copy, Copied1
    <3> QED  BY <1>3, <2>11, <3>1, <3>2, <3>3 DEF Holds
  <2>13. Others(lab, lab2, w.mem, v.mem, w.cont, v.cont, {c})
    BY <1>0, <2>1, GoesOthers
  <2>14. Others(lab, lab2, w.mem, v.mem, w.cont, v.cont, {p, c})
    BY <2>13 DEF Others
  <2>15. Account(lab2, p, r2) /\ Holds(v.mem, v.cont, r2)
    <3>1. OwnLabels(lab, lab2, p) /\ SameView(lab, w.mem, v.mem, p) /\ SameConts(lab, w.cont, v.cont, p)
      BY <1>2, <2>13 DEF Others
    <3>2. Account(lab2, p, r) /\ Holds(v.mem, v.cont, r)
      BY <1>0, <3>1, OtherKept
    <3>3. Freed(r2) = Freed(r) /\ SameHas(r, r2) /\ r2.rip = r.rip /\ r2.args = r.args
      BY DEF Freed, SameHas, Copied1
    <3>4. /\ r.st \in {"run", "fork"} /\ r2.st \in {"run", "fork"}
          /\ r.st \notin {"none", "gone"} /\ r2.st \notin {"none", "gone"}
      BY <1>3
    <3> QED  BY <3>2, <3>3, <3>4, AccountSame, RunForks
  <2>16. Forks(ps2)
    <3> DEFINE tabs == v.tables
    <3>1. Copied1(r, r2, s, s2, tabs)
      OBVIOUS
    <3> HIDE DEF tabs
    <3> QED  BY <1>2, <2>6, <3>1, CopyForks, ZenonT(60)
  <2>17. \A q \in Proc : q \in {p, c} => Account(lab2, q, ps2[q]) /\ Holds(v.mem, v.cont, ps2[q])
    BY <2>7, <2>12, <2>15
  <2>18. v.core \in {"ok", "halted"}
    BY <1>5
  <2> QED  BY <1>1, <2>3, <2>14, <2>16, <2>17, <2>18, SoundStep DEF OnlyOf
<1> QED  BY <1>4, <1>5
LEMMA DuplicateRangeStep ==
  ASSUME VMMInv, NEW p \in Proc, DuplicateRange(p)
  PROVE  VMMInv'
<1> DEFINE r == proc[p]
           c == r.child
           s == proc[c]
           a == At(r.ranges, r.i)
           w == World(c)
           v == DuplicatePages(w, p, PageOf(a.base), DIV_CEIL(a.limit, PageSize), a.prot)
           r2 == [r EXCEPT !.i = @ + 1]
           s2 == [s EXCEPT !.tables = v.tables, !.data = push_back(@, v.data), !.area = push_back(@, a)]
           ps2 == [proc EXCEPT ![p].i = @ + 1,
                               ![c] = [proc[c] EXCEPT !.tables = v.tables, !.data = push_back(@, v.data),
                                                      !.area = push_back(@, a)]]
<1>0. core = "ok" /\ r.st = "fork" /\ InBounds(r.ranges, r.i) /\ Commit(v, ps2)
  BY Zenon DEF DuplicateRange, In
<1>1. /\ mem \in MemType /\ used \in SUBSET Frame /\ cont \in [Frame -> Content] /\ proc \in [Proc -> ProcType]
      /\ Forks(proc)
  BY <1>0, Running
<1>2. PICK lab : Good(lab, mem, cont, used, proc)
  BY <1>0, Running
<1>3. c \in Proc /\ Copying(r, s) /\ s.st = "copied" /\ c # p
  BY <1>0, <1>1 DEF Forks, Copying
<1>4. r \in ProcType /\ s \in ProcType /\ Holds(mem, cont, r) /\ Holds(mem, cont, s)
  BY <1>1, <1>2, <1>3 DEF Good
<1>5. r.i < Len(r.ranges) /\ a = r.ranges[r.i + 1] /\ r.i \in Nat
  BY <1>0, <1>4, ProcFacts DEF InBounds, Size, At
<1> HIDE DEF v
<1>6. ps2 = [q \in Proc |-> IF q = c THEN s2 ELSE IF q = p THEN r2 ELSE proc[q]]
  <2>1. ps2 = [proc EXCEPT ![p] = r2, ![c] = s2]
    BY Zenon
  <2> HIDE DEF r2, s2, ps2, c
  <2> QED  BY <1>1, <1>3, <2>1
<1>7. /\ w \in WorldType /\ w.mem = mem /\ w.cont = cont /\ w.used = used /\ w.core = "ok" /\ w.data = {}
      /\ WGood(w, lab, c) /\ s.pml4 \in Frame /\ lab[s.pml4] = T(c, 1, 0)
  BY <1>0, <1>1, <1>2, <1>3, WorldFacts
<1> HIDE DEF a
<1>8. /\ r.forks = 0 /\ s.forks = 1 /\ r.ranges = r.area /\ r.i + 1 \in 1 .. Len(r.area) /\ Behind(s, a)
      /\ Contents(mem, cont, r) /\ AreasOK(r) /\ AreasOK(s) /\ s.prog = r.prog
  <2>1. AreasOK(r) /\ AreasOK(s) /\ s.prog = r.prog
    BY <1>3, <1>4 DEF Holds, Copying
  <2> HIDE DEF r, s, c
  <2> QED  BY <1>0, <1>3, <1>4, <1>5, <2>1, ForkAt
<1>9. a \in AreaType /\ First(a) \in Nat /\ Count(a) \in Nat /\ a.prot \in Prots
  BY <1>8 DEF Behind, AreaOK, AreaType, Prots
<1>10. ForksInto(p, s.pml4)
  BY DEF ForksInto
<1>11. HasPages(p, First(a), Count(a), s.prog)
  <2> SUFFICES ASSUME NEW z \in First(a) .. First(a) + Count(a) - 1
               PROVE  z \in UserPages /\ HasPage(p, z, s.prog)
    BY DEF HasPages
  <2>1. z \in AreaPages(r.area[r.i + 1]) /\ r.area[r.i + 1] = a
    BY <1>5, <1>8 DEF AreaPages, Run, First, Count
  <2>2. z \in UserPages
    BY <1>4, <1>8, <2>1, AreaFacts
  <2>3. cont[LeafIn(mem, r.pml4, z).at] = <<r.prog, z>>
    BY <1>8, <2>1 DEF Contents
  <2> QED  BY <1>8, <2>2, <2>3 DEF HasPage, Leaf
<1> DEFINE k == Len(s.area) + 1
           t == s.pml4
           x == s.prog
<1>12. k \in Nat /\ x \in Nat
  <2>1. s \in ProcType
    BY <1>4
  <2> HIDE DEF s
  <2> QED  BY <2>1, ProcFacts
<1>13. Dup(w, lab, c, k, First(a), Count(a), a.prot, x, v)
  <2>1. v = DuplicatePages(w, p, First(a), Count(a), a.prot)
    BY DEF v, First, Count, a
  <2>2. ForksInto(p, t) /\ HasPages(p, First(a), Count(a), x) /\ t \in Frame /\ lab[t] = T(c, 1, 0)
    BY <1>7, <1>10, <1>11
  <2> DEFINE fa == First(a)
             ca == Count(a)
             pr == a.prot
  <2>3. /\ fa \in Nat /\ ca \in Nat /\ pr \in Prots /\ HasPages(p, fa, ca, x)
        /\ v = DuplicatePages(w, p, fa, ca, pr)
    BY <1>9, <2>1, <2>2
  <2>4. c \in Proc /\ WGood(w, lab, c) /\ w.data = {} /\ k \in Nat /\ x \in Nat
    BY <1>3, <1>7, <1>12
  <2> HIDE DEF w, t, x, k, c, fa, ca, pr
  <2>5. Dup(w, lab, c, k, fa, ca, pr, x, DuplicatePages(w, p, fa, ca, pr))
    BY <2>2, <2>3, <2>4, DupRange
  <2> QED  BY <2>3, <2>5 DEF fa, ca, pr
<1>14. v \in WorldType /\ v.tables \in Seq(Frame) /\ v.data \in SUBSET Nat
  BY <1>13 DEF Dup, WorldType
<1> HIDE DEF w, r, s, c
<1>15. push_back(s.data, v.data) \in Seq(SUBSET Nat) /\ push_back(s.area, a) \in Seq(AreaType)
  BY <1>4, <1>9, <1>14, PushTypes
<1>16. s2 \in ProcType
  BY <1>4, <1>14, <1>15 DEF ProcType
<1>17. /\ s2.st = s.st /\ s2.rip = s.rip /\ s2.ranges = s.ranges /\ s2.tables = v.tables /\ s2.pml4 = s.pml4
       /\ s2.prog = s.prog /\ s2.forks = s.forks
       /\ s2.area = push_back(s.area, a) /\ s2.data = push_back(s.data, v.data)
  BY <1>4 DEF ProcType
<1>18. r2 \in ProcType /\ r2.i = r.i + 1
  <2>1. r.i + 1 \in Nat
    BY <1>5
  <2> QED  BY <1>4, <2>1 DEF ProcType
<1>19. r2.st = r.st /\ r2.child = r.child /\ r2.rip = r.rip /\ r2.args = r.args /\ SameHas(r, r2)
  BY <1>4 DEF ProcType, SameHas
<1>20. ps2 \in [Proc -> ProcType] /\ ps2[p] = r2 /\ ps2[c] = s2 /\ OnlyOf(proc, ps2, {p, c})
  BY <1>1, <1>3, <1>6, <1>16, <1>18 DEF OnlyOf
<1> HIDE DEF ps2, r2, s2
<1>21. Copied1(r, r2, s, s2, v.tables)
  BY <1>0, <1>3, <1>17, <1>18, <1>19 DEF Copied1
<1>22. Bigger(s, s2, a, v.data)
  BY <1>4, <1>8, <1>9, <1>14, <1>16, <1>17, Pushed
<1>23. Sound(v.mem, v.cont, v.used, ps2, v.core)
  <2>1. Good(lab, w.mem, w.cont, used, proc)
    BY <1>2, <1>7
  <2>2. r = proc[p] /\ s = proc[c] /\ r.child = c /\ r.st = "fork"
    BY <1>0 DEF r, s, c
  <2>3. Dup(w, lab, c, k, First(a), Count(a), a.prot, s.prog, v) /\ k = Len(s.area) + 1
    BY <1>13
  <2> HIDE DEF k
  <2> QED  BY <1>1, <1>3, <1>5, <1>7, <1>20, <1>21, <1>22, <2>1, <2>2, <2>3, CopyStep, ZenonT(60)
<1> QED  BY <1>0, <1>23, PrimedInv DEF Commit
-----------------------------------------------------------------------------
(* destroy                                                                 *)

(* The frames R of area k of process p lose their label.                   *)
Unlabelled(lab, lab2, R) ==
  /\ lab2 \in Labels /\ \A g \in Frame : g \in R => lab2[g] = T("none", 0, 0)
  /\ \A g \in Frame : g \notin R => lab2[g] = lab[g]

LEMMA Unlabel ==
  ASSUME NEW lab \in Labels, NEW R
  PROVE  \E lab2 : Unlabelled(lab, lab2, R)
<1> DEFINE lab2 == [g \in Frame |-> IF g \in R THEN T("none", 0, 0) ELSE lab[g]]
<1>1. lab2 \in Labels
  BY DEF Labels, T
<1>2. Unlabelled(lab, lab2, R)
  BY <1>1 DEF Unlabelled
<1> QED  BY <1>2

IsData(lab, p, k, R) == R \subseteq Frame /\ \A g \in R : lab[g] = T(p, 5, k)

ButData(lab, lab2, p) ==
  /\ \A g \in Frame : lab2[g] = T(p, 1, 0) <=> lab[g] = T(p, 1, 0)
  /\ \A g \in Frame : (lab2[g].who = p /\ lab2[g].lev = 6) <=> (lab[g].who = p /\ lab[g].lev = 6)
  /\ \A g \in Frame : g \in Tabs(lab2, p) <=> g \in Tabs(lab, p)
  /\ \A g \in Frame : lab2[g].lev = 5 => lab2[g] = lab[g]

LEMMA FreeData ==
  ASSUME NEW lab \in Labels, NEW m \in MemType, Shape(lab, m), NEW u, UsedAre(lab, u), NEW p, NEW k, NEW R, IsData(lab, p, k, R),
         NEW lab2, Unlabelled(lab, lab2, R)
  PROVE  /\ Shape(lab2, m) /\ UsedAre(lab2, u \ R)
         /\ \A q : q # p => OwnLabels(lab, lab2, q)
         /\ ButData(lab, lab2, p)
<1>1. \A g \in Frame : g \in R => lab2[g].lev = 0 /\ lab[g].lev = 5 /\ lab[g].who = p /\ lab2[g] = T("none", 0, 0)
  BY TFacts DEF Unlabelled, IsData
<1>2. \A g \in Frame : g \notin R => lab2[g] = lab[g]
  BY DEF Unlabelled
<1>3. Kept(lab, m, lab2, m, Proc)
  <2>1. \A g \in Frame : lab[g].lev # 0 => lab[g].who \in Proc
    BY DEF Shape
  <2>2. \A g \in Frame : lab2[g].lev # 0 => lab2[g].who \in Proc
    BY <1>1, <1>2, <2>1
  <2>3. \A g \in Frame : lab[g].lev \in 1 .. 4 => lab2[g] = lab[g]
    BY <1>1, <1>2
  <2>4. \A g \in Frame : lab2[g].lev \in 1 .. 4 => lab2[g] = lab[g] /\ lab[g].who \in Proc
    BY <1>1, <1>2, <2>1
  <2> QED  BY <2>2, <2>3, <2>4 DEF Kept
<1>4. lab2 \in Labels
  BY DEF Unlabelled
<1>5. Shape(lab2, m)
  BY <1>3, <1>4, Keep
<1>6. UsedAre(lab2, u \ R)
  <2>1. 0 \in Frame /\ KernelTable \in Frame
    BY UsedLabels
  <2>2. 0 \notin R /\ KernelTable \notin R
    BY <1>1, <2>1 DEF UsedAre
  <2>3. lab2[0].lev = 0 /\ lab2[KernelTable].lev = 0
    BY <1>2, <2>1, <2>2 DEF UsedAre
  <2>4. u \ R = {0, KernelTable} \cup {g \in Frame : lab2[g].lev # 0}
    BY <1>1, <1>2, <2>2 DEF UsedAre
  <2> QED  BY <2>3, <2>4 DEF UsedAre
<1>7. \A q : q # p => OwnLabels(lab, lab2, q)
  BY <1>1, <1>2 DEF OwnLabels
<1>8. \A g \in Frame : lab2[g] = T(p, 1, 0) <=> lab[g] = T(p, 1, 0)
  BY <1>1, <1>2, TFacts
<1>9. \A g \in Frame : (lab2[g].who = p /\ lab2[g].lev = 6) <=> (lab[g].who = p /\ lab[g].lev = 6)
  BY <1>1, <1>2
<1>10. \A g \in Frame : g \in Tabs(lab2, p) <=> g \in Tabs(lab, p)
  BY <1>1, <1>2 DEF Tabs
<1>11. \A g \in Frame : lab2[g].lev = 5 => lab2[g] = lab[g]
  BY <1>1, <1>2
<1> QED  BY <1>5, <1>6, <1>7, <1>8, <1>9, <1>10, <1>11 DEF ButData

LEMMA FreedArea ==
  ASSUME NEW r \in ProcType, NEW p, NEW lab \in Labels, Account(lab, p, r), r.st = "destroy", r.forks = 0,
         NEW k, k = r.i + 1, k \in 1 .. Len(r.data), NEW R, R = r.data[k], R \subseteq Frame, NEW m \in MemType, Shape(lab, m),
         NEW u, UsedAre(lab, u), NEW lab2, Unlabelled(lab, lab2, R),
         NEW r2, SameHas(r, r2), r2.st = "destroy", r2.i = k
  PROVE  IsData(lab, p, k, R) /\ Account(lab2, p, r2)
<1>1. Freed(r) = r.i /\ Freed(r2) = k /\ r.i \in Nat /\ k \in Nat /\ k > r.i /\ Len(r.data) \in Nat
  BY ProcFacts DEF Freed, SameHas
<1>2. \A g \in R : lab[g] = T(p, 5, k)
  BY <1>1 DEF Account
<1>3. /\ \A g \in Frame : lab2[g] = T(p, 1, 0) <=> lab[g] = T(p, 1, 0)
      /\ \A g \in Frame : (lab2[g].who = p /\ lab2[g].lev = 6) <=> (lab[g].who = p /\ lab[g].lev = 6)
      /\ \A g \in Frame : g \in Tabs(lab2, p) <=> g \in Tabs(lab, p)
      /\ \A g \in Frame : lab2[g].lev = 5 => lab2[g] = lab[g]
  <2>1. IsData(lab, p, k, R)
    BY <1>2 DEF IsData
  <2>2. ButData(lab, lab2, p)
    BY <2>1, FreeData
  <2> QED  BY <2>2 DEF ButData
<1>4. r2.pml4 = r.pml4 /\ r2.tables = r.tables /\ r2.data = r.data
  BY DEF SameHas
<1>5. \A g \in Frame : lab2[g] = T(p, 1, 0) <=> g = r2.pml4 /\ r2.st \notin {"none", "gone"}
  BY <1>3, <1>4 DEF Account
<1>6. \A g \in Frame : (lab2[g].who = p /\ lab2[g].lev = 6) <=> g = r2.pml4 /\ r2.st = "gone"
  BY <1>3, <1>4 DEF Account
<1>7. \A g \in Frame : g \in Tabs(lab2, p) <=> g \in Range(r2.tables) /\ r2.st # "gone"
  BY <1>3, <1>4 DEF Account
<1>8. ASSUME NEW g \in Frame, NEW j \in Nat
      PROVE  lab2[g] = T(p, 5, j) <=> j \in 1 .. Len(r2.data) /\ g \in r2.data[j] /\ j > Freed(r2)
  <2>1. ASSUME lab2[g] = T(p, 5, j)
        PROVE  j \in 1 .. Len(r.data) /\ g \in r.data[j] /\ j > k
    <3>1. lab2[g].lev = 5
      BY <2>1, TFacts
    <3>2. lab[g] = T(p, 5, j)
      BY <1>3, <2>1, <3>1
    <3>3. j \in 1 .. Len(r.data) /\ g \in r.data[j] /\ j > r.i
      BY <1>1, <3>2 DEF Account
    <3>4. g \notin R
      BY <3>1, TFacts DEF Unlabelled
    <3>5. j # k
      BY <3>3, <3>4
    <3> QED  BY <1>1, <3>3, <3>5
  <2>2. ASSUME j \in 1 .. Len(r.data), g \in r.data[j], j > k
        PROVE  lab2[g] = T(p, 5, j)
    <3>1. j > Freed(r)
      BY <1>1, <2>2
    <3>2. lab[g] = T(p, 5, j)
      BY <2>2, <3>1 DEF Account
    <3>3. T(p, 5, j) # T(p, 5, k)
      <4>1. T(p, 5, j).num = j /\ T(p, 5, k).num = k /\ j # k
        BY <1>1, <2>2, TFacts
      <4> QED  BY <4>1
    <3>4. g \notin R
      BY <1>2, <3>2, <3>3
    <3> QED  BY <3>2, <3>4 DEF Unlabelled
  <2> QED  BY <1>1, <1>4, <2>1, <2>2
<1>9. Account(lab2, p, r2)
  BY <1>5, <1>6, <1>7, <1>8 DEF Account
<1> QED  BY <1>2, <1>9 DEF IsData
(* destroy goes on with the area after the ones it freed.                  *)
DestroysNext(r, m, k, a) ==
  /\ r.forks = 0 /\ AreasOK(r) /\ Program(r) /\ SeesProgram(m, r) /\ r.ranges = r.area
  /\ k \in 1 .. Len(r.area) /\ k \in 1 .. Len(r.data)
  /\ First(a) \in UserPages /\ a.base \in Nat /\ a = r.area[k]
  /\ \E f \in Frame : SeesRun(m, r, k, f) /\ LeafIn(m, r.pml4, First(a)) = Entry(f, a.prot)
  /\ LeafIn(m, r.pml4, First(a)) # NoEntry

LEMMA DestroyAt ==
  ASSUME NEW r \in ProcType, NEW m, NEW c, Holds(m, c, r), r.st = "destroy", r.i < Len(r.ranges),
         NEW k, k = r.i + 1, NEW a, a = r.ranges[k]
  PROVE  DestroysNext(r, m, k, a)
<1>1. r.i \in Nat /\ Len(r.ranges) \in Nat /\ r.forks \in Nat /\ AreasOK(r)
  BY ProcFacts DEF Holds
<1>2. r.forks = 0
  <2>1. SUFFICES ASSUME r.forks > 0 PROVE FALSE
    BY <1>1
  <2>2. r.ranges = <<>>
    BY <2>1 DEF Holds, Copy
  <2> QED  BY <1>1, <2>2
<1>3. Program(r) /\ SeesProgram(m, r) /\ r.ranges = r.area
  BY <1>2 DEF Holds, Program
<1>4. k \in 1 .. Len(r.area) /\ k \in 1 .. Len(r.data) /\ a = r.area[k]
  BY <1>1, <1>3 DEF AreasOK
<1>5. /\ a \in AreaType /\ First(a) \in Nat /\ Count(a) \in Nat \ {0} /\ First(a) + Count(a) \in UserPages
  BY <1>1, <1>4, AreaFacts
<1>6. First(a) \in UserPages /\ a.base \in Nat /\ a.prot \in {5, 7}
  BY <1>5, UserDown DEF AreaType
<1>7. PICK f \in Frame : SeesRun(m, r, k, f)
  BY <1>3, <1>4 DEF SeesProgram
<1>8. LeafIn(m, r.pml4, First(a)) = Entry(f, a.prot)
  <2>1. 0 \in 0 .. Count(a) - 1 /\ First(a) + 0 = First(a) /\ f + 0 = f
    BY <1>5 DEF Frame
  <2>2. LeafIn(m, r.pml4, First(a) + 0) = Entry(f + 0, a.prot)
    BY <1>4, <1>7, <2>1 DEF SeesRun
  <2> QED  BY <2>1, <2>2
<1>9. LeafIn(m, r.pml4, First(a)) # NoEntry
  BY <1>6, <1>8 DEF NoEntry, Entry
<1> QED  BY <1>1, <1>2, <1>3, <1>4, <1>6, <1>7, <1>8, <1>9 DEF DestroysNext

LEMMA DestroyRangeStep ==
  ASSUME VMMInv, NEW p \in Proc, DestroyRange(p)
  PROVE  VMMInv'
<1> DEFINE r == proc[p]
           a == At(r.ranges, r.i)
           w == virtual_to_physical(World(p), r.pml4, a.base)
           R == Run(w.at, DIV_CEIL(a.limit, PageSize))
           w2 == [w EXCEPT !.used = @ \ R]
           r2 == [r EXCEPT !.i = @ + 1, !.tables = w.tables]
           ps2 == [proc EXCEPT ![p] = r2]
<1>0. core = "ok" /\ r.st = "destroy" /\ InBounds(r.ranges, r.i) /\ Commit(w2, ps2)
  BY Zenon DEF DestroyRange, In, With
<1>1. /\ mem \in MemType /\ used \in SUBSET Frame /\ cont \in [Frame -> Content] /\ proc \in [Proc -> ProcType]
      /\ Forks(proc)
  BY <1>0, Running
<1>2. PICK lab : Good(lab, mem, cont, used, proc)
  BY <1>0, Running
<1>3. /\ lab \in Labels /\ Shape(lab, mem) /\ UsedAre(lab, used) /\ Account(lab, p, r)
      /\ Holds(mem, cont, r) /\ r \in ProcType
  BY <1>1, <1>2 DEF Good
<1> DEFINE k == r.i + 1
<1>4. r.i < Len(r.ranges) /\ a = r.ranges[k] /\ r.i \in Nat
  <2> HIDE DEF w, w2, r2, R, ps2, r
  <2> QED  BY <1>0, <1>3, ProcFacts DEF InBounds, Size, At
<1>5. /\ World(p) \in WorldType /\ World(p).mem = mem /\ World(p).cont = cont /\ World(p).used = used
      /\ World(p).core = "ok" /\ World(p).tables = r.tables /\ r.pml4 \in Frame
  <2>1. /\ World(p) \in WorldType /\ World(p).mem = mem /\ World(p).cont = cont /\ World(p).used = used
        /\ World(p).core = "ok"
    BY <1>0, <1>1, <1>2, WorldFacts
  <2> QED  BY <1>3, <2>1, ProcFacts DEF World
<1> HIDE DEF a
<1>6. /\ r.forks = 0 /\ AreasOK(r) /\ Program(r) /\ SeesProgram(mem, r) /\ r.ranges = r.area
      /\ k \in 1 .. Len(r.area) /\ k \in 1 .. Len(r.data)
      /\ First(a) \in UserPages /\ a.base \in Nat /\ a = r.area[k] /\ LeafIn(mem, r.pml4, First(a)) # NoEntry
      /\ \E f \in Frame : SeesRun(mem, r, k, f) /\ LeafIn(mem, r.pml4, First(a)) = Entry(f, a.prot)
  <2> HIDE DEF r, k
  <2>1. k = r.i + 1
    BY DEF k
  <2>2. DestroysNext(r, mem, k, a)
    BY <1>0, <1>3, <1>4, <2>1, DestroyAt
  <2> QED  BY <2>2 DEF DestroysNext
<1>7. PICK f \in Frame : SeesRun(mem, r, k, f) /\ LeafIn(mem, r.pml4, First(a)) = Entry(f, a.prot)
  BY <1>6
<1>8. w = [World(p) EXCEPT !.at = f]
  <2>1. LeafIn(mem, r.pml4, First(a)).at = f
    BY <1>7 DEF Entry
  <2>2. First(a) = PageOf(a.base)
    BY DEF First
  <2> DEFINE v == World(p)
             t == r.pml4
             x == First(a)
             b == a.base
  <2>3. v \in WorldType /\ v.core = "ok" /\ t \in Frame /\ b \in Nat /\ x \in UserPages /\ x = PageOf(b)
        /\ LeafIn(v.mem, t, x) # NoEntry /\ LeafIn(v.mem, t, x).at = f
    BY <1>5, <1>6, <2>1, <2>2
  <2> HIDE DEF v, t, x, b
  <2>4. virtual_to_physical(v, t, b) = [v EXCEPT !.at = LeafIn(v.mem, t, x).at]
    BY <2>3, WalkThere
  <2> QED  BY <2>3, <2>4 DEF v, t, b
<1> HIDE DEF w
<1>9. /\ w.mem = mem /\ w.cont = cont /\ w.used = used /\ w.core = "ok" /\ w.tables = r.tables /\ w.at = f
      /\ w \in WorldType
  <2> DEFINE v == World(p)
  <2>1. v \in WorldType /\ f \in 0 .. NFrames
    BY <1>5, VMMAssumption DEF Frame
  <2>2. w = [v EXCEPT !.at = f]
    BY <1>8
  <2>3. v.mem = mem /\ v.cont = cont /\ v.used = used /\ v.core = "ok" /\ v.tables = r.tables
    BY <1>5
  <2> HIDE DEF v, r
  <2> QED  BY <2>1, <2>2, <2>3, VMMAssumption DEF WorldType
<1>10. R = r.data[k] /\ R \subseteq Frame
  <2>1. R = Run(f, Count(r.area[k]))
    BY <1>6, <1>9 DEF Count
  <2> QED  BY <1>7, <2>1 DEF SeesRun
<1> HIDE DEF R
<1>11. w2.mem = mem /\ w2.cont = cont /\ w2.used = used \ R /\ w2.core = "ok"
  BY <1>9 DEF WorldType
<1> HIDE DEF w2, r
<1>12. r2 \in ProcType /\ r2.st = "destroy" /\ r2.i = k /\ r2.args = r.args /\ r2.rip = r.rip
  <2>1. k \in Nat /\ w.tables \in Seq(Frame)
    BY <1>3, <1>4, <1>9, ProcFacts
  <2> HIDE DEF w
  <2>2. r2 \in ProcType
    BY <1>3, <2>1 DEF ProcType
  <2> QED  BY <1>0, <1>3, <2>2 DEF ProcType
<1>13. SameHas(r, r2)
  BY <1>3, <1>9 DEF ProcType, SameHas
<1>14. ps2 \in [Proc -> ProcType] /\ ps2[p] = r2 /\ \A q \in Proc : q \notin {p} => ps2[q] = proc[q]
  BY <1>1, <1>12
<1> HIDE DEF r2, ps2
<1>15. PICK lab2 : Unlabelled(lab, lab2, R)
  BY <1>3, Unlabel
<1>16. IsData(lab, p, k, R) /\ Account(lab2, p, r2)
  <2>1. /\ k = r.i + 1 /\ k \in 1 .. Len(r.data) /\ R = r.data[k] /\ R \subseteq Frame /\ r.forks = 0
        /\ r.st = "destroy" /\ r2.st = "destroy" /\ r2.i = k
    BY <1>0, <1>6, <1>10, <1>12
  <2> HIDE DEF k
  <2> QED  BY <1>3, <1>1, <1>13, <1>15, <2>1, FreedArea, ZenonT(60)
<1>17. Shape(lab2, mem) /\ UsedAre(lab2, used \ R) /\ \A q : q # p => OwnLabels(lab, lab2, q)
  <2> HIDE DEF k
  <2> QED  BY <1>1, <1>3, <1>15, <1>16, FreeData, ZenonT(60)
<1>18. Holds(mem, cont, r2)
  <2>1. AreasOK(r2)
    BY <1>6, <1>13, SeesSame
  <2>2. SeesProgram(mem, r2)
    <3>1. r2.args = LeafIn(mem, r.pml4, PageOf(UserStack)).at + StackPages
      BY <1>0, <1>6, <1>12 DEF SeesProgram
    <3> QED  BY <1>6, <1>13, <3>1, SeesProgramSame
  <2>3. Program(r2)
    <3>1. r2.prog = r.prog /\ r2.ranges = r.ranges /\ r2.area = r.area
      BY <1>13 DEF SameHas
    <3>2. k <= Len(r.area) /\ r.st = "destroy"
      BY <1>0, <1>6
    <3> HIDE DEF k
    <3> QED  BY <1>6, <1>12, <3>1, <3>2 DEF Program
  <2>4. r2.forks = 0
    BY <1>6, <1>13 DEF SameHas
  <2> QED  BY <1>12, <2>1, <2>2, <2>3, <2>4 DEF Holds
<1>19. Others(lab, lab2, mem, mem, cont, cont, {p})
  BY <1>17 DEF Others, SameView, SameConts
<1>20. Forks(ps2)
  <2>1. proc[p].st \notin {"fork", "copied"} /\ ps2[p].st # "fork"
    BY <1>0, <1>12, <1>14 DEF r
  <2> QED  BY <1>1, <1>14, <2>1, ForksKept
<1>21. \A q \in Proc : q \in {p} => Account(lab2, q, ps2[q]) /\ Holds(mem, cont, ps2[q])
  BY <1>14, <1>16, <1>18
<1>22. Sound(mem, cont, used \ R, ps2, "ok")
  <2> DEFINE u2 == used \ R
  <2>1. lab2 \in Labels /\ "ok" \in {"ok", "halted"} /\ u2 \in SUBSET Frame /\ UsedAre(lab2, u2)
    BY <1>1, <1>15, <1>17 DEF Unlabelled
  <2> HIDE DEF u2
  <2>2. Sound(mem, cont, u2, ps2, "ok")
    BY <1>1, <1>2, <1>14, <1>17, <1>19, <1>20, <1>21, <2>1, SoundStep
  <2> QED  BY <2>2 DEF u2
<1> QED  BY <1>0, <1>11, <1>22, PrimedInv DEF Commit
(* At the end of destroy the top table keeps its frame, the other tables   *)
(* give theirs back.                                                       *)
TopLeft(lab, lab2, p, t, S) ==
  /\ lab2 \in Labels /\ lab2[t] = T(p, 6, 0)
  /\ \A g \in Frame : g \in S => lab2[g] = T("none", 0, 0)
  /\ \A g \in Frame : g # t /\ g \notin S => lab2[g] = lab[g]

LEMMA LeaveTop ==
  ASSUME NEW lab \in Labels, NEW p \in Proc, NEW t \in Frame, NEW S, t \notin S
  PROVE  \E lab2 : TopLeft(lab, lab2, p, t, S)
<1> DEFINE lab2 == [g \in Frame |-> IF g = t THEN T(p, 6, 0) ELSE IF g \in S THEN T("none", 0, 0) ELSE lab[g]]
<1>1. lab2 \in Labels
  BY DEF Labels, T
<1>2. TopLeft(lab, lab2, p, t, S)
  BY <1>1 DEF TopLeft
<1> QED  BY <1>2

LEMMA FreeTables ==
  ASSUME NEW lab \in Labels, NEW m \in MemType, Shape(lab, m), NEW u, UsedAre(lab, u), NEW p \in Proc, NEW r \in ProcType,
         Account(lab, p, r), r.st = "destroy", NEW t, t = r.pml4, NEW S, S = Range(r.tables),
         NEW lab2, TopLeft(lab, lab2, p, t, S), NEW r2, SameHas(r, r2), r2.st = "gone", Freed(r2) = Freed(r)
  PROVE  /\ Shape(lab2, m) /\ UsedAre(lab2, u \ S) /\ Account(lab2, p, r2)
         /\ \A q : q # p => OwnLabels(lab, lab2, q)
<1>1. t \in Frame /\ lab[t] = T(p, 1, 0) /\ lab[t].who = p /\ lab[t].lev = 1
  BY ProcFacts, TFacts DEF Account
<1>2. \A g \in Frame : lab[g] = T(p, 1, 0) => g = t
  BY DEF Account
<1>3. \A g \in Frame : g \in S <=> lab[g].who = p /\ lab[g].lev \in 2 .. 4
  BY DEF Account, Tabs
<1>4. \A g \in Frame : lab[g].who = p /\ lab[g].lev = 1 => g = t
  <2> SUFFICES ASSUME NEW g \in Frame, lab[g].who = p, lab[g].lev = 1 PROVE g = t
    OBVIOUS
  <2>1. lab[g].num = 0
    BY DEF Shape
  <2>2. lab[g] = T(p, 1, 0)
    BY <2>1, LabelFacts
  <2> QED  BY <1>2, <2>2
<1>5. lab2[t].who = p /\ lab2[t].lev = 6 /\ lab2[t] = T(p, 6, 0)
  BY TFacts DEF TopLeft
<1>6. \A g \in Frame : g \in S => lab2[g].lev = 0 /\ lab2[g] = T("none", 0, 0)
  BY TFacts DEF TopLeft
<1>7. \A g \in Frame : g # t /\ g \notin S => lab2[g] = lab[g]
  BY DEF TopLeft
<1>8. Shape(lab2, m)
  <2>1. \A g \in Frame : lab[g].lev # 0 => lab[g].who \in Proc
    BY DEF Shape
  <2>2. \A g \in Frame : lab2[g].lev # 0 => lab2[g].who \in Proc
    BY <1>5, <1>6, <1>7, <2>1
  <2>3. \A g \in Frame : lab[g].who # p => lab2[g] = lab[g]
    BY <1>1, <1>3, <1>7
  <2>4. ASSUME NEW g \in Frame, lab2[g].lev \in 1 .. 4
        PROVE  lab2[g] = lab[g] /\ lab[g].who \in Proc \ {p}
    <3>1. g # t /\ g \notin S
      BY <1>5, <1>6, <2>4
    <3>2. lab2[g] = lab[g]
      BY <1>7, <3>1
    <3>3. lab[g].who # p
      BY <1>3, <1>4, <2>4, <3>1, <3>2
    <3> QED  BY <2>1, <2>4, <3>2, <3>3
  <2>5. Kept(lab, m, lab2, m, Proc \ {p})
    BY <2>2, <2>3, <2>4 DEF Kept
  <2>6. lab2 \in Labels
    BY DEF TopLeft
  <2> QED  BY <2>5, <2>6, Keep
<1>9. UsedAre(lab2, u \ S)
  <2>1. 0 \in Frame /\ KernelTable \in Frame
    BY UsedLabels
  <2>2. 0 \notin S /\ KernelTable \notin S /\ 0 # t /\ KernelTable # t
    BY <1>1, <1>3, <2>1 DEF UsedAre
  <2>3. lab2[0].lev = 0 /\ lab2[KernelTable].lev = 0
    BY <1>7, <2>1, <2>2 DEF UsedAre
  <2>4. \A g \in Frame : lab2[g].lev # 0 <=> lab[g].lev # 0 /\ g \notin S
    BY <1>1, <1>3, <1>5, <1>6, <1>7
  <2>5. u \ S = {0, KernelTable} \cup {g \in Frame : lab2[g].lev # 0}
    BY <2>2, <2>4 DEF UsedAre
  <2> QED  BY <2>3, <2>5 DEF UsedAre
<1>10. \A q : q # p => OwnLabels(lab, lab2, q)
  BY <1>1, <1>3, <1>5, <1>6, <1>7 DEF OwnLabels
<1>11. Account(lab2, p, r2)
  <2>0. r2.pml4 = t /\ r2.tables = r.tables /\ r2.data = r.data
    BY DEF SameHas
  <2>1. ASSUME NEW g \in Frame PROVE lab2[g] # T(p, 1, 0)
    <3>1. CASE g = t
      BY <1>5, <3>1, TFacts
    <3>2. CASE g \in S
      BY <1>6, <3>2, TFacts
    <3>3. CASE g # t /\ g \notin S
      BY <1>2, <1>7, <3>3
    <3> QED  BY <3>1, <3>2, <3>3
  <2>2. ASSUME NEW g \in Frame PROVE (lab2[g].who = p /\ lab2[g].lev = 6) <=> g = t
    <3>1. ~(lab[g].who = p /\ lab[g].lev = 6)
      BY DEF Account
    <3> QED  BY <1>5, <1>6, <1>7, <3>1
  <2>3. ASSUME NEW g \in Frame PROVE g \notin Tabs(lab2, p)
    BY <1>3, <1>5, <1>6, <1>7 DEF Tabs
  <2>4. ASSUME NEW g \in Frame, NEW k \in Nat PROVE lab2[g] = T(p, 5, k) <=> lab[g] = T(p, 5, k)
    <3>1. CASE g = t
      BY <1>1, <1>5, <3>1, TFacts
    <3>2. CASE g \in S
      BY <1>3, <1>6, <3>2, TFacts
    <3>3. CASE g # t /\ g \notin S
      BY <1>7, <3>3
    <3> QED  BY <3>1, <3>2, <3>3
  <2>5. \A g \in Frame, k \in Nat :
          lab2[g] = T(p, 5, k) <=> k \in 1 .. Len(r2.data) /\ g \in r2.data[k] /\ k > Freed(r2)
    BY <2>0, <2>4 DEF Account
  <2> QED  BY <2>0, <2>1, <2>2, <2>3, <2>5 DEF Account
<1> QED  BY <1>8, <1>9, <1>10, <1>11

LEMMA GoneHolds ==
  ASSUME NEW r \in ProcType, NEW m, NEW c, Holds(m, c, r), r.st = "destroy", r.i >= Len(r.ranges),
         NEW r2, SameHas(r, r2), r2.st = "gone", r2.rip = r.rip
  PROVE  Holds(m, c, r2) /\ Freed(r2) = Freed(r)
<1>1. AreasOK(r2) /\ r2.forks = r.forks /\ Pages(r2) = Pages(r) /\ r2.ranges = r.ranges /\ r2.area = r.area
  BY SeesSame DEF Holds, SameHas
<1>2. r.forks \in Nat /\ r.i \in Nat /\ Len(r.ranges) \in Nat
  BY ProcFacts
<1>3. ASSUME r.forks = 0 PROVE Program(r2) /\ r.i = Len(r.ranges)
  <2>1. Program(r)
    BY <1>3 DEF Holds
  <2>2. Program(r2)
    BY <2>1 DEF Program, SameHas
  <2>3. r.i <= Len(r.ranges)
    BY <2>1 DEF Program
  <2> QED  BY <1>2, <2>2, <2>3
<1>4. ASSUME r.forks > 0 PROVE Copy(r2)
  <2>1. Copy(r)
    BY <1>4 DEF Holds
  <2> QED  BY <1>1, <2>1 DEF Copy
<1>5. Freed(r2) = Freed(r)
  BY <1>1, <1>2, <1>3 DEF Freed
<1> QED  BY <1>1, <1>3, <1>4, <1>5 DEF Holds

LEMMA DestroyTablesStep ==
  ASSUME VMMInv, NEW p \in Proc, DestroyTables(p)
  PROVE  VMMInv'
<1> DEFINE r == proc[p]
           t == r.pml4
           S == Range(r.tables)
           r2 == [r EXCEPT !.st = "gone"]
           ps2 == [proc EXCEPT ![p] = r2]
<1>0. core = "ok" /\ r.st = "destroy" /\ ~InBounds(r.ranges, r.i) /\ proc' = ps2 /\ used' = used \ S
  BY DEF DestroyTables, In, Set, With
<1>1. mem' = mem /\ cont' = cont /\ core' = "ok"
  <2>1. UNCHANGED <<mem, cont, core>> /\ core = "ok"
    BY DEF DestroyTables, In
  <2> QED  BY <2>1
<1>2. /\ mem \in MemType /\ used \in SUBSET Frame /\ cont \in [Frame -> Content] /\ proc \in [Proc -> ProcType]
      /\ Forks(proc)
  BY <1>0, Running
<1>3. PICK lab : Good(lab, mem, cont, used, proc)
  BY <1>0, Running
<1>4. /\ lab \in Labels /\ Shape(lab, mem) /\ UsedAre(lab, used) /\ Account(lab, p, r)
      /\ Holds(mem, cont, r) /\ r \in ProcType
  BY <1>2, <1>3 DEF Good
<1> HIDE DEF r
<1>5. r.i >= Len(r.ranges)
  BY <1>0, <1>4, ProcFacts DEF InBounds, Size
<1>6. r2 \in ProcType /\ r2.st = "gone" /\ r2.rip = r.rip
  <2>1. "gone" \in States
    BY DEF States
  <2> QED  BY <1>4, <2>1 DEF ProcType
<1>7. SameHas(r, r2)
  BY <1>4 DEF ProcType, SameHas
<1>8. ps2 \in [Proc -> ProcType] /\ ps2[p] = r2 /\ \A q \in Proc : q \notin {p} => ps2[q] = proc[q]
  BY <1>2, <1>6
<1> HIDE DEF r2, ps2
<1>9. Holds(mem, cont, r2) /\ Freed(r2) = Freed(r)
  BY <1>0, <1>4, <1>5, <1>6, <1>7, GoneHolds
<1>10. t \in Frame /\ t \notin S
  <2>1. t \in Frame /\ lab[t] = T(p, 1, 0) /\ lab[t].lev = 1
    BY <1>0, <1>4, ProcFacts, TFacts DEF Account
  <2> QED  BY <1>4, <2>1 DEF Account, Tabs
<1>11. t = r.pml4 /\ S = Range(r.tables)
  OBVIOUS
<1> HIDE DEF t, S
<1>12. PICK lab2 : TopLeft(lab, lab2, p, t, S)
  BY <1>4, <1>10, LeaveTop
<1>13. /\ Shape(lab2, mem) /\ UsedAre(lab2, used \ S) /\ Account(lab2, p, r2)
       /\ \A q : q # p => OwnLabels(lab, lab2, q)
  BY <1>0, <1>2, <1>4, <1>6, <1>7, <1>9, <1>11, <1>12, FreeTables, ZenonT(60)
<1>14. Others(lab, lab2, mem, mem, cont, cont, {p})
  BY <1>13 DEF Others, SameView, SameConts
<1>15. Forks(ps2)
  <2>1. proc[p].st \notin {"fork", "copied"} /\ ps2[p].st # "fork"
    BY <1>0, <1>6, <1>8 DEF r
  <2> QED  BY <1>2, <1>8, <2>1, ForksKept
<1>16. \A q \in Proc : q \in {p} => Account(lab2, q, ps2[q]) /\ Holds(mem, cont, ps2[q])
  BY <1>8, <1>9, <1>13
<1>17. Sound(mem, cont, used \ S, ps2, "ok")
  <2> DEFINE u2 == used \ S
  <2>1. lab2 \in Labels /\ "ok" \in {"ok", "halted"} /\ u2 \in SUBSET Frame /\ UsedAre(lab2, u2)
    BY <1>2, <1>12, <1>13 DEF TopLeft
  <2> HIDE DEF u2
  <2>2. Sound(mem, cont, u2, ps2, "ok")
    BY <1>2, <1>3, <1>8, <1>13, <1>14, <1>15, <1>16, <2>1, SoundStep
  <2> QED  BY <2>2 DEF u2
<1> QED  BY <1>0, <1>1, <1>17, PrimedInv
-----------------------------------------------------------------------------
(* The invariant                                                           *)

LEMMA VMMInit ==
  Init => VMMInv
<1> SUFFICES ASSUME Init PROVE VMMInv
  OBVIOUS
<1>1. /\ mem = [f \in Frame |-> Blank] /\ cont = [f \in Frame |-> "zero"] /\ used = {0, KernelTable}
      /\ proc = [p \in Proc |-> NoProc] /\ core = "ok"
  BY DEF Init
<1>2. 0 \in Frame /\ KernelTable \in Frame
  BY VMMAssumption DEF Frame, KernelTable
<1>3. NoEntry \in [at : 0 .. NFrames, flags : {0, 5, 7}]
  BY VMMAssumption DEF NoEntry, Entry
<1>4. mem \in MemType /\ cont \in [Frame -> Content] /\ used \subseteq Frame /\ core \in {"ok", "halted", "lost"}
  BY <1>1, <1>2, <1>3 DEF MemType, Blank, Content
<1>5. /\ proc \in [Proc -> ProcType] /\ \A p \in Proc : proc[p] = NoProc /\ proc[p].st = "none"
  BY <1>1, NoProcFacts
<1> DEFINE lab == [f \in Frame |-> T("none", 0, 0)]
<1>6. lab \in Labels /\ \A f \in Frame : lab[f].lev = 0
  BY TFacts DEF Labels, T
<1> HIDE DEF lab
<1>7. Shape(lab, mem)
  BY <1>6 DEF Shape, Leads
<1>8. UsedAre(lab, used)
  BY <1>1, <1>2, <1>6 DEF UsedAre
<1>9. ASSUME NEW p \in Proc PROVE Account(lab, p, proc[p]) /\ Holds(mem, cont, proc[p])
  <2> DEFINE r == proc[p]
  <2>1. /\ r = NoProc /\ r.st = "none" /\ r.tables = <<>> /\ r.data = <<>> /\ r.area = <<>>
    BY <1>5, NoProcFacts
  <2> HIDE DEF r
  <2>2. \A f \in Frame : \A l, k : l # 0 => lab[f] # T(p, l, k)
    BY <1>6, TFacts
  <2>3. Len(r.data) = 0 /\ Len(r.area) = 0
    BY <2>1
  <2>4. \A f \in Frame : lab[f] # T(p, 1, 0)
    BY <2>2
  <2>5. \A f \in Frame, k \in Nat : lab[f] # T(p, 5, k)
    BY <2>2
  <2>6. \A f \in Frame : f \notin Tabs(lab, p) /\ lab[f].lev # 6
    BY <1>6 DEF Tabs
  <2>7. \A f \in Frame : f \notin Range(r.tables)
    <3>1. r.tables \in Seq(Frame) /\ Len(r.tables) = 0
      BY <2>1
    <3> QED  BY <3>1, RangeIs
  <2>8. Account(lab, p, r)
    BY <2>1, <2>3, <2>4, <2>5, <2>6, <2>7 DEF Account
  <2>9. AreasOK(r)
    BY <2>3 DEF AreasOK
  <2>10. Holds(mem, cont, r)
    BY <2>1, <2>9 DEF Holds
  <2> QED  BY <2>8, <2>10 DEF r
<1>10. Good(lab, mem, cont, used, proc)
  BY <1>6, <1>7, <1>8, <1>9 DEF Good
<1>11. Forks(proc)
  BY <1>5 DEF Forks
<1>12. \A p \in Proc : ArgsOK(mem, proc[p])
  BY <1>5 DEF ArgsOK
<1> QED  BY <1>4, <1>5, <1>10, <1>11, <1>12 DEF VMMInv, Sound

LEMMA VMMNext ==
  VMMInv /\ [Next]_vars => VMMInv'
<1> SUFFICES ASSUME VMMInv, [Next]_vars PROVE VMMInv'
  OBVIOUS
<1>1. CASE Next
  <2>1. PICK p \in Proc :
          \/ \E g \in DOMAIN Programs : StartProgram(p, g)
          \/ LoadFails(p) \/ LoadSegment(p) \/ LoadDone(p)
          \/ MapStack(p) \/ PushArgs(p)
          \/ PageFault(p)
          \/ \E c \in Proc : Fork(p, c)
          \/ DuplicateRange(p) \/ DuplicateDone(p)
          \/ Exit(p)
          \/ DestroyRange(p) \/ DestroyTables(p)
    BY <1>1 DEF Next
  <2>2. CASE \E g \in DOMAIN Programs : StartProgram(p, g)
    BY <2>2, StartProgramStep
  <2>3. CASE LoadFails(p)
    BY <2>3, LoadFailsStep
  <2>4. CASE LoadSegment(p)
    BY <2>4, LoadSegmentStep
  <2>5. CASE LoadDone(p)
    BY <2>5, LoadDoneStep
  <2>6. CASE MapStack(p)
    BY <2>6, MapStackStep
  <2>7. CASE PushArgs(p)
    BY <2>7, PushArgsStep
  <2>8. CASE PageFault(p)
    BY <2>8, PageFaultStep
  <2>9. CASE \E c \in Proc : Fork(p, c)
    BY <2>9, ForkStep
  <2>10. CASE DuplicateRange(p)
    BY <2>10, DuplicateRangeStep
  <2>11. CASE DuplicateDone(p)
    BY <2>11, DuplicateDoneStep
  <2>12. CASE Exit(p)
    BY <2>12, ExitStep
  <2>13. CASE DestroyRange(p)
    BY <2>13, DestroyRangeStep
  <2>14. CASE DestroyTables(p)
    BY <2>14, DestroyTablesStep
  <2> QED  BY <2>1, <2>2, <2>3, <2>4, <2>5, <2>6, <2>7, <2>8, <2>9, <2>10, <2>11, <2>12, <2>13, <2>14
<1>2. CASE UNCHANGED vars
  <2>1. mem' = mem /\ cont' = cont /\ used' = used /\ proc' = proc /\ core' = core
    BY <1>2 DEF vars
  <2>2. Sound(mem, cont, used, proc, core)
    BY DEF VMMInv
  <2> QED  BY <2>1, <2>2, PrimedInv
<1> QED  BY <1>1, <1>2

(* The labels of frames, the trees of tables they make, and what each      *)
(* process sees through its own, hold in every state: each allocation,     *)
(* walk, copy and free of vmm.cpp and its callers keeps them.              *)
THEOREM VMMInvariant ==
  Spec => []VMMInv
BY VMMInit, VMMNext, PTL DEF Spec
-----------------------------------------------------------------------------
(* What follows                                                            *)

LEMMA InvTypeOK ==
  VMMInv => TypeOK
<1> SUFFICES ASSUME VMMInv PROVE TypeOK
  OBVIOUS
<1>1. /\ mem \in MemType /\ used \subseteq Frame /\ core \in {"ok", "halted", "lost"} /\ proc \in [Proc -> ProcType]
  BY DEF VMMInv, Sound
<1>2. ASSUME NEW p \in Proc
      PROVE  /\ proc[p].pml4 \in Frame
             /\ \A k \in 1 .. Size(proc[p].tables) : proc[p].tables[k] \in Frame
             /\ \A k \in 1 .. Size(proc[p].ranges) :
                  proc[p].ranges[k] \in [base : Nat, limit : Nat, prot : {5, 7}]
  <2> DEFINE r == proc[p]
  <2>1. r \in ProcType
    BY <1>1
  <2> HIDE DEF r
  <2>2. r.pml4 \in Frame /\ r.tables \in Seq(Frame) /\ r.ranges \in Seq(AreaType)
    BY <2>1, ProcFacts
  <2>3. \A k \in 1 .. Len(r.tables) : r.tables[k] \in Frame
    BY <2>2
  <2>4. \A k \in 1 .. Len(r.ranges) : r.ranges[k] \in AreaType
    BY <2>2
  <2> QED  BY <2>2, <2>3, <2>4 DEF Size, AreaType, r
<1> QED  BY <1>1, <1>2 DEF TypeOK, MemType

(* What is known of a process that is alive, on a core that is not lost.   *)
LEMMA AliveFacts ==
  ASSUME NEW lab, NEW p \in Alive, Good(lab, mem, cont, used, proc), proc \in [Proc -> ProcType], NEW r, r = proc[p]
  PROVE  /\ p \in Proc /\ r \in ProcType /\ AreasOK(r) /\ SeesData(mem, r) /\ Contents(mem, cont, r)
         /\ r.st \in {"load", "stack", "args", "run", "fork"} /\ r.forks \in Nat /\ Account(lab, p, r)
         /\ r.pml4 \in Frame /\ lab[r.pml4] = T(p, 1, 0) /\ Holds(mem, cont, r)
         /\ DOMAIN r.area = 1 .. Len(r.area) /\ AllPages(p) = Pages(r)
<1>1. p \in Proc /\ r.st \in {"load", "stack", "args", "run", "fork"}
  BY DEF Alive, Creating
<1>2. r \in ProcType /\ Account(lab, p, r) /\ Holds(mem, cont, r)
  BY <1>1 DEF Good
<1>3. AreasOK(r) /\ Contents(mem, cont, r) /\ SeesData(mem, r)
  <2>1. r.st \notin {"none", "destroy", "gone"} /\ r.st \notin {"none", "gone"}
    BY <1>1
  <2> QED  BY <1>2, <2>1, SeesItsData DEF Holds
<1>4. r.forks \in Nat /\ r.pml4 \in Frame /\ r.area \in Seq(AreaType)
  BY <1>2, ProcFacts
<1>5. lab[r.pml4] = T(p, 1, 0)
  BY <1>1, <1>2, <1>4 DEF Account
<1>6. DOMAIN r.area = 1 .. Len(r.area)
  BY <1>4
<1>7. AllPages(p) = Pages(r)
  BY <1>6 DEF AllPages, Pages
<1> QED  BY <1>1, <1>2, <1>3, <1>4, <1>5, <1>6, <1>7

(* The frame behind a page of an area has the area's label.                *)
OwnFrames(lab, p, r) ==
  \A k \in 1 .. Len(r.area) : \A page \in AreaPages(r.area[k]) :
    LeafIn(mem, r.pml4, page).at \in Frame /\ lab[LeafIn(mem, r.pml4, page).at].who = p

LEMMA PageLabel ==
  ASSUME NEW r \in ProcType, NEW lab, NEW p, Account(lab, p, r), AreasOK(r), SeesData(mem, r),
         r.st \in {"load", "stack", "args", "run", "fork"}
  PROVE  OwnFrames(lab, p, r)
<1> SUFFICES ASSUME NEW k \in 1 .. Len(r.area), NEW page \in AreaPages(r.area[k])
             PROVE  LeafIn(mem, r.pml4, page).at \in Frame /\ lab[LeafIn(mem, r.pml4, page).at].who = p
  BY DEF OwnFrames
<1>1. LeafIn(mem, r.pml4, page).at \in r.data[k] /\ r.data[k] \subseteq Frame
  BY AreaFacts DEF SeesData
<1>2. k \in Nat /\ k \in 1 .. Len(r.data) /\ Freed(r) = 0 /\ k > Freed(r)
  BY ProcFacts DEF AreasOK, Freed
<1>3. lab[LeafIn(mem, r.pml4, page).at] = T(p, 5, k)
  BY <1>1, <1>2 DEF Account
<1> QED  BY <1>1, <1>3, TFacts

LEMMA RunsWhen ==
  ASSUME NEW r \in ProcType, NEW m, NEW c, Holds(m, c, r), r.st = "run"
  PROVE  r.rip # -1 /\ LeafIn(m, r.pml4, PageOf(r.rip)) # NoEntry <=> r.rip # -1 /\ r.forks <= 1
<1>1. r.forks \in Nat /\ AreasOK(r) /\ SeesData(m, r)
  BY ProcFacts, SeesItsData DEF Holds
<1>2. ASSUME r.rip # -1, PageOf(r.rip) \in Pages(r) PROVE LeafIn(m, r.pml4, PageOf(r.rip)) # NoEntry
  BY <1>1, <1>2 DEF Pages, SeesData
<1>3. ASSUME r.rip # -1, r.forks = 0 PROVE PageOf(r.rip) \in Pages(r)
  <2>1. Program(r)
    BY <1>3 DEF Holds
  <2> QED  BY <1>1, <1>3, <2>1, EntryPage
<1>4. ASSUME r.rip # -1, r.forks = 1 PROVE PageOf(r.rip) \in Pages(r)
  BY <1>4 DEF Holds, Copy
<1>5. ASSUME r.rip # -1, r.forks > 1 PROVE LeafIn(m, r.pml4, PageOf(r.rip)) = NoEntry
  <2>1. Copy(r) /\ SeesCopy(m, r)
    BY <1>1, <1>5 DEF Holds
  <2>2. Len(r.area) = 0
    BY <1>5, <2>1 DEF Copy
  <2>3. PageOf(r.rip) \in UserPages /\ PageOf(r.rip) \notin Pages(r)
    BY <1>5, <2>1, <2>2 DEF Copy, Pages
  <2> QED  BY <2>1, <2>3 DEF SeesCopy
<1> QED  BY <1>1, <1>2, <1>3, <1>4, <1>5

LEMMA InvOwnMemory ==
  VMMInv => OwnMemory
<1> SUFFICES ASSUME VMMInv, core # "lost", NEW p \in Alive
             PROVE  /\ mem[proc[p].pml4][KernelEntry] = Entry(KernelTable, 7)
                    /\ \A k \in DOMAIN proc[p].area : \A page \in AreaPages(proc[p].area[k]) :
                         /\ Leaf(p, page).flags = proc[p].area[k].prot
                         /\ cont[Leaf(p, page).at] = <<proc[p].prog, page>>
                         /\ \A q \in Alive \ {p} :
                              \A other \in AllPages(q) : Leaf(q, other).at # Leaf(p, page).at
                    /\ proc[p].st = "run" =>
                         (Executable(p) <=> proc[p].rip # -1 /\ proc[p].forks <= 1)
  BY DEF OwnMemory
<1>1. proc \in [Proc -> ProcType] /\ mem \in MemType
  BY DEF VMMInv, Sound
<1>2. PICK lab : Good(lab, mem, cont, used, proc)
  BY DEF VMMInv, Sound
<1> DEFINE r == proc[p]
<1>3. /\ p \in Proc /\ r \in ProcType /\ AreasOK(r) /\ SeesData(mem, r) /\ Contents(mem, cont, r)
      /\ r.st \in {"load", "stack", "args", "run", "fork"} /\ r.forks \in Nat /\ Account(lab, p, r)
      /\ r.pml4 \in Frame /\ lab[r.pml4] = T(p, 1, 0) /\ Holds(mem, cont, r)
      /\ DOMAIN r.area = 1 .. Len(r.area)
  BY <1>1, <1>2, AliveFacts
<1>4. \A page : Leaf(p, page) = LeafIn(mem, r.pml4, page)
  BY DEF Leaf
<1> HIDE DEF r
<1>5. mem[r.pml4][KernelEntry] = Entry(KernelTable, 7)
  <2>1. lab[r.pml4].lev = 1 /\ Shape(lab, mem)
    BY <1>2, <1>3, TFacts DEF Good
  <2> QED  BY <1>3, <2>1 DEF Shape
<1>6. ASSUME NEW k \in 1 .. Len(r.area), NEW page \in AreaPages(r.area[k])
      PROVE  /\ Leaf(p, page).flags = r.area[k].prot
             /\ cont[Leaf(p, page).at] = <<r.prog, page>>
             /\ \A q \in Alive \ {p} : \A other \in AllPages(q) : Leaf(q, other).at # Leaf(p, page).at
  <2>1. Leaf(p, page).flags = r.area[k].prot /\ cont[Leaf(p, page).at] = <<r.prog, page>>
    BY <1>3, <1>4, <1>6 DEF SeesData, Contents
  <2>2. lab[Leaf(p, page).at].who = p
    <3>1. OwnFrames(lab, p, r)
      BY <1>3, PageLabel
    <3> QED  BY <1>4, <1>6, <3>1 DEF OwnFrames
  <2>3. ASSUME NEW q \in Alive, q # p, NEW other \in AllPages(q) PROVE Leaf(q, other).at # Leaf(p, page).at
    <3> DEFINE s == proc[q]
    <3>1. /\ s \in ProcType /\ AreasOK(s) /\ SeesData(mem, s) /\ Account(lab, q, s)
          /\ s.st \in {"load", "stack", "args", "run", "fork"} /\ AllPages(q) = Pages(s)
      BY <1>1, <1>2, AliveFacts
    <3>2. Leaf(q, other) = LeafIn(mem, s.pml4, other)
      BY DEF Leaf
    <3> HIDE DEF s
    <3>3. PICK j \in 1 .. Len(s.area) : other \in AreaPages(s.area[j])
      BY <2>3, <3>1 DEF Pages
    <3>4. lab[Leaf(q, other).at].who = q
      <4>1. OwnFrames(lab, q, s)
        BY <3>1, PageLabel
      <4> QED  BY <3>2, <3>3, <4>1 DEF OwnFrames
    <3> QED  BY <2>2, <2>3, <3>4
  <2> QED  BY <2>1, <2>3
<1>7. r.st = "run" => (Executable(p) <=> r.rip # -1 /\ r.forks <= 1)
  <2>1. Executable(p) <=> r.rip # -1 /\ LeafIn(mem, r.pml4, PageOf(r.rip)) # NoEntry
    BY <1>4 DEF Executable, Mapped, r
  <2> QED  BY <1>3, <2>1, RunsWhen
<1> QED  BY <1>3, <1>5, <1>6, <1>7 DEF r
LEMMA MaxOfRun ==
  ASSUME NEW x \in Nat, NEW n \in Nat \ {0}
  PROVE  Max(Run(x, n)) = x + n - 1
<1>1. x + n - 1 \in Run(x, n) /\ \A y \in Run(x, n) : x + n - 1 >= y
  BY DEF Run
<1>2. Run(x, n) \subseteq Int
  BY DEF Run
<1>3. Max(Run(x, n)) \in Run(x, n) /\ \A y \in Run(x, n) : Max(Run(x, n)) >= y
  BY <1>1 DEF Max
<1> QED  BY <1>1, <1>2, <1>3

LEMMA TopOf ==
  ASSUME NEW r \in ProcType, AreasOK(r), NEW k \in 1 .. Len(r.area)
  PROVE  After(r.area[k]) = First(r.area[k]) + Count(r.area[k])
<1>1. First(r.area[k]) \in Nat /\ Count(r.area[k]) \in Nat \ {0}
  BY AreaFacts
<1>2. AreaPages(r.area[k]) = Run(First(r.area[k]), Count(r.area[k]))
  BY DEF AreaPages, First, Count
<1>3. Max(Run(First(r.area[k]), Count(r.area[k]))) = First(r.area[k]) + Count(r.area[k]) - 1
  <2> DEFINE x == First(r.area[k])
             n == Count(r.area[k])
  <2>1. x \in Nat /\ n \in Nat \ {0}
    BY <1>1
  <2> HIDE DEF x, n
  <2>2. Max(Run(x, n)) = x + n - 1
    BY <2>1, MaxOfRun
  <2> QED  BY <2>2 DEF x, n
<1> QED  BY <1>1, <1>2, <1>3 DEF After

LEMMA InvStrayPages ==
  VMMInv => StrayPages
<1> SUFFICES ASSUME VMMInv, core # "lost", NEW p \in Alive
             PROVE  IF proc[p].forks > 0 THEN Beyond(p) = {}
                    ELSE /\ Beyond(p) = {After(proc[p].area[k]) : k \in DOMAIN proc[p].area} \ AllPages(p)
                         /\ \A k \in DOMAIN proc[p].area :
                              After(proc[p].area[k]) \in Beyond(p) =>
                                Leaf(p, After(proc[p].area[k])).at = Leaf(p, After(proc[p].area[k]) - 1).at + 1
  BY DEF StrayPages
<1>1. proc \in [Proc -> ProcType] /\ mem \in MemType
  BY DEF VMMInv, Sound
<1>2. PICK lab : Good(lab, mem, cont, used, proc)
  BY DEF VMMInv, Sound
<1> DEFINE r == proc[p]
           B == Beyond(p)
           A == AllPages(p)
<1>3. /\ r \in ProcType /\ AreasOK(r) /\ r.st \in {"load", "stack", "args", "run", "fork"} /\ r.forks \in Nat
      /\ Holds(mem, cont, r) /\ DOMAIN r.area = 1 .. Len(r.area) /\ A = Pages(r)
  BY <1>1, <1>2, AliveFacts
<1>4. \A page : Leaf(p, page) = LeafIn(mem, r.pml4, page)
  BY DEF Leaf
<1>5. \A page : page \in B <=> page \in UserPages /\ LeafIn(mem, r.pml4, page) # NoEntry /\ page \notin Pages(r)
  BY <1>3, <1>4 DEF Mapped, Beyond
<1> HIDE DEF r, B, A
<1>6. ASSUME r.forks > 0 PROVE B = {}
  <2>1. SeesCopy(mem, r)
    BY <1>3, <1>6 DEF Holds
  <2> QED  BY <1>5, <2>1 DEF SeesCopy
<1>7. ASSUME ~(r.forks > 0)
      PROVE  /\ B = {After(r.area[k]) : k \in DOMAIN r.area} \ A
             /\ \A k \in DOMAIN r.area :
                  After(r.area[k]) \in B => Leaf(p, After(r.area[k])).at = Leaf(p, After(r.area[k]) - 1).at + 1
  <2>1. SeesProgram(mem, r)
    BY <1>3, <1>7 DEF Holds
  <2>2. ASSUME NEW k \in 1 .. Len(r.area)
        PROVE  /\ After(r.area[k]) = First(r.area[k]) + Count(r.area[k])
               /\ After(r.area[k]) \in UserPages
               /\ After(r.area[k]) \notin Pages(r) =>
                    /\ LeafIn(mem, r.pml4, After(r.area[k])) # NoEntry
                    /\ LeafIn(mem, r.pml4, After(r.area[k])).at = LeafIn(mem, r.pml4, After(r.area[k]) - 1).at + 1
    <3> DEFINE x == First(r.area[k])
               n == Count(r.area[k])
               t == After(r.area[k])
    <3>1. t = x + n
      BY <1>3, TopOf
    <3>2. r.area[k] \in AreaType /\ x \in Nat /\ n \in Nat \ {0} /\ x + n \in UserPages
      BY <1>3, AreaFacts
    <3>3. PICK f \in Frame : SeesRun(mem, r, k, f)
      BY <2>1 DEF SeesProgram
    <3>4. LeafIn(mem, r.pml4, x + (n - 1)) = Entry(f + (n - 1), r.area[k].prot)
      BY <3>2, <3>3 DEF SeesRun
    <3>5. x + n \notin Pages(r) => LeafIn(mem, r.pml4, x + n) = Entry(f + n, r.area[k].prot)
      BY <3>3 DEF SeesRun
    <3>6. r.area[k].prot # 0
      BY <3>2 DEF AreaType
    <3>7. f \in Int
      BY DEF Frame
    <3> HIDE DEF x, n, t
    <3>8. t - 1 = x + (n - 1) /\ f + n = f + (n - 1) + 1 /\ t \in UserPages
      BY <3>1, <3>2, <3>7
    <3>9. t \notin Pages(r) => LeafIn(mem, r.pml4, t) # NoEntry /\ LeafIn(mem, r.pml4, t).at = LeafIn(mem, r.pml4, t - 1).at + 1
      BY <3>1, <3>4, <3>5, <3>6, <3>8 DEF Entry, NoEntry
    <3> QED  BY <3>1, <3>8, <3>9 DEF t, x, n
  <2>3. ASSUME NEW page \in B PROVE page \in {After(r.area[k]) : k \in DOMAIN r.area}
    <3>1. page \in UserPages /\ LeafIn(mem, r.pml4, page) # NoEntry /\ page \notin Pages(r)
      BY <1>5, <2>3
    <3>2. PICK k \in 1 .. Len(r.area) : page = First(r.area[k]) + Count(r.area[k])
      BY <2>1, <3>1 DEF SeesProgram
    <3>3. page = After(r.area[k])
      BY <2>2, <3>2
    <3> QED  BY <1>3, <3>3
  <2>4. ASSUME NEW k \in 1 .. Len(r.area), After(r.area[k]) \notin A PROVE After(r.area[k]) \in B
    BY <1>3, <1>5, <2>2, <2>4
  <2>5. B = {After(r.area[k]) : k \in DOMAIN r.area} \ A
    <3>1. \A page \in B : page \notin A
      BY <1>3, <1>5
    <3> QED  BY <1>3, <2>3, <2>4, <3>1
  <2>6. ASSUME NEW k \in 1 .. Len(r.area), After(r.area[k]) \in B
        PROVE  Leaf(p, After(r.area[k])).at = Leaf(p, After(r.area[k]) - 1).at + 1
    BY <1>4, <1>5, <2>2, <2>6
  <2> QED  BY <1>3, <2>5, <2>6
<1> QED  BY <1>6, <1>7 DEF r, B, A
LEMMA HeldIs ==
  ASSUME NEW lab, Good(lab, mem, cont, used, proc), proc \in [Proc -> ProcType], NEW p \in Proc
  PROVE  Held(p) = {f \in Frame : lab[f].lev # 0 /\ lab[f].who = p}
<1> DEFINE r == proc[p]
           top == IF r.st = "none" THEN {} ELSE {r.pml4}
           tables == IF r.st = "gone" THEN {} ELSE Range(r.tables)
           areas == {k \in 1 .. Len(r.data) : k > Freed(r)}
           H == {f \in Frame : lab[f].lev # 0 /\ lab[f].who = p}
<1>1. /\ r \in ProcType /\ Account(lab, p, r) /\ Holds(mem, cont, r) /\ lab \in Labels /\ Shape(lab, mem)
  BY DEF Good
<1>2. /\ r.forks \in Nat /\ r.i \in Nat /\ r.pml4 \in Frame /\ r.tables \in Seq(Frame) /\ r.data \in Seq(SUBSET Nat)
      /\ Len(r.data) \in Nat /\ AreasOK(r)
  BY <1>1, ProcFacts DEF Holds
<1>3. Held(p) = top \cup tables \cup UNION {r.data[k] : k \in areas}
  <2> DEFINE freed == CASE r.st = "gone" -> Size(r.ranges)
                        [] r.st = "destroy" -> r.i
                        [] OTHER -> 0
             given == {k \in DOMAIN r.data : r.forks > 0 \/ k > freed}
  <2>1. Held(p) = top \cup tables \cup UNION {r.data[k] : k \in given}
    BY DEF Held
  <2>2. r.forks = 0 => freed = Freed(r)
    BY DEF Freed, Size
  <2>3. r.forks > 0 => Freed(r) = 0
    BY DEF Freed
  <2>4. DOMAIN r.data = 1 .. Len(r.data)
    BY <1>2
  <2> HIDE DEF r, freed
  <2>5. given = areas
    BY <1>2, <2>2, <2>3, <2>4
  <2> QED  BY <2>1, <2>5
<1> HIDE DEF r
<1>4. ASSUME NEW f \in Frame, lab[f].lev # 0, lab[f].who = p
      PROVE  f \in top \cup tables \cup UNION {r.data[k] : k \in areas}
  <2>1. lab[f] = T(p, lab[f].lev, lab[f].num) /\ lab[f].num \in Nat /\ lab[f].lev \in 1 .. 6
    BY <1>1, <1>4, LabelFacts
  <2>2. CASE lab[f].lev = 1
    <3>1. lab[f].num = 0
      BY <1>1, <2>2 DEF Shape
    <3>2. f = r.pml4 /\ r.st \notin {"none", "gone"}
      BY <1>1, <2>1, <2>2, <3>1 DEF Account
    <3> QED  BY <3>2
  <2>3. CASE lab[f].lev \in 2 .. 4
    <3>1. f \in Tabs(lab, p)
      BY <1>4, <2>3 DEF Tabs
    <3>2. f \in Range(r.tables) /\ r.st # "gone"
      BY <1>1, <3>1 DEF Account
    <3> QED  BY <3>2
  <2>4. CASE lab[f].lev = 5
    <3> DEFINE k == lab[f].num
    <3>1. lab[f] = T(p, 5, k) /\ k \in Nat
      BY <2>1, <2>4
    <3> HIDE DEF k
    <3>2. k \in 1 .. Len(r.data) /\ f \in r.data[k] /\ k > Freed(r)
      BY <1>1, <3>1 DEF Account
    <3> QED  BY <3>2
  <2>5. CASE lab[f].lev = 6
    <3>1. f = r.pml4 /\ r.st = "gone"
      BY <1>1, <1>4, <2>5 DEF Account
    <3> QED  BY <3>1
  <2> QED  BY <2>1, <2>2, <2>3, <2>4, <2>5
<1>5. ASSUME NEW f \in top PROVE f \in H
  <2>1. f = r.pml4 /\ r.st # "none" /\ f \in Frame
    BY <1>2, <1>5
  <2>2. CASE r.st = "gone"
    BY <1>1, <2>1, <2>2 DEF Account
  <2>3. CASE r.st # "gone"
    <3>1. lab[f] = T(p, 1, 0)
      BY <1>1, <2>1, <2>3 DEF Account
    <3> QED  BY <2>1, <3>1, TFacts
  <2> QED  BY <2>2, <2>3
<1>6. ASSUME NEW f \in tables PROVE f \in H
  <2>1. r.st # "gone" /\ f \in Range(r.tables)
    BY <1>6
  <2>2. f \in Frame
    BY <1>2, <2>1, RangeIs
  <2>3. f \in Tabs(lab, p)
    BY <1>1, <2>1, <2>2 DEF Account
  <2> QED  BY <2>2, <2>3 DEF Tabs
<1>7. ASSUME NEW k \in areas, NEW f \in r.data[k] PROVE f \in H
  <2>1. k \in 1 .. Len(r.area) /\ k \in 1 .. Len(r.data) /\ k > Freed(r) /\ k \in Nat
    BY <1>2, <1>7 DEF AreasOK
  <2>2. f \in Frame
    BY <1>2, <1>7, <2>1 DEF AreasOK
  <2>3. lab[f] = T(p, 5, k)
    BY <1>1, <1>7, <2>1, <2>2 DEF Account
  <2> QED  BY <2>2, <2>3, TFacts
<1> HIDE DEF top, tables, areas
<1>8. H = top \cup tables \cup UNION {r.data[k] : k \in areas}
  BY <1>4, <1>5, <1>6, <1>7
<1> QED  BY <1>3, <1>8

LEMMA InvFramesAccounted ==
  VMMInv => FramesAccounted
<1> SUFFICES ASSUME VMMInv, core # "lost"
             PROVE  /\ used = {0, KernelTable} \cup UNION {Held(p) : p \in Proc}
                    /\ \A p, q \in Proc : p # q => Held(p) \cap Held(q) = {}
  BY DEF FramesAccounted
<1>1. proc \in [Proc -> ProcType]
  BY DEF VMMInv, Sound
<1>2. PICK lab : Good(lab, mem, cont, used, proc)
  BY DEF VMMInv, Sound
<1>3. \A p \in Proc : \A f : f \in Held(p) <=> f \in Frame /\ lab[f].lev # 0 /\ lab[f].who = p
  BY <1>1, <1>2, HeldIs
<1>4. /\ used = {0, KernelTable} \cup {f \in Frame : lab[f].lev # 0}
      /\ \A f \in Frame : lab[f].lev # 0 => lab[f].who \in Proc
  BY <1>2 DEF Good, UsedAre, Shape
<1>5. {f \in Frame : lab[f].lev # 0} = UNION {Held(p) : p \in Proc}
  BY <1>3, <1>4
<1>6. \A p, q \in Proc : p # q => Held(p) \cap Held(q) = {}
  BY <1>3
<1> QED  BY <1>4, <1>5, <1>6

LEMMA InvArgsOnOwnStack ==
  VMMInv => ArgsOnOwnStack
<1> SUFFICES ASSUME VMMInv, NEW p \in Alive, proc[p].st = "run", proc[p].forks = 0
             PROVE  /\ proc[p].args = Leaf(p, PageOf(UserStack)).at + StackPages
                    /\ \A k \in 0 .. StackPages - 1 :
                         Leaf(p, PageOf(UserStack) + k).at = proc[p].args - StackPages + k
  BY DEF ArgsOnOwnStack
<1>1. ArgsOK(mem, proc[p])
  BY DEF Alive, VMMInv, Sound
<1> QED  BY <1>1 DEF ArgsOK, Leaf

(* Every structure has its type, whatever the processes do: an entry of a  *)
(* page table names a frame or, through map_range_raw, the one after the   *)
(* last, and page_tables_addr holds frames only.                           *)
THEOREM VMMTypeOK ==
  Spec => []TypeOK
BY VMMInvariant, InvTypeOK, PTL

(* Each live process sees its own memory, with the right contents and      *)
(* protection, and no frame of another's, however loads, forks and exits   *)
(* interleave; and it can run exactly when its program was loaded and it   *)
(* is at most one fork away from it.                                       *)
THEOREM VMMOwnMemory ==
  Spec => []OwnMemory
BY VMMInvariant, InvOwnMemory, PTL

(* Beyond its areas a loaded process has exactly the page that             *)
(* map_range_raw's `<=` maps after each of them, onto the frame after the  *)
(* area's frames; a forked one has nothing.                                *)
THEOREM VMMStrayPages ==
  Spec => []StrayPages
BY VMMInvariant, InvStrayPages, PTL

(* The frames taken are the kernel's and those some process has, each of   *)
(* them one process': destroy frees nothing twice and nothing of others,   *)
(* and what stays taken is the PML4 of every process and the areas of the  *)
(* forked ones.                                                            *)
THEOREM VMMFramesAccounted ==
  Spec => []FramesAccounted
BY VMMInvariant, InvFramesAccounted, PTL

(* What create_program finds for the address after the stack, and writes   *)
(* the arguments below, is the end of the process' own stack.              *)
THEOREM VMMArgsOnOwnStack ==
  Spec => []ArgsOnOwnStack
BY VMMInvariant, InvArgsOnOwnStack, PTL
=============================================================================
