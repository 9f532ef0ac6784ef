---------------------------- MODULE Files_proofs ----------------------------
(***************************************************************************)
(* Proofs about Files, for every ramdisk, every set of processes, paths    *)
(* and sizes, and all bounds: the tree is one, a path finds the node its   *)
(* names lead to, a description is in one slot, and a file holds what was  *)
(* written.                                                                *)
(***************************************************************************)
EXTENDS Files, NatSets, FunctionTheorems, SequenceTheorems

Bit == {0, 1}
NodeType ==
  [name : STRING \cup {"/"}, type : {"File", "Directory"}, fs : {"tmpfs", "null"}, parent : Nat,
   children : Seq(Nat), data : Seq(Bit), by : Proc \cup {"kernel"}, asked : Seq(STRING),
   written : Seq(Bit), grows : 0 .. 2]

(* A node is listed by its parent, which was made before it, by nobody     *)
(* else, and once; a file lies in a directory.                             *)
Tree(ns) ==
  /\ ns \in Seq(NodeType) /\ Root \in DOMAIN ns
  /\ \A n \in DOMAIN ns : n # Root =>
       /\ ns[n].parent \in 1 .. n - 1
       /\ ns[n].type = "File" => ns[ns[n].parent].type = "Directory"
       /\ \E k \in DOMAIN ns[ns[n].parent].children : ns[ns[n].parent].children[k] = n
  /\ \A m \in DOMAIN ns : \A k \in DOMAIN ns[m].children :
       /\ ns[m].children[k] \in DOMAIN ns \ {Root}
       /\ ns[ns[m].children[k]].parent = m
       /\ \A l \in DOMAIN ns[m].children : ns[m].children[k] = ns[m].children[l] => k = l

(* The pages of a file against what was written: the first page is what    *)
(* was written, and nothing beyond it is invented.                         *)
Faithful(data, written) ==
  \A x \in DOMAIN data :
    /\ x <= PageSize => data[x] = written[x]
    /\ data[x] = 1 => x <= MaxOffset /\ written[x] = 1

(* A file has whole pages, more than one exactly if it has grown; what it  *)
(* holds was written, and its first page has all that was.                 *)
Filled(r) ==
  /\ r.type = "Directory" => r.data = <<>> /\ r.grows = 0
  /\ r.type = "File" =>
       /\ Len(r.data) % PageSize = 0 /\ Len(r.data) >= PageSize
       /\ Len(r.data) = PageSize <=> r.grows = 0
       /\ Len(r.written) = MaxOffset
       /\ Faithful(r.data, r.written)

NodesInv == Tree(nodes) /\ \A n \in DOMAIN nodes : Filled(nodes[n])

(* The descriptions that load leaves behind are the only ones whose mode   *)
(* is CREATE alone.                                                        *)
Left == {"CREATE"}

DescType == [file : Int, mode : SUBSET {"READ", "WRITE", "CREATE"}, offset : Nat]
ProcType == [st : {"none", "run", "gone"}, prog : Proc \cup {"none"}, fds : Seq(0 .. MaxDesc)]

IsFile(ns, n) == n \in DOMAIN ns /\ ns[n].type = "File"

TypeInv ==
  /\ desc \in [1 .. MaxDesc -> DescType]
  /\ \A d \in 1 .. MaxDesc : desc[d] = Free \/ desc[d].file = Tty0 \/ IsFile(nodes, desc[d].file)
  /\ proc \in [Proc -> ProcType]
  /\ \A p \in Proc : proc[p].st = "run" => proc[p].prog \in Proc
  /\ \A p \in Proc : proc[p].st # "run" => proc[p].fds = <<>>
  /\ taken \in Nat /\ image \in Archives /\ pos \in Nat

(* A description is in one slot; one in a slot is alive, and not load's;   *)
(* one that is alive is in a slot, or load's.                              *)
OneSlot ==
  \A p, q \in Proc : \A j \in DOMAIN proc[p].fds : \A k \in DOMAIN proc[q].fds :
    proc[p].fds[j] # Null /\ proc[p].fds[j] = proc[q].fds[k] => p = q /\ j = k
SlotAlive ==
  \A p \in Proc : \A k \in DOMAIN proc[p].fds : proc[p].fds[k] # Null =>
    desc[proc[p].fds[k]] # Free /\ desc[proc[p].fds[k]].mode # Left
AliveInSlot ==
  \A d \in 1 .. MaxDesc : desc[d] # Free =>
    desc[d].mode = Left \/ \E p \in Proc : \E k \in DOMAIN proc[p].fds : proc[p].fds[k] = d
SlotInv == OneSlot /\ SlotAlive /\ AliveInSlot

Loaded(ns, n) == IsFile(ns, n) /\ ns[n].by = "kernel"

LoadInv ==
  /\ \A d \in 1 .. MaxDesc : desc[d].mode = Left => Loaded(nodes, desc[d].file)
  /\ \A d, e \in 1 .. MaxDesc :
       desc[d].mode = Left /\ desc[e].mode = Left /\ desc[d].file = desc[e].file => d = e
  /\ \A n \in DOMAIN nodes : Loaded(nodes, n) =>
       \E d \in 1 .. MaxDesc : desc[d].mode = Left /\ desc[d].file = n

(* The pages of the files of ns.                                           *)
InUse(ns) ==
  LET sum[n \in 0 .. Len(ns)] == IF n = 0 THEN 0 ELSE sum[n - 1] + (Len(ns[n].data) \div PageSize)
  IN  sum[Len(ns)]

TakenInv ==
  /\ taken >= InUse(nodes)
  /\ taken = InUse(nodes) <=> \A n \in DOMAIN nodes : nodes[n].grows <= 1

FilesInv == NodesInv /\ TypeInv /\ SlotInv /\ LoadInv /\ TakenInv

-----------------------------------------------------------------------------
(* Lookups                                                                 *)

LEMMA MinIn ==
  ASSUME NEW S \in SUBSET Nat, S # {}
  PROVE  Min(S) \in S /\ \A y \in S : Min(S) <= y
BY Least DEF Min

LEMMA SeqFacts ==
  ASSUME NEW T, NEW s \in Seq(T)
  PROVE  /\ Len(s) \in Nat /\ DOMAIN s = 1 .. Len(s) /\ s \in [1 .. Len(s) -> T]
         /\ \A k \in DOMAIN s : s[k] \in T
OBVIOUS

LEMMA TreeFacts ==
  ASSUME NEW ns, Tree(ns)
  PROVE  /\ Len(ns) \in Nat /\ DOMAIN ns = 1 .. Len(ns) /\ Root \in DOMAIN ns
         /\ \A n \in DOMAIN ns : ns[n] \in NodeType
         /\ \A n \in DOMAIN ns : DOMAIN ns[n].children = 1 .. Len(ns[n].children)
         /\ \A n \in DOMAIN ns : \A k \in DOMAIN ns[n].children : ns[n].children[k] \in DOMAIN ns
<1>1. ns \in Seq(NodeType) /\ Root \in DOMAIN ns
  BY DEF Tree
<1>2. Len(ns) \in Nat /\ DOMAIN ns = 1 .. Len(ns) /\ \A n \in DOMAIN ns : ns[n] \in NodeType
  BY <1>1, SeqFacts
<1>3. ASSUME NEW n \in DOMAIN ns PROVE DOMAIN ns[n].children = 1 .. Len(ns[n].children)
  <2>1. ns[n].children \in Seq(Nat)
    BY <1>2 DEF NodeType
  <2> QED  BY <2>1, SeqFacts
<1> QED  BY <1>1, <1>2, <1>3 DEF Tree

(* A step of the walk, from a node, ends at a node.                        *)
Walker(w) ==
  /\ w = [node |-> w.node, rest |-> w.rest, stop |-> w.stop, seen |-> w.seen]
  /\ w.node \in DOMAIN nodes

LEMMA DownWalks ==
  ASSUME Tree(nodes), NEW w, Walker(w), NEW c
  PROVE  Walker(Down(w, c))
<1> DEFINE kids == nodes[w.node].children
           same == {k \in DOMAIN kids : strcmp(nodes[kids[k]].name, c)}
<1>1. w.node \in DOMAIN nodes
  BY DEF Walker
<1>2. DOMAIN kids = 1 .. Len(kids) /\ \A k \in DOMAIN kids : kids[k] \in DOMAIN nodes
  BY <1>1, TreeFacts
<1>3. same # {} => Min(same) \in same
  <2>1. same \in SUBSET Nat
    BY <1>2
  <2> HIDE DEF same
  <2> QED  BY <2>1, MinIn
<1>4. same # {} => kids[Min(same)] \in DOMAIN nodes
  BY <1>2, <1>3
<1> DEFINE hit == [node |-> kids[Min(same)], rest |-> Tail(w.rest), stop |-> FALSE,
                   seen |-> w.seen \cup {kids[k] : k \in 1 .. Min(same)}]
           miss == [node |-> w.node, rest |-> w.rest, stop |-> TRUE, seen |-> w.seen \cup Range(kids)]
<1>5. Down(w, c) = IF w.stop THEN w ELSE IF same = {} THEN miss ELSE hit
  BY DEF Down
<1>6. Walker(miss)
  BY <1>1 DEF Walker
<1>7. same # {} => Walker(hit)
  BY <1>4 DEF Walker
<1> HIDE DEF hit, miss, same
<1> QED  BY <1>5, <1>6, <1>7

LEMMA WalkEnds ==
  ASSUME Tree(nodes), NEW node \in DOMAIN nodes, NEW names \in Seq(STRING)
  PROVE  Walk(node, names).node \in DOMAIN nodes
<1> DEFINE n == Len(names)
           start == [node |-> node, rest |-> names, stop |-> FALSE, seen |-> {}]
           Value(g, k) == IF k = 0 THEN start ELSE Down(g[k - 1], names[k])
           Step(g, m) == [k \in 0 .. m |-> Value(g, k)]
           w == CHOOSE g : g = Step(g, n)
           S == {m \in Nat : \E g : g = Step(g, m) /\ \A k \in 0 .. m : Walker(g[k])}
<1>0. n \in Nat
  BY LenProperties
<1>1. Walk(node, names) = w[n]
  BY DEF Walk
<1>2. 0 \in S
  <2>1. Walker(start)
    BY DEF Walker
  <2> DEFINE g == [k \in 0 .. 0 |-> start]
  <2> HIDE DEF start
  <2>2. g = Step(g, 0) /\ \A k \in 0 .. 0 : Walker(g[k])
    BY <2>1
  <2> QED  BY <2>2
<1>3. ASSUME NEW m \in Nat, m \in S PROVE m + 1 \in S
  <2>1. PICK g : g = Step(g, m) /\ \A k \in 0 .. m : Walker(g[k])
    BY <1>3
  <2> DEFINE h == [k \in 0 .. m + 1 |-> IF k = m + 1 THEN Down(g[m], names[m + 1]) ELSE g[k]]
  <2> HIDE DEF start
  <2>2. ASSUME NEW k \in 0 .. m + 1
        PROVE  h[k] = Value(h, k) /\ Walker(h[k])
    <3>1. CASE k = m + 1
      <4>1. Walker(g[m]) /\ k # 0 /\ k - 1 = m /\ h[m] = g[m]
        BY <2>1, <3>1
      <4> QED  BY <3>1, <4>1, DownWalks
    <3>2. CASE k # m + 1
      <4>1. k \in 0 .. m /\ h[k] = g[k] /\ (k # 0 => k - 1 \in 0 .. m /\ h[k - 1] = g[k - 1])
        BY <3>2
      <4>2. g[k] = Value(g, k)
        BY <2>1, <4>1
      <4> QED  BY <2>1, <4>1, <4>2
    <3> QED  BY <3>1, <3>2
  <2>3. h = Step(h, m + 1)
    BY <2>2
  <2> HIDE DEF h, Value
  <2> QED  BY <2>2, <2>3
<1>4. n \in S
  <2> HIDE DEF S, n
  <2>1. Nat \subseteq S
    BY <1>2, <1>3, SetInduction
  <2> QED  BY <1>0, <2>1
<1>5. \A k \in 0 .. n : w[k] = Value(w, k)
  <2>1. w = Step(w, n)
    BY <1>4
  <2> HIDE DEF w, Value
  <2> QED  BY <2>1
<1> HIDE DEF w, n, start
<1>6. \A k \in 0 .. n : Walker(w[k])
  <2> DEFINE G == {k \in Nat : k <= n => Walker(w[k])}
  <2>1. 0 \in G
    <3>1. w[0] = start
      BY <1>0, <1>5
    <3>2. Walker(start)
      BY DEF Walker, start
    <3> QED  BY <3>1, <3>2
  <2>2. ASSUME NEW k \in Nat, k \in G PROVE k + 1 \in G
    <3> SUFFICES ASSUME k + 1 <= n PROVE Walker(w[k + 1])
      OBVIOUS
    <3>1. Walker(w[k])
      BY <1>0, <2>2
    <3>2. w[k + 1] = Value(w, k + 1) /\ k + 1 # 0 /\ k + 1 - 1 = k
      BY <1>0, <1>5
    <3> QED  BY <3>1, <3>2, DownWalks
  <2>3. Nat \subseteq G
    <3> HIDE DEF G
    <3> QED  BY <2>1, <2>2, SetInduction
  <2> QED  BY <1>0, <2>3
<1>7. Walker(w[n])
  BY <1>0, <1>6
<1> QED  BY <1>1, <1>7 DEF Walker

LEMMA LookupEnds ==
  ASSUME Tree(nodes), NEW path \in [abs : BOOLEAN, names : Seq(STRING)], path.abs, NEW dir
  PROVE  path_to_node(path, dir).node \in DOMAIN nodes \cup {Null}
<1>1. Walk(Root, path.names).node \in DOMAIN nodes
  BY WalkEnds, TreeFacts
<1>2. path_to_node(path, dir).node \in {Null, Walk(Root, path.names).node}
  BY DEF path_to_node
<1> QED  BY <1>1, <1>2

-----------------------------------------------------------------------------
(* What Insert and a write do to the tree                                  *)

LEMMA PushFront ==
  ASSUME NEW x \in Nat, NEW s \in Seq(Nat)
  PROVE  /\ <<x>> \o s \in Seq(Nat) /\ DOMAIN (<<x>> \o s) = 1 .. Len(s) + 1
         /\ (<<x>> \o s)[1] = x
         /\ \A k \in 1 .. Len(s) + 1 : k # 1 => (<<x>> \o s)[k] = s[k - 1]
<1>1. <<x>> \in Seq(Nat) /\ Len(<<x>>) = 1 /\ <<x>>[1] = x
  OBVIOUS
<1>2. Len(s) \in Nat
  OBVIOUS
<1>3. <<x>> \o s \in Seq(Nat) /\ Len(<<x>> \o s) = 1 + Len(s)
  BY <1>1, ConcatProperties
<1>4. \A k \in 1 .. Len(<<x>>) + Len(s) :
        (<<x>> \o s)[k] = IF k <= Len(<<x>>) THEN <<x>>[k] ELSE s[k - Len(<<x>>)]
  BY <1>1, ConcatProperties
<1>5. DOMAIN (<<x>> \o s) = 1 .. Len(s) + 1
  BY <1>2, <1>3
<1> QED  BY <1>1, <1>2, <1>3, <1>4, <1>5

(* Everything about a node but its children.                               *)
SameBut(r, q) ==
  /\ r.name = q.name /\ r.type = q.type /\ r.parent = q.parent /\ r.data = q.data
  /\ r.by = q.by /\ r.asked = q.asked /\ r.written = q.written /\ r.grows = q.grows

LEMMA InsertFacts ==
  ASSUME Tree(nodes), NEW node \in NodeType, node.parent \in DOMAIN nodes
  PROVE  /\ Insert(node) \in Seq(NodeType) /\ DOMAIN Insert(node) = 1 .. Len(nodes) + 1
         /\ Len(Insert(node)) = Len(nodes) + 1 /\ Insert(node)[Len(nodes) + 1] = node
         /\ \A n \in 1 .. Len(nodes) :
              /\ SameBut(Insert(node)[n], nodes[n])
              /\ Insert(node)[n].children =
                   IF n = node.parent THEN <<Len(nodes) + 1>> \o nodes[n].children
                   ELSE nodes[n].children
<1> DEFINE L == Len(nodes)
           p == node.parent
           ch == <<L + 1>> \o nodes[p].children
           q == [nodes[p] EXCEPT !.children = ch]
           base == [nodes EXCEPT ![p] = q]
<1>1. /\ L \in Nat /\ DOMAIN nodes = 1 .. L /\ p \in 1 .. L /\ nodes \in Seq(NodeType)
      /\ \A n \in 1 .. L : nodes[n] \in NodeType
  BY TreeFacts DEF Tree
<1>2. Insert(node) = Append(base, node)
  BY DEF Insert
<1>3. ch \in Seq(Nat)
  <2>1. nodes[p] \in NodeType
    BY <1>1
  <2>2. nodes[p].children \in Seq(Nat)
    BY <2>1 DEF NodeType
  <2> QED  BY <1>1, <2>2, PushFront
<1>4. q \in NodeType /\ q.children = ch /\ SameBut(q, nodes[p])
  <2> HIDE DEF ch
  <2>1. nodes[p] \in NodeType
    BY <1>1
  <2> QED  BY <1>3, <2>1 DEF NodeType, SameBut
<1>5. base \in Seq(NodeType) /\ Len(base) = L /\ \A n \in 1 .. L : base[n] = IF n = p THEN q ELSE nodes[n]
  <2> HIDE DEF q, L
  <2> QED  BY <1>1, <1>4
<1> HIDE DEF base, q
<1>6. /\ Append(base, node) \in Seq(NodeType) /\ Len(Append(base, node)) = L + 1
      /\ \A n \in 1 .. L : Append(base, node)[n] = base[n]
      /\ Append(base, node)[L + 1] = node
  BY <1>1, <1>5, AppendProperties
<1>7. DOMAIN Append(base, node) = 1 .. L + 1
  BY <1>6, SeqFacts
<1> HIDE DEF L
<1>8. ASSUME NEW n \in 1 .. L
      PROVE  /\ SameBut(Insert(node)[n], nodes[n])
             /\ Insert(node)[n].children = IF n = p THEN ch ELSE nodes[n].children
  <2>1. CASE n = p
    BY <1>2, <1>4, <1>5, <1>6, <2>1
  <2>2. CASE n # p
    BY <1>2, <1>5, <1>6, <2>2 DEF SameBut
  <2> QED  BY <2>1, <2>2
<1> QED  BY <1>2, <1>6, <1>7, <1>8 DEF L

LEMMA InsertTree ==
  ASSUME Tree(nodes), NEW node \in NodeType, node.parent \in DOMAIN nodes, node.children = <<>>,
         node.type = "File" => nodes[node.parent].type = "Directory"
  PROVE  Tree(Insert(node))
<1> DEFINE L == Len(nodes)
           p == node.parent
           ns == Insert(node)
           ch == <<L + 1>> \o nodes[p].children
<1>1. L \in Nat /\ DOMAIN nodes = 1 .. L /\ p \in 1 .. L /\ nodes[p].children \in Seq(Nat)
      /\ Root \in 1 .. L
  <2>1. L \in Nat /\ DOMAIN nodes = 1 .. L /\ p \in 1 .. L /\ Root \in 1 .. L /\ nodes[p] \in NodeType
    BY TreeFacts
  <2> QED  BY <2>1 DEF NodeType
<1>2. /\ ns \in Seq(NodeType) /\ DOMAIN ns = 1 .. L + 1 /\ ns[L + 1] = node
      /\ \A n \in 1 .. L : /\ ns[n].type = nodes[n].type /\ ns[n].parent = nodes[n].parent
                           /\ n # p => ns[n].children = nodes[n].children
      /\ ns[p].children = ch
  <2>1. /\ ns \in Seq(NodeType) /\ DOMAIN ns = 1 .. L + 1 /\ ns[L + 1] = node
        /\ \A n \in 1 .. L :
              /\ SameBut(ns[n], nodes[n])
              /\ ns[n].children = IF n = p THEN <<L + 1>> \o nodes[n].children ELSE nodes[n].children
    BY InsertFacts
  <2> HIDE DEF ns, L, p
  <2> QED  BY <1>1, <2>1 DEF SameBut
<1>3. /\ DOMAIN ch = 1 .. Len(nodes[p].children) + 1 /\ ch[1] = L + 1
      /\ \A k \in DOMAIN ch : k # 1 => ch[k] = nodes[p].children[k - 1]
      /\ DOMAIN nodes[p].children = 1 .. Len(nodes[p].children) /\ Len(nodes[p].children) \in Nat
  BY <1>1, PushFront, SeqFacts
<1> HIDE DEF L, ns, ch, p
<1>4. ASSUME NEW n \in 1 .. L + 1, n # Root
      PROVE  /\ ns[n].parent \in 1 .. n - 1
             /\ ns[n].type = "File" => ns[ns[n].parent].type = "Directory"
             /\ \E k \in DOMAIN ns[ns[n].parent].children : ns[ns[n].parent].children[k] = n
  <2>1. CASE n = L + 1
    <3>1. ns[n].parent = p /\ p \in 1 .. n - 1
      BY <1>1, <1>2, <2>1 DEF p
    <3>2. ns[n].type = "File" => ns[p].type = "Directory"
      BY <1>1, <1>2, <2>1 DEF p
    <3>3. 1 \in DOMAIN ch /\ ch[1] = n
      BY <1>3, <2>1
    <3> QED  BY <1>2, <3>1, <3>2, <3>3
  <2>2. CASE n # L + 1
    <3> DEFINE f == nodes[n].parent
    <3>1. n \in 1 .. L /\ n \in DOMAIN nodes
      BY <1>1, <2>2
    <3>2. PICK k \in DOMAIN nodes[f].children : nodes[f].children[k] = n
      BY <1>4, <3>1 DEF Tree
    <3>3. f \in 1 .. n - 1 /\ f \in 1 .. L /\ (nodes[n].type = "File" => nodes[f].type = "Directory")
      BY <1>1, <1>4, <3>1 DEF Tree
    <3>4. ns[n].parent = f /\ ns[n].type = nodes[n].type /\ ns[f].type = nodes[f].type
      BY <1>2, <3>1, <3>3
    <3>5. \E l \in DOMAIN ns[f].children : ns[f].children[l] = n
      <4>1. CASE f = p
        <5>1. k + 1 \in DOMAIN ch /\ k + 1 # 1 /\ (k + 1) - 1 = k
          BY <1>3, <4>1
        <5> QED  BY <1>2, <1>3, <3>2, <4>1, <5>1
      <4>2. CASE f # p
        BY <1>2, <3>2, <3>3, <4>2
      <4> QED  BY <4>1, <4>2
    <3> HIDE DEF f
    <3> QED  BY <3>3, <3>4, <3>5
  <2> QED  BY <2>1, <2>2
<1>5. ASSUME NEW m \in 1 .. L + 1, NEW k \in DOMAIN ns[m].children
      PROVE  /\ ns[m].children[k] \in (1 .. L + 1) \ {Root}
             /\ ns[ns[m].children[k]].parent = m
             /\ \A l \in DOMAIN ns[m].children : ns[m].children[k] = ns[m].children[l] => k = l
  <2>0. m # L + 1 /\ m \in 1 .. L
    <3>1. ns[L + 1].children = <<>>
      BY <1>2
    <3>2. m # L + 1
      BY <3>1
    <3>3. L \in Nat
      BY <1>1
    <3> QED  BY <3>2, <3>3
  <2>1. ASSUME NEW j \in DOMAIN nodes[m].children
        PROVE  /\ nodes[m].children[j] \in (1 .. L) \ {Root}
               /\ nodes[nodes[m].children[j]].parent = m
               /\ \A l \in DOMAIN nodes[m].children : nodes[m].children[j] = nodes[m].children[l] => j = l
    BY <1>1, <2>0 DEF Tree
  <2>2. CASE m # p
    <3>1. ns[m].children = nodes[m].children
      BY <1>2, <2>0, <2>2
    <3>2. k \in DOMAIN nodes[m].children
      BY <3>1
    <3> DEFINE x == nodes[m].children[k]
    <3>3. x \in 1 .. L /\ x # Root /\ nodes[x].parent = m
      BY <2>1, <3>2
    <3>4. x \in 1 .. L + 1 /\ ns[x].parent = m
      BY <1>1, <1>2, <3>3
    <3>5. \A l \in DOMAIN nodes[m].children : x = nodes[m].children[l] => k = l
      BY <2>1, <3>2
    <3> QED  BY <3>1, <3>3, <3>4, <3>5
  <2>3. CASE m = p
    <3>1. ns[m].children = ch /\ k \in DOMAIN ch
      BY <1>2, <2>3
    <3>2. \A l \in DOMAIN ch : l # 1 => l - 1 \in DOMAIN nodes[m].children /\ ch[l] = nodes[m].children[l - 1]
      BY <1>3, <2>3
    <3>3. \A l \in DOMAIN ch : l # 1 => ch[l] \in 1 .. L /\ ch[l] # L + 1
      BY <1>1, <2>1, <3>2
    <3>4. \A l \in DOMAIN ch : ch[k] = ch[l] => k = l
      <4> TAKE l \in DOMAIN ch
      <4>1. CASE k = 1 \/ l = 1
        BY <1>3, <3>1, <3>3, <4>1
      <4>2. CASE k # 1 /\ l # 1
        <5>1. ch[k] = ch[l] => k - 1 = l - 1
          BY <2>1, <3>1, <3>2, <4>2
        <5> QED  BY <1>3, <3>1, <5>1
      <4> QED  BY <4>1, <4>2
    <3>5. CASE k = 1
      <4>1. ch[k] = L + 1 /\ ns[L + 1].parent = p /\ L + 1 # Root
        BY <1>1, <1>2, <1>3, <3>5 DEF p, Root
      <4> QED  BY <1>1, <2>3, <3>1, <3>4, <4>1
    <3>6. CASE k # 1
      <4> DEFINE x == ch[k]
      <4>1. x \in 1 .. L /\ x # Root /\ nodes[x].parent = m
        BY <2>1, <3>1, <3>2, <3>6
      <4>2. x \in 1 .. L + 1 /\ ns[x].parent = m
        BY <1>1, <1>2, <4>1
      <4> QED  BY <3>1, <3>4, <4>1, <4>2
    <3> QED  BY <3>5, <3>6
  <2> QED  BY <2>2, <2>3
<1>6. Tree(ns)
  <2>1. Root \in 1 .. L + 1
    BY <1>1
  <2> QED  BY <1>2, <1>4, <1>5, <2>1 DEF Tree
<1> QED  BY <1>6 DEF ns

(* A write changes the data of one node only.                              *)
LEMMA WriteTree ==
  ASSUME Tree(nodes), NEW n \in DOMAIN nodes, NEW r \in NodeType,
         r.type = nodes[n].type, r.parent = nodes[n].parent, r.children = nodes[n].children
  PROVE  Tree([nodes EXCEPT ![n] = r])
<1> DEFINE ns == [nodes EXCEPT ![n] = r]
<1>1. ns \in Seq(NodeType) /\ DOMAIN ns = DOMAIN nodes
  BY DEF Tree
<1>2. \A m \in DOMAIN nodes :
        /\ ns[m].type = nodes[m].type /\ ns[m].parent = nodes[m].parent
        /\ ns[m].children = nodes[m].children
  OBVIOUS
<1>3. \A m \in DOMAIN nodes : m # Root => nodes[m].parent \in DOMAIN nodes
  BY TreeFacts DEF Tree
<1> HIDE DEF ns
<1>4. ASSUME NEW m \in DOMAIN ns, m # Root
      PROVE  /\ ns[m].parent \in 1 .. m - 1
             /\ ns[m].type = "File" => ns[ns[m].parent].type = "Directory"
             /\ \E k \in DOMAIN ns[ns[m].parent].children : ns[ns[m].parent].children[k] = m
  <2> DEFINE f == nodes[m].parent
  <2>1. f \in DOMAIN nodes /\ ns[m].parent = f /\ ns[f].children = nodes[f].children
        /\ ns[f].type = nodes[f].type /\ ns[m].type = nodes[m].type
    BY <1>1, <1>2, <1>3, <1>4
  <2>2. /\ f \in 1 .. m - 1
        /\ nodes[m].type = "File" => nodes[f].type = "Directory"
        /\ \E k \in DOMAIN nodes[f].children : nodes[f].children[k] = m
    BY <1>1, <1>4 DEF Tree
  <2> HIDE DEF f
  <2> QED  BY <2>1, <2>2
<1>5. ASSUME NEW m \in DOMAIN ns, NEW k \in DOMAIN ns[m].children
      PROVE  /\ ns[m].children[k] \in DOMAIN ns \ {Root}
             /\ ns[ns[m].children[k]].parent = m
             /\ \A l \in DOMAIN ns[m].children : ns[m].children[k] = ns[m].children[l] => k = l
  <2>1. m \in DOMAIN nodes /\ ns[m].children = nodes[m].children /\ k \in DOMAIN nodes[m].children
    BY <1>1, <1>2
  <2>2. /\ nodes[m].children[k] \in DOMAIN nodes \ {Root}
        /\ nodes[nodes[m].children[k]].parent = m
        /\ \A l \in DOMAIN nodes[m].children : nodes[m].children[k] = nodes[m].children[l] => k = l
    BY <2>1 DEF Tree
  <2> QED  BY <1>1, <1>2, <2>1, <2>2
<1>6. Tree(ns)
  <2>1. Root \in DOMAIN ns
    BY <1>1, TreeFacts
  <2> QED  BY <1>1, <1>4, <1>5, <2>1 DEF Tree
<1> QED  BY <1>6 DEF ns
-----------------------------------------------------------------------------
(* File data                                                               *)

LEMMA FunSeq ==
  ASSUME NEW T, NEW n \in Nat, NEW f \in [1 .. n -> T]
  PROVE  f \in Seq(T) /\ Len(f) = n /\ DOMAIN f = 1 .. n
OBVIOUS

LEMMA DivCeil ==
  ASSUME NEW a \in Nat, NEW b \in Nat \ {0}
  PROVE  /\ DIV_CEIL(a, b) \in Nat
         /\ a > b => DIV_CEIL(a, b) >= 2
         /\ DIV_CEIL(b, b) = 1
<1> DEFINE c == a + b - 1
           q == c \div b
           r == c % b
<1>1. c \in Nat /\ q \in Nat /\ r \in 0 .. b - 1 /\ c = b * q + r
  OBVIOUS
<1>2. DIV_CEIL(a, b) = q
  BY DEF DIV_CEIL
<1>3. a > b => q >= 2
  <2> SUFFICES ASSUME a > b, q <= 1 PROVE FALSE
    BY <1>1
  <2> HIDE DEF q, r, c
  <2>1. q = 0 \/ q = 1
    BY <1>1
  <2>2. b * q <= b
    BY <2>1
  <2>3. c >= 2 * b /\ b * q \in Nat
    BY <1>1, <2>1 DEF c
  <2> QED  BY <1>1, <2>2, <2>3
<1>4. DIV_CEIL(b, b) = 1
  BY DEF DIV_CEIL
<1> QED  BY <1>1, <1>2, <1>3, <1>4

LEMMA WholePages ==
  ASSUME NEW q \in Nat, NEW b \in Nat \ {0}
  PROVE  /\ q * b \in Nat /\ (q * b) % b = 0 /\ (q * b) \div b = q
         /\ q >= 2 => q * b > b
OBVIOUS

LEMMA PagesFacts ==
  ASSUME NEW a \in Nat, NEW b \in Nat \ {0}, a % b = 0
  PROVE  /\ a \div b \in Nat
         /\ a = b => a \div b = 1
         /\ a > b => a \div b >= 2
<1> DEFINE q == a \div b
<1>1. q \in Nat /\ a = b * q
  OBVIOUS
<1>2. b \div b = 1
  OBVIOUS
<1>3. a > b => q >= 2
  <2> SUFFICES ASSUME a > b, q <= 1 PROVE FALSE
    BY <1>1
  <2> HIDE DEF q
  <2>1. q = 0 \/ q = 1
    BY <1>1
  <2>2. b * q <= b
    BY <2>1
  <2> QED  BY <1>1, <2>2
<1> QED  BY <1>1, <1>2, <1>3

LEMMA ZerosFacts ==
  ASSUME NEW n \in Nat
  PROVE  /\ Zeros(n) \in Seq(Bit) /\ Len(Zeros(n)) = n /\ DOMAIN Zeros(n) = 1 .. n
         /\ \A x \in 1 .. n : Zeros(n)[x] = 0
<1>1. Zeros(n) \in [1 .. n -> Bit] /\ \A x \in 1 .. n : Zeros(n)[x] = 0
  BY DEF Zeros, Bit
<1> QED  BY <1>1, FunSeq

LEMMA OverwriteFacts ==
  ASSUME NEW s \in Seq(Bit), NEW offset \in Nat, NEW size \in Nat
  PROVE  /\ Overwrite(s, offset, size) \in Seq(Bit)
         /\ Len(Overwrite(s, offset, size)) = Len(s)
         /\ DOMAIN Overwrite(s, offset, size) = 1 .. Len(s)
         /\ \A x \in 1 .. Len(s) : Overwrite(s, offset, size)[x] =
              IF x > offset /\ x <= offset + size THEN 1 ELSE s[x]
<1>1. DOMAIN s = 1 .. Len(s) /\ Len(s) \in Nat /\ \A x \in 1 .. Len(s) : s[x] \in Bit
  BY SeqFacts
<1>2. /\ Overwrite(s, offset, size) \in [1 .. Len(s) -> Bit]
      /\ \A x \in 1 .. Len(s) : Overwrite(s, offset, size)[x] =
           IF x > offset /\ x <= offset + size THEN 1 ELSE s[x]
  BY <1>1 DEF Overwrite, Bit
<1> QED  BY <1>1, <1>2, FunSeq

LEMMA OverwriteFaithful ==
  ASSUME NEW data \in Seq(Bit), NEW written \in Seq(Bit), Len(written) = MaxOffset,
         Faithful(data, written), NEW offset \in Nat, NEW size \in Nat, offset + size <= MaxOffset
  PROVE  Faithful(Overwrite(data, offset, size), Overwrite(written, offset, size))
<1> DEFINE new == Overwrite(data, offset, size)
           wr == Overwrite(written, offset, size)
<1>1. PageSize \in Nat /\ MaxOffset \in Nat /\ PageSize <= MaxOffset
  BY FilesAssumption
<1>2. /\ DOMAIN data = 1 .. Len(data) /\ Len(data) \in Nat /\ DOMAIN new = 1 .. Len(data)
      /\ \A x \in 1 .. Len(data) : new[x] = IF x > offset /\ x <= offset + size THEN 1 ELSE data[x]
  BY SeqFacts, OverwriteFacts
<1>3. \A x \in 1 .. MaxOffset : wr[x] = IF x > offset /\ x <= offset + size THEN 1 ELSE written[x]
  BY OverwriteFacts
<1> HIDE DEF new, wr
<1>4. ASSUME NEW x \in 1 .. Len(data)
      PROVE  /\ x <= PageSize => new[x] = wr[x]
             /\ new[x] = 1 => x <= MaxOffset /\ wr[x] = 1
  <2>1. /\ x <= PageSize => data[x] = written[x]
        /\ data[x] = 1 => x <= MaxOffset /\ written[x] = 1
    BY <1>2 DEF Faithful
  <2>2. x <= MaxOffset => x \in 1 .. MaxOffset
    BY <1>1
  <2>3. CASE x > offset /\ x <= offset + size
    <3>1. x \in 1 .. MaxOffset
      BY <1>1, <1>2, <2>3
    <3> QED  BY <1>2, <1>3, <2>3, <3>1
  <2>4. CASE ~(x > offset /\ x <= offset + size)
    <3>1. new[x] = data[x] /\ (x \in 1 .. MaxOffset => wr[x] = written[x])
      BY <1>2, <1>3, <2>4
    <3>2. x <= PageSize => x \in 1 .. MaxOffset
      BY <1>1, <1>2
    <3> QED  BY <2>1, <2>2, <3>1, <3>2
  <2> QED  BY <2>3, <2>4
<1> QED  BY <1>2, <1>4 DEF Faithful, new, wr
(* A record made by open or mkdir.                                         *)
LEMMA NewNodeFacts ==
  ASSUME NEW path \in [abs : BOOLEAN, names : Seq(STRING)], NEW type \in {"File", "Directory"},
         NEW parent \in Nat, NEW by \in Proc \cup {"kernel"}
  PROVE  LET r == NewNode(path, type, parent, by)
         IN  /\ r \in NodeType /\ Filled(r)
             /\ r.type = type /\ r.parent = parent /\ r.children = <<>> /\ r.by = by /\ r.grows = 0
             /\ r.written = Zeros(MaxOffset)
             /\ r.data = IF type = "File" THEN Zeros(PageSize) ELSE <<>>
<1> DEFINE r == NewNode(path, type, parent, by)
           name == get_name_from_path(path.names)
<1>1. PageSize \in Nat \ {0} /\ MaxOffset \in Nat /\ PageSize <= MaxOffset
  BY FilesAssumption
<1>2. name \in STRING \cup {"/"}
  <2>1. path.names \in Seq(STRING) /\ Len(path.names) \in Nat
    OBVIOUS
  <2>2. path.names # <<>> => Len(path.names) \in 1 .. Len(path.names)
    BY <2>1
  <2>3. path.names = <<>> => name = "/"
    BY DEF get_name_from_path
  <2>4. CASE path.names # <<>>
    <3>1. name = path.names[Len(path.names)]
      BY <2>4 DEF get_name_from_path
    <3> QED  BY <2>1, <2>2, <2>4, <3>1, SeqFacts
  <2> QED  BY <2>3, <2>4
<1>3. /\ Zeros(PageSize) \in Seq(Bit) /\ Zeros(MaxOffset) \in Seq(Bit)
      /\ Len(Zeros(PageSize)) = PageSize /\ Len(Zeros(MaxOffset)) = MaxOffset
      /\ Faithful(Zeros(PageSize), Zeros(MaxOffset))
  <2>1. /\ Zeros(PageSize) \in Seq(Bit) /\ Zeros(MaxOffset) \in Seq(Bit)
        /\ Len(Zeros(PageSize)) = PageSize /\ Len(Zeros(MaxOffset)) = MaxOffset
        /\ DOMAIN Zeros(PageSize) = 1 .. PageSize
        /\ \A x \in 1 .. PageSize : Zeros(PageSize)[x] = 0
        /\ \A x \in 1 .. MaxOffset : Zeros(MaxOffset)[x] = 0
    BY <1>1, ZerosFacts
  <2>2. \A x \in 1 .. PageSize : x \in 1 .. MaxOffset
    BY <1>1
  <2> QED  BY <2>1, <2>2 DEF Faithful
<1>4. <<>> \in Seq(Bit) /\ <<>> \in Seq(Nat) /\ path.names \in Seq(STRING)
  OBVIOUS
<1>5. r = [name |-> name, type |-> type, fs |-> "tmpfs", parent |-> parent, children |-> <<>>,
           data |-> IF type = "File" THEN Zeros(PageSize) ELSE <<>>, by |-> by,
           asked |-> path.names, written |-> Zeros(MaxOffset), grows |-> 0]
  BY DEF NewNode
<1> HIDE DEF r, name
<1>6. /\ r.name = name /\ r.type = type /\ r.parent = parent /\ r.children = <<>> /\ r.by = by
      /\ r.grows = 0 /\ r.written = Zeros(MaxOffset) /\ r.asked = path.names
      /\ r.data = IF type = "File" THEN Zeros(PageSize) ELSE <<>>
  BY <1>5
<1>7. (IF type = "File" THEN Zeros(PageSize) ELSE <<>>) \in Seq(Bit)
  BY <1>3, <1>4
<1>8. r \in NodeType
  BY <1>2, <1>3, <1>4, <1>5, <1>7 DEF NodeType
<1>9. Filled(r)
  <2>1. PageSize % PageSize = 0
    BY <1>1
  <2> QED  BY <1>1, <1>3, <1>6, <2>1 DEF Filled
<1> QED  BY <1>6, <1>8, <1>9 DEF r

(* The record of a file after its data were replaced, or overwritten.      *)
Refill(r, data, written, grows) == [r EXCEPT !.data = data, !.written = written, !.grows = grows]

LEMMA RefillFacts ==
  ASSUME NEW r \in NodeType, r.type = "File", NEW data \in Seq(Bit), NEW written \in Seq(Bit),
         NEW grows \in 0 .. 2, Len(data) % PageSize = 0, Len(data) >= PageSize,
         Len(data) = PageSize <=> grows = 0, Len(written) = MaxOffset, Faithful(data, written)
  PROVE  LET new == Refill(r, data, written, grows)
         IN  /\ new \in NodeType /\ Filled(new)
             /\ new.type = "File" /\ new.parent = r.parent /\ new.children = r.children
             /\ new.by = r.by /\ new.data = data /\ new.grows = grows
<1> DEFINE new == Refill(r, data, written, grows)
<1>1. /\ new \in NodeType /\ new.type = "File" /\ new.parent = r.parent
      /\ new.children = r.children /\ new.by = r.by /\ new.data = data /\ new.grows = grows
      /\ new.written = written
  BY DEF NodeType, Refill
<1> HIDE DEF new
<1>2. Filled(new)
  BY <1>1 DEF Filled
<1> QED  BY <1>1, <1>2 DEF new

(* The pages of a file that load fills.                                    *)
LEMMA LoadedFacts ==
  ASSUME NEW r \in NodeType, r.type = "File", r.written = Zeros(MaxOffset), NEW size \in 0 .. MaxOffset
  PROVE  LET pages == DIV_CEIL(size, PageSize)
             big == size > PageSize
             new == [r EXCEPT
                       !.data = Overwrite(Zeros(IF big THEN pages * PageSize ELSE PageSize), 0, size),
                       !.written = Overwrite(@, 0, size), !.grows = IF big THEN 1 ELSE 0]
         IN  /\ new \in NodeType /\ Filled(new)
             /\ new.type = "File" /\ new.parent = r.parent /\ new.children = r.children
             /\ new.by = r.by /\ new.grows <= 1 /\ pages \in Nat
             /\ Len(new.data) \div PageSize = IF big THEN pages ELSE 1
<1> DEFINE pages == DIV_CEIL(size, PageSize)
           big == size > PageSize
           len == IF big THEN pages * PageSize ELSE PageSize
           data == Overwrite(Zeros(len), 0, size)
           written == Overwrite(Zeros(MaxOffset), 0, size)
           grows == IF big THEN 1 ELSE 0
           new == Refill(r, data, written, grows)
<1>1. PageSize \in Nat \ {0} /\ MaxOffset \in Nat /\ PageSize <= MaxOffset /\ size \in Nat
  BY FilesAssumption
<1>2. pages \in Nat /\ (big => pages >= 2)
  BY <1>1, DivCeil
<1>3. /\ len \in Nat /\ len % PageSize = 0 /\ len >= PageSize /\ (len = PageSize <=> ~big)
      /\ len \div PageSize = IF big THEN pages ELSE 1
  <2> HIDE DEF pages
  <2>1. pages * PageSize \in Nat /\ (pages * PageSize) % PageSize = 0
        /\ (pages * PageSize) \div PageSize = pages /\ (pages >= 2 => pages * PageSize > PageSize)
    BY <1>1, <1>2, WholePages
  <2>2. PageSize % PageSize = 0 /\ PageSize \div PageSize = 1
    BY <1>1
  <2>3. CASE big
    BY <1>1, <1>2, <2>1, <2>3
  <2>4. CASE ~big
    BY <1>1, <2>2, <2>4
  <2> QED  BY <2>3, <2>4
<1> HIDE DEF len, pages
<1>4. /\ Zeros(len) \in Seq(Bit) /\ Len(Zeros(len)) = len /\ Zeros(MaxOffset) \in Seq(Bit)
      /\ Len(Zeros(MaxOffset)) = MaxOffset /\ Faithful(Zeros(len), Zeros(MaxOffset))
  <2>1. /\ Zeros(len) \in Seq(Bit) /\ Zeros(MaxOffset) \in Seq(Bit)
        /\ Len(Zeros(len)) = len /\ Len(Zeros(MaxOffset)) = MaxOffset
        /\ DOMAIN Zeros(len) = 1 .. len
        /\ \A x \in 1 .. len : Zeros(len)[x] = 0
        /\ \A x \in 1 .. MaxOffset : Zeros(MaxOffset)[x] = 0
    BY <1>1, <1>3, ZerosFacts
  <2>2. \A x \in 1 .. len : x <= PageSize => x \in 1 .. MaxOffset
    BY <1>1, <1>3
  <2> QED  BY <2>1, <2>2 DEF Faithful
<1>5. /\ data \in Seq(Bit) /\ Len(data) = len /\ written \in Seq(Bit) /\ Len(written) = MaxOffset
      /\ Faithful(data, written)
  <2>1. data \in Seq(Bit) /\ Len(data) = len /\ written \in Seq(Bit) /\ Len(written) = MaxOffset
    BY <1>1, <1>4, OverwriteFacts
  <2>2. 0 \in Nat /\ 0 + size <= MaxOffset
    BY <1>1
  <2>3. Faithful(data, written)
    BY <1>1, <1>4, <2>2, OverwriteFaithful
  <2> QED  BY <2>1, <2>3
<1>6. grows \in 0 .. 2 /\ grows <= 1 /\ (Len(data) = PageSize <=> grows = 0)
  BY <1>3, <1>5
<1> HIDE DEF data, written, grows, big
<1>7. /\ new \in NodeType /\ Filled(new)
      /\ new.type = "File" /\ new.parent = r.parent /\ new.children = r.children
      /\ new.by = r.by /\ new.data = data /\ new.grows = grows
  <2>1. Len(data) % PageSize = 0 /\ Len(data) >= PageSize
    BY <1>3, <1>5
  <2> QED  BY <1>5, <1>6, <2>1, RefillFacts
<1> QED  BY <1>2, <1>3, <1>5, <1>6, <1>7 DEF data, written, grows, len, pages, big, Refill
(* A write into a file: the record it leaves, and how many pages more.     *)
LEMMA WriteFacts ==
  ASSUME Tree(nodes), NEW n \in DOMAIN nodes, nodes[n].type = "File", Filled(nodes[n]),
         NEW offset \in Nat, NEW size \in Nat, offset + size <= MaxOffset
  PROVE  LET new == WriteNode(n, offset, size)
         IN  /\ new \in NodeType /\ Filled(new)
             /\ new.type = "File" /\ new.parent = nodes[n].parent
             /\ new.children = nodes[n].children /\ new.by = nodes[n].by
             /\ PagesFor(offset, size) \in Nat
             /\ Grows(n, offset, size) =>
                  /\ Len(new.data) \div PageSize = PagesFor(offset, size)
                  /\ PagesFor(offset, size) >= 2
                  /\ new.grows = IF nodes[n].grows < 2 THEN nodes[n].grows + 1 ELSE 2
             /\ ~Grows(n, offset, size) => Len(new.data) = Len(nodes[n].data) /\ new.grows = nodes[n].grows
<1> DEFINE old == nodes[n]
           grow == Grows(n, offset, size)
           pages == PagesFor(offset, size)
           data == IF grow THEN tmpfs_resize(n, pages) ELSE old.data
           grows == IF grow /\ old.grows < 2 THEN old.grows + 1 ELSE old.grows
           dataW == Overwrite(data, offset, size)
           writtenW == Overwrite(old.written, offset, size)
           new == Refill(old, dataW, writtenW, grows)
<1>1. PageSize \in Nat \ {0} /\ MaxOffset \in Nat /\ PageSize <= MaxOffset
  BY FilesAssumption
<1>2. old \in NodeType
  BY TreeFacts
<1>3. /\ old.data \in Seq(Bit) /\ old.written \in Seq(Bit) /\ old.grows \in 0 .. 2
      /\ old.type = "File"
  BY <1>2 DEF NodeType
<1>4. /\ Len(old.data) % PageSize = 0 /\ Len(old.data) >= PageSize
      /\ (Len(old.data) = PageSize <=> old.grows = 0) /\ Len(old.written) = MaxOffset
      /\ Faithful(old.data, old.written)
  BY <1>3 DEF Filled
<1>5. grow <=> offset + size > PageSize
  BY DEF Grows, SizeOf
<1>6. pages \in Nat /\ (grow => pages >= 2)
  <2>1. offset + size \in Nat
    OBVIOUS
  <2> QED  BY <1>1, <1>5, <2>1, DivCeil DEF PagesFor
<1>7. WriteNode(n, offset, size) = new
  BY DEF WriteNode, Refill
<1> HIDE DEF pages, grow, old
<1>8. CASE grow
  <2> DEFINE len == pages * PageSize
  <2>1. len \in Nat /\ len % PageSize = 0 /\ len \div PageSize = pages /\ len > PageSize
    BY <1>1, <1>6, <1>8, WholePages
  <2>2. data = [i \in 1 .. len |-> IF i <= PageSize THEN old.data[i] ELSE 0]
    BY <1>8 DEF tmpfs_resize, SizeOf, old
  <2> HIDE DEF data, len
  <2>3. DOMAIN old.data = 1 .. Len(old.data) /\ Len(old.data) \in Nat
        /\ \A x \in 1 .. Len(old.data) : old.data[x] \in Bit
    BY <1>3, SeqFacts
  <2>4. \A x \in 1 .. len : x <= PageSize => x \in 1 .. Len(old.data)
    BY <1>1, <1>4, <2>1, <2>3
  <2>5. data \in [1 .. len -> Bit]
    BY <2>2, <2>3, <2>4 DEF Bit
  <2>6. data \in Seq(Bit) /\ Len(data) = len /\ DOMAIN data = 1 .. len
    BY <2>1, <2>5, FunSeq
  <2>7. Faithful(data, old.written)
    <3> SUFFICES ASSUME NEW x \in 1 .. len
                 PROVE  /\ x <= PageSize => data[x] = old.written[x]
                        /\ data[x] = 1 => x <= MaxOffset /\ old.written[x] = 1
      BY <2>6 DEF Faithful
    <3>1. CASE x <= PageSize
      <4>1. x \in DOMAIN old.data /\ data[x] = old.data[x]
        BY <2>2, <2>3, <2>4, <3>1
      <4> QED  BY <1>4, <4>1 DEF Faithful
    <3>2. CASE ~(x <= PageSize)
      <4>1. data[x] = 0
        BY <2>2, <3>2
      <4> QED  BY <3>2, <4>1
    <3> QED  BY <3>1, <3>2
  <2>8. /\ dataW \in Seq(Bit) /\ Len(dataW) = len /\ writtenW \in Seq(Bit)
        /\ Len(writtenW) = MaxOffset
    BY <1>3, <1>4, <2>6, OverwriteFacts
  <2>9. Faithful(dataW, writtenW)
    BY <1>3, <1>4, <2>6, <2>7, OverwriteFaithful
  <2>10. grows = (IF old.grows < 2 THEN old.grows + 1 ELSE 2) /\ grows \in 1 .. 2
    BY <1>3, <1>8
  <2>11. /\ Len(dataW) % PageSize = 0 /\ Len(dataW) >= PageSize /\ grows \in 0 .. 2
         /\ (Len(dataW) = PageSize <=> grows = 0)
    BY <1>1, <2>1, <2>8, <2>10
  <2> HIDE DEF grows, dataW, writtenW
  <2>12. /\ new \in NodeType /\ Filled(new)
         /\ new.type = "File" /\ new.parent = old.parent /\ new.children = old.children
         /\ new.by = old.by /\ new.data = dataW /\ new.grows = grows
    BY <1>2, <1>3, <2>8, <2>9, <2>11, RefillFacts
  <2> HIDE DEF new
  <2> QED  BY <1>6, <1>7, <1>8, <2>1, <2>8, <2>10, <2>12 DEF old, pages, grow
<1>9. CASE ~grow
  <2>1. data = old.data /\ grows = old.grows
    BY <1>9
  <2> HIDE DEF data
  <2>8. /\ dataW \in Seq(Bit) /\ Len(dataW) = Len(old.data) /\ writtenW \in Seq(Bit)
        /\ Len(writtenW) = MaxOffset
    BY <1>3, <1>4, <2>1, OverwriteFacts
  <2>9. Faithful(dataW, writtenW)
    BY <1>3, <1>4, <2>1, OverwriteFaithful
  <2>11. /\ Len(dataW) % PageSize = 0 /\ Len(dataW) >= PageSize /\ grows \in 0 .. 2
         /\ (Len(dataW) = PageSize <=> grows = 0)
    BY <1>3, <1>4, <2>1, <2>8
  <2> HIDE DEF grows, dataW, writtenW
  <2>12. /\ new \in NodeType /\ Filled(new)
         /\ new.type = "File" /\ new.parent = old.parent /\ new.children = old.children
         /\ new.by = old.by /\ new.data = dataW /\ new.grows = grows
    BY <1>2, <1>3, <2>8, <2>9, <2>11, RefillFacts
  <2> HIDE DEF new
  <2> QED  BY <1>6, <1>7, <1>9, <2>1, <2>8, <2>12 DEF old, pages, grow
<1> QED  BY <1>8, <1>9

-----------------------------------------------------------------------------
(* The pages in use                                                        *)

PagesIn(ns, n) == Len(ns[n].data) \div PageSize
Sums(ns) ==
  LET sum[n \in 0 .. Len(ns)] == IF n = 0 THEN 0 ELSE sum[n - 1] + (Len(ns[n].data) \div PageSize)
  IN  sum

LEMMA SumFacts ==
  ASSUME NEW ns, Len(ns) \in Nat, \A n \in 1 .. Len(ns) : PagesIn(ns, n) \in Nat
  PROVE  /\ InUse(ns) = Sums(ns)[Len(ns)] /\ Sums(ns)[0] = 0
         /\ \A n \in 1 .. Len(ns) : Sums(ns)[n] = Sums(ns)[n - 1] + PagesIn(ns, n)
         /\ \A n \in 0 .. Len(ns) : Sums(ns)[n] \in Nat
<1> DEFINE L == Len(ns)
           Value(g, n) == IF n = 0 THEN 0 ELSE g[n - 1] + PagesIn(ns, n)
           Step(g, m) == [n \in 0 .. m |-> Value(g, n)]
           S == {m \in Nat : \E g : g = Step(g, m)}
           w == Sums(ns)
<1>1. w = CHOOSE g : g = Step(g, L)
  BY DEF Sums, PagesIn
<1>2. InUse(ns) = w[L]
  BY DEF InUse, Sums
<1>3. 0 \in S
  <2> DEFINE g == [n \in 0 .. 0 |-> 0]
  <2>1. g = Step(g, 0)
    OBVIOUS
  <2> QED  BY <2>1
<1>4. ASSUME NEW m \in Nat, m \in S PROVE m + 1 \in S
  <2>1. PICK g : g = Step(g, m)
    BY <1>4
  <2> DEFINE h == [n \in 0 .. m + 1 |-> IF n = m + 1 THEN g[m] + PagesIn(ns, m + 1) ELSE g[n]]
  <2>2. ASSUME NEW n \in 0 .. m + 1
        PROVE  h[n] = Value(h, n)
    <3>1. CASE n = m + 1
      <4>1. n # 0 /\ n - 1 = m /\ h[m] = g[m]
        BY <2>1, <3>1
      <4> QED  BY <3>1, <4>1
    <3>2. CASE n # m + 1
      <4>1. n \in 0 .. m /\ h[n] = g[n] /\ (n # 0 => n - 1 \in 0 .. m /\ h[n - 1] = g[n - 1])
        BY <3>2
      <4>2. g[n] = Value(g, n)
        BY <2>1, <4>1
      <4> QED  BY <4>1, <4>2
    <3> QED  BY <3>1, <3>2
  <2>3. h = Step(h, m + 1)
    BY <2>2
  <2> HIDE DEF h, Value
  <2> QED  BY <2>3
<1>5. L \in S
  <2> HIDE DEF S, L
  <2>1. Nat \subseteq S
    BY <1>3, <1>4, SetInduction
  <2> QED  BY <2>1 DEF L
<1>6. \A n \in 0 .. L : w[n] = Value(w, n)
  <2>1. w = Step(w, L)
    BY <1>1, <1>5
  <2> HIDE DEF w, Value
  <2> QED  BY <2>1
<1> HIDE DEF w, L
<1>7. w[0] = 0 /\ \A n \in 1 .. L : w[n] = w[n - 1] + PagesIn(ns, n)
  BY <1>6 DEF L
<1>8. \A n \in 0 .. L : w[n] \in Nat
  <2> DEFINE G == {n \in Nat : n <= L => w[n] \in Nat}
  <2>1. 0 \in G
    BY <1>7
  <2>2. ASSUME NEW n \in Nat, n \in G PROVE n + 1 \in G
    <3> SUFFICES ASSUME n + 1 <= L PROVE w[n + 1] \in Nat
      OBVIOUS
    <3>1. w[n] \in Nat /\ n + 1 \in 1 .. L
      BY <2>2 DEF L
    <3>2. w[n + 1] = w[n] + PagesIn(ns, n + 1) /\ PagesIn(ns, n + 1) \in Nat
      BY <1>7, <3>1 DEF L
    <3> QED  BY <3>1, <3>2
  <2>3. Nat \subseteq G
    <3> HIDE DEF G
    <3> QED  BY <2>1, <2>2, SetInduction
  <2> QED  BY <2>3 DEF L
<1> QED  BY <1>2, <1>7, <1>8 DEF w, L

(* Sums of which one term, that of node n, differs by d.                   *)
Whole(ns) == Len(ns) \in Nat /\ \A k \in 1 .. Len(ns) : PagesIn(ns, k) \in Nat
Differ(ns, ms, K, n, d) ==
  \A k \in 1 .. K : PagesIn(ms, k) = PagesIn(ns, k) + (IF k = n THEN d ELSE 0)

LEMMA SumDiffers ==
  ASSUME NEW ns, NEW ms, Whole(ns), Whole(ms), NEW K \in Nat, K <= Len(ns), K <= Len(ms),
         NEW n \in Nat, NEW d \in Int, Differ(ns, ms, K, n, d)
  PROVE  Sums(ms)[K] = Sums(ns)[K] + (IF n \in 1 .. K THEN d ELSE 0)
<1> DEFINE G == {k \in Nat : k <= K => Sums(ms)[k] = Sums(ns)[k] + (IF n \in 1 .. k THEN d ELSE 0)}
<1>1. /\ Sums(ns)[0] = 0 /\ \A k \in 1 .. K : Sums(ns)[k] = Sums(ns)[k - 1] + PagesIn(ns, k)
      /\ Sums(ms)[0] = 0 /\ \A k \in 1 .. K : Sums(ms)[k] = Sums(ms)[k - 1] + PagesIn(ms, k)
      /\ \A k \in 0 .. K : Sums(ns)[k] \in Nat
      /\ \A k \in 1 .. K : PagesIn(ns, k) \in Nat
  BY SumFacts DEF Whole
<1>2. 0 \in G
  <2>1. n \notin 1 .. 0
    OBVIOUS
  <2>2. Sums(ms)[0] = Sums(ns)[0] + (IF n \in 1 .. 0 THEN d ELSE 0)
    BY <1>1, <2>1
  <2> QED  BY <2>2
<1>3. ASSUME NEW k \in Nat, k \in G PROVE k + 1 \in G
  <2> SUFFICES ASSUME k + 1 <= K
               PROVE  Sums(ms)[k + 1] = Sums(ns)[k + 1] + (IF n \in 1 .. k + 1 THEN d ELSE 0)
    OBVIOUS
  <2>1. Sums(ms)[k] = Sums(ns)[k] + (IF n \in 1 .. k THEN d ELSE 0)
    BY <1>3
  <2>2. k + 1 \in 1 .. K /\ k \in 0 .. K /\ (k + 1) - 1 = k
    OBVIOUS
  <2>3. /\ Sums(ns)[k + 1] = Sums(ns)[k] + PagesIn(ns, k + 1)
        /\ Sums(ms)[k + 1] = Sums(ms)[k] + PagesIn(ms, k + 1)
        /\ Sums(ns)[k] \in Nat /\ PagesIn(ns, k + 1) \in Nat
        /\ PagesIn(ms, k + 1) = PagesIn(ns, k + 1) + (IF k + 1 = n THEN d ELSE 0)
    BY <1>1, <2>2 DEF Differ
  <2>4. CASE n = k + 1
    BY <2>1, <2>3, <2>4
  <2>5. CASE n # k + 1
    BY <2>1, <2>3, <2>5
  <2> QED  BY <2>4, <2>5
<1>4. Nat \subseteq G
  <2> HIDE DEF G
  <2> QED  BY <1>2, <1>3, SetInduction
<1> QED  BY <1>4
LEMMA PagesNat ==
  ASSUME NEW r \in NodeType, Filled(r)
  PROVE  /\ Len(r.data) \div PageSize \in Nat
         /\ r.type = "Directory" => Len(r.data) \div PageSize = 0
         /\ r.type = "File" /\ r.grows = 0 => Len(r.data) \div PageSize = 1
         /\ r.type = "File" /\ r.grows # 0 => Len(r.data) \div PageSize >= 2
<1>1. PageSize \in Nat \ {0}
  BY FilesAssumption
<1>2. r.type \in {"File", "Directory"} /\ r.data \in Seq(Bit)
  BY DEF NodeType
<1>3. Len(r.data) \in Nat
  BY <1>2
<1>4. CASE r.type = "Directory"
  <2>1. Len(r.data) = 0
    BY <1>4 DEF Filled
  <2>2. 0 \div PageSize = 0
    BY <1>1
  <2> QED  BY <1>4, <2>1, <2>2
<1>5. CASE r.type = "File"
  <2>1. Len(r.data) % PageSize = 0 /\ Len(r.data) >= PageSize /\ (Len(r.data) = PageSize <=> r.grows = 0)
    BY <1>5 DEF Filled
  <2> DEFINE a == Len(r.data)
  <2> HIDE DEF a
  <2>2. a \in Nat /\ a % PageSize = 0 /\ a >= PageSize
    BY <1>3, <2>1 DEF a
  <2>3. a \div PageSize \in Nat /\ (a = PageSize => a \div PageSize = 1) /\ (a > PageSize => a \div PageSize >= 2)
    BY <1>1, <2>2, PagesFacts
  <2>4. a = PageSize \/ a > PageSize
    BY <1>1, <2>2
  <2> QED  BY <1>5, <2>1, <2>3, <2>4 DEF a
<1> QED  BY <1>2, <1>4, <1>5

LEMMA NodesFacts ==
  ASSUME NodesInv
  PROVE  /\ Len(nodes) \in Nat /\ DOMAIN nodes = 1 .. Len(nodes)
         /\ \A n \in DOMAIN nodes : /\ nodes[n] \in NodeType /\ Filled(nodes[n])
                                    /\ PagesIn(nodes, n) \in Nat
<1>1. /\ Len(nodes) \in Nat /\ DOMAIN nodes = 1 .. Len(nodes)
      /\ \A n \in DOMAIN nodes : nodes[n] \in NodeType /\ Filled(nodes[n])
  BY TreeFacts DEF NodesInv
<1> QED  BY <1>1, PagesNat DEF PagesIn

LEMMA InsertKeeps ==
  ASSUME NodesInv, NEW node \in NodeType, node.parent \in DOMAIN nodes, node.children = <<>>,
         node.type = "File" => nodes[node.parent].type = "Directory",
         Filled(node), node.grows <= 1
  PROVE  LET ns == Insert(node)
         IN  /\ Tree(ns) /\ \A n \in DOMAIN ns : Filled(ns[n])
             /\ InUse(ns) = InUse(nodes) + (Len(node.data) \div PageSize)
             /\ (\A n \in DOMAIN ns : ns[n].grows <= 1) <=> (\A n \in DOMAIN nodes : nodes[n].grows <= 1)
             /\ DOMAIN ns = DOMAIN nodes \cup {Len(nodes) + 1} /\ ns[Len(nodes) + 1] = node
             /\ \A n \in DOMAIN nodes : ns[n].type = nodes[n].type /\ ns[n].by = nodes[n].by
<1> DEFINE ns == Insert(node)
           L == Len(nodes)
<1>1. /\ L \in Nat /\ DOMAIN nodes = 1 .. L
      /\ \A n \in 1 .. L : nodes[n] \in NodeType /\ Filled(nodes[n]) /\ PagesIn(nodes, n) \in Nat
  BY NodesFacts
<1>2. Tree(ns)
  BY InsertTree DEF NodesInv
<1>3. /\ DOMAIN ns = 1 .. L + 1 /\ Len(ns) = L + 1 /\ ns[L + 1] = node
      /\ \A n \in 1 .. L : SameBut(ns[n], nodes[n])
  BY InsertFacts DEF NodesInv
<1> HIDE DEF ns, L
<1>4. \A n \in 1 .. L : /\ Filled(ns[n]) /\ ns[n].type = nodes[n].type /\ ns[n].by = nodes[n].by
                        /\ ns[n].grows = nodes[n].grows /\ PagesIn(ns, n) = PagesIn(nodes, n)
  BY <1>1, <1>3 DEF SameBut, Filled, PagesIn
<1>5. 1 .. L + 1 = (1 .. L) \cup {L + 1} /\ L + 1 \notin 1 .. L
  BY <1>1
<1>6. PagesIn(ns, L + 1) = Len(node.data) \div PageSize /\ PagesIn(ns, L + 1) \in Nat
  BY <1>3, PagesNat DEF PagesIn
<1>7. InUse(ns) = InUse(nodes) + (Len(node.data) \div PageSize)
  <2>1. \A n \in 1 .. L + 1 : PagesIn(ns, n) \in Nat
    BY <1>1, <1>4, <1>5, <1>6
  <2>2. /\ InUse(ns) = Sums(ns)[L + 1]
        /\ \A n \in 1 .. L + 1 : Sums(ns)[n] = Sums(ns)[n - 1] + PagesIn(ns, n)
    BY <1>1, <1>3, <2>1, SumFacts
  <2>3. InUse(nodes) = Sums(nodes)[L] /\ Sums(nodes)[L] \in Nat
    BY <1>1, SumFacts DEF L
  <2>4. Sums(ns)[L] = Sums(nodes)[L]
    <3>1. Differ(nodes, ns, L, 0, 0)
      BY <1>1, <1>4 DEF Differ
    <3>2. L <= Len(ns) /\ L <= Len(nodes) /\ Len(ns) \in Nat /\ Len(nodes) \in Nat
      BY <1>1, <1>3 DEF L
    <3>3. Whole(nodes)
      BY <1>1 DEF L, Whole
    <3>4. Whole(ns)
      BY <1>1, <1>3, <2>1 DEF Whole
    <3>5. Sums(ns)[L] = Sums(nodes)[L] + (IF 0 \in 1 .. L THEN 0 ELSE 0)
      BY <1>1, <3>1, <3>2, <3>3, <3>4, SumDiffers
    <3> QED  BY <2>3, <3>5
  <2>5. L + 1 \in 1 .. L + 1 /\ (L + 1) - 1 = L
    BY <1>1
  <2> QED  BY <1>6, <2>2, <2>3, <2>4, <2>5
<1>8. (\A n \in DOMAIN ns : ns[n].grows <= 1) <=> (\A n \in DOMAIN nodes : nodes[n].grows <= 1)
  BY <1>1, <1>3, <1>4, <1>5
<1>9. \A n \in DOMAIN ns : Filled(ns[n])
  BY <1>3, <1>4, <1>5
<1> QED  BY <1>1, <1>2, <1>3, <1>4, <1>5, <1>7, <1>8, <1>9 DEF ns, L

LEMMA WriteKeeps ==
  ASSUME NodesInv, NEW n \in DOMAIN nodes, NEW r \in NodeType, Filled(r),
         r.type = nodes[n].type, r.parent = nodes[n].parent, r.children = nodes[n].children,
         r.by = nodes[n].by
  PROVE  LET ns == [nodes EXCEPT ![n] = r]
         IN  /\ Tree(ns) /\ \A m \in DOMAIN ns : Filled(ns[m])
             /\ InUse(ns) = InUse(nodes) + (Len(r.data) \div PageSize) - PagesIn(nodes, n)
             /\ DOMAIN ns = DOMAIN nodes
             /\ \A m \in DOMAIN nodes : ns[m].type = nodes[m].type /\ ns[m].by = nodes[m].by
<1> DEFINE ns == [nodes EXCEPT ![n] = r]
           L == Len(nodes)
<1>1. /\ L \in Nat /\ DOMAIN nodes = 1 .. L
      /\ \A m \in 1 .. L : nodes[m] \in NodeType /\ Filled(nodes[m]) /\ PagesIn(nodes, m) \in Nat
  BY NodesFacts
<1>2. Tree(ns)
  BY WriteTree DEF NodesInv
<1>3. DOMAIN ns = DOMAIN nodes /\ \A m \in DOMAIN nodes : ns[m] = IF m = n THEN r ELSE nodes[m]
  OBVIOUS
<1>4. Len(ns) = L
  BY <1>1, <1>2, <1>3, TreeFacts
<1> HIDE DEF ns, L
<1>5. \A m \in DOMAIN nodes : Filled(ns[m]) /\ ns[m].type = nodes[m].type /\ ns[m].by = nodes[m].by
  BY <1>1, <1>3
<1> DEFINE new == Len(r.data) \div PageSize
           d == new - PagesIn(nodes, n)
<1>6. new \in Nat /\ PagesIn(nodes, n) \in Nat
  BY <1>1, PagesNat
<1>7. \A m \in 1 .. L : PagesIn(ns, m) = IF m = n THEN new ELSE PagesIn(nodes, m)
  BY <1>1, <1>3 DEF PagesIn
<1> HIDE DEF new
<1>8. Differ(nodes, ns, L, n, d)
  BY <1>1, <1>6, <1>7 DEF Differ
<1>9. \A m \in 1 .. L : PagesIn(ns, m) \in Nat
  BY <1>1, <1>6, <1>7
<1>10. InUse(ns) = InUse(nodes) + new - PagesIn(nodes, n)
  <2>1. InUse(ns) = Sums(ns)[L]
    BY <1>1, <1>4, <1>9, SumFacts
  <2>2. InUse(nodes) = Sums(nodes)[L] /\ Sums(nodes)[L] \in Nat
    BY <1>1, SumFacts DEF L
  <2>3. L <= Len(ns) /\ L <= Len(nodes) /\ Len(ns) \in Nat /\ Len(nodes) \in Nat /\ n \in Nat /\ d \in Int
        /\ n \in 1 .. L
    BY <1>1, <1>4, <1>6 DEF L
  <2>4. Whole(nodes)
    BY <1>1 DEF L, Whole
  <2>5. Whole(ns)
    BY <1>1, <1>4, <1>9 DEF Whole
  <2> HIDE DEF d
  <2>6. Sums(ns)[L] = Sums(nodes)[L] + (IF n \in 1 .. L THEN d ELSE 0)
    BY <1>1, <1>8, <2>3, <2>4, <2>5, SumDiffers
  <2> QED  BY <1>6, <2>1, <2>2, <2>3, <2>6 DEF d
<1> QED  BY <1>2, <1>3, <1>5, <1>10 DEF ns, new
-----------------------------------------------------------------------------
(* Descriptions                                                            *)

LEMMA NewDescFacts ==
  ASSUME NEW k \in Nat, NEW new \in NewDescs(k)
  PROVE  /\ new \in Seq(1 .. MaxDesc) /\ Len(new) = k /\ DOMAIN new = 1 .. k
         /\ \A x \in 1 .. k : new[x] \in 1 .. MaxDesc /\ desc[new[x]] = Free
         /\ \A x, y \in 1 .. k : new[x] = new[y] => x = y
<1>1. /\ new \in [1 .. k -> FreeDescs]
      /\ \A x, y \in 1 .. k : x < y => new[x] < new[y]
  BY DEF NewDescs
<1>2. \A x \in 1 .. k : new[x] \in 1 .. MaxDesc /\ desc[new[x]] = Free
  BY <1>1 DEF FreeDescs
<1>3. new \in [1 .. k -> 1 .. MaxDesc]
  BY <1>1, <1>2
<1>4. new \in Seq(1 .. MaxDesc) /\ Len(new) = k /\ DOMAIN new = 1 .. k
  BY <1>3, FunSeq
<1>5. ASSUME NEW x \in 1 .. k, NEW y \in 1 .. k, new[x] = new[y] PROVE x = y
  <2>1. new[x] \in Int /\ new[y] \in Int
    BY <1>2
  <2>2. ~(x < y) /\ ~(y < x)
    BY <1>1, <1>5, <2>1
  <2> QED  BY <2>2
<1> QED  BY <1>2, <1>4, <1>5

LEMMA FillFacts ==
  ASSUME NEW k \in Nat, NEW new \in NewDescs(k), NEW values
  PROVE  /\ DOMAIN Fill(new, values) = 1 .. MaxDesc
         /\ Fill(new, values) = [d \in 1 .. MaxDesc |-> Fill(new, values)[d]]
         /\ \A x \in 1 .. k : Fill(new, values)[new[x]] = values[x]
         /\ \A d \in 1 .. MaxDesc : (\A x \in 1 .. k : new[x] # d) => Fill(new, values)[d] = desc[d]
<1>1. /\ DOMAIN new = 1 .. k /\ \A x \in 1 .. k : new[x] \in 1 .. MaxDesc
      /\ \A x, y \in 1 .. k : new[x] = new[y] => x = y
  BY NewDescFacts
<1> DEFINE at(d) == CHOOSE x \in DOMAIN new : new[x] = d
<1>2. /\ DOMAIN Fill(new, values) = 1 .. MaxDesc
      /\ Fill(new, values) = [d \in 1 .. MaxDesc |-> Fill(new, values)[d]]
      /\ \A d \in 1 .. MaxDesc : Fill(new, values)[d] = IF d \in Range(new) THEN values[at(d)] ELSE desc[d]
  BY DEF Fill
<1>3. \A x \in 1 .. k : new[x] \in Range(new)
  BY <1>1 DEF Range
<1>4. \A d : (\A x \in 1 .. k : new[x] # d) => d \notin Range(new)
  BY <1>1 DEF Range
<1>5. ASSUME NEW x \in 1 .. k PROVE at(new[x]) = x
  <2>1. \E y \in DOMAIN new : new[y] = new[x]
    BY <1>1
  <2>2. at(new[x]) \in DOMAIN new /\ new[at(new[x])] = new[x]
    BY <2>1
  <2> HIDE DEF at
  <2> QED  BY <1>1, <2>2
<1> HIDE DEF at
<1> QED  BY <1>1, <1>2, <1>3, <1>4, <1>5

(* F is a list of slots that has old's descriptions where they were, and   *)
(* the new ones, once each.                                                *)
Placed(F, old, new) ==
  /\ F \in Seq(0 .. MaxDesc)
  /\ \A j \in DOMAIN F : F[j] # Null =>
       (j \in DOMAIN old /\ F[j] = old[j]) \/ \E x \in DOMAIN new : F[j] = new[x]
  /\ \A x \in DOMAIN new : \E j \in DOMAIN F : F[j] = new[x]
  /\ \A j, k \in DOMAIN F : F[j] = F[k] /\ (\E x \in DOMAIN new : F[j] = new[x]) => j = k
  /\ \A j \in DOMAIN old : old[j] # Null => j \in DOMAIN F /\ F[j] = old[j]

Kept ==
  /\ Tree(nodes')
  /\ \A n \in DOMAIN nodes :
       n \in DOMAIN nodes' /\ nodes'[n].type = nodes[n].type /\ nodes'[n].by = nodes[n].by
Fresh == \A n \in DOMAIN nodes' : nodes'[n].type = "File" /\ nodes'[n].by = "kernel" => n \in DOMAIN nodes

LEMMA FreeFacts ==
  Free \in DescType /\ Free.mode # Left /\ Free.file = 0 /\ Left # {}
BY DEF Free, DescType, Left

LEMMA LoadKept ==
  ASSUME LoadInv, Kept, Fresh,
         \A d \in 1 .. MaxDesc :
           /\ desc'[d].mode = Left <=> desc[d].mode = Left
           /\ desc[d].mode = Left => desc'[d].file = desc[d].file
  PROVE  LoadInv'
<1>1. \A n \in DOMAIN nodes : Loaded(nodes, n) <=> Loaded(nodes', n)
  BY DEF Loaded, IsFile, Kept
<1>2. ASSUME NEW n \in DOMAIN nodes', Loaded(nodes', n) PROVE n \in DOMAIN nodes /\ Loaded(nodes, n)
  <2>1. n \in DOMAIN nodes
    BY <1>2 DEF Loaded, IsFile, Fresh
  <2> QED  BY <1>1, <1>2, <2>1
<1>3. ASSUME NEW d \in 1 .. MaxDesc, desc'[d].mode = Left PROVE Loaded(nodes', desc'[d].file)
  <2>1. Loaded(nodes, desc[d].file) /\ desc'[d].file = desc[d].file
    BY <1>3 DEF LoadInv
  <2>2. desc[d].file \in DOMAIN nodes
    BY <2>1 DEF Loaded, IsFile
  <2> QED  BY <1>1, <2>1, <2>2
<1>4. ASSUME NEW d \in 1 .. MaxDesc, NEW e \in 1 .. MaxDesc,
             desc'[d].mode = Left, desc'[e].mode = Left, desc'[d].file = desc'[e].file
      PROVE  d = e
  BY <1>4 DEF LoadInv
<1>5. ASSUME NEW n \in DOMAIN nodes', Loaded(nodes', n)
      PROVE  \E d \in 1 .. MaxDesc : desc'[d].mode = Left /\ desc'[d].file = n
  <2>1. PICK d \in 1 .. MaxDesc : desc[d].mode = Left /\ desc[d].file = n
    BY <1>2, <1>5 DEF LoadInv
  <2> QED  BY <2>1
<1> QED  BY <1>3, <1>4, <1>5 DEF LoadInv
LEMMA Handed ==
  ASSUME TypeInv, SlotInv, LoadInv, Kept, Fresh,
         NEW p \in Proc, NEW k \in Nat, NEW new \in NewDescs(k), NEW values,
         \A x \in 1 .. k : /\ values[x] \in DescType /\ values[x].mode # Left
                           /\ values[x].file = Tty0 \/ IsFile(nodes', values[x].file),
         NEW q \in ProcType, q.st = "run", q.prog \in Proc, Placed(q.fds, proc[p].fds, new),
         desc' = Fill(new, values), proc' = [proc EXCEPT ![p] = q],
         taken' \in Nat, image' = image, pos' = pos
  PROVE  TypeInv' /\ SlotInv' /\ LoadInv'
<1> DEFINE F == q.fds
<1>1. /\ DOMAIN new = 1 .. k
      /\ \A x \in 1 .. k : new[x] \in 1 .. MaxDesc /\ desc[new[x]] = Free
      /\ \A x, y \in 1 .. k : new[x] = new[y] => x = y
  BY NewDescFacts
<1>2. /\ desc' = [d \in 1 .. MaxDesc |-> desc'[d]]
      /\ \A x \in 1 .. k : desc'[new[x]] = values[x]
      /\ \A d \in 1 .. MaxDesc : (\A x \in 1 .. k : new[x] # d) => desc'[d] = desc[d]
  BY FillFacts
<1>3. /\ desc \in [1 .. MaxDesc -> DescType] /\ proc \in [Proc -> ProcType]
      /\ \A d \in 1 .. MaxDesc :
           desc[d] = Free \/ desc[d].file = Tty0 \/ IsFile(nodes, desc[d].file)
      /\ \A o \in Proc : proc[o].st = "run" => proc[o].prog \in Proc
      /\ \A o \in Proc : proc[o].st # "run" => proc[o].fds = <<>>
  BY DEF TypeInv
<1>4. proc' \in [Proc -> ProcType] /\ proc'[p] = q /\ \A o \in Proc : o # p => proc'[o] = proc[o]
  BY <1>3
<1>5. \A o \in Proc : \A j \in DOMAIN proc[o].fds : proc[o].fds[j] \in 0 .. MaxDesc
  <2> SUFFICES ASSUME NEW o \in Proc, NEW j \in DOMAIN proc[o].fds PROVE proc[o].fds[j] \in 0 .. MaxDesc
    OBVIOUS
  <2>1. proc[o] \in ProcType
    BY <1>3
  <2>2. proc[o].fds \in Seq(0 .. MaxDesc)
    BY <2>1 DEF ProcType
  <2> QED  BY <2>2, SeqFacts
\* A description that was in a slot is not one of the new ones.
<1>6. ASSUME NEW o \in Proc, NEW j \in DOMAIN proc[o].fds, proc[o].fds[j] # Null
      PROVE  /\ proc[o].fds[j] \in 1 .. MaxDesc /\ \A x \in 1 .. k : new[x] # proc[o].fds[j]
             /\ desc[proc[o].fds[j]] # Free /\ desc[proc[o].fds[j]].mode # Left
  <2>1. desc[proc[o].fds[j]] # Free /\ desc[proc[o].fds[j]].mode # Left
    BY <1>6 DEF SlotInv, SlotAlive
  <2>2. proc[o].fds[j] \in 1 .. MaxDesc
    <3>1. proc[o].fds[j] \in 0 .. MaxDesc
      BY <1>5
    <3> QED  BY <1>6, <3>1 DEF Null
  <2> QED  BY <1>1, <2>1, <2>2
<1>7. ASSUME NEW d \in 1 .. MaxDesc
      PROVE  \/ desc'[d] = desc[d] /\ \A x \in 1 .. k : new[x] # d
             \/ \E x \in 1 .. k : new[x] = d /\ desc'[d] = values[x] /\ desc[d] = Free
  BY <1>1, <1>2
<1>8. 0 \notin DOMAIN nodes'
  <2>1. nodes' \in Seq(NodeType)
    BY DEF Kept, Tree
  <2>2. DOMAIN nodes' = 1 .. Len(nodes')
    BY <2>1, SeqFacts
  <2> QED  BY <2>2
<1>9. \A x \in 1 .. k : values[x] # Free
  <2> TAKE x \in 1 .. k
  <2>1. values[x].file # 0
    BY <1>8 DEF IsFile, Tty0
  <2> QED  BY <2>1, FreeFacts
<1>10. \A n : IsFile(nodes, n) => IsFile(nodes', n)
  BY DEF IsFile, Kept
<1>11. TypeInv'
  <2>1. desc' \in [1 .. MaxDesc -> DescType]
    <3>1. \A d \in 1 .. MaxDesc : desc'[d] \in DescType
      BY <1>3, <1>7
    <3> QED  BY <1>2, <3>1
  <2>2. \A d \in 1 .. MaxDesc : desc'[d] = Free \/ desc'[d].file = Tty0 \/ IsFile(nodes', desc'[d].file)
    BY <1>3, <1>7, <1>10
  <2>3. \A o \in Proc : proc'[o].st = "run" => proc'[o].prog \in Proc
    BY <1>3, <1>4
  <2>4. \A o \in Proc : proc'[o].st # "run" => proc'[o].fds = <<>>
    BY <1>3, <1>4
  <2> QED  BY <1>4, <2>1, <2>2, <2>3, <2>4 DEF TypeInv
<1>12. LoadInv'
  <2>1. \A d \in 1 .. MaxDesc :
          /\ desc'[d].mode = Left <=> desc[d].mode = Left
          /\ desc[d].mode = Left => desc'[d].file = desc[d].file
    BY <1>7, FreeFacts
  <2> QED  BY <2>1, LoadKept
\* Where the slots of p got their descriptions.
<1> HIDE DEF F
<1>13. /\ \A j \in DOMAIN F : F[j] # Null =>
            (j \in DOMAIN proc[p].fds /\ F[j] = proc[p].fds[j]) \/ \E x \in 1 .. k : F[j] = new[x]
       /\ \A x \in 1 .. k : \E j \in DOMAIN F : F[j] = new[x]
       /\ \A i, j \in DOMAIN F : F[i] = F[j] /\ (\E x \in 1 .. k : F[i] = new[x]) => i = j
       /\ \A j \in DOMAIN proc[p].fds : proc[p].fds[j] # Null =>
            j \in DOMAIN F /\ F[j] = proc[p].fds[j]
       /\ proc'[p].fds = F
  <2>1. proc'[p].fds = F
    BY <1>4 DEF F
  <2>2. Placed(F, proc[p].fds, new)
    BY DEF F
  <2> DEFINE old == proc[p].fds
  <2> HIDE DEF old
  <2>3. Placed(F, old, new) /\ DOMAIN new = 1 .. k
    BY <1>1, <2>2 DEF old
  <2>4. /\ \A j \in DOMAIN F : F[j] # Null =>
             (j \in DOMAIN old /\ F[j] = old[j]) \/ \E x \in 1 .. k : F[j] = new[x]
        /\ \A x \in 1 .. k : \E j \in DOMAIN F : F[j] = new[x]
        /\ \A i, j \in DOMAIN F : F[i] = F[j] /\ (\E x \in 1 .. k : F[i] = new[x]) => i = j
        /\ \A j \in DOMAIN old : old[j] # Null => j \in DOMAIN F /\ F[j] = old[j]
    BY <2>3 DEF Placed
  <2> QED  BY <2>1, <2>4 DEF old
<1>14. ASSUME NEW o \in Proc, NEW j \in DOMAIN proc'[o].fds, proc'[o].fds[j] # Null
       PROVE  \/ j \in DOMAIN proc[o].fds /\ proc'[o].fds[j] = proc[o].fds[j]
              \/ o = p /\ \E x \in 1 .. k : proc'[o].fds[j] = new[x]
  <2>1. CASE o = p
    BY <1>13, <1>14, <2>1
  <2>2. CASE o # p
    BY <1>4, <1>14, <2>2
  <2> QED  BY <2>1, <2>2
<1>15. SlotInv'
  <2>1. ASSUME NEW o \in Proc, NEW r \in Proc, NEW i \in DOMAIN proc'[o].fds, NEW j \in DOMAIN proc'[r].fds,
               proc'[o].fds[i] # Null, proc'[o].fds[i] = proc'[r].fds[j]
        PROVE  o = r /\ i = j
    <3>1. CASE o = p /\ \E x \in 1 .. k : proc'[o].fds[i] = new[x]
      <4>1. PICK x \in 1 .. k : proc'[o].fds[i] = new[x]
        BY <3>1
      <4>2. ~(j \in DOMAIN proc[r].fds /\ proc'[r].fds[j] = proc[r].fds[j])
        BY <1>6, <2>1, <4>1
      <4>3. r = p
        BY <1>14, <2>1, <4>2
      <4> QED  BY <1>13, <2>1, <3>1, <4>1, <4>3
    <3>2. CASE r = p /\ \E x \in 1 .. k : proc'[r].fds[j] = new[x]
      <4>1. PICK x \in 1 .. k : proc'[r].fds[j] = new[x]
        BY <3>2
      <4>2. ~(i \in DOMAIN proc[o].fds /\ proc'[o].fds[i] = proc[o].fds[i])
        BY <1>6, <2>1, <4>1
      <4>3. o = p
        BY <1>14, <2>1, <4>2
      <4> QED  BY <1>13, <2>1, <3>2, <4>1, <4>3
    <3>3. CASE /\ i \in DOMAIN proc[o].fds /\ proc'[o].fds[i] = proc[o].fds[i]
               /\ j \in DOMAIN proc[r].fds /\ proc'[r].fds[j] = proc[r].fds[j]
      <4>1. proc[o].fds[i] # Null /\ proc[o].fds[i] = proc[r].fds[j]
        BY <2>1, <3>3
      <4> QED  BY <3>3, <4>1 DEF SlotInv, OneSlot
    <3> QED  BY <1>14, <2>1, <3>1, <3>2, <3>3
  <2>2. ASSUME NEW o \in Proc, NEW j \in DOMAIN proc'[o].fds, proc'[o].fds[j] # Null
        PROVE  desc'[proc'[o].fds[j]] # Free /\ desc'[proc'[o].fds[j]].mode # Left
    <3>1. CASE j \in DOMAIN proc[o].fds /\ proc'[o].fds[j] = proc[o].fds[j]
      <4>1. proc[o].fds[j] # Null
        BY <2>2, <3>1
      <4>2. desc'[proc[o].fds[j]] = desc[proc[o].fds[j]]
        BY <1>2, <1>6, <3>1, <4>1
      <4> QED  BY <1>6, <3>1, <4>1, <4>2
    <3>2. CASE \E x \in 1 .. k : proc'[o].fds[j] = new[x]
      <4>1. PICK x \in 1 .. k : proc'[o].fds[j] = new[x]
        BY <3>2
      <4> QED  BY <1>2, <1>9, <4>1
    <3> QED  BY <1>14, <2>2, <3>1, <3>2
  <2>3. ASSUME NEW d \in 1 .. MaxDesc, desc'[d] # Free
        PROVE  desc'[d].mode = Left \/ \E o \in Proc : \E j \in DOMAIN proc'[o].fds : proc'[o].fds[j] = d
    <3>1. CASE desc'[d] = desc[d] /\ \A x \in 1 .. k : new[x] # d
      <4>1. CASE desc[d].mode = Left
        BY <3>1, <4>1
      <4>2. CASE desc[d].mode # Left
        <5>0. PICK o \in Proc : \E j \in DOMAIN proc[o].fds : proc[o].fds[j] = d
          BY <2>3, <3>1, <4>2 DEF SlotInv, AliveInSlot
        <5>1. PICK j \in DOMAIN proc[o].fds : proc[o].fds[j] = d
          BY <5>0
        <5>2. d # Null
          BY DEF Null
        <5>3. j \in DOMAIN proc'[o].fds /\ proc'[o].fds[j] = d
          <6>1. CASE o = p
            BY <1>13, <5>1, <5>2, <6>1
          <6>2. CASE o # p
            BY <1>4, <5>1, <6>2
          <6> QED  BY <6>1, <6>2
        <5> QED  BY <5>3
      <4> QED  BY <4>1, <4>2
    <3>2. CASE \E x \in 1 .. k : new[x] = d
      BY <1>13, <3>2
    <3> QED  BY <1>7, <3>1, <3>2
  <2> QED  BY <2>1, <2>2, <2>3 DEF SlotInv, OneSlot, SlotAlive, AliveInSlot
<1> QED  BY <1>11, <1>12, <1>15
(* syscall_open puts the description in one slot, and leaves the others.   *)
LEMMA SlotFacts ==
  ASSUME NEW fds \in Seq(0 .. MaxDesc), NEW new, DOMAIN new = 1 .. 1, new[1] \in 1 .. MaxDesc,
         \A j \in DOMAIN fds : fds[j] # new[1]
  PROVE  Placed(Slot(fds, new[1]), fds, new)
<1> DEFINE d == new[1]
           n == Len(fds)
           F == Slot(fds, d)
           empty == {j \in DOMAIN fds : fds[j] = Null}
<1>1. n \in Nat /\ DOMAIN fds = 1 .. n /\ (\A j \in 1 .. n : fds[j] \in 0 .. MaxDesc) /\ MaxDesc \in Nat
  BY SeqFacts, FilesAssumption
<1>2. \E m : /\ F \in Seq(0 .. MaxDesc) /\ m \in DOMAIN F /\ F[m] = d
             /\ \A j \in DOMAIN F : j # m => j \in 1 .. n /\ F[j] = fds[j]
             /\ \A j \in 1 .. n : j \in DOMAIN F /\ (fds[j] # Null => j # m)
  <2>1. CASE empty = {}
    <3>1. F = push_back(fds, d)
      BY <2>1 DEF Slot
    <3>2. F = [j \in 1 .. n + 1 |-> IF j = n + 1 THEN d ELSE fds[j]]
      <4> DEFINE long == resize(fds, n + 1)
      <4>1. long = [j \in 1 .. n + 1 |-> IF j <= n THEN fds[j] ELSE Undefined]
        BY DEF resize, Size
      <4>2. F = [long EXCEPT ![n + 1] = d]
        BY <3>1 DEF push_back, Put, Size
      <4> HIDE DEF long, F
      <4>3. DOMAIN F = 1 .. n + 1 /\ F = [j \in 1 .. n + 1 |-> F[j]]
        BY <4>1, <4>2
      <4>4. \A j \in 1 .. n + 1 : F[j] = IF j = n + 1 THEN d ELSE long[j]
        BY <4>1, <4>2
      <4>5. \A j \in 1 .. n + 1 : j # n + 1 => long[j] = fds[j]
        BY <1>1, <4>1
      <4> QED  BY <4>3, <4>4, <4>5
    <3> HIDE DEF F
    <3>3. F \in [1 .. n + 1 -> 0 .. MaxDesc]
      BY <1>1, <3>2
    <3>4. F \in Seq(0 .. MaxDesc) /\ DOMAIN F = 1 .. n + 1
      BY <1>1, <3>3, FunSeq
    <3>5. n + 1 \in DOMAIN F /\ F[n + 1] = d /\ \A j \in 1 .. n : j \in DOMAIN F /\ j # n + 1
      BY <1>1, <3>2, <3>4
    <3>6. \A j \in DOMAIN F : j # n + 1 => j \in 1 .. n /\ F[j] = fds[j]
      BY <1>1, <3>2, <3>4
    <3> QED  BY <3>4, <3>5, <3>6
  <2>2. CASE empty # {}
    <3> DEFINE m == Min(empty)
    <3>1. m \in empty
      <4>1. empty \in SUBSET Nat
        BY <1>1
      <4> HIDE DEF empty
      <4> QED  BY <2>2, <4>1, MinIn
    <3>2. m \in 1 .. n /\ fds[m] = Null /\ (m - 1) + 1 = m
      BY <1>1, <3>1
    <3>3. F = [fds EXCEPT ![m] = d]
      <4>1. F = Put(fds, m - 1, d)
        BY <2>2 DEF Slot
      <4> HIDE DEF F, m
      <4> QED  BY <3>2, <4>1 DEF Put
    <3> HIDE DEF F, m, empty
    <3>4. F \in [1 .. n -> 0 .. MaxDesc]
      BY <1>1, <3>2, <3>3
    <3>5. F \in Seq(0 .. MaxDesc) /\ DOMAIN F = 1 .. n
      BY <1>1, <3>4, FunSeq
    <3>6. F[m] = d /\ \A j \in 1 .. n : j # m => F[j] = fds[j]
      BY <1>1, <3>2, <3>3
    <3> QED  BY <3>2, <3>5, <3>6
  <2> QED  BY <2>1, <2>2
<1>3. PICK m : /\ F \in Seq(0 .. MaxDesc) /\ m \in DOMAIN F /\ F[m] = d
               /\ \A j \in DOMAIN F : j # m => j \in 1 .. n /\ F[j] = fds[j]
               /\ \A j \in 1 .. n : j \in DOMAIN F /\ (fds[j] # Null => j # m)
  BY <1>2
<1> HIDE DEF F
<1>4. \A x \in DOMAIN new : new[x] = d
  OBVIOUS
<1>5. 1 \in DOMAIN new
  OBVIOUS
<1>6. \A j \in DOMAIN F : F[j] = d => j = m
  BY <1>1, <1>3
<1> HIDE DEF d
<1>7. Placed(F, fds, new)
  <2>1. \A j \in DOMAIN F : F[j] # Null =>
          (j \in DOMAIN fds /\ F[j] = fds[j]) \/ \E x \in DOMAIN new : F[j] = new[x]
    BY <1>1, <1>3, <1>4, <1>5
  <2>2. \A x \in DOMAIN new : \E j \in DOMAIN F : F[j] = new[x]
    BY <1>3, <1>4
  <2>3. \A j, k \in DOMAIN F : F[j] = F[k] /\ (\E x \in DOMAIN new : F[j] = new[x]) => j = k
    BY <1>4, <1>6
  <2>4. \A j \in DOMAIN fds : fds[j] # Null => j \in DOMAIN F /\ F[j] = fds[j]
    BY <1>1, <1>3
  <2> QED  BY <1>3, <2>1, <2>2, <2>3, <2>4 DEF Placed
<1> QED  BY <1>7 DEF F, d

(* Descriptions of p are deleted, and their slots emptied or gone.         *)
Dropped(F, old, gone) ==
  /\ \A j \in DOMAIN F : F[j] # Null => j \in DOMAIN old /\ F[j] = old[j] /\ F[j] \notin gone
  /\ \A j \in DOMAIN old : old[j] # Null /\ old[j] \notin gone => j \in DOMAIN F /\ F[j] = old[j]
  /\ \A d \in gone : \E j \in DOMAIN old : old[j] = d

Without(gone) == [d \in 1 .. MaxDesc |-> IF d \in gone THEN Free ELSE desc[d]]

LEMMA Released ==
  ASSUME NodesInv, TypeInv, SlotInv, LoadInv,
         NEW p \in Proc, NEW gone, NEW q \in ProcType, Dropped(q.fds, proc[p].fds, gone),
         q.st = "run" => q.prog \in Proc, q.st # "run" => q.fds = <<>>,
         desc' = Without(gone),
         proc' = [proc EXCEPT ![p] = q], UNCHANGED <<nodes, taken, image, pos>>
  PROVE  TypeInv' /\ SlotInv' /\ LoadInv'
<1> DEFINE F == q.fds
           old == proc[p].fds
<1>1. /\ desc \in [1 .. MaxDesc -> DescType] /\ proc \in [Proc -> ProcType]
      /\ \A d \in 1 .. MaxDesc :
           desc[d] = Free \/ desc[d].file = Tty0 \/ IsFile(nodes, desc[d].file)
      /\ \A o \in Proc : proc[o].st = "run" => proc[o].prog \in Proc
      /\ \A o \in Proc : proc[o].st # "run" => proc[o].fds = <<>>
      /\ taken \in Nat /\ image \in Archives /\ pos \in Nat
  BY DEF TypeInv
<1>2. \A d \in 1 .. MaxDesc : desc'[d] = IF d \in gone THEN Free ELSE desc[d]
  BY DEF Without
<1>3. proc' \in [Proc -> ProcType] /\ proc'[p] = q /\ \A o \in Proc : o # p => proc'[o] = proc[o]
  BY <1>1
<1>4. TypeInv'
  <2>1. desc' \in [1 .. MaxDesc -> DescType]
    BY <1>1, FreeFacts DEF Without
  <2>2. \A d \in 1 .. MaxDesc : desc'[d] = Free \/ desc'[d].file = Tty0 \/ IsFile(nodes', desc'[d].file)
    BY <1>1, <1>2
  <2>3. \A o \in Proc : proc'[o].st = "run" => proc'[o].prog \in Proc
    BY <1>1, <1>3
  <2>4. \A o \in Proc : proc'[o].st # "run" => proc'[o].fds = <<>>
    BY <1>1, <1>3
  <2>5. taken' \in Nat /\ image' \in Archives /\ pos' \in Nat
    BY <1>1
  <2> QED  BY <1>3, <2>1, <2>2, <2>3, <2>4, <2>5 DEF TypeInv
<1> HIDE DEF F, old
<1>5. /\ \A j \in DOMAIN F : F[j] # Null => j \in DOMAIN old /\ F[j] = old[j] /\ F[j] \notin gone
      /\ \A j \in DOMAIN old : old[j] # Null /\ old[j] \notin gone => j \in DOMAIN F /\ F[j] = old[j]
      /\ \A d \in gone : \E j \in DOMAIN old : old[j] = d
      /\ proc'[p].fds = F /\ proc[p].fds = old
  BY <1>3 DEF Dropped, F, old
<1>6. ASSUME NEW d \in gone, d # Null
      PROVE  /\ desc[d].mode # Left
             /\ \A o \in Proc : o # p => \A j \in DOMAIN proc[o].fds : proc[o].fds[j] # d
  <2>1. PICK i \in DOMAIN proc[p].fds : proc[p].fds[i] = d
    BY <1>5
  <2> QED  BY <1>6, <2>1 DEF SlotInv, OneSlot, SlotAlive
<1>7. LoadInv'
  <2>1. \A d \in 1 .. MaxDesc : d # Null
    BY DEF Null
  <2>2. \A d \in 1 .. MaxDesc : d \in gone => desc[d].mode # Left
    BY <1>6, <2>1
  <2>3. Free.mode # Left
    BY FreeFacts
  <2>4. \A d \in 1 .. MaxDesc :
          /\ desc'[d].mode = Left <=> desc[d].mode = Left
          /\ desc[d].mode = Left => desc'[d].file = desc[d].file
    BY <1>2, <2>2, <2>3
  <2>5. Kept /\ Fresh
    BY DEF Kept, Fresh, NodesInv
  <2> QED  BY <2>4, <2>5, LoadKept
<1>8. ASSUME NEW o \in Proc, NEW j \in DOMAIN proc'[o].fds, proc'[o].fds[j] # Null
      PROVE  j \in DOMAIN proc[o].fds /\ proc'[o].fds[j] = proc[o].fds[j] /\ proc[o].fds[j] \notin gone
  <2>1. CASE o = p
    BY <1>5, <1>8, <2>1
  <2>2. CASE o # p
    BY <1>3, <1>6, <1>8, <2>2
  <2> QED  BY <2>1, <2>2
<1>9. SlotInv'
  <2>1. ASSUME NEW o \in Proc, NEW r \in Proc, NEW i \in DOMAIN proc'[o].fds, NEW j \in DOMAIN proc'[r].fds,
               proc'[o].fds[i] # Null, proc'[o].fds[i] = proc'[r].fds[j]
        PROVE  o = r /\ i = j
    <3>1. /\ i \in DOMAIN proc[o].fds /\ j \in DOMAIN proc[r].fds
          /\ proc[o].fds[i] # Null /\ proc[o].fds[i] = proc[r].fds[j]
      BY <1>8, <2>1
    <3> QED  BY <3>1 DEF SlotInv, OneSlot
  <2>2. ASSUME NEW o \in Proc, NEW j \in DOMAIN proc'[o].fds, proc'[o].fds[j] # Null
        PROVE  desc'[proc'[o].fds[j]] # Free /\ desc'[proc'[o].fds[j]].mode # Left
    <3> DEFINE d == proc[o].fds[j]
    <3>1. j \in DOMAIN proc[o].fds /\ proc'[o].fds[j] = d /\ d \notin gone /\ d # Null
      BY <1>8, <2>2
    <3>2. desc[d] # Free /\ desc[d].mode # Left
      BY <3>1 DEF SlotInv, SlotAlive
    <3>3. d \in 1 .. MaxDesc
      <4>1. proc[o] \in ProcType
        BY <1>1
      <4>2. proc[o].fds \in Seq(0 .. MaxDesc)
        BY <4>1 DEF ProcType
      <4>3. d \in 0 .. MaxDesc
        BY <3>1, <4>2, SeqFacts
      <4> HIDE DEF d
      <4> QED  BY <3>1, <4>3 DEF Null
    <3> QED  BY <1>2, <3>1, <3>2, <3>3
  <2>3. ASSUME NEW d \in 1 .. MaxDesc, desc'[d] # Free
        PROVE  desc'[d].mode = Left \/ \E o \in Proc : \E j \in DOMAIN proc'[o].fds : proc'[o].fds[j] = d
    <3>1. d \notin gone /\ desc'[d] = desc[d] /\ d # Null
      BY <1>2, <2>3 DEF Null
    <3>2. CASE desc[d].mode = Left
      BY <3>1, <3>2
    <3>3. CASE desc[d].mode # Left
      <4>1. PICK o \in Proc : \E j \in DOMAIN proc[o].fds : proc[o].fds[j] = d
        BY <2>3, <3>1, <3>3 DEF SlotInv, AliveInSlot
      <4>2. PICK j \in DOMAIN proc[o].fds : proc[o].fds[j] = d
        BY <4>1
      <4>3. j \in DOMAIN proc'[o].fds /\ proc'[o].fds[j] = d
        <5>1. CASE o = p
          BY <1>5, <3>1, <4>2, <5>1
        <5>2. CASE o # p
          BY <1>3, <4>2, <5>2
        <5> QED  BY <5>1, <5>2
      <4> QED  BY <4>3
    <3> QED  BY <3>2, <3>3
  <2>4. OneSlot'
    BY <2>1 DEF OneSlot
  <2>5. SlotAlive'
    BY <2>2 DEF SlotAlive
  <2>6. AliveInSlot'
    BY <2>3 DEF AliveInSlot
  <2> QED  BY <2>4, <2>5, <2>6 DEF SlotInv
<1> QED  BY <1>4, <1>7, <1>9
(* The offset of a description that is alive moves on.                     *)
LEMMA Advanced ==
  ASSUME TypeInv, SlotInv, LoadInv, Kept, Fresh, NodesInv,
         NEW d \in 1 .. MaxDesc, desc[d] # Free, NEW size \in Nat,
         desc' = [desc EXCEPT ![d].offset = @ + size],
         UNCHANGED <<proc, image, pos>>, taken' \in Nat
  PROVE  TypeInv' /\ SlotInv' /\ LoadInv'
<1>1. /\ desc \in [1 .. MaxDesc -> DescType] /\ proc \in [Proc -> ProcType]
      /\ \A e \in 1 .. MaxDesc :
           desc[e] = Free \/ desc[e].file = Tty0 \/ IsFile(nodes, desc[e].file)
      /\ image \in Archives /\ pos \in Nat
  BY DEF TypeInv
<1> DEFINE r == [desc[d] EXCEPT !.offset = @ + size]
<1>2. desc[d] \in DescType
  BY <1>1
<1>3. r \in DescType /\ r.file = desc[d].file /\ r.mode = desc[d].mode
  BY <1>2 DEF DescType
<1>4. desc' = [desc EXCEPT ![d] = r]
  OBVIOUS
<1> HIDE DEF r
<1>5. r # Free
  <2>1. 0 \notin DOMAIN nodes
    BY NodesFacts
  <2>2. desc[d].file # 0
    BY <1>1, <2>1 DEF Tty0, IsFile
  <2> QED  BY <1>3, <2>2, FreeFacts
<1>6. /\ desc' \in [1 .. MaxDesc -> DescType]
      /\ \A e \in 1 .. MaxDesc : /\ desc'[e].file = desc[e].file /\ desc'[e].mode = desc[e].mode
                                 /\ desc'[e] = Free <=> desc[e] = Free
  BY <1>1, <1>3, <1>4, <1>5
<1>7. \A n : IsFile(nodes, n) => IsFile(nodes', n)
  BY DEF IsFile, Kept
<1>8. TypeInv'
  <2>1. \A e \in 1 .. MaxDesc : desc'[e] = Free \/ desc'[e].file = Tty0 \/ IsFile(nodes', desc'[e].file)
    BY <1>1, <1>6, <1>7
  <2> QED  BY <1>6, <2>1 DEF TypeInv
<1>9. LoadInv'
  BY <1>6, LoadKept
<1>10. SlotInv'
  <2>1. OneSlot' /\ AliveInSlot'
    BY <1>6 DEF SlotInv, OneSlot, AliveInSlot
  <2>2. ASSUME NEW o \in Proc, NEW j \in DOMAIN proc[o].fds, proc[o].fds[j] # Null
        PROVE  desc'[proc[o].fds[j]] # Free /\ desc'[proc[o].fds[j]].mode # Left
    <3>1. desc[proc[o].fds[j]] # Free /\ desc[proc[o].fds[j]].mode # Left
      BY <2>2 DEF SlotInv, SlotAlive
    <3>2. proc[o].fds[j] \in 1 .. MaxDesc
      <4>1. proc[o] \in ProcType
        BY <1>1
      <4>2. proc[o].fds \in Seq(0 .. MaxDesc)
        BY <4>1 DEF ProcType
      <4>3. proc[o].fds[j] \in 0 .. MaxDesc
        BY <4>2, SeqFacts
      <4> QED  BY <2>2, <4>3 DEF Null
    <3> QED  BY <1>6, <3>1, <3>2
  <2>3. SlotAlive'
    BY <2>2 DEF SlotAlive
  <2> QED  BY <2>1, <2>3 DEF SlotInv
<1> QED  BY <1>8, <1>9, <1>10

(* load leaves a description of the file it made behind.                   *)
LEMMA LeftBehind ==
  ASSUME TypeInv, SlotInv, LoadInv, Kept, NEW n \in Int \ {0}, n \notin DOMAIN nodes,
         DOMAIN nodes' = DOMAIN nodes \cup {n}, nodes'[n].type = "File", nodes'[n].by = "kernel",
         NEW new \in NewDescs(1), NEW v \in DescType, v.file = n, v.mode = Left,
         desc' = Fill(new, <<v>>), UNCHANGED <<proc, image>>, taken' \in Nat, pos' \in Nat
  PROVE  TypeInv' /\ SlotInv' /\ LoadInv'
<1> DEFINE d == new[1]
<1>1. d \in 1 .. MaxDesc /\ desc[d] = Free
  BY NewDescFacts
<1>2. /\ desc' = [e \in 1 .. MaxDesc |-> desc'[e]] /\ desc'[d] = v
      /\ \A e \in 1 .. MaxDesc : e # d => desc'[e] = desc[e]
  <2> DEFINE vals == <<v>>
             filled == Fill(new, vals)
  <2>1. vals[1] = v /\ 1 \in 1 .. 1 /\ (\A x \in 1 .. 1 : x = 1) /\ desc' = filled
    OBVIOUS
  <2> HIDE DEF vals
  <2>2. /\ filled = [e \in 1 .. MaxDesc |-> filled[e]]
        /\ \A x \in 1 .. 1 : filled[new[x]] = vals[x]
        /\ \A e \in 1 .. MaxDesc : (\A x \in 1 .. 1 : new[x] # e) => filled[e] = desc[e]
    <3>1. 1 \in Nat
      OBVIOUS
    <3> QED  BY <3>1, FillFacts
  <2> HIDE DEF filled
  <2>3. filled[d] = v
    BY <2>1, <2>2
  <2>4. \A e \in 1 .. MaxDesc : e # d => filled[e] = desc[e]
    BY <2>1, <2>2
  <2> QED  BY <2>1, <2>2, <2>3, <2>4
<1>3. v # Free
  BY FreeFacts
<1>4. /\ desc \in [1 .. MaxDesc -> DescType] /\ proc \in [Proc -> ProcType]
      /\ \A e \in 1 .. MaxDesc :
           desc[e] = Free \/ desc[e].file = Tty0 \/ IsFile(nodes, desc[e].file)
      /\ image \in Archives
  BY DEF TypeInv
<1>5. \A m : IsFile(nodes, m) => IsFile(nodes', m)
  BY DEF IsFile, Kept
<1>6. IsFile(nodes', n) /\ Loaded(nodes', n)
  BY DEF IsFile, Loaded
<1>7. \A m \in DOMAIN nodes : Loaded(nodes, m) <=> Loaded(nodes', m)
  BY DEF IsFile, Loaded, Kept
<1> HIDE DEF d
<1>8. TypeInv'
  <2>1. desc' \in [1 .. MaxDesc -> DescType]
    BY <1>2, <1>4
  <2>2. \A e \in 1 .. MaxDesc : desc'[e] = Free \/ desc'[e].file = Tty0 \/ IsFile(nodes', desc'[e].file)
    BY <1>2, <1>4, <1>5, <1>6
  <2> QED  BY <2>1, <2>2 DEF TypeInv
<1>9. \A e \in 1 .. MaxDesc : desc[e].mode = Left => desc[e].file \in DOMAIN nodes /\ e # d
  BY <1>1, FreeFacts DEF LoadInv, Loaded, IsFile
<1>10. LoadInv'
  <2>1. ASSUME NEW e \in 1 .. MaxDesc, desc'[e].mode = Left PROVE Loaded(nodes', desc'[e].file)
    <3>1. CASE e = d
      BY <1>2, <1>6, <3>1
    <3>2. CASE e # d
      BY <1>2, <1>7, <1>9, <2>1, <3>2 DEF LoadInv
    <3> QED  BY <3>1, <3>2
  <2>2. ASSUME NEW e \in 1 .. MaxDesc, NEW f \in 1 .. MaxDesc,
               desc'[e].mode = Left, desc'[f].mode = Left, desc'[e].file = desc'[f].file
        PROVE  e = f
    BY <1>2, <1>9, <2>2 DEF LoadInv
  <2>3. ASSUME NEW m \in DOMAIN nodes', Loaded(nodes', m)
        PROVE  \E e \in 1 .. MaxDesc : desc'[e].mode = Left /\ desc'[e].file = m
    <3>1. CASE m = n
      BY <1>1, <1>2, <3>1
    <3>2. CASE m # n
      <4>1. m \in DOMAIN nodes /\ Loaded(nodes, m)
        BY <1>7, <2>3, <3>2
      <4>2. PICK e \in 1 .. MaxDesc : desc[e].mode = Left /\ desc[e].file = m
        BY <4>1 DEF LoadInv
      <4> QED  BY <1>2, <1>9, <4>2
    <3> QED  BY <3>1, <3>2
  <2> QED  BY <2>1, <2>2, <2>3 DEF LoadInv
<1>11. SlotInv'
  <2>1. OneSlot'
    BY DEF SlotInv, OneSlot
  <2>2. ASSUME NEW o \in Proc, NEW j \in DOMAIN proc[o].fds, proc[o].fds[j] # Null
        PROVE  desc'[proc[o].fds[j]] # Free /\ desc'[proc[o].fds[j]].mode # Left
    <3>1. desc[proc[o].fds[j]] # Free /\ desc[proc[o].fds[j]].mode # Left
      BY <2>2 DEF SlotInv, SlotAlive
    <3>2. proc[o].fds[j] \in 1 .. MaxDesc
      <4>1. proc[o] \in ProcType
        BY <1>4
      <4>2. proc[o].fds \in Seq(0 .. MaxDesc)
        BY <4>1 DEF ProcType
      <4>3. proc[o].fds[j] \in 0 .. MaxDesc
        BY <4>2, SeqFacts
      <4> QED  BY <2>2, <4>3 DEF Null
    <3> QED  BY <1>1, <1>2, <3>1, <3>2
  <2>3. SlotAlive'
    BY <2>2 DEF SlotAlive
  <2>4. AliveInSlot'
    BY <1>2 DEF SlotInv, AliveInSlot
  <2> QED  BY <2>1, <2>3, <2>4 DEF SlotInv
<1> QED  BY <1>8, <1>10, <1>11
-----------------------------------------------------------------------------
(* The invariant                                                           *)

LEMMA RootFacts == RootNode \in NodeType /\ Filled(RootNode)
<1>1. /\ RootNode.name = "/" /\ RootNode.type = "Directory" /\ RootNode.fs = "null"
      /\ RootNode.parent = 0 /\ RootNode.children = <<>> /\ RootNode.data = <<>>
      /\ RootNode.by = "kernel" /\ RootNode.asked = <<>> /\ RootNode.written = <<>>
      /\ RootNode.grows = 0
  BY DEF RootNode, Null
<1>2. <<>> \in Seq(Nat) /\ <<>> \in Seq(Bit) /\ <<>> \in Seq(STRING)
  OBVIOUS
<1>3. RootNode \in NodeType
  BY <1>2 DEF RootNode, Null, NodeType
<1> QED  BY <1>1, <1>3 DEF Filled

LEMMA InitInv == Init => FilesInv
<1> SUFFICES ASSUME Init PROVE FilesInv
  OBVIOUS
<1>1. /\ nodes \in Seq(NodeType) /\ Len(nodes) = 1 /\ DOMAIN nodes = 1 .. 1 /\ nodes[1] = RootNode
  BY RootFacts DEF Init
<1>2. RootNode.children = <<>> /\ RootNode.type = "Directory" /\ RootNode.grows = 0 /\ RootNode.data = <<>>
  BY DEF RootNode
<1>3. \A n \in DOMAIN nodes : n = 1 /\ nodes[n] = RootNode
  BY <1>1
<1>4. Tree(nodes)
  <2>1. \A n \in DOMAIN nodes : n = Root /\ nodes[n].children = <<>>
    BY <1>2, <1>3 DEF Root
  <2>2. Root \in DOMAIN nodes
    BY <1>1 DEF Root
  <2> QED  BY <1>1, <2>1, <2>2 DEF Tree
<1>5. NodesInv
  BY <1>3, <1>4, RootFacts DEF NodesInv
<1>6. TakenInv
  <2>1. PagesIn(nodes, 1) = 0
    <3>1. Len(nodes[1].data) = 0
      BY <1>1, <1>2
    <3>2. 0 \div PageSize = 0
      BY FilesAssumption
    <3> QED  BY <3>1, <3>2 DEF PagesIn
  <2>2. \A n \in 1 .. Len(nodes) : PagesIn(nodes, n) \in Nat
    BY <1>1, <2>1
  <2>3. InUse(nodes) = Sums(nodes)[Len(nodes)] /\ Sums(nodes)[0] = 0
        /\ \A n \in 1 .. Len(nodes) : Sums(nodes)[n] = Sums(nodes)[n - 1] + PagesIn(nodes, n)
    <3>1. Len(nodes) \in Nat
      BY <1>1
    <3> QED  BY <2>2, <3>1, SumFacts
  <2>4. InUse(nodes) = 0
    BY <1>1, <2>1, <2>3
  <2>5. taken = 0 /\ \A n \in DOMAIN nodes : nodes[n].grows <= 1
    BY <1>2, <1>3 DEF Init
  <2> QED  BY <2>4, <2>5 DEF TakenInv
<1>7. \A d \in 1 .. MaxDesc : desc[d] = Free
  BY DEF Init
<1>8. \A p \in Proc : proc[p].st = "none" /\ proc[p].fds = <<>> /\ proc[p] \in ProcType
  <2>1. <<>> \in Seq(0 .. MaxDesc)
    OBVIOUS
  <2> QED  BY <2>1 DEF Init, Empty, ProcType
<1>9. TypeInv
  BY <1>7, <1>8, FreeFacts DEF Init, TypeInv, Archives
<1>10. SlotInv
  BY <1>7, <1>8 DEF SlotInv, OneSlot, SlotAlive, AliveInSlot
<1>11. LoadInv
  <2>1. \A n \in DOMAIN nodes : ~Loaded(nodes, n)
    BY <1>2, <1>3 DEF Loaded, IsFile
  <2> QED  BY <1>7, <2>1, FreeFacts DEF LoadInv
<1> QED  BY <1>5, <1>6, <1>9, <1>10, <1>11 DEF FilesInv

(* A step that leaves the tree and the frames alone.                       *)
LEMMA SameTree ==
  ASSUME NodesInv, TakenInv, UNCHANGED <<nodes, taken>>
  PROVE  NodesInv' /\ TakenInv' /\ Kept /\ Fresh
BY DEF NodesInv, TakenInv, Kept, Fresh

LEMMA SameState ==
  ASSUME FilesInv, UNCHANGED <<nodes, desc, proc, taken>>, image' \in Archives, pos' \in Nat
  PROVE  FilesInv'
<1>1. NodesInv' /\ TakenInv'
  BY SameTree DEF FilesInv
<1>2. SlotInv'
  BY DEF FilesInv, SlotInv, OneSlot, SlotAlive, AliveInSlot
<1>3. LoadInv'
  BY DEF FilesInv, LoadInv
<1>4. TypeInv'
  BY DEF FilesInv, TypeInv
<1> QED  BY <1>1, <1>2, <1>3, <1>4 DEF FilesInv

LEMMA HaltStep ==
  ASSUME FilesInv, NEW how, Halt(how) PROVE FilesInv'
<1>1. UNCHANGED <<nodes, desc, proc, taken, image, pos>> /\ pos \in Nat /\ image \in Archives
  BY DEF Halt, FilesInv, TypeInv
<1> QED  BY <1>1, SameState

LEMMA ModeFacts ==
  \A mode \in Modes : mode # Left /\ mode \in SUBSET {"READ", "WRITE", "CREATE"}
<1>1. "READ" \notin Left
  BY DEF Left
<1>2. \A mode \in Modes : "READ" \in mode /\ mode \in SUBSET {"READ", "WRITE", "CREATE"}
  BY DEF Modes
<1> QED  BY <1>1, <1>2

LEMMA GiveStep ==
  ASSUME FilesInv, NEW p \in Proc, proc[p].st = "run", NEW node \in Int, NEW mode \in Modes,
         NEW tree, NEW frames \in Nat, Give(p, node, mode, tree, frames),
         node = Tty0 \/ IsFile(tree, node), Kept, Fresh
  PROVE  TypeInv' /\ SlotInv' /\ LoadInv'
<1>1. TypeInv /\ SlotInv /\ LoadInv
  BY DEF FilesInv
<1> DEFINE v == Description(node, mode)
           vals == <<v>>
<1>2. PICK new \in NewDescs(1) :
        /\ desc' = Fill(new, vals)
        /\ proc' = [proc EXCEPT ![p].fds = Slot(@, new[1])]
  BY DEF Give
<1>3. nodes' = tree /\ taken' = frames /\ image' = image /\ pos' = pos
  BY DEF Give
<1>4. v \in DescType /\ v.mode # Left /\ v.file = node
  BY ModeFacts DEF Description, DescType
<1>5. \A x \in 1 .. 1 : vals[x] = v
  OBVIOUS
<1>6. /\ DOMAIN new = 1 .. 1 /\ new[1] \in 1 .. MaxDesc /\ desc[new[1]] = Free
  <2>1. 1 \in Nat /\ 1 \in 1 .. 1
    OBVIOUS
  <2>2. DOMAIN new = 1 .. 1 /\ \A x \in 1 .. 1 : new[x] \in 1 .. MaxDesc /\ desc[new[x]] = Free
    BY <2>1, NewDescFacts
  <2> QED  BY <2>1, <2>2
<1> DEFINE q == [proc[p] EXCEPT !.fds = Slot(@, new[1])]
<1>7. proc[p] \in ProcType /\ proc[p].prog \in Proc /\ proc' = [proc EXCEPT ![p] = q]
  BY <1>1, <1>2 DEF TypeInv
<1>8. proc[p].fds \in Seq(0 .. MaxDesc)
  BY <1>7 DEF ProcType
<1>9. \A j \in DOMAIN proc[p].fds : proc[p].fds[j] # new[1]
  <2>1. new[1] # Null
    BY <1>6 DEF Null
  <2> QED  BY <1>1, <1>6, <2>1 DEF SlotInv, SlotAlive
<1>10. Placed(Slot(proc[p].fds, new[1]), proc[p].fds, new)
  BY <1>6, <1>8, <1>9, SlotFacts
<1>11. Slot(proc[p].fds, new[1]) \in Seq(0 .. MaxDesc)
  BY <1>10 DEF Placed
<1>12. q \in ProcType /\ q.st = "run" /\ q.prog \in Proc /\ q.fds = Slot(proc[p].fds, new[1])
  BY <1>7, <1>11 DEF ProcType
<1> HIDE DEF q, v, vals
<1>13. \A x \in 1 .. 1 : /\ vals[x] \in DescType /\ vals[x].mode # Left
                         /\ vals[x].file = Tty0 \/ IsFile(nodes', vals[x].file)
  BY <1>3, <1>4, <1>5
<1>14. Placed(q.fds, proc[p].fds, new)
  BY <1>10, <1>12
<1>15. taken' \in Nat /\ 1 \in Nat
  BY <1>3
<1> QED  BY <1>1, <1>2, <1>3, <1>7, <1>12, <1>13, <1>14, <1>15, Handed
(* A step that leaves the descriptions and the slots alone.                *)
LEMMA SameDescs ==
  ASSUME TypeInv, SlotInv, LoadInv, Kept, Fresh, UNCHANGED <<desc, proc, image>>,
         taken' \in Nat, pos' \in Nat
  PROVE  TypeInv' /\ SlotInv' /\ LoadInv'
<1>1. SlotInv'
  BY DEF SlotInv, OneSlot, SlotAlive, AliveInSlot
<1>2. LoadInv'
  BY LoadKept
<1>3. TypeInv'
  <2>1. \A n : IsFile(nodes, n) => IsFile(nodes', n)
    BY DEF IsFile, Kept
  <2>2. \A d \in 1 .. MaxDesc : desc[d] = Free \/ desc[d].file = Tty0 \/ IsFile(nodes', desc[d].file)
    BY <2>1 DEF TypeInv
  <2> QED  BY <2>2 DEF TypeInv
<1> QED  BY <1>1, <1>2, <1>3

(* A new node, with the frames for its pages.                              *)
LEMMA InsertStep ==
  ASSUME NodesInv, TakenInv, taken \in Nat,
         NEW node \in NodeType, node.parent \in DOMAIN nodes, node.children = <<>>,
         node.type = "File" => nodes[node.parent].type = "Directory",
         Filled(node), node.grows <= 1,
         nodes' = Insert(node), taken' = taken + (Len(node.data) \div PageSize)
  PROVE  /\ NodesInv' /\ TakenInv' /\ Kept /\ taken' \in Nat
         /\ DOMAIN nodes' = DOMAIN nodes \cup {Len(nodes) + 1} /\ nodes'[Len(nodes) + 1] = node
         /\ Len(nodes) + 1 \notin DOMAIN nodes /\ Len(nodes) + 1 \in Int \ {0}
         /\ ~(node.type = "File" /\ node.by = "kernel") => Fresh
<1> DEFINE ns == Insert(node)
           w == Len(node.data) \div PageSize
<1>1. /\ Tree(ns) /\ \A n \in DOMAIN ns : Filled(ns[n])
      /\ InUse(ns) = InUse(nodes) + w
      /\ (\A n \in DOMAIN ns : ns[n].grows <= 1) <=> (\A n \in DOMAIN nodes : nodes[n].grows <= 1)
      /\ DOMAIN ns = DOMAIN nodes \cup {Len(nodes) + 1} /\ ns[Len(nodes) + 1] = node
      /\ \A n \in DOMAIN nodes : ns[n].type = nodes[n].type /\ ns[n].by = nodes[n].by
  BY InsertKeeps
<1>2. w \in Nat
  BY PagesNat
<1>3. InUse(nodes) \in Nat
  <2>1. Len(nodes) \in Nat /\ \A n \in 1 .. Len(nodes) : PagesIn(nodes, n) \in Nat
    BY NodesFacts
  <2> QED  BY <2>1, SumFacts
<1>4. Len(nodes) \in Nat /\ DOMAIN nodes = 1 .. Len(nodes)
  BY NodesFacts
<1> HIDE DEF ns, w
<1>5. nodes' = ns /\ taken' = taken + w
  BY DEF ns, w
<1>6. NodesInv'
  BY <1>1, <1>5 DEF NodesInv
<1>7. TakenInv'
  <2>1. InUse(nodes)' = InUse(nodes) + w
    BY <1>1, <1>5 DEF InUse
  <2>2. taken + w >= InUse(nodes) + w /\ (taken + w = InUse(nodes) + w <=> taken = InUse(nodes))
    BY <1>2, <1>3 DEF TakenInv
  <2> QED  BY <1>1, <1>5, <2>1, <2>2 DEF TakenInv
<1>8. Kept
  BY <1>1, <1>5 DEF Kept
<1>9. Len(nodes) + 1 \notin DOMAIN nodes /\ Len(nodes) + 1 \in Int \ {0}
  BY <1>4
<1>10. ~(node.type = "File" /\ node.by = "kernel") => Fresh
  BY <1>1, <1>5 DEF Fresh
<1>11. taken' \in Nat
  BY <1>2, <1>5
<1> QED  BY <1>1, <1>5, <1>6, <1>7, <1>8, <1>9, <1>10, <1>11

LEMMA EntryFacts ==
  ASSUME FilesInv, pos \in DOMAIN image
  PROVE  /\ Entry.type \in EntryTypes /\ Entry.size \in 0 .. MaxOffset
         /\ EntryPath \in [abs : BOOLEAN, names : Seq(STRING)] /\ EntryPath.abs
         /\ EntryNode \in DOMAIN nodes \cup {Null} /\ DOMAIN nodes \subseteq Nat
<1> DEFINE T == [type : EntryTypes, names : Seq(STRING), size : 0 .. MaxOffset]
<1>1. image \in Seq(T)
  BY PathsAssumption DEF FilesInv, TypeInv
<1>2. Entry \in T
  <2> HIDE DEF T
  <2> QED  BY <1>1, SeqFacts DEF Entry
<1>3. Entry.type \in EntryTypes /\ Entry.size \in 0 .. MaxOffset /\ Entry.names \in Seq(STRING)
  BY <1>2
<1>4. EntryPath \in [abs : BOOLEAN, names : Seq(STRING)] /\ EntryPath.abs
  BY <1>3 DEF EntryPath
<1>5. Tree(nodes) /\ DOMAIN nodes \subseteq Nat
  BY NodesFacts DEF FilesInv, NodesInv
<1>6. EntryNode \in DOMAIN nodes \cup {Null}
  BY <1>4, <1>5, LookupEnds DEF EntryNode
<1> QED  BY <1>3, <1>4, <1>5, <1>6

LEMMA LoadDirectoryStep ==
  ASSUME FilesInv, LoadDirectory PROVE FilesInv'
<1>1. /\ pos \in DOMAIN image /\ pos' = pos + 1 /\ UNCHANGED <<image, desc, proc, taken>>
      /\ nodes' = IF EntryNode # Null /\ CanMkdir(EntryPath, EntryNode)
                  THEN Insert(NewNode(EntryPath, "Directory", EntryNode, "kernel")) ELSE nodes
  BY DEF LoadDirectory, Loading
<1>2. NodesInv /\ TypeInv /\ SlotInv /\ LoadInv /\ TakenInv /\ taken \in Nat /\ pos' \in Nat
      /\ image \in Archives
  BY <1>1 DEF FilesInv, TypeInv
<1>3. CASE nodes' = nodes
  BY <1>1, <1>2, <1>3, SameState
<1>4. CASE EntryNode # Null /\ nodes' = Insert(NewNode(EntryPath, "Directory", EntryNode, "kernel"))
  <2> DEFINE r == NewNode(EntryPath, "Directory", EntryNode, "kernel")
  <2>1. EntryNode \in DOMAIN nodes /\ EntryNode \in Nat /\ EntryPath \in [abs : BOOLEAN, names : Seq(STRING)]
    BY <1>1, <1>4, EntryFacts
  <2>2. /\ r \in NodeType /\ Filled(r) /\ r.type = "Directory" /\ r.parent = EntryNode
        /\ r.children = <<>> /\ r.grows = 0
    BY <2>1, NewNodeFacts
  <2> HIDE DEF r
  <2>3. Len(r.data) \div PageSize = 0
    BY <2>2, PagesNat
  <2>4. nodes' = Insert(r) /\ taken' = taken + (Len(r.data) \div PageSize) /\ r.grows <= 1
    BY <1>1, <1>2, <1>4, <2>2, <2>3 DEF r
  <2>5. NodesInv' /\ TakenInv' /\ Kept /\ taken' \in Nat /\ Fresh
    BY <1>2, <2>1, <2>2, <2>4, InsertStep
  <2>6. TypeInv' /\ SlotInv' /\ LoadInv'
    BY <1>1, <1>2, <2>5, SameDescs
  <2> QED  BY <2>5, <2>6 DEF FilesInv
<1> QED  BY <1>1, <1>3, <1>4

LEMMA LoadFileStep ==
  ASSUME FilesInv, LoadFile PROVE FilesInv'
<1> DEFINE pages == DIV_CEIL(Entry.size, PageSize)
           big == Entry.size > PageSize
           n == NewNode(EntryPath, "File", EntryNode, "kernel")
           r == [n EXCEPT
                   !.data = Overwrite(Zeros(IF big THEN pages * PageSize ELSE PageSize), 0, Entry.size),
                   !.written = Overwrite(@, 0, Entry.size), !.grows = IF big THEN 1 ELSE 0]
           v == Description(Len(nodes) + 1, {"CREATE"})
<1>1. /\ pos \in DOMAIN image /\ pos' = pos + 1 /\ UNCHANGED <<image, proc>>
      /\ EntryNode # Null /\ CanCreate(EntryPath, EntryNode)
      /\ nodes' = Insert(r) /\ taken' = taken + IF big THEN pages ELSE 1
      /\ \E new \in NewDescs(1) : desc' = Fill(new, <<v>>)
  BY DEF LoadFile, Loading
<1>2. NodesInv /\ TypeInv /\ SlotInv /\ LoadInv /\ TakenInv /\ taken \in Nat /\ pos' \in Nat
  BY <1>1 DEF FilesInv, TypeInv
<1>3. /\ EntryNode \in DOMAIN nodes /\ EntryNode \in Nat /\ Entry.size \in 0 .. MaxOffset
      /\ EntryPath \in [abs : BOOLEAN, names : Seq(STRING)]
  BY <1>1, EntryFacts
<1>4. /\ n \in NodeType /\ n.type = "File" /\ n.parent = EntryNode /\ n.children = <<>>
      /\ n.by = "kernel" /\ n.written = Zeros(MaxOffset)
  BY <1>3, NewNodeFacts
<1> HIDE DEF n
<1>5. /\ r \in NodeType /\ Filled(r) /\ r.type = "File" /\ r.parent = EntryNode /\ r.children = <<>>
      /\ r.by = "kernel" /\ r.grows <= 1
      /\ Len(r.data) \div PageSize = IF big THEN pages ELSE 1
  BY <1>3, <1>4, LoadedFacts
<1> HIDE DEF r
<1>6. nodes[EntryNode].type = "Directory"
  BY <1>1 DEF CanCreate
<1>7. taken' = taken + (Len(r.data) \div PageSize)
  BY <1>1, <1>5
<1>8. /\ NodesInv' /\ TakenInv' /\ Kept /\ taken' \in Nat
      /\ DOMAIN nodes' = DOMAIN nodes \cup {Len(nodes) + 1} /\ nodes'[Len(nodes) + 1] = r
      /\ Len(nodes) + 1 \notin DOMAIN nodes /\ Len(nodes) + 1 \in Int \ {0}
  BY <1>1, <1>2, <1>3, <1>5, <1>6, <1>7, InsertStep
<1>9. v \in DescType /\ v.file = Len(nodes) + 1 /\ v.mode = Left
  BY <1>8 DEF Description, DescType, Left
<1> HIDE DEF v
<1>10. PICK new \in NewDescs(1) : desc' = Fill(new, <<v>>)
  BY <1>1
<1>11. TypeInv' /\ SlotInv' /\ LoadInv'
  BY <1>1, <1>2, <1>5, <1>8, <1>9, <1>10, LeftBehind
<1> QED  BY <1>8, <1>11 DEF FilesInv
LEMMA PlacedFirst ==
  ASSUME NEW k \in Nat, NEW new \in NewDescs(k)
  PROVE  Placed(new, <<>>, new)
<1>1. /\ new \in Seq(1 .. MaxDesc) /\ Len(new) = k /\ DOMAIN new = 1 .. k
      /\ \A x \in 1 .. k : new[x] \in 1 .. MaxDesc
      /\ \A x, y \in 1 .. k : new[x] = new[y] => x = y
  BY NewDescFacts
<1>2. new \in Seq(0 .. MaxDesc)
  <2>1. new \in [1 .. k -> 0 .. MaxDesc]
    BY <1>1
  <2> QED  BY <2>1, FunSeq
<1> QED  BY <1>1, <1>2 DEF Placed

LEMMA StartProgramStep ==
  ASSUME FilesInv, NEW p \in Proc, StartProgram(p) PROVE FilesInv'
<1> DEFINE values == [x \in 1 .. 3 |-> Description(Tty0, Std[x])]
           Started(new) == /\ desc' = Fill(new, values)
                           /\ proc' = [proc EXCEPT ![p] = [st |-> "run", prog |-> p, fds |-> new]]
<1>1. /\ proc[p].st = "none"
      /\ \/ Halt("lost") \/ Halt("halted")
         \/ (\E new \in NewDescs(3) : Started(new)) /\ UNCHANGED <<nodes, taken, image, pos>>
  BY DEF StartProgram
<1>2. CASE Halt("lost") \/ Halt("halted")
  BY <1>2, HaltStep
<1>3. CASE (\E new \in NewDescs(3) : Started(new)) /\ UNCHANGED <<nodes, taken, image, pos>>
  <2>1. PICK new \in NewDescs(3) : Started(new)
    BY <1>3
  <2> DEFINE q == [st |-> "run", prog |-> p, fds |-> new]
  <2>2. NodesInv /\ TypeInv /\ SlotInv /\ LoadInv /\ TakenInv /\ taken \in Nat
    BY DEF FilesInv, TypeInv
  <2>3. NodesInv' /\ TakenInv' /\ Kept /\ Fresh
    BY <1>3, <2>2, SameTree
  <2>4. proc[p].fds = <<>> /\ 3 \in Nat
    BY <1>1, <2>2 DEF TypeInv
  <2>5. Placed(new, proc[p].fds, new) /\ new \in Seq(0 .. MaxDesc)
    <3>1. Placed(new, <<>>, new)
      BY <2>4, PlacedFirst
    <3> QED  BY <2>4, <3>1 DEF Placed
  <2>6. q \in ProcType /\ q.st = "run" /\ q.prog \in Proc /\ q.fds = new
    BY <2>5 DEF ProcType
  <2>7. \A x \in 1 .. 3 : Std[x] # Left /\ Std[x] \in SUBSET {"READ", "WRITE", "CREATE"}
    <3>1. Std[1] = {"WRITE"} /\ Std[2] = {"READ"} /\ Std[3] = {"WRITE"}
      BY DEF Std
    <3>2. {"WRITE"} # Left /\ {"READ"} # Left
      BY DEF Left
    <3>3. \A x \in 1 .. 3 : x = 1 \/ x = 2 \/ x = 3
      OBVIOUS
    <3> QED  BY <3>1, <3>2, <3>3
  <2>8. \A x \in 1 .. 3 : /\ values[x] \in DescType /\ values[x].mode # Left
                          /\ values[x].file = Tty0 \/ IsFile(nodes', values[x].file)
    BY <2>7 DEF Description, DescType, Tty0
  <2>9. desc' = Fill(new, values) /\ proc' = [proc EXCEPT ![p] = q]
        /\ taken' \in Nat /\ image' = image /\ pos' = pos
    BY <1>3, <2>1, <2>2
  <2> HIDE DEF values, q
  <2>10. Placed(q.fds, proc[p].fds, new)
    BY <2>5, <2>6
  <2>11. TypeInv' /\ SlotInv' /\ LoadInv'
    BY <2>2, <2>3, <2>4, <2>6, <2>8, <2>9, <2>10, Handed
  <2> QED  BY <2>3, <2>11 DEF FilesInv
<1> QED  BY <1>1, <1>2, <1>3

LEMMA OpenDeviceStep ==
  ASSUME FilesInv, NEW p \in Proc, NEW path \in Paths, NEW mode \in Modes, OpenDevice(p, path, mode)
  PROVE  FilesInv'
<1>1. /\ proc[p].st = "run" /\ DevfsNode(path) = Tty0
      /\ Give(p, DevfsNode(path), mode, nodes, taken)
  BY DEF OpenDevice, Running, DevfsNode
<1>2. NodesInv /\ TakenInv /\ taken \in Nat /\ Tty0 \in Int
  BY DEF FilesInv, TypeInv, Tty0
<1>3. UNCHANGED <<nodes, taken>>
  BY <1>1 DEF Give
<1>4. NodesInv' /\ TakenInv' /\ Kept /\ Fresh
  BY <1>2, <1>3, SameTree
<1>5. TypeInv' /\ SlotInv' /\ LoadInv'
  BY <1>1, <1>2, <1>4, GiveStep
<1> QED  BY <1>4, <1>5 DEF FilesInv

LEMMA FoundFacts ==
  ASSUME FilesInv, NEW p \in Proc, NEW path \in Paths, Found(p, path)
  PROVE  /\ proc[p].st = "run" /\ path_to_node(path, Null).node \in DOMAIN nodes
         /\ path \in [abs : BOOLEAN, names : Seq(STRING)] /\ DOMAIN nodes \subseteq Nat
<1>1. /\ proc[p].st = "run" /\ path.abs /\ path_to_node(path, Null).node # Null
  BY DEF Found, Running
<1>2. path \in [abs : BOOLEAN, names : Seq(STRING)]
  BY PathsAssumption
<1>3. Tree(nodes) /\ DOMAIN nodes \subseteq Nat
  BY NodesFacts DEF FilesInv, NodesInv
<1>4. path_to_node(path, Null).node \in DOMAIN nodes \cup {Null}
  BY <1>1, <1>2, <1>3, LookupEnds
<1> QED  BY <1>1, <1>2, <1>3, <1>4

LEMMA OpenFileStep ==
  ASSUME FilesInv, NEW p \in Proc, NEW path \in Paths, NEW mode \in Modes, OpenFile(p, path, mode)
  PROVE  FilesInv'
<1> DEFINE node == path_to_node(path, Null).node
<1>1. Found(p, path) /\ CanOpen(path, node) /\ Give(p, node, mode, nodes, taken)
  BY DEF OpenFile
<1>2. proc[p].st = "run" /\ node \in DOMAIN nodes /\ node \in Int
  BY <1>1, FoundFacts
<1>3. IsFile(nodes, node)
  BY <1>1, <1>2 DEF CanOpen, IsFile
<1> HIDE DEF node
<1>4. NodesInv /\ TakenInv /\ taken \in Nat
  BY DEF FilesInv, TypeInv
<1>5. UNCHANGED <<nodes, taken>>
  BY <1>1 DEF Give
<1>6. NodesInv' /\ TakenInv' /\ Kept /\ Fresh
  BY <1>4, <1>5, SameTree
<1>7. TypeInv' /\ SlotInv' /\ LoadInv'
  BY <1>1, <1>2, <1>3, <1>4, <1>6, GiveStep
<1> QED  BY <1>6, <1>7 DEF FilesInv

LEMMA OpenCreateStep ==
  ASSUME FilesInv, NEW p \in Proc, NEW path \in Paths, NEW mode \in Modes, OpenCreate(p, path, mode)
  PROVE  FilesInv'
<1> DEFINE node == path_to_node(path, Null).node
           r == NewNode(path, "File", node, proc[p].prog)
<1>1. /\ Found(p, path) /\ CanCreate(path, node)
      /\ Halt("lost") \/ Give(p, Len(nodes) + 1, mode, Insert(r), taken + 1)
  BY DEF OpenCreate
<1>2. CASE Halt("lost")
  BY <1>2, HaltStep
<1>3. CASE Give(p, Len(nodes) + 1, mode, Insert(r), taken + 1)
  <2>1. /\ proc[p].st = "run" /\ node \in DOMAIN nodes /\ node \in Nat
        /\ path \in [abs : BOOLEAN, names : Seq(STRING)] /\ nodes[node].type = "Directory"
    BY <1>1, FoundFacts DEF CanCreate
  <2>2. NodesInv /\ TakenInv /\ TypeInv /\ taken \in Nat /\ taken + 1 \in Nat
    BY DEF FilesInv, TypeInv
  <2>3. proc[p].prog \in Proc /\ proc[p].prog # "kernel"
    <3>1. proc[p].prog \in Proc
      BY <2>1, <2>2 DEF TypeInv
    <3> QED  BY <3>1, FilesAssumption
  <2> HIDE DEF node
  <2>4. /\ r \in NodeType /\ Filled(r) /\ r.type = "File" /\ r.parent = node /\ r.children = <<>>
        /\ r.by = proc[p].prog /\ r.grows = 0
    BY <2>1, <2>3, NewNodeFacts
  <2> HIDE DEF r
  <2>5. Len(r.data) \div PageSize = 1
    BY <2>4, PagesNat
  <2>6. nodes' = Insert(r) /\ taken' = taken + (Len(r.data) \div PageSize) /\ r.grows <= 1
    BY <1>3, <2>4, <2>5 DEF Give
  <2>7. /\ NodesInv' /\ TakenInv' /\ Kept
        /\ DOMAIN nodes' = DOMAIN nodes \cup {Len(nodes) + 1} /\ nodes'[Len(nodes) + 1] = r
        /\ Len(nodes) + 1 \in Int /\ Fresh
    BY <2>1, <2>2, <2>3, <2>4, <2>6, InsertStep
  <2>8. IsFile(Insert(r), Len(nodes) + 1)
    BY <2>4, <2>6, <2>7 DEF IsFile
  <2>9. TypeInv' /\ SlotInv' /\ LoadInv'
    BY <1>3, <2>1, <2>2, <2>7, <2>8, GiveStep
  <2> QED  BY <2>7, <2>9 DEF FilesInv
<1> QED  BY <1>1, <1>2, <1>3

(* A descriptor that a call may use.                                       *)
LEMMA SlotUsed ==
  ASSUME FilesInv, NEW p \in Proc, NEW fd \in 0 .. MaxDesc - 1, InBounds(proc[p].fds, fd),
         At(proc[p].fds, fd) # Null
  PROVE  /\ proc[p] \in ProcType /\ proc[p].fds \in Seq(0 .. MaxDesc) /\ fd + 1 \in DOMAIN proc[p].fds
         /\ At(proc[p].fds, fd) = proc[p].fds[fd + 1]
         /\ At(proc[p].fds, fd) \in 1 .. MaxDesc /\ desc[At(proc[p].fds, fd)] # Free
         /\ desc[At(proc[p].fds, fd)] \in DescType
         /\ \/ desc[At(proc[p].fds, fd)].file = Tty0
            \/ IsFile(nodes, desc[At(proc[p].fds, fd)].file)
<1> DEFINE d == At(proc[p].fds, fd)
<1>1. /\ proc[p] \in ProcType /\ desc \in [1 .. MaxDesc -> DescType]
      /\ \A e \in 1 .. MaxDesc :
           desc[e] = Free \/ desc[e].file = Tty0 \/ IsFile(nodes, desc[e].file)
  BY DEF FilesInv, TypeInv
<1>2. proc[p].fds \in Seq(0 .. MaxDesc)
  BY <1>1 DEF ProcType
<1>3. d = proc[p].fds[fd + 1]
  BY DEF At
<1>4. fd + 1 \in DOMAIN proc[p].fds /\ d \in 0 .. MaxDesc
  <2>1. /\ Len(proc[p].fds) \in Nat /\ DOMAIN proc[p].fds = 1 .. Len(proc[p].fds)
        /\ \A k \in DOMAIN proc[p].fds : proc[p].fds[k] \in 0 .. MaxDesc
    BY <1>2, SeqFacts
  <2>2. fd >= 0 /\ fd < Len(proc[p].fds)
    BY DEF InBounds, Size
  <2>3. fd + 1 \in DOMAIN proc[p].fds
    BY <2>1, <2>2
  <2> QED  BY <1>3, <2>1, <2>3
<1>5. d \in 1 .. MaxDesc
  <2> HIDE DEF d
  <2>1. d # 0
    BY DEF d, Null
  <2> QED  BY <1>4, <2>1
<1>6. desc[d] # Free
  BY <1>3, <1>4 DEF FilesInv, SlotInv, SlotAlive
<1> QED  BY <1>1, <1>2, <1>3, <1>4, <1>5, <1>6

LEMMA ReadStep ==
  ASSUME FilesInv, NEW p \in Proc, NEW fd \in 0 .. MaxDesc - 1, NEW size \in Sizes, Read(p, fd, size)
  PROVE  FilesInv'
<1> DEFINE d == At(proc[p].fds, fd)
<1>1. /\ InBounds(proc[p].fds, fd) /\ d # Null /\ Advance(d, size)
      /\ UNCHANGED <<nodes, proc, taken, image, pos>>
  BY DEF Read, Usable
<1>2. d \in 1 .. MaxDesc /\ desc[d] # Free
  BY <1>1, SlotUsed
<1> HIDE DEF d
<1>3. desc' = [desc EXCEPT ![d].offset = @ + size] /\ size \in Nat
  BY <1>1, FilesAssumption DEF Advance
<1>4. NodesInv /\ TakenInv /\ TypeInv /\ SlotInv /\ LoadInv /\ taken \in Nat
  BY DEF FilesInv, TypeInv
<1>5. NodesInv' /\ TakenInv' /\ Kept /\ Fresh
  BY <1>1, <1>4, SameTree
<1>6. taken' \in Nat /\ UNCHANGED <<proc, image, pos>>
  BY <1>1, <1>4
<1>7. TypeInv' /\ SlotInv' /\ LoadInv'
  BY <1>2, <1>3, <1>4, <1>5, <1>6, Advanced
<1> QED  BY <1>5, <1>7 DEF FilesInv
(* Frames are lost, and only then, by a write that lets a file grow again. *)
LEMMA WriteStep ==
  ASSUME FilesInv, NEW p \in Proc, NEW fd \in 0 .. MaxDesc - 1, NEW size \in Sizes, Write(p, fd, size)
  PROVE  FilesInv'
<1> DEFINE d == At(proc[p].fds, fd)
           n == desc[d].file
           at == desc[d].offset
<1>1. /\ InBounds(proc[p].fds, fd) /\ d # Null
      /\ IF n = Tty0
         THEN Advance(d, size) /\ UNCHANGED <<nodes, proc, taken, image, pos, core>>
         ELSE IF ~Fits(n, at, size) THEN Halt("lost")
         ELSE /\ Advance(d, size)
              /\ nodes' = [nodes EXCEPT ![n] = WriteNode(n, at, size)]
              /\ taken' = FramesAfter(n, at, size)
              /\ UNCHANGED <<image, proc, pos, core>>
  BY DEF Write, Usable
<1>2. /\ d \in 1 .. MaxDesc /\ desc[d] # Free /\ desc[d] \in DescType
      /\ n = Tty0 \/ IsFile(nodes, n)
  BY <1>1, SlotUsed
<1> HIDE DEF d
<1>3. at \in Nat /\ size \in Nat
  BY <1>2, FilesAssumption DEF DescType
<1>4. NodesInv /\ TakenInv /\ TypeInv /\ SlotInv /\ LoadInv /\ taken \in Nat
  BY DEF FilesInv, TypeInv
<1>5. CASE n = Tty0
  <2>1. /\ desc' = [desc EXCEPT ![d].offset = @ + size]
        /\ UNCHANGED <<nodes, proc, taken, image, pos>>
    BY <1>1, <1>5 DEF Advance
  <2>2. NodesInv' /\ TakenInv' /\ Kept /\ Fresh
    BY <1>4, <2>1, SameTree
  <2>3. taken' \in Nat /\ UNCHANGED <<proc, image, pos>>
    BY <1>4, <2>1
  <2>4. TypeInv' /\ SlotInv' /\ LoadInv'
    BY <1>2, <1>3, <1>4, <2>1, <2>2, <2>3, Advanced
  <2> QED  BY <2>2, <2>4 DEF FilesInv
<1>6. CASE Halt("lost")
  BY <1>6, HaltStep
<1>7. CASE /\ n # Tty0 /\ Advance(d, size)
           /\ nodes' = [nodes EXCEPT ![n] = WriteNode(n, at, size)]
           /\ taken' = FramesAfter(n, at, size)
           /\ UNCHANGED <<image, proc, pos>>
  <2>1. desc' = [desc EXCEPT ![d].offset = @ + size] /\ at + size <= MaxOffset
    BY <1>7 DEF Advance
  <2> DEFINE r == WriteNode(n, at, size)
             new == Len(r.data) \div PageSize
             more == PagesFor(at, size)
             grow == Grows(n, at, size)
  <2>2. n \in DOMAIN nodes /\ nodes[n].type = "File"
    BY <1>2, <1>7 DEF IsFile
  <2> HIDE DEF n, at
  <2>3. nodes[n] \in NodeType /\ Filled(nodes[n]) /\ PagesIn(nodes, n) \in Nat /\ Tree(nodes)
    BY <1>4, <2>2, NodesFacts DEF NodesInv
  <2>4. /\ r \in NodeType /\ Filled(r) /\ r.type = "File" /\ r.parent = nodes[n].parent
        /\ r.children = nodes[n].children /\ r.by = nodes[n].by
        /\ more \in Nat
        /\ grow => /\ new = more /\ more >= 2
                   /\ r.grows = IF nodes[n].grows < 2 THEN nodes[n].grows + 1 ELSE 2
        /\ ~grow => Len(r.data) = Len(nodes[n].data) /\ r.grows = nodes[n].grows
    BY <1>3, <2>1, <2>2, <2>3, WriteFacts
  <2> DEFINE ns == [nodes EXCEPT ![n] = r]
  <2>5. nodes' = ns /\ \A m \in DOMAIN nodes : ns[m] = IF m = n THEN r ELSE nodes[m]
    BY <1>7
  <2> HIDE DEF r
  <2>6. /\ Tree(ns) /\ \A m \in DOMAIN ns : Filled(ns[m])
        /\ InUse(ns) = InUse(nodes) + new - PagesIn(nodes, n)
        /\ DOMAIN ns = DOMAIN nodes
        /\ \A m \in DOMAIN nodes : ns[m].type = nodes[m].type /\ ns[m].by = nodes[m].by
    BY <1>4, <2>2, <2>3, <2>4, WriteKeeps
  <2>7. taken' = IF grow THEN taken + more - 1 ELSE taken
    <3>1. SizeOf(n) = PageSize /\ DIV_CEIL(PageSize, PageSize) = 1
      BY <2>2, DivCeil, FilesAssumption DEF SizeOf
    <3> QED  BY <1>7, <3>1 DEF FramesAfter
  <2> HIDE DEF ns, grow, more
  <2>8. NodesInv' /\ Kept /\ Fresh
    BY <2>5, <2>6 DEF NodesInv, Kept, Fresh
  <2>9. InUse(nodes)' = InUse(ns)
    BY <2>5 DEF InUse
  <2>10. InUse(nodes) \in Nat /\ taken >= InUse(nodes)
         /\ (taken = InUse(nodes) <=> \A m \in DOMAIN nodes : nodes[m].grows <= 1)
    <3>1. Len(nodes) \in Nat /\ \A m \in 1 .. Len(nodes) : PagesIn(nodes, m) \in Nat
      BY <1>4, NodesFacts
    <3>2. InUse(nodes) \in Nat
      BY <3>1, SumFacts
    <3> QED  BY <1>4, <3>2 DEF TakenInv
  <2>11. nodes[n].grows \in 0 .. 2 /\ new \in Nat
    BY <2>3, <2>4, PagesNat DEF NodeType
  <2>12. /\ nodes[n].grows = 0 => PagesIn(nodes, n) = 1
         /\ nodes[n].grows # 0 => PagesIn(nodes, n) >= 2
    BY <2>2, <2>3, PagesNat DEF PagesIn
  <2>13. taken' \in Nat /\ taken' >= InUse(ns)
         /\ (taken' = InUse(ns) <=> \A m \in DOMAIN ns : ns[m].grows <= 1)
    <3>1. CASE ~grow
      <4>1. new = PagesIn(nodes, n) /\ r.grows = nodes[n].grows
        BY <2>4, <3>1 DEF PagesIn
      <4>2. InUse(ns) = InUse(nodes) /\ taken' = taken
        BY <2>3, <2>6, <2>7, <2>10, <3>1, <4>1
      <4>3. \A m \in DOMAIN nodes : ns[m].grows = nodes[m].grows
        BY <2>5, <4>1
      <4> QED  BY <1>4, <2>6, <2>10, <4>2, <4>3
    <3>2. CASE grow /\ nodes[n].grows = 0
      <4>1. r.grows = 1 /\ new = more /\ PagesIn(nodes, n) = 1 /\ more \in Nat /\ more >= 2
        BY <2>4, <2>12, <3>2
      <4>2. InUse(ns) = InUse(nodes) + more - 1 /\ taken' = taken + more - 1
        BY <2>6, <2>7, <3>2, <4>1
      <4>3. (\A m \in DOMAIN nodes : ns[m].grows <= 1) <=> (\A m \in DOMAIN nodes : nodes[m].grows <= 1)
        BY <2>2, <2>5, <3>2, <4>1
      <4>4. taken' \in Nat /\ taken' >= InUse(ns) /\ (taken' = InUse(ns) <=> taken = InUse(nodes))
        BY <1>4, <2>10, <4>1, <4>2
      <4> QED  BY <2>6, <2>10, <4>3, <4>4
    <3>3. CASE grow /\ nodes[n].grows # 0
      <4>1. r.grows = 2 /\ new = more /\ PagesIn(nodes, n) >= 2 /\ more \in Nat /\ more >= 2
        BY <2>4, <2>11, <2>12, <3>3
      <4>2. InUse(ns) = InUse(nodes) + more - PagesIn(nodes, n) /\ taken' = taken + more - 1
        BY <2>6, <2>7, <3>3, <4>1
      <4>3. ns[n].grows = 2 /\ n \in DOMAIN ns
        BY <2>2, <2>5, <2>6, <4>1
      <4>4. taken' \in Nat /\ taken' > InUse(ns)
        BY <1>4, <2>3, <2>10, <4>1, <4>2
      <4>5. InUse(ns) \in Int
        BY <2>3, <2>10, <4>1, <4>2
      <4> QED  BY <4>3, <4>4, <4>5
    <3> QED  BY <3>1, <3>2, <3>3
  <2>14. TakenInv'
    BY <2>5, <2>9, <2>13 DEF TakenInv
  <2>15. UNCHANGED <<proc, image, pos>>
    BY <1>7
  <2>16. TypeInv' /\ SlotInv' /\ LoadInv'
    BY <1>2, <1>3, <1>4, <2>1, <2>8, <2>13, <2>15, Advanced
  <2> QED  BY <2>8, <2>14, <2>16 DEF FilesInv
<1> QED  BY <1>1, <1>5, <1>6, <1>7

LEMMA CloseStep ==
  ASSUME FilesInv, NEW p \in Proc, NEW fd \in 0 .. MaxDesc - 1, Close(p, fd)
  PROVE  FilesInv'
<1> DEFINE d == At(proc[p].fds, fd)
           old == proc[p].fds
           F == Put(old, fd, Null)
           q == [proc[p] EXCEPT !.fds = F]
<1>1. /\ proc[p].st = "run" /\ InBounds(proc[p].fds, fd) /\ d # Null
      /\ desc' = [desc EXCEPT ![d] = Free]
      /\ proc' = [proc EXCEPT ![p].fds = Put(@, fd, Null)]
      /\ UNCHANGED <<nodes, taken, image, pos>>
  BY DEF Close, Running
<1>2. NodesInv /\ TakenInv /\ TypeInv /\ SlotInv /\ LoadInv
  BY DEF FilesInv
<1>3. /\ proc[p] \in ProcType /\ old \in Seq(0 .. MaxDesc) /\ fd + 1 \in DOMAIN old
      /\ d = old[fd + 1] /\ d \in 1 .. MaxDesc
  BY <1>1, SlotUsed
<1>4. proc' = [proc EXCEPT ![p] = q] /\ proc[p].prog \in Proc
  BY <1>1, <1>2 DEF TypeInv
<1>5. F = [old EXCEPT ![fd + 1] = Null] /\ Null \in 0 .. MaxDesc
  <2>1. MaxDesc \in Nat
    BY FilesAssumption
  <2> QED  BY <2>1 DEF Put, Null
<1> HIDE DEF d, old, F
<1>6. /\ F \in Seq(0 .. MaxDesc) /\ DOMAIN F = DOMAIN old /\ F[fd + 1] = Null
      /\ \A j \in DOMAIN old : j # fd + 1 => F[j] = old[j]
  <2>1. F \in Seq(0 .. MaxDesc)
    BY <1>3, <1>5
  <2> QED  BY <1>3, <1>5, <2>1
<1>7. q \in ProcType /\ q.st = "run" /\ q.prog \in Proc /\ q.fds = F
  BY <1>1, <1>3, <1>4, <1>6 DEF ProcType
<1> HIDE DEF q
<1>8. \A j \in DOMAIN old : old[j] = d => j = fd + 1
  BY <1>1, <1>2, <1>3 DEF SlotInv, OneSlot, old
<1>9. Dropped(F, old, {d})
  <2>1. \A j \in DOMAIN F : F[j] # Null => j \in DOMAIN old /\ F[j] = old[j] /\ F[j] \notin {d}
    BY <1>6, <1>8
  <2>2. \A j \in DOMAIN old : old[j] # Null /\ old[j] \notin {d} => j \in DOMAIN F /\ F[j] = old[j]
    BY <1>3, <1>6
  <2> QED  BY <1>3, <2>1, <2>2 DEF Dropped
<1>10. Dropped(q.fds, proc[p].fds, {d})
  BY <1>7, <1>9 DEF old
<1>11. desc' = Without({d})
  <2>1. desc = [e \in 1 .. MaxDesc |-> desc[e]]
    BY <1>2 DEF TypeInv
  <2> QED  BY <1>1, <2>1 DEF Without
<1>12. TypeInv' /\ SlotInv' /\ LoadInv'
  BY <1>1, <1>2, <1>4, <1>7, <1>10, <1>11, Released
<1>13. NodesInv' /\ TakenInv'
  BY <1>1, <1>2, SameTree
<1> QED  BY <1>12, <1>13 DEF FilesInv

LEMMA ExitStep ==
  ASSUME FilesInv, NEW p \in Proc, Exit(p) PROVE FilesInv'
<1> DEFINE old == proc[p].fds
           gone == Range(old)
           q == [proc[p] EXCEPT !.st = "gone", !.fds = Empty]
<1>1. /\ desc' = Without(gone)
      /\ proc' = [proc EXCEPT ![p].st = "gone", ![p].fds = Empty]
      /\ UNCHANGED <<nodes, taken, image, pos>>
  BY DEF Exit, Without
<1>2. NodesInv /\ TakenInv /\ TypeInv /\ SlotInv /\ LoadInv /\ proc[p] \in ProcType
      /\ proc \in [Proc -> ProcType]
  BY DEF FilesInv, TypeInv
<1>3. proc' = [proc EXCEPT ![p] = q]
  BY <1>1, <1>2
<1>4. <<>> \in Seq(0 .. MaxDesc)
  OBVIOUS
<1>5. q \in ProcType /\ q.st = "gone" /\ q.fds = <<>>
  BY <1>2, <1>4 DEF ProcType, Empty
<1> HIDE DEF q
<1>6. Dropped(q.fds, proc[p].fds, gone)
  BY <1>5 DEF Dropped, Range
<1> HIDE DEF gone
<1>7. TypeInv' /\ SlotInv' /\ LoadInv'
  BY <1>1, <1>2, <1>3, <1>5, <1>6, Released
<1>8. NodesInv' /\ TakenInv'
  BY <1>1, <1>2, SameTree
<1> QED  BY <1>7, <1>8 DEF FilesInv

LEMMA ForkStep ==
  ASSUME FilesInv, NEW p \in Proc, NEW c \in Proc, Fork(p, c) PROVE FilesInv'
<1> DEFINE old == proc[p].fds
           k == Size(old)
<1>1. PICK new \in NewDescs(k) :
        /\ desc' = Fill(new, [x \in DOMAIN new |-> desc[proc[p].fds[x]]])
        /\ proc' = [proc EXCEPT ![c] = [st |-> "run", prog |-> proc[p].prog, fds |-> new]]
  BY DEF Fork
<1>2. /\ proc[p].st = "run" /\ proc[c].st = "none" /\ Null \notin Range(old)
      /\ UNCHANGED <<nodes, taken, image, pos>>
  BY DEF Fork, Running
<1>3. NodesInv /\ TakenInv /\ TypeInv /\ SlotInv /\ LoadInv /\ taken \in Nat
  BY DEF FilesInv, TypeInv
<1>4. /\ proc[p] \in ProcType /\ proc[p].prog \in Proc /\ proc[c].fds = <<>>
      /\ desc \in [1 .. MaxDesc -> DescType]
      /\ \A d \in 1 .. MaxDesc :
           desc[d] = Free \/ desc[d].file = Tty0 \/ IsFile(nodes, desc[d].file)
  BY <1>2, <1>3 DEF TypeInv
<1>5. old \in Seq(0 .. MaxDesc)
  BY <1>4 DEF ProcType
<1>6. k \in Nat /\ DOMAIN old = 1 .. k /\ \A x \in 1 .. k : old[x] \in 0 .. MaxDesc
  BY <1>5, SeqFacts DEF Size
<1>7. \A x \in 1 .. k : old[x] # Null
  BY <1>2, <1>6 DEF Range
<1> HIDE DEF k
<1> DEFINE values == [x \in DOMAIN new |-> desc[proc[p].fds[x]]]
           q == [st |-> "run", prog |-> proc[p].prog, fds |-> new]
<1>8. DOMAIN new = 1 .. k
  BY <1>6, NewDescFacts
<1>9. ASSUME NEW x \in 1 .. k
      PROVE  /\ values[x] \in DescType /\ values[x].mode # Left
             /\ values[x].file = Tty0 \/ IsFile(nodes', values[x].file)
  <2> DEFINE d == old[x]
  <2>1. values[x] = desc[d]
    BY <1>8
  <2>2. d # Null /\ x \in DOMAIN old /\ d \in 0 .. MaxDesc
    BY <1>6, <1>7
  <2>3. desc[d] # Free /\ desc[d].mode # Left
    BY <1>3, <2>2 DEF SlotInv, SlotAlive
  <2> HIDE DEF d, values
  <2>4. d \in 1 .. MaxDesc
    BY <2>2 DEF Null
  <2> QED  BY <1>2, <1>4, <2>1, <2>3, <2>4
<1>10. Placed(new, proc[c].fds, new) /\ new \in Seq(0 .. MaxDesc)
  <2>1. Placed(new, <<>>, new)
    BY <1>6, PlacedFirst
  <2> QED  BY <1>4, <2>1 DEF Placed
<1>11. q \in ProcType /\ q.st = "run" /\ q.prog \in Proc /\ q.fds = new
  BY <1>4, <1>10 DEF ProcType
<1>12. /\ desc' = Fill(new, values) /\ proc' = [proc EXCEPT ![c] = q]
       /\ taken' \in Nat /\ image' = image /\ pos' = pos
  BY <1>1, <1>2, <1>3
<1> HIDE DEF values, q
<1>13. Placed(q.fds, proc[c].fds, new)
  BY <1>10, <1>11
<1>14. NodesInv' /\ TakenInv' /\ Kept /\ Fresh
  BY <1>2, <1>3, SameTree
<1>15. TypeInv' /\ SlotInv' /\ LoadInv'
  BY <1>3, <1>6, <1>9, <1>11, <1>12, <1>13, <1>14, Handed
<1> QED  BY <1>14, <1>15 DEF FilesInv
LEMMA NextInv == FilesInv /\ [Next]_vars => FilesInv'
<1> SUFFICES ASSUME FilesInv, [Next]_vars PROVE FilesInv'
  OBVIOUS
<1>0. pos \in Nat /\ image \in Archives
  BY DEF FilesInv, TypeInv
<1>1. CASE LoadFile
  BY <1>1, LoadFileStep
<1>2. CASE LoadFileFails
  <2>1. UNCHANGED <<nodes, desc, proc, taken>> /\ image' \in Archives /\ pos' \in Nat
    BY <1>0, <1>2 DEF LoadFileFails, Archives
  <2> QED  BY <2>1, SameState
<1>3. CASE LoadDirectory
  BY <1>3, LoadDirectoryStep
<1>4. CASE LoadSymlink \/ LoadUnknown \/ LoadDone
  <2>1. UNCHANGED <<nodes, desc, proc, taken>> /\ image' \in Archives /\ pos' \in Nat
    BY <1>0, <1>4 DEF LoadSymlink, LoadUnknown, LoadDone, Halt
  <2> QED  BY <2>1, SameState
<1>5. ASSUME NEW p \in Proc, StartProgram(p) PROVE FilesInv'
  BY <1>5, StartProgramStep
<1>6. ASSUME NEW p \in Proc, NEW path \in Paths, OpenRelative(p, path) \/ OpenForeign(p, path)
      PROVE  FilesInv'
  BY <1>6, HaltStep DEF OpenRelative, OpenForeign
<1>7. ASSUME NEW p \in Proc, NEW path \in Paths, NEW mode \in Modes,
             OpenDevice(p, path, mode) \/ OpenFile(p, path, mode) \/ OpenCreate(p, path, mode)
      PROVE  FilesInv'
  BY <1>7, OpenDeviceStep, OpenFileStep, OpenCreateStep
<1>8. ASSUME NEW p \in Proc, NEW fd \in 0 .. MaxDesc - 1, NEW size \in Sizes,
             Read(p, fd, size) \/ Write(p, fd, size)
      PROVE  FilesInv'
  BY <1>8, ReadStep, WriteStep
<1>9. ASSUME NEW p \in Proc, NEW fd \in 0 .. MaxDesc - 1, Close(p, fd) PROVE FilesInv'
  BY <1>9, CloseStep
<1>10. ASSUME NEW p \in Proc, NEW c \in Proc, Fork(p, c) PROVE FilesInv'
  BY <1>10, ForkStep
<1>11. ASSUME NEW p \in Proc, ForkAfterClose(p) PROVE FilesInv'
  BY <1>11, HaltStep DEF ForkAfterClose
<1>12. ASSUME NEW p \in Proc, Exit(p) PROVE FilesInv'
  BY <1>12, ExitStep
<1>13. CASE UNCHANGED vars
  BY <1>0, <1>13, SameState DEF vars
<1> QED  BY <1>1, <1>2, <1>3, <1>4, <1>5, <1>6, <1>7, <1>8, <1>9, <1>10, <1>11, <1>12, <1>13 DEF Next

-----------------------------------------------------------------------------
(* The properties                                                          *)

LEMMA OnceInList ==
  ASSUME NodesInv, NEW n \in DOMAIN nodes, n # Root, NEW m \in DOMAIN nodes
  PROVE  Cardinality({k \in DOMAIN nodes[m].children : nodes[m].children[k] = n})
           = IF m = nodes[n].parent THEN 1 ELSE 0
<1> DEFINE ch == nodes[m].children
           at == {k \in DOMAIN ch : ch[k] = n}
<1>1. Tree(nodes)
  BY DEF NodesInv
<1>2. CASE m = nodes[n].parent
  <2>1. PICK k \in DOMAIN ch : ch[k] = n
    BY <1>1, <1>2 DEF Tree
  <2>2. \A l \in DOMAIN ch : ch[l] = n => l = k
    BY <1>1, <2>1 DEF Tree
  <2>3. at = {k}
    BY <2>1, <2>2
  <2> HIDE DEF at
  <2>4. Cardinality(at) = 1
    BY <2>3, FS_Singleton
  <2> QED  BY <1>2, <2>4 DEF at
<1>3. CASE m # nodes[n].parent
  <2>1. at = {}
    BY <1>1, <1>3 DEF Tree
  <2> HIDE DEF at
  <2>2. Cardinality(at) = 0
    BY <2>1, FS_EmptySet
  <2> QED  BY <1>3, <2>2 DEF at
<1> QED  BY <1>2, <1>3

LEMMA TreeImplied == NodesInv => TreeOK
<1> SUFFICES ASSUME NodesInv, NEW n \in DOMAIN nodes
             PROVE  /\ nodes[n].type \in {"File", "Directory"}
                    /\ n # Root =>
                         /\ nodes[n].parent \in 1 .. n - 1
                         /\ nodes[n].type = "File" => nodes[nodes[n].parent].type = "Directory"
                         /\ \A m \in DOMAIN nodes :
                              Cardinality({i \in DOMAIN nodes[m].children : nodes[m].children[i] = n})
                                = IF m = nodes[n].parent THEN 1 ELSE 0
                    /\ Len(nodes[n].data) % PageSize = 0
  BY DEF TreeOK
<1>1. nodes[n] \in NodeType /\ Filled(nodes[n])
  BY NodesFacts
<1>2. nodes[n].type \in {"File", "Directory"}
  BY <1>1 DEF NodeType
<1>3. n # Root => /\ nodes[n].parent \in 1 .. n - 1
                  /\ nodes[n].type = "File" => nodes[nodes[n].parent].type = "Directory"
  BY DEF NodesInv, Tree
<1>4. Len(nodes[n].data) % PageSize = 0
  <2>1. CASE nodes[n].type = "Directory"
    <3>1. Len(nodes[n].data) = 0
      BY <1>1, <2>1 DEF Filled
    <3>2. 0 % PageSize = 0
      BY FilesAssumption
    <3> QED  BY <3>1, <3>2
  <2>2. CASE nodes[n].type = "File"
    BY <1>1, <2>2 DEF Filled
  <2> QED  BY <1>2, <2>1, <2>2
<1> QED  BY <1>2, <1>3, <1>4, OnceInList

LEMMA SameSize ==
  ASSUME NEW S, NEW T, IsFiniteSet(T), NEW f \in [S -> T],
         \A x, y \in S : f[x] = f[y] => x = y, \A t \in T : \E x \in S : f[x] = t
  PROVE  Cardinality(S) = Cardinality(T)
<1>1. f \in Bijection(S, T)
  BY Fun_IsBij
<1>2. ExistsBijection(S, T)
  BY <1>1, Fun_ExistsBij
<1>3. ExistsBijection(T, S)
  BY <1>2, Fun_ExistsBijSymmetric
<1> QED  BY <1>3, FS_Bijection

LEMMA DataImplied == NodesInv /\ TakenInv => FileData
<1> SUFFICES ASSUME NodesInv, TakenInv PROVE FileData
  OBVIOUS
<1>1. ASSUME NEW n \in DOMAIN nodes, NEW x \in DOMAIN nodes[n].data
      PROVE  /\ x <= PageSize => nodes[n].data[x] = nodes[n].written[x]
             /\ nodes[n].data[x] = 1 => nodes[n].written[x] = 1
  <2>1. nodes[n] \in NodeType /\ Filled(nodes[n])
    BY NodesFacts
  <2>2. nodes[n].type = "File"
    <3>1. nodes[n].type \in {"File", "Directory"}
      BY <2>1 DEF NodeType
    <3>2. nodes[n].type = "Directory" => nodes[n].data = <<>>
      BY <2>1 DEF Filled
    <3>3. nodes[n].data # <<>>
      OBVIOUS
    <3> QED  BY <3>1, <3>2, <3>3
  <2>3. Faithful(nodes[n].data, nodes[n].written)
    BY <2>1, <2>2 DEF Filled
  <2> QED  BY <2>3 DEF Faithful
<1> DEFINE sum == CHOOSE sum : sum = [n \in 0 .. Len(nodes) |->
                    IF n = 0 THEN 0 ELSE sum[n - 1] + (Len(nodes[n].data) \div PageSize)]
<1>2. taken >= sum[Len(nodes)]
      /\ (taken = sum[Len(nodes)] <=> \A n \in DOMAIN nodes : nodes[n].grows <= 1)
  BY DEF TakenInv, InUse
<1> QED  BY <1>1, <1>2 DEF FileData, Pages
LEMMA OwnedImplied == FilesInv => DescriptorsOwned
<1> SUFFICES ASSUME FilesInv PROVE DescriptorsOwned
  OBVIOUS
<1> DEFINE slots == UNION {{<<p, i>> : i \in DOMAIN proc[p].fds} : p \in Proc}
           held == {x \in slots : proc[x[1]].fds[x[2]] # Null}
           of(x) == proc[x[1]].fds[x[2]]
           loaded == {n \in DOMAIN nodes : nodes[n].type = "File" /\ nodes[n].by = "kernel"}
           alive == {d \in DOMAIN desc : desc[d] # Free}
           given == {d \in 1 .. MaxDesc : desc[d] # Free /\ desc[d].mode # Left}
           left == {d \in 1 .. MaxDesc : desc[d].mode = Left}
<1>1. NodesInv /\ TypeInv /\ LoadInv /\ OneSlot /\ SlotAlive /\ AliveInSlot
  BY DEF FilesInv, SlotInv
<1>2. DOMAIN desc = 1 .. MaxDesc /\ proc \in [Proc -> ProcType] /\ MaxDesc \in Nat
  BY <1>1, FilesAssumption DEF TypeInv
<1>3. \A x : x \in held <=>
        \E p \in Proc : \E i \in DOMAIN proc[p].fds : x = <<p, i>> /\ proc[p].fds[i] # Null
  OBVIOUS
<1>4. ASSUME NEW p \in Proc, NEW i \in DOMAIN proc[p].fds, proc[p].fds[i] # Null
      PROVE  proc[p].fds[i] \in given
  <2>1. desc[proc[p].fds[i]] # Free /\ desc[proc[p].fds[i]].mode # Left
    BY <1>1, <1>4 DEF SlotAlive
  <2>2. proc[p].fds \in Seq(0 .. MaxDesc)
    <3>1. proc[p] \in ProcType
      BY <1>2
    <3> QED  BY <3>1 DEF ProcType
  <2>3. proc[p].fds[i] \in 0 .. MaxDesc
    BY <2>2, SeqFacts
  <2>4. proc[p].fds[i] \in 1 .. MaxDesc
    BY <1>4, <2>3 DEF Null
  <2> QED  BY <2>1, <2>4
<1> HIDE DEF held
<1>5. \A x \in held : of(x) \in given /\ of(x) # Null
  <2> SUFFICES ASSUME NEW x \in held PROVE of(x) \in given /\ of(x) # Null
    OBVIOUS
  <2>1. PICK p \in Proc : \E i \in DOMAIN proc[p].fds : x = <<p, i>> /\ proc[p].fds[i] # Null
    BY <1>3
  <2>2. PICK i \in DOMAIN proc[p].fds : x = <<p, i>> /\ proc[p].fds[i] # Null
    BY <2>1
  <2>3. of(x) = proc[p].fds[i]
    BY <2>2
  <2> HIDE DEF of, given
  <2> QED  BY <1>4, <2>2, <2>3
<1>6. ASSUME NEW x \in held, NEW y \in held, of(x) = of(y) PROVE x = y
  <2>1. PICK p \in Proc : \E i \in DOMAIN proc[p].fds : x = <<p, i>> /\ proc[p].fds[i] # Null
    BY <1>3
  <2>2. PICK i \in DOMAIN proc[p].fds : x = <<p, i>> /\ proc[p].fds[i] # Null
    BY <2>1
  <2>3. PICK q \in Proc : \E j \in DOMAIN proc[q].fds : y = <<q, j>> /\ proc[q].fds[j] # Null
    BY <1>3
  <2>4. PICK j \in DOMAIN proc[q].fds : y = <<q, j>> /\ proc[q].fds[j] # Null
    BY <2>3
  <2>5. proc[p].fds[i] = proc[q].fds[j]
    BY <1>6, <2>2, <2>4
  <2>6. p = q /\ i = j
    BY <1>1, <2>2, <2>5 DEF OneSlot
  <2> QED  BY <2>2, <2>4, <2>6
<1>7. \A d \in given : \E x \in held : of(x) = d
  <2> SUFFICES ASSUME NEW d \in given PROVE \E x \in held : of(x) = d
    OBVIOUS
  <2>1. PICK p \in Proc : \E i \in DOMAIN proc[p].fds : proc[p].fds[i] = d
    BY <1>1 DEF AliveInSlot
  <2>2. PICK i \in DOMAIN proc[p].fds : proc[p].fds[i] = d
    BY <2>1
  <2>3. d # Null
    BY DEF Null
  <2>4. <<p, i>> \in held /\ of(<<p, i>>) = d
    BY <1>3, <2>2, <2>3
  <2> QED  BY <2>4
<1>8. IsFiniteSet(given) /\ IsFiniteSet(left)
  <2>1. IsFiniteSet(1 .. MaxDesc)
    BY <1>2, FS_Interval
  <2>2. given \in SUBSET (1 .. MaxDesc) /\ left \in SUBSET (1 .. MaxDesc)
    OBVIOUS
  <2> HIDE DEF given, left
  <2> QED  BY <2>1, <2>2, FS_Subset
<1>9. Cardinality(held) = Cardinality(given)
  <2> DEFINE f == [x \in held |-> of(x)]
  <2> HIDE DEF given
  <2>1. f \in [held -> given] /\ \A x \in held : f[x] = of(x)
    BY <1>5
  <2> HIDE DEF f
  <2>2. \A x, y \in held : f[x] = f[y] => x = y
    BY <1>6, <2>1
  <2>3. \A d \in given : \E x \in held : f[x] = d
    BY <1>7, <2>1
  <2> QED  BY <1>8, <2>1, <2>2, <2>3, SameSize
<1>10. IsFiniteSet(loaded) /\ Cardinality(left) = Cardinality(loaded)
  <2>1. IsFiniteSet(loaded)
    <3>1. DOMAIN nodes = 1 .. Len(nodes) /\ Len(nodes) \in Nat
      BY <1>1, NodesFacts
    <3>2. IsFiniteSet(DOMAIN nodes)
      BY <3>1, FS_Interval
    <3>3. loaded \in SUBSET DOMAIN nodes
      OBVIOUS
    <3> HIDE DEF loaded
    <3> QED  BY <3>2, <3>3, FS_Subset
  <2> DEFINE f == [d \in left |-> desc[d].file]
  <2>2. \A n : n \in loaded <=> Loaded(nodes, n)
    BY DEF Loaded, IsFile
  <2> HIDE DEF loaded
  <2>3. \A d \in left : desc[d].file \in loaded
    BY <1>1, <2>2 DEF LoadInv
  <2>4. \A d, e \in left : desc[d].file = desc[e].file => d = e
    BY <1>1 DEF LoadInv
  <2>5. \A n \in loaded : \E d \in left : desc[d].file = n
    BY <1>1, <2>2 DEF LoadInv, Loaded, IsFile
  <2> HIDE DEF left
  <2>6. f \in [left -> loaded] /\ \A d \in left : f[d] = desc[d].file
    BY <2>3
  <2> HIDE DEF f
  <2>7. \A d, e \in left : f[d] = f[e] => d = e
    BY <2>4, <2>6
  <2>8. \A n \in loaded : \E d \in left : f[d] = n
    BY <2>5, <2>6
  <2>9. Cardinality(left) = Cardinality(loaded)
    BY <2>1, <2>6, <2>7, <2>8, SameSize
  <2> QED  BY <2>1, <2>9
<1>11. Cardinality(alive) = Cardinality(held) + Cardinality(loaded)
  <2>1. alive = given \cup left /\ given \cap left = {}
    BY <1>2, FreeFacts
  <2> HIDE DEF alive, given, left, loaded
  <2>2. Cardinality(given \cup left) = Cardinality(given) + Cardinality(left) - Cardinality(given \cap left)
    BY <1>8, FS_Union
  <2>3. Cardinality({}) = 0
    BY FS_EmptySet
  <2>4. Cardinality(given) \in Nat /\ Cardinality(left) \in Nat
    BY <1>8, FS_CardinalityType
  <2>5. Cardinality(alive) = Cardinality(given) + Cardinality(left) - 0
    BY <2>1, <2>2, <2>3
  <2>6. Cardinality(alive) = Cardinality(given) + Cardinality(left)
    BY <2>4, <2>5
  <2> QED  BY <1>9, <1>10, <2>6
<1>12. \A x \in held : desc[of(x)] # Free
  BY <1>5
<1> HIDE DEF alive, of, loaded
<1> QED  BY <1>6, <1>11, <1>12 DEF DescriptorsOwned, held, alive, of, loaded

-----------------------------------------------------------------------------
LEMMA Inductive == Spec => []FilesInv
BY InitInv, NextInv, PTL DEF Spec

(* The tmpfs tree stays one: no sequence of loading, open with CREATE and  *)
(* mkdir lists a node twice, under a wrong parent or not at all, or puts a *)
(* file in anything but a directory, and resize keeps files in pages.      *)
THEOREM TreeStaysOne == Spec => []TreeOK
<1>1. FilesInv => TreeOK
  BY TreeImplied DEF FilesInv
<1> QED  BY <1>1, Inductive, PTL

(* A description is in one slot of one process for as long as it lives,    *)
(* through open, close, fork and exit in any order, and those that no slot *)
(* holds are those that load left behind.                                  *)
THEOREM DescriptionsOwned == Spec => []DescriptorsOwned
BY OwnedImplied, Inductive, PTL

(* The first page of a file is what was written there, nothing is invented *)
(* beyond it, and frames are lost exactly when a file has grown twice.     *)
THEOREM DataAsWritten == Spec => []FileData
<1>1. FilesInv => FileData
  BY DataImplied DEF FilesInv
<1> QED  BY <1>1, Inductive, PTL
-----------------------------------------------------------------------------
(* Where names lead                                                        *)

(* Reached, in a tree ns.                                                  *)
ReachedIn(ns, start, names) ==
  LET r[k \in 0 .. Len(names)] ==
        IF k = 0 THEN {start}
        ELSE {n \in DOMAIN ns : ns[n].parent \in r[k - 1] /\ ns[n].name = names[k]}
  IN  r

Named(ns, S, c) == {n \in DOMAIN ns : ns[n].parent \in S /\ ns[n].name = c}

LEMMA ReachedSteps ==
  ASSUME NEW ns, NEW start, NEW names, Len(names) \in Nat
  PROVE  /\ ReachedIn(ns, start, names)[0] = {start}
         /\ \A k \in 1 .. Len(names) :
              ReachedIn(ns, start, names)[k] = Named(ns, ReachedIn(ns, start, names)[k - 1], names[k])
<1> DEFINE n == Len(names)
           Value(g, k) == IF k = 0 THEN {start}
                          ELSE {x \in DOMAIN ns : ns[x].parent \in g[k - 1] /\ ns[x].name = names[k]}
           Step(g, m) == [k \in 0 .. m |-> Value(g, k)]
           r == CHOOSE g : g = Step(g, n)
           S == {m \in Nat : \E g : g = Step(g, m)}
<1>1. ReachedIn(ns, start, names) = r
  BY DEF ReachedIn
<1>2. 0 \in S
  <2> DEFINE g == [k \in 0 .. 0 |-> {start}]
  <2>1. g = Step(g, 0)
    OBVIOUS
  <2> QED  BY <2>1
<1>3. ASSUME NEW m \in Nat, m \in S PROVE m + 1 \in S
  <2>1. PICK g : g = Step(g, m)
    BY <1>3
  <2> DEFINE new == {x \in DOMAIN ns : ns[x].parent \in g[m] /\ ns[x].name = names[m + 1]}
             h == [k \in 0 .. m + 1 |-> IF k = m + 1 THEN new ELSE g[k]]
  <2>2. ASSUME NEW k \in 0 .. m + 1
        PROVE  h[k] = Value(h, k)
    <3>1. CASE k = m + 1
      <4>1. k # 0 /\ k - 1 = m /\ h[m] = g[m] /\ h[k] = new
        BY <3>1
      <4> QED  BY <3>1, <4>1
    <3>2. CASE k # m + 1
      <4>1. k \in 0 .. m /\ h[k] = g[k] /\ (k # 0 => k - 1 \in 0 .. m /\ h[k - 1] = g[k - 1])
        BY <3>2
      <4>2. g[k] = Value(g, k)
        BY <2>1, <4>1
      <4> QED  BY <4>1, <4>2
    <3> QED  BY <3>1, <3>2
  <2>3. h = Step(h, m + 1)
    BY <2>2
  <2> HIDE DEF h, Value
  <2> QED  BY <2>3
<1>4. n \in S
  <2> HIDE DEF S, n
  <2>1. Nat \subseteq S
    BY <1>2, <1>3, SetInduction
  <2> QED  BY <2>1 DEF n
<1>5. \A k \in 0 .. n : r[k] = Value(r, k)
  <2>1. r = Step(r, n)
    BY <1>4
  <2> HIDE DEF r, Value
  <2> QED  BY <2>1
<1> HIDE DEF r
<1>6. r[0] = {start}
  <2>1. 0 \in 0 .. n
    OBVIOUS
  <2>2. r[0] = Value(r, 0)
    BY <1>5, <2>1
  <2> QED  BY <2>2
<1>7. ASSUME NEW k \in 1 .. n PROVE r[k] = Named(ns, r[k - 1], names[k])
  <2>1. k \in 0 .. n /\ k # 0
    OBVIOUS
  <2>2. r[k] = Value(r, k)
    BY <1>5, <2>1
  <2> QED  BY <2>1, <2>2 DEF Named
<1> QED  BY <1>1, <1>6, <1>7

(* The same names lead to the same nodes, whatever follows them.           *)
LEMMA ReachedPrefix ==
  ASSUME NEW ns, NEW start, NEW s, NEW t, Len(s) \in Nat, Len(t) \in Nat, Len(s) <= Len(t),
         \A k \in 1 .. Len(s) : s[k] = t[k]
  PROVE  \A k \in 0 .. Len(s) : ReachedIn(ns, start, s)[k] = ReachedIn(ns, start, t)[k]
<1> DEFINE a == ReachedIn(ns, start, s)
           b == ReachedIn(ns, start, t)
           S == {k \in Nat : k <= Len(s) => a[k] = b[k]}
<1>1. a[0] = {start} /\ \A k \in 1 .. Len(s) : a[k] = Named(ns, a[k - 1], s[k])
  BY ReachedSteps
<1>2. b[0] = {start} /\ \A k \in 1 .. Len(t) : b[k] = Named(ns, b[k - 1], t[k])
  BY ReachedSteps
<1> HIDE DEF a, b
<1>3. 0 \in S
  BY <1>1, <1>2
<1>4. ASSUME NEW k \in Nat, k \in S PROVE k + 1 \in S
  <2> SUFFICES ASSUME k + 1 <= Len(s) PROVE a[k + 1] = b[k + 1]
    OBVIOUS
  <2>1. a[k] = b[k] /\ k + 1 \in 1 .. Len(s) /\ k + 1 \in 1 .. Len(t) /\ k + 1 - 1 = k
    BY <1>4
  <2>2. s[k + 1] = t[k + 1]
    BY <2>1
  <2> QED  BY <1>1, <1>2, <2>1, <2>2
<1>5. Nat \subseteq S
  <2> HIDE DEF S
  <2> QED  BY <1>3, <1>4, SetInduction
<1> QED  BY <1>5 DEF a, b

(* Once names lead nowhere, more names lead nowhere.                       *)
LEMMA ReachedNowhere ==
  ASSUME NEW ns, NEW start, NEW names, Len(names) \in Nat, NEW m \in 0 .. Len(names),
         ReachedIn(ns, start, names)[m] = {}
  PROVE  \A k \in m .. Len(names) : ReachedIn(ns, start, names)[k] = {}
<1> DEFINE r == ReachedIn(ns, start, names)
           S == {d \in Nat : m + d <= Len(names) => r[m + d] = {}}
<1>1. \A k \in 1 .. Len(names) : r[k] = Named(ns, r[k - 1], names[k])
  BY ReachedSteps
<1>2. r[m] = {} /\ m \in Nat
  OBVIOUS
<1> HIDE DEF r
<1>3. 0 \in S
  BY <1>2
<1>4. ASSUME NEW d \in Nat, d \in S PROVE d + 1 \in S
  <2> SUFFICES ASSUME m + (d + 1) <= Len(names) PROVE r[m + (d + 1)] = {}
    OBVIOUS
  <2>1. r[m + d] = {} /\ m + (d + 1) \in 1 .. Len(names) /\ m + (d + 1) - 1 = m + d
    BY <1>2, <1>4
  <2> QED  BY <1>1, <2>1 DEF Named
<1>5. Nat \subseteq S
  <2> HIDE DEF S
  <2> QED  BY <1>3, <1>4, SetInduction
<1>6. ASSUME NEW k \in m .. Len(names) PROVE r[k] = {}
  <2>1. k - m \in Nat /\ m + (k - m) = k /\ k <= Len(names)
    BY <1>2
  <2>2. k - m \in S
    BY <1>5, <2>1
  <2> QED  BY <2>1, <2>2
<1> QED  BY <1>6 DEF r

(* A tree that grew: what it had has its place and its name.               *)
Larger(ns, ns2) ==
  /\ DOMAIN ns \subseteq DOMAIN ns2
  /\ \A n \in DOMAIN ns : /\ ns2[n].parent = ns[n].parent /\ ns2[n].name = ns[n].name
                          /\ ns2[n].asked = ns[n].asked

(* Names lead to the same old nodes in it.                                 *)
LEMMA ReachedInLarger ==
  ASSUME NEW ns, NEW ns2, Tree(ns), Larger(ns, ns2), ns[Root].parent = Null,
         Null \notin DOMAIN ns2, NEW start \in DOMAIN ns, NEW names, Len(names) \in Nat
  PROVE  \A k \in 0 .. Len(names) :
           /\ ReachedIn(ns, start, names)[k] = ReachedIn(ns2, start, names)[k] \cap DOMAIN ns
           /\ Null \notin ReachedIn(ns2, start, names)[k]
<1> DEFINE a == ReachedIn(ns, start, names)
           b == ReachedIn(ns2, start, names)
           S == {k \in Nat : k <= Len(names) => a[k] = b[k] \cap DOMAIN ns /\ Null \notin b[k]}
<1>1. a[0] = {start} /\ \A k \in 1 .. Len(names) : a[k] = Named(ns, a[k - 1], names[k])
  BY ReachedSteps
<1>2. b[0] = {start} /\ \A k \in 1 .. Len(names) : b[k] = Named(ns2, b[k - 1], names[k])
  BY ReachedSteps
<1>3. \A n \in DOMAIN ns : ns[n].parent \in DOMAIN ns \/ ns[n].parent = Null
  <2>1. DOMAIN ns = 1 .. Len(ns) /\ Len(ns) \in Nat
    BY TreeFacts
  <2> QED  BY <2>1 DEF Tree
<1> HIDE DEF a, b
<1>4. 0 \in S
  BY <1>1, <1>2 DEF Larger
<1>5. ASSUME NEW k \in Nat, k \in S PROVE k + 1 \in S
  <2> SUFFICES ASSUME k + 1 <= Len(names)
               PROVE  a[k + 1] = b[k + 1] \cap DOMAIN ns /\ Null \notin b[k + 1]
    OBVIOUS
  <2>1. /\ a[k] = b[k] \cap DOMAIN ns /\ Null \notin b[k]
        /\ k + 1 \in 1 .. Len(names) /\ k + 1 - 1 = k
    BY <1>5
  <2>2. /\ a[k + 1] = Named(ns, a[k + 1 - 1], names[k + 1])
        /\ b[k + 1] = Named(ns2, b[k + 1 - 1], names[k + 1])
    BY <1>1, <1>2, <2>1
  <2>3. ASSUME NEW n \in DOMAIN ns
        PROVE  n \in a[k + 1] <=> n \in b[k + 1]
    BY <1>3, <2>1, <2>2 DEF Named, Larger
  <2> QED  BY <2>1, <2>2, <2>3 DEF Named
<1>6. Nat \subseteq S
  <2> HIDE DEF S
  <2> QED  BY <1>4, <1>5, SetInduction
<1> QED  BY <1>6 DEF a, b

-----------------------------------------------------------------------------
(* What the walk finds                                                     *)

LEMMA WalkSteps ==
  ASSUME NEW node, NEW names, Len(names) \in Nat
  PROVE  \E w : /\ Walk(node, names) = w[Len(names)]
                /\ w[0] = [node |-> node, rest |-> names, stop |-> FALSE, seen |-> {}]
                /\ \A k \in 1 .. Len(names) : w[k] = Down(w[k - 1], names[k])
<1> DEFINE n == Len(names)
           start == [node |-> node, rest |-> names, stop |-> FALSE, seen |-> {}]
           Value(g, k) == IF k = 0 THEN start ELSE Down(g[k - 1], names[k])
           Step(g, m) == [k \in 0 .. m |-> Value(g, k)]
           w == CHOOSE g : g = Step(g, n)
           S == {m \in Nat : \E g : g = Step(g, m)}
<1>1. Walk(node, names) = w[n]
  BY DEF Walk
<1> HIDE DEF start
<1>2. 0 \in S
  <2> DEFINE g == [k \in 0 .. 0 |-> start]
  <2>1. g = Step(g, 0)
    OBVIOUS
  <2> QED  BY <2>1
<1>3. ASSUME NEW m \in Nat, m \in S PROVE m + 1 \in S
  <2>1. PICK g : g = Step(g, m)
    BY <1>3
  <2> DEFINE h == [k \in 0 .. m + 1 |-> IF k = m + 1 THEN Down(g[m], names[m + 1]) ELSE g[k]]
  <2>2. ASSUME NEW k \in 0 .. m + 1
        PROVE  h[k] = Value(h, k)
    <3>1. CASE k = m + 1
      <4>1. k # 0 /\ k - 1 = m /\ h[m] = g[m] /\ h[k] = Down(g[m], names[m + 1])
        BY <3>1
      <4> QED  BY <3>1, <4>1
    <3>2. CASE k # m + 1
      <4>1. k \in 0 .. m /\ h[k] = g[k] /\ (k # 0 => k - 1 \in 0 .. m /\ h[k - 1] = g[k - 1])
        BY <3>2
      <4>2. g[k] = Value(g, k)
        BY <2>1, <4>1
      <4> QED  BY <4>1, <4>2
    <3> QED  BY <3>1, <3>2
  <2>3. h = Step(h, m + 1)
    BY <2>2
  <2> HIDE DEF h, Value
  <2> QED  BY <2>3
<1>4. n \in S
  <2> HIDE DEF S, n
  <2>1. Nat \subseteq S
    BY <1>2, <1>3, SetInduction
  <2> QED  BY <2>1 DEF n
<1>5. \A k \in 0 .. n : w[k] = Value(w, k)
  <2>1. w = Step(w, n)
    BY <1>4
  <2> HIDE DEF w, Value
  <2> QED  BY <2>1
<1> HIDE DEF w
<1>6. w[0] = start
  <2>1. 0 \in 0 .. n
    OBVIOUS
  <2>2. w[0] = Value(w, 0)
    BY <1>5, <2>1
  <2> QED  BY <2>2
<1>7. ASSUME NEW k \in 1 .. n PROVE w[k] = Down(w[k - 1], names[k])
  <2>1. k \in 0 .. n /\ k # 0
    OBVIOUS
  <2>2. w[k] = Value(w, k)
    BY <1>5, <2>1
  <2> QED  BY <2>1, <2>2
<1> QED  BY <1>1, <1>6, <1>7 DEF start

(* The children of a node that have a name are the nodes with this name    *)
(* and this parent, and if names are unique there is at most one.          *)
LEMMA ChildNamed ==
  ASSUME Tree(nodes), nodes[Root].parent = Null, UniqueSiblings, NEW f \in DOMAIN nodes, NEW c
  PROVE  LET kids == nodes[f].children
             same == {k \in DOMAIN kids : strcmp(nodes[kids[k]].name, c)}
         IN  IF same = {} THEN Named(nodes, {f}, c) = {}
             ELSE kids[Min(same)] \in DOMAIN nodes /\ Named(nodes, {f}, c) = {kids[Min(same)]}
<1> DEFINE kids == nodes[f].children
           same == {k \in DOMAIN kids : strcmp(nodes[kids[k]].name, c)}
<1>1. /\ DOMAIN kids = 1 .. Len(kids) /\ DOMAIN nodes = 1 .. Len(nodes) /\ Len(nodes) \in Nat
      /\ \A k \in DOMAIN kids : kids[k] \in DOMAIN nodes /\ nodes[kids[k]].parent = f
  BY TreeFacts DEF Tree
<1>2. ASSUME NEW n \in Named(nodes, {f}, c)
      PROVE  \E k \in same : kids[k] = n
  <2>1. n \in DOMAIN nodes /\ nodes[n].parent = f /\ nodes[n].name = c
    BY DEF Named
  <2>2. n # Root
    BY <1>1, <2>1 DEF Null
  <2>3. \E k \in DOMAIN kids : kids[k] = n
    BY <2>1, <2>2 DEF Tree
  <2> QED  BY <2>1, <2>3 DEF strcmp
<1>3. ASSUME NEW k \in same PROVE kids[k] \in Named(nodes, {f}, c)
  BY <1>1 DEF Named, strcmp
<1>4. ASSUME NEW m \in Named(nodes, {f}, c), NEW n \in Named(nodes, {f}, c) PROVE m = n
  BY DEF Named, UniqueSiblings
<1>5. same # {} => Min(same) \in same
  <2>1. same \in SUBSET Nat
    BY <1>1
  <2> HIDE DEF same
  <2> QED  BY <2>1, MinIn
<1>6. CASE same = {}
  <2>1. Named(nodes, {f}, c) = {}
    BY <1>2, <1>6
  <2> QED  BY <1>6, <2>1
<1>7. CASE same # {}
  <2>1. Min(same) \in DOMAIN kids /\ kids[Min(same)] \in Named(nodes, {f}, c)
    BY <1>3, <1>5, <1>7
  <2>2. Named(nodes, {f}, c) = {kids[Min(same)]}
    <3> HIDE DEF same, kids
    <3> QED  BY <1>4, <2>1
  <2>3. kids[Min(same)] \in DOMAIN nodes
    BY <1>1, <2>1
  <2> QED  BY <1>7, <2>2, <2>3
<1> QED  BY <1>6, <1>7

(* The walk after the first k of the names: at the one node they lead to,  *)
(* or stopped where they began to lead nowhere.                            *)
Arrived(w, start, names, k, m) ==
  /\ m \in 0 .. k /\ w.node \in DOMAIN nodes /\ ReachedIn(nodes, start, names)[m] = {w.node}
  /\ w.rest \in Seq(STRING) /\ Len(w.rest) = Len(names) - m
  /\ ~w.stop => m = k
  /\ w.stop => m < k /\ ReachedIn(nodes, start, names)[m + 1] = {}

LEMMA DownArrives ==
  ASSUME Tree(nodes), nodes[Root].parent = Null, UniqueSiblings,
         NEW start \in DOMAIN nodes, NEW names \in Seq(STRING), NEW k \in 1 .. Len(names),
         NEW w, NEW m \in Nat, Arrived(w, start, names, k - 1, m)
  PROVE  \E m2 \in Nat : Arrived(Down(w, names[k]), start, names, k, m2)
<1> DEFINE R == ReachedIn(nodes, start, names)
           c == names[k]
           kids == nodes[w.node].children
           same == {j \in DOMAIN kids : strcmp(nodes[kids[j]].name, c)}
           hit == [node |-> kids[Min(same)], rest |-> Tail(w.rest), stop |-> FALSE,
                   seen |-> w.seen \cup {kids[j] : j \in 1 .. Min(same)}]
           miss == [node |-> w.node, rest |-> w.rest, stop |-> TRUE, seen |-> w.seen \cup Range(kids)]
<1>1. Len(names) \in Nat /\ k \in Nat /\ k - 1 \in Nat /\ k - 1 < k
  OBVIOUS
<1>2. /\ m \in 0 .. k - 1 /\ w.node \in DOMAIN nodes /\ R[m] = {w.node}
      /\ w.rest \in Seq(STRING) /\ Len(w.rest) = Len(names) - m
      /\ ~w.stop => m = k - 1
      /\ w.stop => m < k - 1 /\ R[m + 1] = {}
  BY DEF Arrived
<1>3. Down(w, c) = IF w.stop THEN w ELSE IF same = {} THEN miss ELSE hit
  BY DEF Down
<1>4. IF same = {} THEN Named(nodes, {w.node}, c) = {}
      ELSE kids[Min(same)] \in DOMAIN nodes /\ Named(nodes, {w.node}, c) = {kids[Min(same)]}
  BY <1>2, ChildNamed
<1>5. R[k] = Named(nodes, R[k - 1], c)
  BY <1>1, ReachedSteps
<1> HIDE DEF R, same, kids
<1>6. CASE w.stop
  <2>1. Down(w, c) = w
    BY <1>3, <1>6
  <2>2. Arrived(w, start, names, k, m)
    BY <1>1, <1>2, <1>6 DEF Arrived, R
  <2> QED  BY <2>1, <2>2
<1>7. CASE ~w.stop /\ same = {}
  <2>1. Down(w, c) = miss
    BY <1>3, <1>7
  <2>2. m = k - 1 /\ m + 1 = k
    BY <1>1, <1>2, <1>7
  <2>3. R[k] = {}
    BY <1>2, <1>4, <1>5, <1>7, <2>2
  <2>4. miss.node = w.node /\ miss.rest = w.rest /\ miss.stop
    OBVIOUS
  <2> HIDE DEF miss
  <2>5. Arrived(miss, start, names, k, m)
    BY <1>1, <1>2, <2>2, <2>3, <2>4 DEF Arrived, R
  <2> QED  BY <2>1, <2>5
<1>8. CASE ~w.stop /\ same # {}
  <2>1. Down(w, c) = hit
    BY <1>3, <1>8
  <2>2. R[k] = {kids[Min(same)]} /\ kids[Min(same)] \in DOMAIN nodes /\ m = k - 1
    BY <1>1, <1>2, <1>4, <1>5, <1>8
  <2>3. hit.node = kids[Min(same)] /\ hit.rest = Tail(w.rest) /\ ~hit.stop
    OBVIOUS
  <2>4. Tail(w.rest) \in Seq(STRING) /\ Len(Tail(w.rest)) = Len(names) - k
    <3>1. Len(w.rest) # 0 /\ Len(w.rest) - 1 = Len(names) - k
      BY <1>1, <1>2, <2>2
    <3>2. w.rest # <<>>
      BY <3>1
    <3> QED  BY <1>2, <3>1, <3>2, HeadTailProperties
  <2> HIDE DEF hit
  <2>5. Arrived(hit, start, names, k, k)
    BY <1>1, <2>2, <2>3, <2>4 DEF Arrived, R
  <2> QED  BY <1>1, <2>1, <2>5
<1> QED  BY <1>2, <1>6, <1>7, <1>8

(* path_to_node's loop ends at the node of the longest beginning of the    *)
(* names that leads to one, and has the other names left.                  *)
LEMMA WalkExact ==
  ASSUME Tree(nodes), nodes[Root].parent = Null, UniqueSiblings,
         NEW start \in DOMAIN nodes, NEW names \in Seq(STRING)
  PROVE  \E m \in 0 .. Len(names) :
           /\ Walk(start, names).node \in DOMAIN nodes
           /\ ReachedIn(nodes, start, names)[m] = {Walk(start, names).node}
           /\ Len(Walk(start, names).rest) = Len(names) - m
           /\ m < Len(names) => ReachedIn(nodes, start, names)[m + 1] = {}
<1> DEFINE n == Len(names)
<1>1. n \in Nat
  OBVIOUS
<1>2. PICK w : /\ Walk(start, names) = w[n]
               /\ w[0] = [node |-> start, rest |-> names, stop |-> FALSE, seen |-> {}]
               /\ \A k \in 1 .. n : w[k] = Down(w[k - 1], names[k])
  BY <1>1, WalkSteps
<1> DEFINE S == {k \in Nat : k <= n => \E m \in Nat : Arrived(w[k], start, names, k, m)}
<1>3. 0 \in S
  <2>1. ReachedIn(nodes, start, names)[0] = {start}
    BY <1>1, ReachedSteps
  <2>2. w[0].node = start /\ w[0].rest = names /\ ~w[0].stop
    BY <1>2
  <2>3. Arrived(w[0], start, names, 0, 0)
    BY <1>1, <2>1, <2>2 DEF Arrived
  <2> QED  BY <2>3
<1>4. ASSUME NEW k \in Nat, k \in S PROVE k + 1 \in S
  <2> SUFFICES ASSUME k + 1 <= n PROVE \E m \in Nat : Arrived(w[k + 1], start, names, k + 1, m)
    OBVIOUS
  <2>1. k + 1 \in 1 .. n /\ k + 1 - 1 = k
    BY <1>1
  <2>2. PICK m \in Nat : Arrived(w[k], start, names, k, m)
    BY <1>1, <1>4
  <2>3. w[k + 1] = Down(w[k], names[k + 1])
    BY <1>2, <2>1
  <2>4. \E m2 \in Nat : Arrived(Down(w[k], names[k + 1]), start, names, k + 1, m2)
    BY <2>1, <2>2, DownArrives
  <2> QED  BY <2>3, <2>4
<1>5. n \in S
  <2> HIDE DEF S
  <2>1. Nat \subseteq S
    BY <1>3, <1>4, SetInduction
  <2> QED  BY <1>1, <2>1
<1>6. PICK m \in Nat : Arrived(w[n], start, names, n, m)
  BY <1>1, <1>5
<1>7. m \in 0 .. n /\ (m < n => w[n].stop)
  BY <1>1, <1>6 DEF Arrived
<1>8. /\ w[n].node \in DOMAIN nodes /\ ReachedIn(nodes, start, names)[m] = {w[n].node}
      /\ Len(w[n].rest) = n - m
      /\ m < n => ReachedIn(nodes, start, names)[m + 1] = {}
  BY <1>6, <1>7 DEF Arrived
<1> QED  BY <1>2, <1>7, <1>8

LEMMA DotsSteps ==
  ASSUME NEW node, NEW names, Len(names) \in Nat
  PROVE  \E w : /\ Dots(node, names) = w[Len(names)]
                /\ w[0] = [node |-> node, rest |-> names, stop |-> FALSE]
                /\ \A k \in 1 .. Len(names) : w[k] = Dot(w[k - 1], names[k])
<1> DEFINE n == Len(names)
           start == [node |-> node, rest |-> names, stop |-> FALSE]
           Value(g, k) == IF k = 0 THEN start ELSE Dot(g[k - 1], names[k])
           Step(g, m) == [k \in 0 .. m |-> Value(g, k)]
           w == CHOOSE g : g = Step(g, n)
           S == {m \in Nat : \E g : g = Step(g, m)}
<1>1. Dots(node, names) = w[n]
  BY DEF Dots
<1> HIDE DEF start
<1>2. 0 \in S
  <2> DEFINE g == [k \in 0 .. 0 |-> start]
  <2>1. g = Step(g, 0)
    OBVIOUS
  <2> QED  BY <2>1
<1>3. ASSUME NEW m \in Nat, m \in S PROVE m + 1 \in S
  <2>1. PICK g : g = Step(g, m)
    BY <1>3
  <2> DEFINE h == [k \in 0 .. m + 1 |-> IF k = m + 1 THEN Dot(g[m], names[m + 1]) ELSE g[k]]
  <2>2. ASSUME NEW k \in 0 .. m + 1
        PROVE  h[k] = Value(h, k)
    <3>1. CASE k = m + 1
      <4>1. k # 0 /\ k - 1 = m /\ h[m] = g[m] /\ h[k] = Dot(g[m], names[m + 1])
        BY <3>1
      <4> QED  BY <3>1, <4>1
    <3>2. CASE k # m + 1
      <4>1. k \in 0 .. m /\ h[k] = g[k] /\ (k # 0 => k - 1 \in 0 .. m /\ h[k - 1] = g[k - 1])
        BY <3>2
      <4>2. g[k] = Value(g, k)
        BY <2>1, <4>1
      <4> QED  BY <4>1, <4>2
    <3> QED  BY <3>1, <3>2
  <2>3. h = Step(h, m + 1)
    BY <2>2
  <2> HIDE DEF h, Value
  <2> QED  BY <2>3
<1>4. n \in S
  <2> HIDE DEF S, n
  <2>1. Nat \subseteq S
    BY <1>2, <1>3, SetInduction
  <2> QED  BY <2>1 DEF n
<1>5. \A k \in 0 .. n : w[k] = Value(w, k)
  <2>1. w = Step(w, n)
    BY <1>4
  <2> HIDE DEF w, Value
  <2> QED  BY <2>1
<1> HIDE DEF w
<1>6. w[0] = start
  <2>1. 0 \in 0 .. n
    OBVIOUS
  <2>2. w[0] = Value(w, 0)
    BY <1>5, <2>1
  <2> QED  BY <2>2
<1>7. ASSUME NEW k \in 1 .. n PROVE w[k] = Dot(w[k - 1], names[k])
  <2>1. k \in 0 .. n /\ k # 0
    OBVIOUS
  <2>2. w[k] = Value(w, k)
    BY <1>5, <2>1
  <2> QED  BY <2>1, <2>2
<1> QED  BY <1>1, <1>6, <1>7 DEF start

(* The fields of what Dots carries along.                                  *)
Has(v, node, rest) ==
  /\ "node" \in DOMAIN v /\ "rest" \in DOMAIN v /\ "stop" \in DOMAIN v
  /\ v.node = node /\ v.rest = rest

LEMMA DotStops ==
  ASSUME NEW node, NEW rest, NEW v, Has(v, node, rest), NEW c,
         node = Null \/ v.stop \/ c \notin {".", ".."} \cup Hidden
  PROVE  Has(Dot(v, c), node, rest) /\ Dot(v, c).stop
<1>1. Dot(v, c) = [v EXCEPT !.stop = TRUE]
  BY DEF Dot, Has
<1>2. Has([v EXCEPT !.stop = TRUE], node, rest) /\ [v EXCEPT !.stop = TRUE].stop
  BY DEF Has
<1> QED  BY <1>1, <1>2

LEMMA DotHides ==
  ASSUME NEW node, NEW rest, NEW v, Has(v, node, rest), ~v.stop, NEW c \in Hidden
  PROVE  Has(Dot(v, c), Null, rest)
<1>1. CASE node = Null
  BY <1>1, DotStops
<1>2. CASE node # Null
  <2>1. Dot(v, c) = [v EXCEPT !.node = Null]
    BY <1>2 DEF Dot, Has
  <2>2. Has([v EXCEPT !.node = Null], Null, rest)
    BY DEF Has
  <2> QED  BY <2>1, <2>2
<1> QED  BY <1>1, <1>2

LEMMA DotMoves ==
  ASSUME NEW node, NEW rest, NEW v, Has(v, node, rest), ~v.stop, NEW c, c \in {".", ".."},
         node # Null, Len(rest) # 1, NEW x, x = IF c = ".." THEN nodes[node].parent ELSE node
  PROVE  Has(Dot(v, c), x, Tail(rest)) /\ ~Dot(v, c).stop
<1>1. Dot(v, c) = [v EXCEPT !.node = x, !.rest = Tail(rest)]
  <2>1. Dot(v, c) = [v EXCEPT !.node = IF c = ".." THEN nodes[v.node].parent ELSE v.node, !.rest = Tail(v.rest)]
    BY HiddenAssumption DEF Dot, Has
  <2> QED  BY <2>1 DEF Has
<1>2. Has([v EXCEPT !.node = x, !.rest = Tail(rest)], x, Tail(rest))
  BY DEF Has
<1>3. ~[v EXCEPT !.node = x, !.rest = Tail(rest)].stop
  BY DEF Has
<1> QED  BY <1>1, <1>2, <1>3

LEMMA OneSeq ==
  ASSUME NEW T, NEW x \in T PROVE <<x>> \in Seq(T) /\ Len(<<x>>) = 1 /\ <<x>>[1] = x
OBVIOUS

(* Where the names of a relative path begin: after `./` or `../`, if there *)
(* is one of them, at the directory or at its parent, and nowhere if the   *)
(* first of them begins with a dot.                                        *)
LEMMA DotsExact ==
  ASSUME NEW dir \in DOMAIN nodes, Null \notin DOMAIN nodes,
         NEW names \in Seq(STRING), names # <<>>, names[1] \notin {".", ".."},
         NEW dot, dot \in {<<>>, <<".">>, <<"..">>},
         NEW from, from = IF dot = <<"..">> THEN nodes[dir].parent ELSE dir,
         NEW end, end = IF names[1] \in Hidden THEN Null ELSE from
  PROVE  Dots(dir, dot \o names).node = end /\ Dots(dir, dot \o names).rest = names
<1> DEFINE start == IF dot = <<"..">> THEN nodes[dir].parent ELSE dir
           full == dot \o names
           b == Len(dot)
           n == Len(names)
           X == STRING \cup {".", ".."}
<1>1. n \in Nat /\ n # 0 /\ DOMAIN names = 1 .. n
  BY EmptySeq
<1>2. /\ dot \in Seq(X) /\ b \in 0 .. 1
      /\ b = 0 => dot = <<>>
      /\ b = 1 => dot[1] \in {".", ".."} /\ (dot[1] = ".." <=> dot = <<"..">>)
  <2>1. CASE dot = <<>>
    <3>1. <<>> \in Seq(X) /\ Len(<<>>) = 0
      BY EmptySeq
    <3> QED  BY <2>1, <3>1
  <2>2. CASE dot = <<".">>
    <3>1. <<".">> \in Seq(X) /\ Len(<<".">>) = 1 /\ <<".">>[1] = "."
      BY OneSeq
    <3>2. <<"..">>[1] = ".."
      BY OneSeq
    <3>3. <<".">> # <<"..">> /\ "." # ".."
      BY <3>1, <3>2
    <3> QED  BY <2>2, <3>1, <3>3
  <2>3. CASE dot = <<"..">>
    <3>1. <<"..">> \in Seq(X) /\ Len(<<"..">>) = 1 /\ <<"..">>[1] = ".."
      BY OneSeq
    <3> QED  BY <2>3, <3>1
  <2> QED  BY <2>1, <2>2, <2>3
<1>3. names \in Seq(X)
  <2>1. names \in [1 .. n -> X]
    BY LenProperties
  <2> QED  BY <1>1, <2>1
<1> HIDE DEF X
<1>4. /\ full \in Seq(X) /\ Len(full) = b + n
      /\ full[b + 1] = names[1]
      /\ b = 1 => full[1] = dot[1] /\ Tail(full) = names
  <2>1. /\ full \in Seq(X) /\ Len(full) = b + n
        /\ \A k \in 1 .. b + n : full[k] = IF k <= b THEN dot[k] ELSE names[k - b]
    BY <1>2, <1>3, ConcatProperties
  <2>2. b + 1 \in 1 .. b + n /\ ~(b + 1 <= b) /\ b + 1 - b = 1
    BY <1>1, <1>2
  <2>3. full[b + 1] = names[1]
    BY <2>1, <2>2
  <2>4. ASSUME b = 1 PROVE full[1] = dot[1] /\ Tail(full) = names
    <3> HIDE DEF full, b, n
    <3>1. full[1] = dot[1] /\ Len(full) = n + 1
      BY <1>1, <2>1, <2>4
    <3>2. full # <<>>
      BY <1>1, <2>1, <3>1, EmptySeq
    <3>3. /\ Tail(full) \in Seq(X) /\ Len(Tail(full)) = n
          /\ \A k \in 1 .. n : Tail(full)[k] = full[k + 1]
      BY <1>1, <2>1, <3>1, <3>2, HeadTailProperties
    <3>4. \A k \in 1 .. n : Tail(full)[k] = names[k]
      BY <1>1, <2>1, <2>4, <3>3
    <3>5. Len(names) = n
      BY DEF n
    <3> QED  BY <1>1, <1>3, <3>1, <3>3, <3>4, <3>5, SeqEqual
  <2> QED  BY <2>1, <2>3, <2>4
<1>5. PICK w : /\ Dots(dir, full) = w[b + n]
               /\ w[0] = [node |-> dir, rest |-> full, stop |-> FALSE]
               /\ \A k \in 1 .. b + n : w[k] = Dot(w[k - 1], full[k])
  <2>1. Len(full) \in Nat /\ Len(full) = b + n
    BY <1>1, <1>2, <1>4
  <2> HIDE DEF full, b, n
  <2>2. \E w : /\ Dots(dir, full) = w[Len(full)]
               /\ w[0] = [node |-> dir, rest |-> full, stop |-> FALSE]
               /\ \A k \in 1 .. Len(full) : w[k] = Dot(w[k - 1], full[k])
    BY <2>1, DotsSteps
  <2> QED  BY <2>1, <2>2
<1>6. Has(w[0], dir, full) /\ ~w[0].stop
  BY <1>5 DEF Has
<1>7. full = names \/ b = 1
  BY <1>2
<1>8. b = 0 => dot # <<"..">>
  <2>1. Len(<<"..">>) = 1
    OBVIOUS
  <2> QED  BY <2>1
<1> HIDE DEF full, b, n
<1>9. Has(w[b], start, names) /\ ~w[b].stop
  <2>1. CASE b = 0
    <3>1. full = names /\ start = dir
      BY <1>7, <1>8, <2>1
    <3> QED  BY <1>6, <2>1, <3>1
  <2>2. CASE b = 1
    <3>1. w[1] = Dot(w[0], full[1]) /\ full[1] = dot[1] /\ Tail(full) = names /\ Len(full) # 1
      <4>1. 1 \in 1 .. b + n /\ 1 - 1 = 0 /\ b + n # 1
        BY <1>1, <2>2
      <4>2. w[1] = Dot(w[1 - 1], full[1])
        BY <1>5, <4>1
      <4> QED  BY <1>4, <2>2, <4>1, <4>2
    <3>2. dir # Null /\ full[1] \in {".", ".."}
      BY <1>2, <2>2, <3>1
    <3>3. start = IF full[1] = ".." THEN nodes[dir].parent ELSE dir
      BY <1>2, <2>2, <3>1
    <3> HIDE DEF start
    <3>4. Has(Dot(w[0], full[1]), start, Tail(full)) /\ ~Dot(w[0], full[1]).stop
      <4> DEFINE v == w[0]
                 c == full[1]
      <4>1. /\ Has(v, dir, full) /\ ~v.stop /\ c \in {".", ".."} /\ dir # Null /\ Len(full) # 1
            /\ start = IF c = ".." THEN nodes[dir].parent ELSE dir
        BY <1>6, <3>1, <3>2, <3>3
      <4> HIDE DEF v, c
      <4>2. Has(Dot(v, c), start, Tail(full)) /\ ~Dot(v, c).stop
        BY <4>1, DotMoves
      <4> QED  BY <4>2 DEF v, c
    <3> QED  BY <2>2, <3>1, <3>4
  <2> QED  BY <1>2, <2>1, <2>2
<1> HIDE DEF start
<1> DEFINE S == {d \in Nat : d + 1 <= n =>
                   Has(w[b + d + 1], end, names) /\ (end = Null \/ w[b + d + 1].stop)}
<1>10. 0 \in S
  <2>1. b + 0 + 1 = b + 1 /\ b + 1 \in 1 .. b + n /\ b + 1 - 1 = b
    BY <1>1, <1>2
  <2>2. w[b + 1] = Dot(w[b], names[1])
    BY <1>2, <1>4, <1>5, <2>1
  <2>3. Has(w[b + 1], end, names) /\ (end = Null \/ w[b + 1].stop)
    <3>1. CASE names[1] \in Hidden
      BY <1>9, <2>2, <3>1, DotHides
    <3>2. CASE names[1] \notin Hidden
      <4>1. end = start
        BY <3>2 DEF start
      <4>2. Has(w[b + 1], start, names) /\ w[b + 1].stop
        BY <1>9, <2>2, <3>2, DotStops
      <4> QED  BY <4>1, <4>2
    <3> QED  BY <3>1, <3>2
  <2> QED  BY <2>1, <2>3
<1>11. ASSUME NEW d \in Nat, d \in S PROVE d + 1 \in S
  <2> SUFFICES ASSUME (d + 1) + 1 <= n
               PROVE  /\ Has(w[b + (d + 1) + 1], end, names)
                      /\ end = Null \/ w[b + (d + 1) + 1].stop
    OBVIOUS
  <2> DEFINE j == b + d + 1
  <2>1. b + (d + 1) + 1 = j + 1 /\ j + 1 \in 1 .. b + n /\ j + 1 - 1 = j /\ d + 1 <= n /\ j \in Nat
    BY <1>1, <1>2
  <2>2. Has(w[j], end, names) /\ (end = Null \/ w[j].stop)
    BY <1>11, <2>1
  <2> HIDE DEF j
  <2>3. w[j + 1] = Dot(w[j], full[j + 1])
    BY <1>5, <2>1
  <2>4. Has(w[j + 1], end, names) /\ w[j + 1].stop
    BY <2>2, <2>3, DotStops
  <2> QED  BY <2>1, <2>4
<1>12. Has(w[b + n], end, names)
  <2>1. Nat \subseteq S
    <3> HIDE DEF S
    <3> QED  BY <1>10, <1>11, SetInduction
  <2>2. n - 1 \in Nat /\ b + (n - 1) + 1 = b + n /\ (n - 1) + 1 <= n
    BY <1>1, <1>2
  <2>3. n - 1 \in S
    BY <2>1, <2>2
  <2>4. Has(w[b + (n - 1) + 1], end, names)
    BY <2>2, <2>3
  <2> QED  BY <2>2, <2>4
<1> QED  BY <1>5, <1>12 DEF full, Has

LEMMA MaxIs ==
  ASSUME NEW S \in SUBSET Int, NEW m \in S, \A y \in S : y <= m
  PROVE  Max(S) = m
<1> DEFINE P(x) == \A y \in S : x >= y
<1>1. m \in S /\ P(m)
  OBVIOUS
<1>2. Max(S) \in S /\ P(Max(S))
  BY <1>1 DEF Max
<1>3. Max(S) >= m /\ Max(S) <= m /\ Max(S) \in Int
  BY <1>1, <1>2
<1> QED  BY <1>3

(* How many of the names lead somewhere.                                   *)
Longest(start, names) == Max({j \in 0 .. Len(names) : ReachedIn(nodes, start, names)[j] # {}})

(* The walk ends at the node of the longest beginning of the names that    *)
(* leads to one.                                                           *)
LEMMA AbsoluteExact ==
  ASSUME Tree(nodes), nodes[Root].parent = Null, UniqueSiblings,
         NEW start \in DOMAIN nodes, NEW names \in Seq(STRING)
  PROVE  /\ Longest(start, names) \in 0 .. Len(names)
         /\ ReachedIn(nodes, start, names)[Longest(start, names)] = {Walk(start, names).node}
         /\ Len(Walk(start, names).rest) = Len(names) - Longest(start, names)
<1> DEFINE R == ReachedIn(nodes, start, names)
           w == Walk(start, names)
           upto == {j \in 0 .. Len(names) : R[j] # {}}
<1>0. Len(names) \in Nat
  OBVIOUS
<1>1. PICK m \in 0 .. Len(names) :
        /\ R[m] = {w.node} /\ Len(w.rest) = Len(names) - m
        /\ m < Len(names) => R[m + 1] = {}
  BY WalkExact
<1>2. ASSUME NEW j \in upto PROVE j <= m
  <2> SUFFICES ASSUME m < j PROVE FALSE
    BY <1>0, <1>1
  <2>1. m < Len(names) /\ m + 1 \in 0 .. Len(names) /\ j \in m + 1 .. Len(names) /\ R[j] # {}
    BY <1>0, <1>1
  <2>2. R[j] = {}
    BY <1>0, <1>1, <2>1, ReachedNowhere
  <2> QED  BY <2>1, <2>2
<1>3. Longest(start, names) = m
  <2>1. m \in upto
    <3>1. R[m] # {}
      BY <1>1
    <3> QED  BY <3>1
  <2>2. upto \in SUBSET Int
    BY <1>0
  <2>3. Longest(start, names) = Max(upto)
    BY DEF Longest
  <2> HIDE DEF upto
  <2> QED  BY <1>2, <2>1, <2>2, <2>3, MaxIs
<1> QED  BY <1>1, <1>3

(* What LookupExact says of one lookup.                                    *)
Answers(dir, dot, names, start) ==
  LET node == path_to_node([abs |-> FALSE, names |-> dot \o names], dir).node
  IN  IF start = Null \/ names[1] \in Hidden \/ Len(names) - Longest(start, names) > 2
      THEN node = Null
      ELSE ReachedIn(nodes, start, names)[Longest(start, names)] = {node}

LEMMA RelativeExact ==
  ASSUME Tree(nodes), nodes[Root].parent = Null, UniqueSiblings,
         NEW dir \in DOMAIN nodes,
         NEW names \in Seq(STRING), names # <<>>, names[1] \notin {".", ".."},
         NEW dot, dot \in {<<>>, <<".">>, <<"..">>},
         NEW start, start = IF dot = <<"..">> THEN nodes[dir].parent ELSE dir
  PROVE  Answers(dir, dot, names, start)
<1> DEFINE path == [abs |-> FALSE, names |-> dot \o names]
           node == path_to_node(path, dir).node
           d == Dots(dir, dot \o names)
           w == Walk(start, names)
<1>1. DOMAIN nodes = 1 .. Len(nodes) /\ Len(nodes) \in Nat
  BY TreeFacts
<1>2. Null \notin DOMAIN nodes /\ (start = Null \/ start \in DOMAIN nodes)
  <2>1. Null \notin DOMAIN nodes
    BY <1>1 DEF Null
  <2>2. nodes[dir].parent = Null \/ nodes[dir].parent \in DOMAIN nodes
    BY <1>1 DEF Tree
  <2> QED  BY <2>1, <2>2
<1>3. d.node = (IF names[1] \in Hidden THEN Null ELSE start) /\ d.rest = names
  <2> DEFINE end == IF names[1] \in Hidden THEN Null ELSE start
  <2>1. end = IF names[1] \in Hidden THEN Null ELSE start
    OBVIOUS
  <2> HIDE DEF end
  <2>2. d.node = end /\ d.rest = names
    BY <1>2, <2>1, DotsExact
  <2> QED  BY <2>2 DEF end
<1>4. node = IF names[1] \in Hidden \/ start = Null THEN Null ELSE IF Len(w.rest) > 2 THEN Null ELSE w.node
  <2>1. ~path.abs /\ path.names = dot \o names
    OBVIOUS
  <2> HIDE DEF path
  <2> QED  BY <1>3, <2>1 DEF path_to_node
<1>5. Len(names) \in Nat
  OBVIOUS
<1> HIDE DEF node, w
<1>6. ASSUME start # Null
      PROVE  /\ ReachedIn(nodes, start, names)[Longest(start, names)] = {w.node}
             /\ Longest(start, names) \in 0 .. Len(names)
             /\ Len(w.rest) = Len(names) - Longest(start, names)
  <2>1. start \in DOMAIN nodes
    BY <1>2, <1>6
  <2> QED  BY <2>1, AbsoluteExact DEF w
<1>7. IF start = Null \/ names[1] \in Hidden \/ Len(names) - Longest(start, names) > 2
      THEN node = Null
      ELSE ReachedIn(nodes, start, names)[Longest(start, names)] = {node}
  BY <1>4, <1>5, <1>6
<1> QED  BY <1>7 DEF Answers, node

-----------------------------------------------------------------------------
(* Names are unique in a directory as long as every file was created where *)
(* its path says.                                                          *)

CreatedIn(ns) ==
  \A n \in DOMAIN ns \ {Root} :
    ns[n].parent \in ReachedIn(ns, Root, Front(ns[n].asked))[Len(Front(ns[n].asked))]

UniqueIn(ns) ==
  \A m, n \in DOMAIN ns : m # n /\ ns[m].parent = ns[n].parent => ns[m].name # ns[n].name

NamesIn(ns) ==
  /\ ns[Root].parent = Null /\ ns[Root].name = "/"
  /\ CreatedIn(ns) => UniqueIn(ns)

NamesInv == NamesIn(nodes)

LEMMA NamesImply == ASSUME NodesInv, NamesInv PROVE LookupExact
<1>1. Tree(nodes) /\ nodes[Root].parent = Null
  BY DEF NodesInv, NamesInv, NamesIn
<1>2. UniqueIn(nodes) <=> UniqueSiblings
  BY DEF UniqueIn, UniqueSiblings
<1>3. CreatedIn(nodes) <=> CreatedWhereNamed
  BY DEF CreatedIn, CreatedWhereNamed, Reach, Reached, ReachedIn
<1>4. CreatedWhereNamed => UniqueSiblings
  BY <1>2, <1>3 DEF NamesInv, NamesIn
<1>5. ASSUME UniqueSiblings,
             NEW names \in LookupNames,
             NEW dir \in {n \in DOMAIN nodes : nodes[n].type = "Directory"},
             NEW dot \in {<<>>, <<".">>, <<"..">>}
      PROVE  LET start == IF dot = <<"..">> THEN nodes[dir].parent ELSE dir
                 k == Len(names)
                 reached == Reached(start, names)
                 upto == {j \in 0 .. k : reached[j] # {}}
                 node == path_to_node([abs |-> FALSE, names |-> dot \o names], dir).node
             IN  IF start = Null \/ names[1] \in Hidden \/ k - Max(upto) > 2 THEN node = Null
                 ELSE reached[Max(upto)] = {node}
  <2> DEFINE start == IF dot = <<"..">> THEN nodes[dir].parent ELSE dir
  <2>1. names \in Seq(STRING) /\ names # <<>> /\ names[1] \notin {".", ".."} /\ dir \in DOMAIN nodes
    BY LookupAssumption
  <2>2. start = IF dot = <<"..">> THEN nodes[dir].parent ELSE dir
    OBVIOUS
  <2> HIDE DEF start
  <2>3. Answers(dir, dot, names, start)
    BY <1>1, <1>5, <2>1, <2>2, RelativeExact
  <2>4. Reached(start, names) = ReachedIn(nodes, start, names)
    BY DEF Reached, ReachedIn
  <2> QED  BY <2>3, <2>4 DEF start, Answers, Longest
<1> QED  BY <1>4, <1>5 DEF LookupExact

LEMMA FrontFacts ==
  ASSUME NEW T, NEW s \in Seq(T)
  PROVE  /\ Len(Front(s)) \in Nat
         /\ s # <<>> => /\ Len(Front(s)) = Len(s) - 1
                        /\ \A k \in 1 .. Len(s) - 1 : Front(s)[k] = s[k]
<1> DEFINE n == Len(s)
<1>1. n \in Nat /\ \A k \in 1 .. n - 1 : s[k] \in T
  OBVIOUS
<1>2. /\ Len(SubSeq(s, 1, n - 1)) = IF 1 <= n - 1 THEN n - 1 - 1 + 1 ELSE 0
      /\ \A k \in 1 .. n - 1 - 1 + 1 : SubSeq(s, 1, n - 1)[k] = s[1 + k - 1]
  BY <1>1, SubSeqProperties
<1>3. Front(s) = SubSeq(s, 1, n - 1)
  BY DEF Front
<1>4. s # <<>> => n # 0
  BY EmptySeq
<1> HIDE DEF n
<1>5. Len(Front(s)) = IF 1 <= n - 1 THEN n - 1 ELSE 0
  BY <1>1, <1>2, <1>3
<1>6. \A k \in 1 .. n - 1 : Front(s)[k] = s[k]
  BY <1>1, <1>2, <1>3
<1>7. Len(Front(s)) \in Nat /\ (s # <<>> => Len(Front(s)) = n - 1)
  BY <1>1, <1>4, <1>5
<1> QED  BY <1>6, <1>7 DEF n

(* A node that lies where its path says has always lain there.             *)
LEMMA CreatedBefore ==
  ASSUME NEW ns, NEW ns2, Tree(ns), Larger(ns, ns2), ns[Root].parent = Null,
         Null \notin DOMAIN ns2, CreatedIn(ns2)
  PROVE  CreatedIn(ns)
<1> SUFFICES ASSUME NEW n \in DOMAIN ns \ {Root}
             PROVE  ns[n].parent \in ReachedIn(ns, Root, Front(ns[n].asked))[Len(Front(ns[n].asked))]
  BY DEF CreatedIn
<1> DEFINE f == Front(ns[n].asked)
<1>1. /\ n \in DOMAIN ns2 \ {Root} /\ ns2[n].parent = ns[n].parent /\ ns2[n].asked = ns[n].asked
  BY DEF Larger
<1>2. ns[n].parent \in DOMAIN ns /\ Root \in DOMAIN ns /\ ns[n] \in NodeType
  BY TreeFacts DEF Tree
<1>3. ns[n].asked \in Seq(STRING)
  BY <1>2 DEF NodeType
<1>4. Len(f) \in Nat
  BY <1>3, FrontFacts
<1>5. ns[n].parent \in ReachedIn(ns2, Root, f)[Len(f)]
  BY <1>1 DEF CreatedIn
<1> HIDE DEF f
<1>6. ReachedIn(ns, Root, f)[Len(f)] = ReachedIn(ns2, Root, f)[Len(f)] \cap DOMAIN ns
  <2>1. Len(f) \in 0 .. Len(f)
    BY <1>4
  <2> QED  BY <1>2, <1>4, <2>1, ReachedInLarger
<1> QED  BY <1>2, <1>5, <1>6 DEF f

LEMMA SameNames ==
  ASSUME NEW ns, NEW ns2, Tree(ns), NamesIn(ns), Larger(ns, ns2), DOMAIN ns2 = DOMAIN ns
  PROVE  NamesIn(ns2)
<1>1. Root \in DOMAIN ns /\ Null \notin DOMAIN ns
  BY TreeFacts DEF Null
<1>2. ns2[Root].parent = Null /\ ns2[Root].name = "/"
  BY <1>1 DEF NamesIn, Larger
<1>3. CreatedIn(ns2) => CreatedIn(ns)
  BY <1>1, CreatedBefore DEF NamesIn
<1>4. UniqueIn(ns) => UniqueIn(ns2)
  BY DEF UniqueIn, Larger
<1> QED  BY <1>2, <1>3, <1>4 DEF NamesIn

(* A node that is made where its path says has a name that no other node   *)
(* of the directory has: the lookup would have found that one.             *)
LEMMA NewName ==
  ASSUME Tree(nodes), NamesIn(nodes), UniqueSiblings, NEW names \in Seq(STRING),
         nodes[Walk(Root, names).node].name # get_name_from_path(names),
         Walk(Root, names).node \in ReachedIn(nodes, Root, Front(names))[Len(Front(names))]
  PROVE  \A n \in DOMAIN nodes :
           nodes[n].parent = Walk(Root, names).node => nodes[n].name # get_name_from_path(names)
<1> DEFINE f == Walk(Root, names).node
           R == ReachedIn(nodes, Root, names)
           k == Len(names)
<1>1. nodes[Root].parent = Null /\ nodes[Root].name = "/" /\ Root \in DOMAIN nodes
  BY TreeFacts DEF NamesIn
<1>2. /\ Longest(Root, names) \in 0 .. k /\ R[Longest(Root, names)] = {f}
      /\ R[0] = {Root} /\ k \in Nat
  BY <1>1, AbsoluteExact, ReachedSteps
<1>3. names # <<>>
  <2> SUFFICES ASSUME names = <<>> PROVE FALSE
    OBVIOUS
  <2>1. k = 0 /\ get_name_from_path(names) = "/"
    BY DEF get_name_from_path
  <2>2. f = Root
    BY <1>2, <2>1
  <2> QED  BY <1>1, <2>1, <2>2
<1>4. k # 0 /\ get_name_from_path(names) = names[k] /\ k \in 1 .. k /\ k - 1 \in Nat
  BY <1>3, EmptySeq DEF get_name_from_path
<1>5. f \in R[k - 1]
  <2> DEFINE g == Front(names)
  <2>1. Len(g) = k - 1 /\ \A j \in 1 .. k - 1 : g[j] = names[j]
    BY <1>3, FrontFacts
  <2>2. f \in ReachedIn(nodes, Root, g)[Len(g)]
    OBVIOUS
  <2> HIDE DEF g, f
  <2>3. ReachedIn(nodes, Root, g)[k - 1] = ReachedIn(nodes, Root, names)[k - 1]
    BY <1>2, <1>4, <2>1, ReachedPrefix
  <2> QED  BY <2>1, <2>2, <2>3
<1>6. R[k] = Named(nodes, R[k - 1], names[k])
  BY <1>2, <1>4, ReachedSteps
<1> SUFFICES ASSUME NEW n \in DOMAIN nodes, nodes[n].parent = f,
                    nodes[n].name = get_name_from_path(names)
             PROVE  FALSE
  OBVIOUS
<1>7. n \in R[k]
  BY <1>4, <1>5, <1>6 DEF Named
<1>8. Longest(Root, names) = k
  <2> DEFINE S == {j \in 0 .. k : R[j] # {}}
  <2>1. k \in S /\ S \in SUBSET Int /\ \A y \in S : y <= k
    <3>1. R[k] # {}
      BY <1>7
    <3> QED  BY <1>2, <3>1
  <2>2. Longest(Root, names) = Max(S)
    BY DEF Longest
  <2> HIDE DEF S
  <2> QED  BY <2>1, <2>2, MaxIs
<1>9. n = f
  BY <1>2, <1>7, <1>8
<1> QED  BY <1>9

LEMMA InsertNames ==
  ASSUME NodesInv, NamesInv, NEW path \in [abs : BOOLEAN, names : Seq(STRING)], path.abs,
         NEW r \in NodeType, r.parent \in DOMAIN nodes, r.parent = path_to_node(path, Null).node,
         r.name = get_name_from_path(path.names), r.asked = path.names,
         r.name # nodes[r.parent].name, nodes' = Insert(r)
  PROVE  NamesInv'
<1> DEFINE N == Len(nodes) + 1
           names == path.names
           ns == Insert(r)
<1>1. Tree(nodes) /\ NamesIn(nodes) /\ names \in Seq(STRING)
  BY DEF NodesInv, NamesInv
<1>2. /\ DOMAIN nodes = 1 .. Len(nodes) /\ Len(nodes) \in Nat /\ Root \in DOMAIN nodes
      /\ nodes[Root].parent = Null
  BY <1>1, TreeFacts DEF NamesIn
<1>3. /\ DOMAIN ns = DOMAIN nodes \cup {N} /\ ns[N] = r /\ N \notin DOMAIN nodes
      /\ \A n \in DOMAIN nodes : SameBut(ns[n], nodes[n])
  <2>1. /\ DOMAIN ns = 1 .. N /\ ns[N] = r
        /\ \A n \in 1 .. Len(nodes) : SameBut(ns[n], nodes[n])
    BY <1>1, InsertFacts
  <2>2. 1 .. N = (1 .. Len(nodes)) \cup {N} /\ N \notin 1 .. Len(nodes)
    BY <1>2
  <2> HIDE DEF ns, N
  <2> QED  BY <1>2, <2>1, <2>2
<1>4. Null \notin DOMAIN ns
  BY <1>2, <1>3 DEF Null
<1> HIDE DEF ns, N
<1>5. Larger(nodes, ns)
  BY <1>3 DEF Larger, SameBut
<1>6. r.parent = Walk(Root, names).node
  <2>1. r.parent # Null
    BY <1>2 DEF Null
  <2> QED  BY <2>1 DEF path_to_node
<1>7. ns[Root].parent = Null /\ ns[Root].name = "/"
  BY <1>1, <1>2, <1>5 DEF NamesIn, Larger
<1>8. ASSUME CreatedIn(ns) PROVE UniqueIn(ns)
  <2>1. CreatedIn(nodes)
    BY <1>1, <1>2, <1>4, <1>5, <1>8, CreatedBefore
  <2>2. UniqueIn(nodes) /\ UniqueSiblings
    BY <1>1, <2>1 DEF NamesIn, UniqueIn, UniqueSiblings
  <2>3. r.parent \in ReachedIn(nodes, Root, Front(names))[Len(Front(names))]
    <3>1. N # Root /\ N \in DOMAIN ns
      BY <1>2, <1>3
    <3>2. ns[N].asked = names /\ ns[N].parent = r.parent
      BY <1>3
    <3>3. r.parent \in ReachedIn(ns, Root, Front(names))[Len(Front(names))]
      BY <1>8, <3>1, <3>2 DEF CreatedIn
    <3>4. Len(Front(names)) \in Nat
      BY <1>1, FrontFacts
    <3>5. Len(Front(names)) \in 0 .. Len(Front(names))
      BY <3>4
    <3>6. ReachedIn(nodes, Root, Front(names))[Len(Front(names))]
            = ReachedIn(ns, Root, Front(names))[Len(Front(names))] \cap DOMAIN nodes
      <4> DEFINE g == Front(names)
      <4> HIDE DEF g
      <4>1. Len(g) \in Nat /\ Len(g) \in 0 .. Len(g)
        BY <3>4, <3>5 DEF g
      <4>2. ReachedIn(nodes, Root, g)[Len(g)] = ReachedIn(ns, Root, g)[Len(g)] \cap DOMAIN nodes
        BY <1>1, <1>2, <1>4, <1>5, <4>1, ReachedInLarger
      <4> QED  BY <4>2 DEF g
    <3> QED  BY <3>3, <3>6
  <2>4. \A n \in DOMAIN nodes : nodes[n].parent = r.parent => nodes[n].name # r.name
    BY <1>1, <1>6, <2>2, <2>3, NewName
  <2> QED  BY <1>3, <1>5, <2>2, <2>4 DEF UniqueIn, Larger
<1>9. NamesIn(ns)
  BY <1>7, <1>8 DEF NamesIn
<1> QED  BY <1>9 DEF NamesInv, ns

LEMMA NewNodeNames ==
  ASSUME NEW path, NEW type, NEW parent, NEW by
  PROVE  LET r == NewNode(path, type, parent, by)
         IN  r.name = get_name_from_path(path.names) /\ r.asked = path.names
BY DEF NewNode

LEMMA NamesInit == Init => NamesInv
<1> SUFFICES ASSUME Init PROVE NamesInv
  OBVIOUS
<1>1. DOMAIN nodes = {Root} /\ nodes[Root] = RootNode
  BY DEF Init, Root
<1>2. RootNode.parent = Null /\ RootNode.name = "/"
  BY DEF RootNode
<1> QED  BY <1>1, <1>2 DEF NamesInv, NamesIn, UniqueIn

LEMMA NamesSame == ASSUME NamesInv, UNCHANGED nodes PROVE NamesInv'
BY DEF NamesInv

LEMMA LoadFileNames ==
  ASSUME FilesInv, NamesInv, LoadFile PROVE NamesInv'
<1> DEFINE pages == DIV_CEIL(Entry.size, PageSize)
           big == Entry.size > PageSize
           n == NewNode(EntryPath, "File", EntryNode, "kernel")
           r == [n EXCEPT
                   !.data = Overwrite(Zeros(IF big THEN pages * PageSize ELSE PageSize), 0, Entry.size),
                   !.written = Overwrite(@, 0, Entry.size), !.grows = IF big THEN 1 ELSE 0]
<1>1. /\ pos \in DOMAIN image /\ EntryNode # Null /\ CanCreate(EntryPath, EntryNode)
      /\ nodes' = Insert(r)
  BY DEF LoadFile, Loading
<1>2. /\ EntryNode \in DOMAIN nodes /\ EntryNode \in Nat /\ Entry.size \in 0 .. MaxOffset
      /\ EntryPath \in [abs : BOOLEAN, names : Seq(STRING)]
  BY <1>1, EntryFacts
<1>3. EntryPath.abs
  BY <1>1, EntryFacts
<1>4. /\ n \in NodeType /\ n.type = "File" /\ n.parent = EntryNode /\ n.children = <<>>
      /\ n.by = "kernel" /\ n.written = Zeros(MaxOffset)
  BY <1>2, NewNodeFacts
<1>5. n.name = get_name_from_path(EntryPath.names) /\ n.asked = EntryPath.names
  BY NewNodeNames
<1> HIDE DEF n
<1>6. /\ r \in NodeType /\ Filled(r) /\ r.type = "File" /\ r.parent = EntryNode /\ r.children = <<>>
      /\ r.by = "kernel" /\ r.grows <= 1
      /\ Len(r.data) \div PageSize = IF big THEN pages ELSE 1
  BY <1>2, <1>4, LoadedFacts
<1>7. r.name = n.name /\ r.asked = n.asked
  BY <1>4 DEF NodeType
<1> HIDE DEF r
<1>8. r.name # nodes[r.parent].name /\ r.parent = path_to_node(EntryPath, Null).node
  BY <1>1, <1>4, <1>5, <1>6, <1>7 DEF CanCreate, strcmp, EntryNode
<1> QED  BY <1>1, <1>2, <1>3, <1>4, <1>5, <1>6, <1>7, <1>8, InsertNames DEF FilesInv

LEMMA LoadDirectoryNames ==
  ASSUME FilesInv, NamesInv, LoadDirectory PROVE NamesInv'
<1> DEFINE r == NewNode(EntryPath, "Directory", EntryNode, "kernel")
<1>1. /\ pos \in DOMAIN image
      /\ nodes' = IF EntryNode # Null /\ CanMkdir(EntryPath, EntryNode) THEN Insert(r) ELSE nodes
  BY DEF LoadDirectory, Loading
<1>2. CASE nodes' = nodes
  BY <1>2, NamesSame
<1>3. CASE EntryNode # Null /\ CanMkdir(EntryPath, EntryNode) /\ nodes' = Insert(r)
  <2>1. /\ EntryNode \in DOMAIN nodes /\ EntryNode \in Nat
        /\ EntryPath \in [abs : BOOLEAN, names : Seq(STRING)] /\ EntryPath.abs
    BY <1>1, <1>3, EntryFacts
  <2>2. r \in NodeType /\ r.parent = EntryNode
    BY <2>1, NewNodeFacts
  <2>3. r.name = get_name_from_path(EntryPath.names) /\ r.asked = EntryPath.names
    BY NewNodeNames
  <2> HIDE DEF r
  <2>4. r.name # nodes[r.parent].name /\ r.parent = path_to_node(EntryPath, Null).node
    BY <1>3, <2>2, <2>3 DEF CanMkdir, strcmp, EntryNode
  <2> QED  BY <1>3, <2>1, <2>2, <2>3, <2>4, InsertNames DEF FilesInv
<1> QED  BY <1>1, <1>2, <1>3

LEMMA OpenCreateNames ==
  ASSUME FilesInv, NamesInv, NEW p \in Proc, NEW path \in Paths, NEW mode, OpenCreate(p, path, mode)
  PROVE  NamesInv'
<1> DEFINE node == path_to_node(path, Null).node
           r == NewNode(path, "File", node, proc[p].prog)
<1>1. /\ Found(p, path) /\ CanCreate(path, node) /\ path.abs
      /\ nodes' = nodes \/ nodes' = Insert(r)
  BY DEF OpenCreate, Halt, Give, Found
<1>2. CASE nodes' = nodes
  BY <1>2, NamesSame
<1>3. CASE nodes' = Insert(r)
  <2>1. /\ proc[p].st = "run" /\ node \in DOMAIN nodes /\ node \in Nat
        /\ path \in [abs : BOOLEAN, names : Seq(STRING)]
    BY <1>1, FoundFacts
  <2>2. proc[p].prog \in Proc
    BY <2>1 DEF FilesInv, TypeInv
  <2>3. node = path_to_node(path, Null).node
    OBVIOUS
  <2> HIDE DEF node
  <2>4. r \in NodeType /\ r.parent = node
    BY <2>1, <2>2, NewNodeFacts
  <2>5. r.name = get_name_from_path(path.names) /\ r.asked = path.names
    BY NewNodeNames
  <2> HIDE DEF r
  <2>6. r.name # nodes[r.parent].name
    BY <1>1, <2>4, <2>5 DEF CanCreate, strcmp
  <2> QED  BY <1>1, <1>3, <2>1, <2>3, <2>4, <2>5, <2>6, InsertNames DEF FilesInv
<1> QED  BY <1>1, <1>2, <1>3

LEMMA WriteNames ==
  ASSUME FilesInv, NamesInv, NEW p \in Proc, NEW fd \in 0 .. MaxDesc - 1, NEW size \in Sizes,
         Write(p, fd, size)
  PROVE  NamesInv'
<1> DEFINE n == desc[At(proc[p].fds, fd)].file
           at == desc[At(proc[p].fds, fd)].offset
           r == WriteNode(n, at, size)
<1>1. InBounds(proc[p].fds, fd) /\ At(proc[p].fds, fd) # Null
  BY DEF Write, Usable
<1>2. n = Tty0 \/ IsFile(nodes, n)
  BY <1>1, SlotUsed
<1>3. nodes' = nodes \/ (n # Tty0 /\ nodes' = [nodes EXCEPT ![n] = r])
  BY DEF Write, Halt
<1>4. CASE nodes' = nodes
  BY <1>4, NamesSame
<1>5. CASE n # Tty0 /\ nodes' = [nodes EXCEPT ![n] = r]
  <2>1. n \in DOMAIN nodes
    BY <1>2, <1>5 DEF IsFile
  <2> HIDE DEF n, at
  <2>2. Tree(nodes) /\ nodes[n] \in NodeType
    BY <2>1, TreeFacts DEF FilesInv, NodesInv
  <2>3. r.parent = nodes[n].parent /\ r.name = nodes[n].name /\ r.asked = nodes[n].asked
    BY <2>2 DEF WriteNode, NodeType
  <2> HIDE DEF r
  <2>4. DOMAIN nodes' = DOMAIN nodes /\ Larger(nodes, nodes')
    BY <1>5, <2>1, <2>3 DEF Larger
  <2> QED  BY <2>2, <2>4, SameNames DEF NamesInv
<1> QED  BY <1>3, <1>4, <1>5

LEMMA NamesNext == FilesInv /\ NamesInv /\ [Next]_vars => NamesInv'
<1> SUFFICES ASSUME FilesInv, NamesInv, [Next]_vars PROVE NamesInv'
  OBVIOUS
<1>1. CASE LoadFile \/ LoadDirectory
  BY <1>1, LoadFileNames, LoadDirectoryNames
<1>2. CASE LoadFileFails \/ LoadSymlink \/ LoadUnknown \/ LoadDone
  BY <1>2, NamesSame DEF LoadFileFails, LoadSymlink, LoadUnknown, LoadDone, Halt
<1>3. ASSUME NEW p \in Proc,
             \/ StartProgram(p) \/ ForkAfterClose(p) \/ Exit(p)
             \/ \E c \in Proc : Fork(p, c)
             \/ \E fd \in 0 .. MaxDesc - 1 : Close(p, fd)
      PROVE  NamesInv'
  BY <1>3, NamesSame DEF StartProgram, ForkAfterClose, Exit, Fork, Close, Halt
<1>4. ASSUME NEW p \in Proc, NEW path \in Paths, OpenRelative(p, path) \/ OpenForeign(p, path)
      PROVE  NamesInv'
  BY <1>4, NamesSame DEF OpenRelative, OpenForeign, Halt
<1>5. ASSUME NEW p \in Proc, NEW path \in Paths, NEW mode \in Modes,
             OpenDevice(p, path, mode) \/ OpenFile(p, path, mode) \/ OpenCreate(p, path, mode)
      PROVE  NamesInv'
  <2>1. OpenDevice(p, path, mode) \/ OpenFile(p, path, mode) => nodes' = nodes
    BY DEF OpenDevice, OpenFile, Give
  <2> QED  BY <1>5, <2>1, OpenCreateNames, NamesSame
<1>6. ASSUME NEW p \in Proc, NEW fd \in 0 .. MaxDesc - 1, NEW size \in Sizes,
             Read(p, fd, size) \/ Write(p, fd, size)
      PROVE  NamesInv'
  <2>1. Read(p, fd, size) => nodes' = nodes
    BY DEF Read
  <2> QED  BY <1>6, <2>1, WriteNames, NamesSame
<1>7. CASE UNCHANGED vars
  BY <1>7, NamesSame DEF vars
<1> QED  BY <1>1, <1>2, <1>3, <1>4, <1>5, <1>6, <1>7 DEF Next

(* path_to_node against the tree, after any sequence of calls: it finds    *)
(* the node, else its parent, else its parent's parent, and nothing if     *)
(* more is missing or the first name begins with a dot; and names are      *)
(* unique in a directory unless a file was created in another directory    *)
(* than its path says.                                                     *)
THEOREM LookupsExact == Spec => []LookupExact
<1>1. FilesInv /\ NamesInv => LookupExact
  BY NamesImply DEF FilesInv
<1>2. Spec => [](FilesInv /\ NamesInv)
  BY InitInv, NextInv, NamesInit, NamesNext, PTL DEF Spec
<1> QED  BY <1>1, <1>2, PTL
=============================================================================
