-------------------------------- MODULE Files --------------------------------
(***************************************************************************)
(* Files: the tmpfs tree, the two mounts ("/" is tmpfs, "/dev" is devfs    *)
(* with the device tty0), the loading of the ramdisk, and the system calls *)
(* on descriptors, with what fork and exit do to them.                     *)
(*                                                                         *)
(* A path is a record: abs, and names, the sequence of its components; a   *)
(* slash at the end does not occur.  Sizes and offsets are in units of     *)
(* which a page has PageSize, and a byte is 0 or 1.  A system call is one  *)
(* step: a second call on the one kernel stack overwrites the first (see   *)
(* Sched), so there is no interleaving of two that goes on.                *)
(***************************************************************************)
EXTENDS Vector, FiniteSets, FiniteSetsExt, SequencesExt

CONSTANTS Proc,       \* the processes, each used for one life
          Images,     \* the ramdisks: sequences of (type, names, size)
          Inner,      \* what the data of a file may read as, taken for an archive
          ProgPath,   \* the absolute path of the program that is started
          Paths,      \* the paths programs open
          Hidden,     \* the names that begin with a dot, but for . and ..
          LookupNames,\* the sequences of names that lookups are checked for
          Sizes,      \* the size arguments of read and write
          PageSize,   \* units per page
          MaxCalls,   \* bounds: system calls on files,
          MaxNodes,   \*   nodes of the tree,
          MaxDesc,    \*   live descriptions,
          MaxOffset,  \*   the offset of a description of a file,
          MaxTty,     \*   and that of a device, which the device ignores;
          NFrames     \* the frames there are for file data

ASSUME FilesAssumption ==
  /\ PageSize \in Nat \ {0} /\ Sizes \subseteq Nat
  /\ {MaxCalls, MaxNodes, MaxDesc, MaxOffset, MaxTty, NFrames} \subseteq Nat
  /\ PageSize <= MaxOffset
  /\ Proc \cap {"kernel", "none"} = {}

EntryTypes == {"File", "Directory", "Symlink", "Other"}
Archives == Images \cup Inner

(* Any archive that fits in the bound on offsets, and any absolute path.   *)
ASSUME PathsAssumption ==
  /\ \A m \in Archives :
       m \in Seq([type : EntryTypes, names : Seq(STRING), size : 0 .. MaxOffset])
  /\ ProgPath \in [abs : {TRUE}, names : Seq(STRING)]
  /\ Paths \subseteq [abs : BOOLEAN, names : Seq(STRING)]

ASSUME HiddenAssumption == Hidden \cap {".", ".."} = {}

(* Lookups are checked for the names that follow `./` and `../`.           *)
ASSUME LookupAssumption ==
  \A names \in LookupNames :
    names \in Seq(STRING) /\ names # <<>> /\ names[1] \notin {".", ".."}

VARIABLES nodes,    \* the tmpfs nodes in the order of their creation, the root first
          desc,     \* desc[d]: a file_description, or Free
          proc,     \* per process: its state, fd_list, program
          taken,    \* how many frames hold, or are lost to, file data
          image,    \* the ramdisk
          pos,      \* how far load is in it, 0 when it is done
          core,     \* "ok", "halted", "panic" or "lost"
          calls     \* how many system calls there were, for the bound

vars == <<nodes, desc, proc, taken, image, pos, core, calls>>

Null == 0
Root == 1
Tty0 == -1                      \* the fs_node of the device
Free == [file |-> 0, mode |-> {}, offset |-> 0]
DIV_CEIL(a, b) == (a + b - 1) \div b
Std == <<{"WRITE"}, {"READ"}, {"WRITE"}>>   \* stdin, stdout, stderr

Zeros(n) == [i \in 1 .. n |-> 0]

(* The root is made while tmp_filesystem is still null: its fs is null.    *)
RootNode == [name |-> "/", type |-> "Directory", fs |-> "null", parent |-> Null,
             children |-> <<>>, data |-> <<>>, by |-> "kernel",
             asked |-> <<>>, written |-> <<>>, grows |-> 0]

(* size of the fs_node: 4096 for a file when it is made, and for ever      *)
SizeOf(n) == IF nodes[n].type = "File" THEN PageSize ELSE 0

Init ==
  /\ nodes = <<RootNode>>
  /\ desc = [d \in 1 .. MaxDesc |-> Free]
  /\ proc = [p \in Proc |-> [st |-> "none", prog |-> "none", fds |-> Empty]]
  /\ taken = 0
  /\ image \in Images
  /\ pos = 1
  /\ core = "ok"
  /\ calls = 0

-----------------------------------------------------------------------------
(* path_to_node                                                            *)

strcmp(a, b) == a = b

get_name_from_path(names) == IF names = <<>> THEN "/" ELSE names[Len(names)]

(* `.` and `..` at the front of a relative path, each followed by more; a  *)
(* name there that only begins with a dot is not found.                    *)
Dot(w, c) ==
  IF w.node = Null \/ w.stop \/ c \notin {".", ".."} \cup Hidden
  THEN [w EXCEPT !.stop = TRUE]
  ELSE IF c \in Hidden \/ Len(w.rest) = 1 THEN [w EXCEPT !.node = Null]
  ELSE [w EXCEPT !.node = IF c = ".." THEN nodes[@].parent ELSE @, !.rest = Tail(@)]

Dots(node, names) ==
  LET w[k \in 0 .. Len(names)] ==
        IF k = 0 THEN [node |-> node, rest |-> names, stop |-> FALSE] ELSE Dot(w[k - 1], names[k])
  IN  w[Len(names)]

(* One component: the first child, newest first, that has its name.  The   *)
(* field seen collects the nodes whose names are read.                     *)
Down(w, c) ==
  LET kids == nodes[w.node].children
      same == {i \in DOMAIN kids : strcmp(nodes[kids[i]].name, c)}
  IN  IF w.stop THEN w
      ELSE IF same = {}
      THEN [node |-> w.node, rest |-> w.rest, stop |-> TRUE, seen |-> w.seen \cup Range(kids)]
      ELSE [node |-> kids[Min(same)], rest |-> Tail(w.rest), stop |-> FALSE,
            seen |-> w.seen \cup {kids[k] : k \in 1 .. Min(same)}]

Walk(node, names) ==
  LET w[k \in 0 .. Len(names)] ==
        IF k = 0 THEN [node |-> node, rest |-> names, stop |-> FALSE, seen |-> {}]
        ELSE Down(w[k - 1], names[k])
  IN  w[Len(names)]

(* Seeded change: a node only for a path of which one component is left.   *)
path_to_node_parent(path, curr_dir) ==
  LET d == IF path.abs THEN [node |-> Root, rest |-> path.names] ELSE Dots(curr_dir, path.names)
      w == Walk(d.node, d.rest)
  IN  IF d.node = Null THEN [node |-> Null, seen |-> {}]
      ELSE [node |-> IF Len(w.rest) > 1 THEN Null ELSE w.node, seen |-> w.seen]

(* With up to two components left, that is up to one inner slash, the last *)
(* node that was found is the answer.                                      *)
path_to_node(path, curr_dir) ==
  LET d == IF path.abs THEN [node |-> Root, rest |-> path.names] ELSE Dots(curr_dir, path.names)
      w == Walk(d.node, d.rest)
  IN  IF d.node = Null THEN [node |-> Null, seen |-> {}]
      ELSE [node |-> IF Len(w.rest) > 2 THEN Null ELSE w.node, seen |-> w.seen]

-----------------------------------------------------------------------------
(* tmpfs::open and tmpfs::mkdir: the node for a description, Null, or the  *)
(* parent for a new node.                                                  *)

NewNode(path, type, parent, by) ==
  [name |-> get_name_from_path(path.names), type |-> type, fs |-> "tmpfs",
   parent |-> parent, children |-> <<>>,
   data |-> IF type = "File" THEN Zeros(PageSize) ELSE <<>>,
   \* `by`: in whose memory the name lies, since the path is not copied
   by |-> by,
   \* for the properties: the path, what was written, how often data grew
   asked |-> path.names, written |-> Zeros(MaxOffset), grows |-> 0]

(* The tree with a new node at the head of its parent's children.          *)
Insert(node) ==
  Append([nodes EXCEPT ![node.parent].children = <<Len(nodes) + 1>> \o @], node)

(* Seeded change: CREATE that does not look at the type of the parent.     *)
CanCreateAnywhere(path, node) ==
  ~strcmp(get_name_from_path(path.names), nodes[node].name)

CanCreate(path, node) ==
  ~strcmp(get_name_from_path(path.names), nodes[node].name) /\ nodes[node].type = "Directory"

CanOpen(path, node) ==
  strcmp(get_name_from_path(path.names), nodes[node].name) /\ nodes[node].type = "File"

CanMkdir(path, node) == ~strcmp(get_name_from_path(path.names), nodes[node].name)

(* get_absolute_path: below "/dev/" the file system is devfs, and its path *)
(* is what follows.                                                        *)
OnDevfs(path) == path.abs /\ Len(path.names) > 1 /\ path.names[1] = "dev"
DevfsNode(path) == IF path.names = <<"dev", "tty0">> THEN Tty0 ELSE Null

-----------------------------------------------------------------------------
(* tmpfs::write of size bytes at an offset, as the node's new record.      *)
(* resize copies as many bytes as the size says, the first page, frees     *)
(* that page, and does not change the size.  Its test for nullptr is on    *)
(* the address with the base added, and never true.                        *)
Overwrite(data, offset, size) ==
  [i \in DOMAIN data |-> IF i > offset /\ i <= offset + size THEN 1 ELSE data[i]]

Grows(n, offset, size) == offset + size > SizeOf(n)
PagesFor(offset, size) == DIV_CEIL(offset + size, PageSize)

(* Seeded change: resize that begins with empty pages.                     *)
tmpfs_resize_empty(n, pages) == Zeros(pages * PageSize)

tmpfs_resize(n, pages) ==
  [i \in 1 .. pages * PageSize |-> IF i <= SizeOf(n) THEN nodes[n].data[i] ELSE 0]

WriteNode(n, offset, size) ==
  LET grow == Grows(n, offset, size)
      data == IF grow THEN tmpfs_resize(n, PagesFor(offset, size)) ELSE nodes[n].data
  IN  [nodes[n] EXCEPT !.data = Overwrite(data, offset, size),
                       !.written = Overwrite(@, offset, size),
                       !.grows = IF grow /\ @ < 2 THEN @ + 1 ELSE @]

FramesAfter(n, offset, size) ==
  IF Grows(n, offset, size)
  THEN taken + PagesFor(offset, size) - DIV_CEIL(SizeOf(n), PageSize) ELSE taken

(* The frames resize needs while the old ones are still taken.             *)
Fits(n, offset, size) ==
  Grows(n, offset, size) => taken + PagesFor(offset, size) <= NFrames

-----------------------------------------------------------------------------
(* Descriptions are heap blocks; new ones are the lowest free ones.        *)
FreeDescs == {d \in 1 .. MaxDesc : desc[d] = Free}
NewDescs(k) ==
  {s \in [1 .. k -> FreeDescs] :
     /\ \A i, j \in 1 .. k : i < j => s[i] < s[j]
     /\ \A d \in FreeDescs \ Range(s) : \A i \in 1 .. k : s[i] < d}
HasDesc(k) == NewDescs(k) # {}
Fill(new, values) ==
  [d \in 1 .. MaxDesc |-> IF d \in Range(new) THEN values[CHOOSE i \in DOMAIN new : new[i] = d]
                          ELSE desc[d]]
Description(file, mode) == [file |-> file, mode |-> mode, offset |-> 0]

Halt(how) == core' = how /\ UNCHANGED <<nodes, desc, proc, taken, image, pos>>

-----------------------------------------------------------------------------
(* Tmpfs::load, one step per header of the archive; a header of type 0     *)
(* ends it.                                                                *)

Entry == image[pos]
Loading == core = "ok" /\ pos \in DOMAIN image
EntryPath == [abs |-> TRUE, names |-> Entry.names]
EntryNode == path_to_node(EntryPath, Null).node

(* A file: open with CREATE, then write; the description is never deleted. *)
LoadFile ==
  /\ Loading /\ Entry.type = "File" /\ Len(nodes) < MaxNodes
  /\ EntryNode # Null /\ CanCreate(EntryPath, EntryNode)
  /\ LET pages == DIV_CEIL(Entry.size, PageSize)
         n == NewNode(EntryPath, "File", EntryNode, "kernel")
         big == Entry.size > PageSize
     IN  /\ taken + (IF big THEN pages + 1 ELSE 1) <= NFrames
         /\ nodes' = Insert([n EXCEPT
              !.data = Overwrite(Zeros(IF big THEN pages * PageSize ELSE PageSize), 0, Entry.size),
              !.written = Overwrite(@, 0, Entry.size), !.grows = IF big THEN 1 ELSE 0])
         /\ taken' = taken + IF big THEN pages ELSE 1
         /\ \E new \in NewDescs(1) : desc' = Fill(new, <<Description(Len(nodes) + 1, {"CREATE"})>>)
  /\ pos' = pos + 1
  /\ UNCHANGED <<image, proc, core, calls>>

(* It cannot be created: `continue` takes the file's data, if there are    *)
(* any, for the next header, and goes on with whatever archive they and    *)
(* what comes after them read as.                                          *)
LoadFileFails ==
  /\ Loading /\ Entry.type = "File"
  /\ EntryNode = Null \/ ~CanCreate(EntryPath, EntryNode)
  /\ \/ Entry.size = 0 /\ pos' = pos + 1 /\ image' = image
     \/ Entry.size > 0 /\ pos' = 1 /\ image' \in Inner
  /\ UNCHANGED <<nodes, desc, proc, taken, core, calls>>

LoadSymlink ==
  /\ Loading /\ Entry.type = "Symlink"
  /\ pos' = pos + 1
  /\ UNCHANGED <<image, nodes, desc, proc, taken, core, calls>>

LoadUnknown ==
  /\ Loading /\ Entry.type = "Other"
  /\ Halt("panic") /\ UNCHANGED calls

(* A directory, or a message when it cannot be made.                       *)
LoadDirectory ==
  /\ Loading /\ Entry.type = "Directory" /\ Len(nodes) < MaxNodes
  /\ nodes' = IF EntryNode # Null /\ CanMkdir(EntryPath, EntryNode)
              THEN Insert(NewNode(EntryPath, "Directory", EntryNode, "kernel")) ELSE nodes
  /\ pos' = pos + 1
  /\ UNCHANGED <<image, desc, proc, taken, core, calls>>

LoadDone ==
  /\ core = "ok" /\ pos > Len(image)
  /\ pos' = 0
  /\ UNCHANGED <<image, nodes, desc, proc, taken, core, calls>>

-----------------------------------------------------------------------------
(* create_program: open the program's file, delete the description, and    *)
(* (create_process) open the terminal three times.                         *)
Running(p) == core = "ok" /\ proc[p].st = "run"
Call == calls < MaxCalls /\ calls' = calls + 1
Foreign(seen, prog) == \E n \in seen : nodes[n].by \notin {"kernel", prog}

StartProgram(p) ==
  /\ core = "ok" /\ pos = 0 /\ proc[p].st = "none" /\ HasDesc(3)
  /\ UNCHANGED calls
  /\ LET r == path_to_node(ProgPath, Null)
     IN  IF Foreign(r.seen, "none") THEN Halt("lost")
         ELSE IF r.node = Null \/ ~CanOpen(ProgPath, r.node) THEN Halt("halted")
         ELSE /\ \E new \in NewDescs(3) :
                   /\ desc' = Fill(new, [i \in 1 .. 3 |-> Description(Tty0, Std[i])])
                   /\ proc' = [proc EXCEPT ![p] = [st |-> "run", prog |-> p, fds |-> new]]
              /\ UNCHANGED <<nodes, taken, image, pos, core>>

(* Seeded change: open takes the first slot, be it empty or not.           *)
SlotAlwaysFirst(fds, d) == Put(fds, 0, d)

(* syscall_open: the first slot that close has emptied, or one more.       *)
Slot(fds, d) ==
  LET empty == {i \in DOMAIN fds : fds[i] = Null}
  IN  IF empty = {} THEN push_back(fds, d) ELSE Put(fds, Min(empty) - 1, d)

(* A description of node for p, in the tree `tree`.                        *)
Give(p, node, mode, tree, frames) ==
  /\ \E new \in NewDescs(1) :
       /\ desc' = Fill(new, <<Description(node, mode)>>)
       /\ proc' = [proc EXCEPT ![p].fds = Slot(@, new[1])]
  /\ nodes' = tree /\ taken' = frames
  /\ UNCHANGED <<image, pos, core>>

(* Vfs::open of a relative path calls through the fs of the directory the  *)
(* process was started in; programs are started in the root, whose fs is   *)
(* null, and the page fault halts the core.                                *)
OpenRelative(p, path) ==
  /\ Running(p) /\ Call /\ ~path.abs /\ nodes[Root].fs = "null"
  /\ Halt("halted")

OpenDevice(p, path, mode) ==
  /\ Running(p) /\ Call /\ OnDevfs(path) /\ DevfsNode(path) # Null
  /\ Give(p, DevfsNode(path), mode, nodes, taken)

(* A name that lies in the memory of another program reads as anything.    *)
OpenForeign(p, path) ==
  /\ Running(p) /\ Call /\ path.abs /\ ~OnDevfs(path)
  /\ Foreign(path_to_node(path, Null).seen, proc[p].prog)
  /\ Halt("lost")

Found(p, path) ==
  /\ Running(p) /\ Call /\ HasDesc(1) /\ path.abs /\ ~OnDevfs(path)
  /\ ~Foreign(path_to_node(path, Null).seen, proc[p].prog)
  /\ path_to_node(path, Null).node # Null

OpenFile(p, path, mode) ==
  /\ Found(p, path) /\ "CREATE" \notin mode
  /\ LET node == path_to_node(path, Null).node
     IN  CanOpen(path, node) /\ Give(p, node, mode, nodes, taken)

(* CREATE: a frame for the first page is taken, unchecked.                 *)
OpenCreate(p, path, mode) ==
  /\ Found(p, path) /\ "CREATE" \in mode /\ Len(nodes) < MaxNodes
  /\ LET node == path_to_node(path, Null).node
     IN  /\ CanCreate(path, node)
         /\ IF taken = NFrames THEN Halt("lost")
            ELSE Give(p, Len(nodes) + 1, mode,
                      Insert(NewNode(path, "File", node, proc[p].prog)), taken + 1)

-----------------------------------------------------------------------------
(* The other system calls on files.  Calls that return -1 at once, for a   *)
(* slot that is not there or a mode that does not fit, change nothing.     *)
Usable(p, fd, mode) ==
  /\ Running(p) /\ Call /\ InBounds(proc[p].fds, fd)
  /\ At(proc[p].fds, fd) # Null /\ mode \in desc[At(proc[p].fds, fd)].mode

(* The bound on offsets.                                                   *)
Advance(d, size) ==
  /\ desc[d].offset + size <= IF desc[d].file = Tty0 THEN MaxTty ELSE MaxOffset
  /\ desc' = [desc EXCEPT ![d].offset = @ + size]

(* The offset moves on whether or not read, of a file or of the terminal,  *)
(* which has none, could transfer anything.                                *)
Read(p, fd, size) ==
  /\ Usable(p, fd, "READ")
  /\ Advance(At(proc[p].fds, fd), size)
  /\ UNCHANGED <<nodes, proc, taken, image, pos, core>>

Write(p, fd, size) ==
  /\ Usable(p, fd, "WRITE")
  /\ LET d == At(proc[p].fds, fd)
         n == desc[d].file
         at == desc[d].offset
     IN  IF n = Tty0
         THEN Advance(d, size) /\ UNCHANGED <<nodes, proc, taken, image, pos, core>>
         ELSE IF ~Fits(n, at, size) THEN Halt("lost")
         ELSE /\ Advance(d, size)
              /\ nodes' = [nodes EXCEPT ![n] = WriteNode(n, at, size)]
              /\ taken' = FramesAfter(n, at, size)
              /\ UNCHANGED <<image, proc, pos, core>>

Close(p, fd) ==
  /\ Running(p) /\ Call /\ InBounds(proc[p].fds, fd) /\ At(proc[p].fds, fd) # Null
  /\ desc' = [desc EXCEPT ![At(proc[p].fds, fd)] = Free]
  /\ proc' = [proc EXCEPT ![p].fds = Put(@, fd, Null)]
  /\ UNCHANGED <<nodes, taken, image, pos, core>>

-----------------------------------------------------------------------------
(* syscall_fork copies each description, following the pointer of an       *)
(* emptied slot too: a page fault in the kernel.                           *)
Fork(p, c) ==
  /\ Running(p) /\ proc[c].st = "none"
  /\ Null \notin Range(proc[p].fds)
  /\ \E new \in NewDescs(Size(proc[p].fds)) :
       /\ desc' = Fill(new, [i \in DOMAIN new |-> desc[proc[p].fds[i]]])
       /\ proc' = [proc EXCEPT ![c] = [st |-> "run", prog |-> proc[p].prog, fds |-> new]]
  /\ UNCHANGED <<nodes, taken, image, pos, core, calls>>

ForkAfterClose(p) ==
  /\ Running(p) /\ Null \in Range(proc[p].fds)
  /\ Halt("halted") /\ UNCHANGED calls

(* exit_process deletes what is in the slots; delete of nullptr is fine.   *)
Exit(p) ==
  /\ Running(p)
  /\ desc' = [d \in 1 .. MaxDesc |-> IF d \in Range(proc[p].fds) THEN Free ELSE desc[d]]
  /\ proc' = [proc EXCEPT ![p].st = "gone", ![p].fds = Empty]
  /\ UNCHANGED <<nodes, taken, image, pos, core, calls>>

Modes == {{"READ", "WRITE"}, {"CREATE", "READ", "WRITE"}}

Next ==
  \/ LoadFile \/ LoadFileFails \/ LoadDirectory \/ LoadSymlink
  \/ LoadUnknown \/ LoadDone
  \/ \E p \in Proc :
       \/ StartProgram(p)
       \/ \E path \in Paths : OpenRelative(p, path) \/ OpenForeign(p, path)
       \/ \E path \in Paths, mode \in Modes :
            OpenDevice(p, path, mode) \/ OpenFile(p, path, mode) \/ OpenCreate(p, path, mode)
       \/ \E fd \in 0 .. MaxDesc - 1, size \in Sizes : Read(p, fd, size) \/ Write(p, fd, size)
       \/ \E fd \in 0 .. MaxDesc - 1 : Close(p, fd)
       \/ \E c \in Proc : Fork(p, c)
       \/ ForkAfterClose(p) \/ Exit(p)

Spec == Init /\ [][Next]_vars

-----------------------------------------------------------------------------
(* The tree is one: a node is listed once, by its parent alone, made       *)
(* before it; a file lies in a directory, and has whole pages of data      *)
(* (mkdir does not look at the type of what it puts a directory in).       *)
TreeOK ==
  \A n \in DOMAIN nodes :
    /\ nodes[n].type \in {"File", "Directory"}
    /\ n # Root =>
         /\ nodes[n].parent \in 1 .. n - 1
         /\ nodes[n].type = "File" => nodes[nodes[n].parent].type = "Directory"
         /\ \A m \in DOMAIN nodes :
              Cardinality({i \in DOMAIN nodes[m].children : nodes[m].children[i] = n})
                = IF m = nodes[n].parent THEN 1 ELSE 0
    /\ Len(nodes[n].data) % PageSize = 0

(* The nodes that the first k names lead to, from the parents alone.       *)
Reached(start, names) ==
  LET r[k \in 0 .. Len(names)] ==
        IF k = 0 THEN {start}
        ELSE {n \in DOMAIN nodes : nodes[n].parent \in r[k - 1] /\ nodes[n].name = names[k]}
  IN  r

Reach(start, names) == Reached(start, names)[Len(names)]

(* The comment on path_to_node, "if the node in the path doesn't exist, it *)
(* will return its parent (if it exists)", as it matters to open: a file   *)
(* is created in the directory its path names.                             *)
CreatedWhereNamed ==
  \A n \in DOMAIN nodes \ {Root} :
    nodes[n].parent \in Reach(Root, Front(nodes[n].asked))

UniqueSiblings ==
  \A m, n \in DOMAIN nodes :
    m # n /\ nodes[m].parent = nodes[n].parent => nodes[m].name # nodes[n].name

(* path_to_node against the tree: the node, else its parent, else its      *)
(* parent's parent, from any directory and after `./` and `../`, but       *)
(* nothing when the first name begins with a dot.  Names are unique in a   *)
(* directory unless a file was created in the wrong one.                   *)
LookupExact ==
  /\ UniqueSiblings =>
       \A names \in LookupNames, dir \in {n \in DOMAIN nodes : nodes[n].type = "Directory"},
          dot \in {<<>>, <<".">>, <<"..">>} :
         LET start == IF dot = <<"..">> THEN nodes[dir].parent ELSE dir
             k == Len(names)
             reached == Reached(start, names)
             upto == {j \in 0 .. k : reached[j] # {}}
             node == path_to_node([abs |-> FALSE, names |-> dot \o names], dir).node
         IN  IF start = Null \/ names[1] \in Hidden \/ k - Max(upto) > 2 THEN node = Null
             ELSE reached[Max(upto)] = {node}
  /\ CreatedWhereNamed => UniqueSiblings

(* A description is in one slot of one process, and is alive as long as it *)
(* is there, whatever is opened, closed, forked and exited meanwhile; the  *)
(* others that are alive are those load left behind, one per file.         *)
DescriptorsOwned ==
  LET slots == UNION {{<<p, i>> : i \in DOMAIN proc[p].fds} : p \in Proc}
      held == {x \in slots : proc[x[1]].fds[x[2]] # Null}
      of(x) == proc[x[1]].fds[x[2]]
      loaded == {n \in DOMAIN nodes : nodes[n].type = "File" /\ nodes[n].by = "kernel"}
  IN  /\ \A x, y \in held : of(x) = of(y) => x = y
      /\ \A x \in held : desc[of(x)] # Free
      /\ Cardinality({d \in DOMAIN desc : desc[d] # Free}) = Cardinality(held) + Cardinality(loaded)

Pages(n) == Len(nodes[n].data) \div PageSize

(* What a file holds: its first page is what was written there, by whoever *)
(* and through whichever description; beyond it nothing is invented, but   *)
(* data may be gone, and a reader never gets there.  Frames are lost       *)
(* exactly when a file has grown twice, because resize frees by a size     *)
(* that no write changes.                                                  *)
FileData ==
  /\ \A n \in DOMAIN nodes : \A i \in DOMAIN nodes[n].data :
       /\ i <= PageSize => nodes[n].data[i] = nodes[n].written[i]
       /\ nodes[n].data[i] = 1 => nodes[n].written[i] = 1
  /\ LET inUse[n \in 0 .. Len(nodes)] == IF n = 0 THEN 0 ELSE inUse[n - 1] + Pages(n)
     IN  /\ taken >= inUse[Len(nodes)]
         /\ taken = inUse[Len(nodes)] <=> \A n \in DOMAIN nodes : nodes[n].grows <= 1
=============================================================================
