---------------------------- MODULE Sched_proofs ----------------------------
(***************************************************************************)
(* Proofs about Sched, for every number of process and thread slots, size  *)
(* of the id bitmaps and bound on the forks: what the scheduler keeps in   *)
(* one place, that no thread is lost, that a thread resumes with its own   *)
(* process, that tids and pids are unique, and that a scheduled process    *)
(* stays on process_list.                                                  *)
(*                                                                         *)
(* The invariant Base follows the flows of control.  Flow(t) is the flow   *)
(* of thread t wherever it is: on the core, or in regs[t] while t is       *)
(* switched out.  A tick moves flows between the two and changes none of   *)
(* them; every other step changes the flow on the core, and the lemmas     *)
(* MoveOthers and MoveOn say what must hold of the step for the flows that *)
(* wait.                                                                   *)
(***************************************************************************)
EXTENDS Sched, NatSets, SequenceTheorems, TLAPS

(* The statements of exit_process after the thread structure is freed.     *)
ExitTail == {"closefds", "loadexit", "storeexit", "delete", "leave"}

(* The statements of get_new_pid and get_new_tid, and the test of what     *)
(* they return.                                                            *)
IdSteps == {"find", "load", "store", "got"}

(* Where init_proc can be.                                                 *)
KernelPc == {"new", "list", "override", "queue", "hang"} \cup IdSteps

(* Where the flow of a user thread can be.                                 *)
UserPc == {"user", "other", "new", "list", "newthread", "copyregs", "queue", "exit",
           "clobbered"} \cup ExitTail \cup IdSteps

(* init_proc never ends; a core without a thread only hangs; and a flow is *)
(* inside a lock section only at a statement of that section.              *)
CoreOK ==
  /\ init_thread \in Scheduled
  /\ running_thread = Null => ctx.pc = "hang" /\ ctx.t = Null
  /\ ctx.in = "sched" => ctx.pc \in SchedSection
  /\ ctx.in = "heap" => ctx.pc \in HeapSection

(* init_proc is the only kernel thread, and each flow is at a statement of *)
(* its own code.                                                           *)
Kinds(t, c) ==
  /\ c.kind = IF t = init_thread THEN "kernel" ELSE "user"
  /\ c.pc \in IF t = init_thread THEN KernelPc ELSE UserPc

(* The flow is building process p for somebody else.                       *)
Builds(c) == c.p # Null /\ c.p # c.me

(* The locals p, t and which of a flow, by where it is.                    *)
Stage(c) ==
  /\ c.pc \in {"user", "other", "hang", "new"} => c.p = Null /\ c.t = Null
  /\ c.pc \in {"exit"} \cup ExitTail => c.p = c.me /\ c.t = Null
  /\ c.pc \in {"list", "newthread", "copyregs", "override", "queue"} \cup IdSteps => Builds(c)
  /\ c.kind = "user" /\ c.pc \in {"list", "newthread"} => c.t = Null
  /\ c.kind = "user" /\ c.pc \in IdSteps => (c.t = Null <=> c.which = "pid")
  /\ c.pc \in {"copyregs", "override", "queue"} => c.t # Null
  /\ c.kind = "kernel" /\ Builds(c) => c.t # Null
  /\ c.t # Null => Builds(c)
  /\ c.pc \in {"user", "new"} \/ (c.kind = "user" /\ c.pc = "list") => c.which = "pid"
  /\ c.kind = "kernel" /\ c.pc = "got" => c.which = "tid"

(* A scheduled thread has a process, is the thread of that process, and    *)
(* its flow runs for it.                                                   *)
Own(t, c) ==
  /\ parent_process[t] \in Proc
  /\ threads[parent_process[t]] = t
  /\ c.me = parent_process[t]

(* A scheduled thread or its process is freed only by its own exit_process *)
(* (a preempted one whose stack was overwritten included).                 *)
Alive(t, c) ==
  /\ t \notin liveT => c.p = c.me /\ c.pc \in ExitTail \cup {"clobbered"}
  /\ c.me \notin liveP => c.p = c.me /\ c.pc \in {"leave", "clobbered"}
  /\ c.pc = "leave" => c.me \notin liveP
  /\ c.pc \in ExitTail => t \notin liveT

(* What a flow builds is allocated, belongs to no scheduled thread, and is *)
(* set up as far as its statement says: queued threads are complete.       *)
Building(c) ==
  /\ Builds(c) =>
       /\ c.p \in liveP
       /\ \A u \in Scheduled : parent_process[u] # c.p
       /\ threads[c.p] \in {Null, c.t}
  /\ c.t # Null => c.t \in liveT /\ c.t \notin Scheduled
  /\ c.pc \in {"copyregs", "override", "queue"} => parent_process[c.t] = c.p
  /\ c.pc = "list" /\ c.kind = "kernel" => parent_process[c.t] = c.p
  /\ c.pc = "queue" \/ (c.kind = "kernel" /\ Builds(c)) =>
       threads[c.p] = c.t /\ regs[c.t] = UserContext(c.p)
  /\ c.kind = "user" /\ Builds(c) /\ c.pc \notin {"queue", "clobbered"} => threads[c.p] = Null

(* All that is known of the flow c of thread t.                            *)
FlowOK(t, c) == Kinds(t, c) /\ Stage(c) /\ Own(t, c) /\ Alive(t, c) /\ Building(c)

(* It holds of every scheduled thread, on the core or not.                 *)
FlowInv == \A t \in Scheduled : FlowOK(t, Flow(t))

(* Two flows never build the same thread or the same process.              *)
Apart ==
  \A t, u \in Scheduled :
    /\ Flow(t).t # Null /\ Flow(t).t = Flow(u).t => t = u
    /\ Builds(Flow(t)) /\ Builds(Flow(u)) /\ Flow(t).p = Flow(u).p => t = u

(* The thread of an allocated process is scheduled, or a flow is building  *)
(* it.                                                                     *)
Reachable ==
  \A p \in liveP : threads[p] # Null =>
    \/ threads[p] \in Scheduled /\ parent_process[threads[p]] = p
    \/ \E u \in Scheduled : Flow(u).p = p /\ Flow(u).t = threads[p]

(* The flow is in a system call whose frames are still on the stack.       *)
Active(c) == InSyscall(c) /\ c.pc # "clobbered"

(* There is one kernel stack: at most one flow is in an intact system      *)
(* call.                                                                   *)
OneActive ==
  \A t, u \in Scheduled : Active(Flow(t)) /\ Active(Flow(u)) => t = u

(* init_proc allocates only for a program it has still to start.           *)
StartInv ==
  \A t \in Scheduled : Flow(t).kind = "kernel" /\ Flow(t).pc = "new" => toStart > 0

(* Between the scan and the store, the id found is a bit of the bitmap.    *)
NewId(c) == c.pc \in {"load", "store"} => c.new[c.which] \in Id

(* The same, for the flow on the core and for all saved ones.              *)
IdsInv == NewId(ctx) /\ \A t \in Thread : NewId(regs[t])

(* The core runs a thread together with its process.                       *)
RunsOwn == running_thread # Null => running_process = parent_process[running_thread]

(* Who owns what, as long as no structure was reused while queued.         *)
Owners == RunsOwn /\ FlowInv /\ Apart /\ Reachable /\ OneActive /\ StartInv

(* The inductive invariant.                                                *)
Base == TypeOK /\ IdsInv /\ SectionHolders /\ InOnePlace /\ CoreOK
        /\ (fault # "dangling" => Owners)

-----------------------------------------------------------------------------
(* No value occurs twice.                                                  *)
Distinct(s) == \A j, k \in DOMAIN s : s[j] = s[k] => j = k

(* Append adds one value to the range of a sequence.                       *)
LEMMA RangeAppend ==
  ASSUME NEW T, NEW s \in Seq(T), NEW e \in T
  PROVE  Range(Append(s, e)) = Range(s) \cup {e}
<1>1. /\ DOMAIN s = 1 .. Len(s) /\ Len(s) \in Nat
      /\ DOMAIN Append(s, e) = 1 .. Len(s) + 1
      /\ \A i \in 1 .. Len(s) : Append(s, e)[i] = s[i]
      /\ Append(s, e)[Len(s) + 1] = e
  BY AppendProperties, LenProperties
<1>2. ASSUME NEW i \in 1 .. Len(s) + 1 PROVE Append(s, e)[i] \in Range(s) \cup {e}
  BY <1>1 DEF Range
<1>3. ASSUME NEW i \in 1 .. Len(s) PROVE s[i] \in Range(Append(s, e))
  <2>1. i \in DOMAIN Append(s, e)
    BY <1>1
  <2> QED BY <1>1, <2>1 DEF Range
<1>4. e \in Range(Append(s, e))
  <2>1. Len(s) + 1 \in DOMAIN Append(s, e)
    BY <1>1
  <2> QED BY <1>1, <2>1 DEF Range
<1> QED BY <1>1, <1>2, <1>3, <1>4 DEF Range

(* Head and Tail split the range.                                          *)
LEMMA RangeTail ==
  ASSUME NEW T, NEW s \in Seq(T), s # <<>>
  PROVE  /\ Head(s) \in T /\ Tail(s) \in Seq(T)
         /\ Range(s) = {Head(s)} \cup Range(Tail(s))
<1>1. Head(s) = s[1] /\ Len(s) \in Nat \ {0} /\ DOMAIN s = 1 .. Len(s)
      /\ Tail(s) \in Seq(T) /\ DOMAIN Tail(s) = 1 .. Len(s) - 1
         /\ \A i \in 1 .. Len(s) - 1 : Tail(s)[i] = s[i+1]
  BY HeadTailProperties, LenProperties, EmptySeq
<1>2. ASSUME NEW i \in 1 .. Len(s) PROVE s[i] \in {Head(s)} \cup Range(Tail(s))
  <2>1. CASE i = 1 BY <1>1, <2>1
  <2>2. CASE i # 1
    <3>1. i - 1 \in 1 .. Len(s) - 1 /\ Tail(s)[i - 1] = s[i]
      BY <1>1, <2>2
    <3> QED BY <1>1, <3>1 DEF Range
  <2> QED BY <2>1, <2>2
<1>3. ASSUME NEW i \in 1 .. Len(s) - 1 PROVE Tail(s)[i] \in Range(s)
  BY <1>1 DEF Range
<1> QED BY <1>1, <1>2, <1>3 DEF Range

(* pop keeps the entries distinct, and the one popped is gone.             *)
LEMMA DistinctTail ==
  ASSUME NEW T, NEW s \in Seq(T), s # <<>>, Distinct(s)
  PROVE  Distinct(Tail(s)) /\ Head(s) \notin Range(Tail(s))
<1>1. Head(s) = s[1] /\ Len(s) \in Nat \ {0} /\ DOMAIN s = 1 .. Len(s)
      /\ Tail(s) \in Seq(T) /\ DOMAIN Tail(s) = 1 .. Len(s) - 1
         /\ \A i \in 1 .. Len(s) - 1 : Tail(s)[i] = s[i+1]
  BY HeadTailProperties, LenProperties, EmptySeq
<1> QED BY <1>1 DEF Distinct, Range

(* push of something new keeps the entries distinct.                       *)
LEMMA DistinctAppend ==
  ASSUME NEW T, NEW s \in Seq(T), NEW e \in T, Distinct(s), e \notin Range(s)
  PROVE  Distinct(Append(s, e))
BY DEF Distinct, Range

(* A function g that copies a list entry by entry, leaving out the entries *)
(* of E, ends with all the others.                                         *)
LEMMA KeptHas ==
  ASSUME NEW T, NEW list \in Seq(T), NEW E, NEW g, g[0] = <<>>,
         \A k \in 1 .. Len(list) :
           g[k] = IF k \in E THEN g[k - 1] ELSE Append(g[k - 1], list[k])
  PROVE  /\ g[Len(list)] \in Seq(T)
         /\ \A j \in 1 .. Len(list) : j \notin E => list[j] \in Range(g[Len(list)])
<1> DEFINE n == Len(list)
           Good(m) == g[m] \in Seq(T) /\ \A j \in 1 .. m : j \notin E => list[j] \in Range(g[m])
           S == {m \in Nat : m <= n => Good(m)}
<1>0. n \in Nat /\ \A k \in 1 .. n : list[k] \in T
  BY LenProperties
<1>2. 0 \in S
  <2>1. <<>> \in Seq(T) /\ 1 .. 0 = {}
    OBVIOUS
  <2> QED BY <2>1
<1>3. ASSUME NEW m \in Nat, m \in S PROVE m + 1 \in S
  <2> SUFFICES ASSUME m + 1 <= n PROVE Good(m + 1)
    OBVIOUS
  <2>1. Good(m) /\ list[m + 1] \in T
    BY <1>0, <1>3
  <2>2. g[m + 1] = IF m + 1 \in E THEN g[m] ELSE Append(g[m], list[m + 1])
    BY <1>0
  <2>3. CASE m + 1 \in E
    BY <2>1, <2>2, <2>3
  <2>4. CASE m + 1 \notin E
    <3>1. g[m + 1] \in Seq(T) /\ Range(g[m + 1]) = Range(g[m]) \cup {list[m + 1]}
      BY <2>1, <2>2, <2>4, RangeAppend
    <3> QED BY <2>1, <3>1
  <2> QED BY <2>3, <2>4
<1>4. Nat \subseteq S
  <2> HIDE DEF S
  <2> QED BY <1>2, <1>3, SetInduction
<1> QED BY <1>0, <1>4

(* The loop of exit_process over process_list (lines 170-173), which skips *)
(* the entry after each one it erases: it removes no entry whose pid is    *)
(* another one.                                                            *)
LEMMA EraseKeeps ==
  ASSUME NEW T, NEW list \in Seq(T), NEW x
  PROVE  /\ EraseByPid(list, x) \in Seq(T)
         /\ \A y \in Range(list) : pid[y] # x => y \in Range(EraseByPid(list, x))
<1> DEFINE n == Len(list)
           Match(k) == pid[list[k]] = x
           Before(k) == {j \in 0 .. k - 1 : \A m \in k - j .. k - 1 : Match(m)}
           Erased(k) == Match(k) /\ (Cardinality(Before(k)) - 1) % 2 = 0
           Value(g, k) == IF k = 0 THEN <<>>
                          ELSE IF Erased(k) THEN g[k - 1] ELSE Append(g[k - 1], list[k])
           Step(g, m) == [k \in 0 .. m |-> Value(g, k)]
           kept == CHOOSE g : g = Step(g, n)
           S == {m \in Nat : \E g : g = Step(g, m)}
           E == {k \in 1 .. n : Erased(k)}
<1>0. n \in Nat /\ DOMAIN list = 1 .. n
  BY LenProperties
<1>1. EraseByPid(list, x) = kept[n]
  BY DEF EraseByPid
<1>2. \A k \in 1 .. n : Erased(k) => pid[list[k]] = x
  OBVIOUS
<1> HIDE DEF Erased
<1>3. \A g : \A m \in Nat : \A k \in 0 .. m : Step(g, m)[k] = Value(g, k)
  OBVIOUS
<1>4. 0 \in S
  <2> DEFINE g == [k \in 0 .. 0 |-> <<>>]
  <2>1. g = Step(g, 0)
    OBVIOUS
  <2> QED BY <2>1
<1>5. ASSUME NEW m \in Nat, m \in S PROVE m + 1 \in S
  <2>1. PICK g : g = Step(g, m)
    BY <1>5
  <2> DEFINE h == [k \in 0 .. m + 1 |-> IF k = m + 1 THEN Value(g, k) ELSE g[k]]
  <2>2. ASSUME NEW k \in 0 .. m + 1 PROVE h[k] = Value(h, k)
    <3>1. k # 0 => h[k - 1] = g[k - 1]
      OBVIOUS
    <3>2. h[k] = Value(g, k)
      <4>1. CASE k = m + 1
        BY <4>1
      <4>2. CASE k \in 0 .. m
        <5>1. h[k] = g[k]
          BY <4>2
        <5> HIDE DEF h, Step, Value
        <5> QED BY <1>3, <2>1, <4>2, <5>1
      <4> QED BY <4>1, <4>2
    <3> HIDE DEF h
    <3> QED BY <3>1, <3>2
  <2>3. h = [k \in 0 .. m + 1 |-> h[k]]
    OBVIOUS
  <2>4. h = Step(h, m + 1)
    <3> HIDE DEF h, Value
    <3> QED BY <2>2, <2>3
  <2> HIDE DEF h, Step
  <2> QED BY <2>4
<1>6. Nat \subseteq S
  <2> HIDE DEF S
  <2> QED BY <1>4, <1>5, SetInduction
<1> HIDE DEF Step
<1>7. kept = Step(kept, n)
  BY <1>0, <1>6
<1> HIDE DEF kept
<1>8. \A k \in 0 .. n : kept[k] = Value(kept, k)
  <2> HIDE DEF Value
  <2> QED BY <1>0, <1>3, <1>7
<1>9. kept[0] = <<>> /\ \A k \in 1 .. n :
           kept[k] = IF k \in E THEN kept[k - 1] ELSE Append(kept[k - 1], list[k])
  BY <1>0, <1>8
<1> HIDE DEF E
<1>10. /\ kept[n] \in Seq(T)
       /\ \A j \in 1 .. n : j \notin E => list[j] \in Range(kept[n])
  BY <1>9, KeptHas
<1> QED BY <1>0, <1>1, <1>2, <1>10 DEF Range, E

-----------------------------------------------------------------------------
(* The fields of the flow on the core.                                     *)
LEMMA CoreType ==
  ASSUME TypeOK
  PROVE  /\ ctx.kind \in {"boot", "kernel", "user"} /\ ctx.in \in {"none", "sched", "heap"}
         /\ ctx.me \in Proc \cup {Null} /\ ctx.p \in Proc \cup {Null}
         /\ ctx.t \in Thread \cup {Null} /\ ctx.which \in Kind
         /\ ctx.new \in [Kind -> Id \cup {NoId}] /\ ctx.byte \in SUBSET Id
         /\ ctx = [kind |-> ctx.kind, pc |-> ctx.pc, in |-> ctx.in, me |-> ctx.me, p |-> ctx.p,
                   t |-> ctx.t, which |-> ctx.which, new |-> ctx.new, byte |-> ctx.byte]
BY DEF TypeOK, ContextType

(* What is scheduled is a thread.                                          *)
LEMMA ScheduledType ==
  ASSUME TypeOK
  PROVE  Scheduled \subseteq Thread
BY RangeOfSeq DEF TypeOK, Scheduled

(* What a step of the flow on the core may do: it frees only itself,       *)
(* allocates what no scheduled thread uses, and writes only to what it     *)
(* builds.                                                                 *)
Moves ==
  /\ UNCHANGED <<running_thread, running_process, waiting_queue>>
  /\ liveT \ {running_thread} \subseteq liveT' /\ liveP \ {ctx.me} \subseteq liveP'
  /\ \A q \in liveP' \ liveP : q = ctx'.p /\ Builds(ctx')
  /\ \A x \in liveT' \ liveT : x \notin Scheduled
  /\ ctx'.t \in {ctx.t, Null} \cup (Thread \ (liveT \cup Scheduled))
  /\ Builds(ctx') =>
       \/ ctx'.p = ctx.p /\ Builds(ctx)
       \/ ctx'.p \notin liveP /\ \A u \in Scheduled : parent_process[u] # ctx'.p
  /\ \A x \in Thread \ {ctx.t, ctx'.t} : parent_process'[x] = parent_process[x]
     /\ regs'[x] = regs[x]
  /\ \A q \in Proc :
       IF (q = ctx.p /\ Builds(ctx)) \/ (q = ctx'.p /\ Builds(ctx'))
       THEN threads'[q] # Null => ctx'.p = q /\ ctx'.t = threads'[q]
       ELSE threads'[q] = threads[q]
  /\ Active(ctx') => Active(ctx)
  /\ toStart' = toStart \/ ctx.kind = "kernel"
  /\ ctx'.kind = "kernel" /\ ctx'.pc = "new" => toStart' > 0

(* Such a step leaves every other flow as it is, and touches nothing that  *)
(* another flow builds.                                                    *)
LEMMA MoveOthers ==
  ASSUME Base, fault = "none", running_thread # Null, Moves
  PROVE  /\ Scheduled' = Scheduled /\ running_thread \in Scheduled
         /\ \A u \in Scheduled : parent_process'[u] = parent_process[u]
         /\ \A u \in Scheduled : u = running_thread => Flow(u) = ctx /\ Flow(u)' = ctx'
         /\ \A u \in Scheduled : u # running_thread =>
              /\ Flow(u)' = Flow(u) /\ FlowOK(u, Flow(u))
              /\ Flow(u).t # Null => Flow(u).t # ctx.t /\ Flow(u).t # ctx'.t
              /\ Builds(Flow(u)) /\ Builds(ctx) => Flow(u).p # ctx.p
              /\ Builds(Flow(u)) /\ Builds(ctx') => Flow(u).p # ctx'.p
              /\ Builds(ctx) => parent_process[u] # ctx.p
              /\ Builds(ctx') => parent_process[u] # ctx'.p
              /\ Flow(u).t \in Thread \cup {Null} /\ Flow(u).p \in Proc \cup {Null}
<1> DEFINE r == running_thread
<1> USE DEF Moves
<1>0. Owners /\ TypeOK /\ Scheduled \subseteq Thread /\ InOnePlace
  BY ScheduledType DEF Base
<1>1. Scheduled' = Scheduled /\ r \in Scheduled
  BY DEF Scheduled
<1>2. \A u \in Scheduled : u = r => Flow(u) = ctx /\ Flow(u)' = ctx'
  BY DEF Flow
<1>3. FlowOK(r, ctx)
  BY <1>0, <1>1, <1>2 DEF Owners, FlowInv
<1>4. ctx.t # Null => ctx.t \notin Scheduled
  BY <1>3 DEF FlowOK, Building
<1>5. ASSUME NEW u \in Scheduled, u # r
      PROVE  /\ Flow(u)' = Flow(u) /\ FlowOK(u, Flow(u))
             /\ Flow(u).t # Null => Flow(u).t # ctx.t /\ Flow(u).t # ctx'.t
             /\ Builds(Flow(u)) /\ Builds(ctx) => Flow(u).p # ctx.p
             /\ Builds(Flow(u)) /\ Builds(ctx') => Flow(u).p # ctx'.p
             /\ Flow(u).t \in Thread \cup {Null} /\ Flow(u).p \in Proc \cup {Null}
  <2>1. u \in Thread /\ u # ctx.t /\ u # ctx'.t
    BY <1>0, <1>4, <1>5, SlotsAssumption
  <2>2. Flow(u)' = Flow(u) /\ Flow(u) = regs[u]
    BY <1>5, <2>1 DEF Flow
  <2>3. FlowOK(u, Flow(u))
    BY <1>0 DEF Owners, FlowInv
  <2>4. /\ Flow(u).t # Null => Flow(u).t # ctx.t
        /\ Builds(Flow(u)) /\ Builds(ctx) => Flow(u).p # ctx.p
    BY <1>0, <1>1, <1>2, <1>5 DEF Owners, Apart
  <2>5. /\ Flow(u).t # Null => Flow(u).t \in liveT
        /\ Builds(Flow(u)) => Flow(u).p \in liveP
    BY <2>3 DEF FlowOK, Building
  <2>6. regs[u] \in ContextType
    BY <1>0, <2>1 DEF TypeOK
  <2>7. Flow(u).t \in Thread \cup {Null} /\ Flow(u).p \in Proc \cup {Null}
    BY <2>2, <2>6 DEF ContextType
  <2>8. /\ Flow(u).t # Null => Flow(u).t # ctx'.t
        /\ Builds(Flow(u)) /\ Builds(ctx') => Flow(u).p # ctx'.p
    BY <2>4, <2>5
  <2> QED BY <2>2, <2>3, <2>4, <2>7, <2>8
<1>6. \A u \in Scheduled : parent_process'[u] = parent_process[u]
  BY <1>0, <1>4, SlotsAssumption
<1>7. \A u \in Scheduled : u # r =>
        (Builds(ctx) => parent_process[u] # ctx.p) /\ (Builds(ctx')
           => parent_process[u] # ctx'.p)
  BY <1>3 DEF FlowOK, Building
<1> QED BY <1>1, <1>2, <1>5, <1>6, <1>7

(* So the ownership invariants need only be shown of the flow on the core. *)
LEMMA MoveOn ==
  ASSUME Base, fault = "none", running_thread # Null, Moves, TypeOK', FlowOK(running_thread,
            ctx)'
  PROVE  Owners'
<1> DEFINE r == running_thread
<1> USE MoveOthers DEF Moves
<1>0. Owners /\ TypeOK /\ Scheduled \subseteq Thread /\ InOnePlace
  BY ScheduledType DEF Base
<1>1. FlowOK(r, ctx)
  BY <1>0 DEF Owners, FlowInv
<1>2. FlowInv'
  <2> SUFFICES ASSUME NEW u \in Scheduled PROVE FlowOK(u, Flow(u))'
    BY DEF FlowInv
  <2>1. CASE u = r
    <3>1. Flow(u)' = ctx' /\ u = running_thread
      BY <2>1
    <3> QED BY <3>1
  <2>2. CASE u # r
    <3> DEFINE c == Flow(u)
    <3>1. Kinds(u, c)' /\ Stage(c)'
      BY <2>2 DEF FlowOK, Kinds, Stage, Builds
    <3>2. Own(u, c)'
      BY <2>2 DEF FlowOK, Own
    <3>3. Alive(u, c)'
      BY <1>1, <2>2 DEF FlowOK, Alive, Own
    <3>4. Building(c)'
      <4>1. c' = c /\ Building(c) /\ Stage(c) /\ c.t \in Thread \cup {Null}
               /\ c.p \in Proc \cup {Null}
        BY <2>2 DEF FlowOK
      <4>2. c.t # Null => regs'[c.t] = regs[c.t] /\ parent_process'[c.t] = parent_process[c.t]
        BY <2>2, <4>1
      <4>3. Builds(c) => threads'[c.p] = threads[c.p]
        BY <2>2, <4>1 DEF Builds
      <4>4. parent_process[r] = ctx.me
        BY <1>1 DEF FlowOK, Own
      <4> QED BY <4>1, <4>2, <4>3, <4>4 DEF Building, Stage, Builds
    <3> QED BY <3>1, <3>2, <3>3, <3>4 DEF FlowOK
  <2> QED BY <2>1, <2>2
<1>3. Apart'
  BY <1>0 DEF Owners, Apart
<1>4. Reachable'
  <2> SUFFICES ASSUME NEW q \in liveP', threads'[q] # Null, q \in Proc
               PROVE  \/ threads'[q] \in Scheduled /\ parent_process'[threads'[q]] = q
                      \/ \E u \in Scheduled : Flow(u)'.p = q /\ Flow(u)'.t = threads'[q]
    BY DEF Reachable, TypeOK
  <2>2. CASE (q = ctx.p /\ Builds(ctx)) \/ (q = ctx'.p /\ Builds(ctx'))
    BY <2>2
  <2>3. CASE ~((q = ctx.p /\ Builds(ctx)) \/ (q = ctx'.p /\ Builds(ctx')))
    <3>0. q \in liveP /\ threads'[q] = threads[q]
      BY <2>3
    <3>1. CASE threads[q] \in Scheduled /\ parent_process[threads[q]] = q
      BY <3>0, <3>1
    <3>2. CASE \E u \in Scheduled : Flow(u).p = q /\ Flow(u).t = threads[q]
      <4>1. PICK u \in Scheduled : Flow(u).p = q /\ Flow(u).t = threads[q]
        BY <3>2
      <4>2. u # r
        BY <1>1, <2>3, <3>0, <4>1 DEF FlowOK, Stage
      <4> QED BY <3>0, <4>1, <4>2
    <3> QED BY <1>0, <3>0, <3>1, <3>2 DEF Owners, Reachable
  <2> QED BY <2>2, <2>3
<1>5. OneActive'
  BY <1>0 DEF Owners, OneActive, Active, InSyscall
<1>6. StartInv'
  BY <1>0, <1>1 DEF Owners, StartInv, FlowOK, Kinds
<1>7. RunsOwn'
  BY <1>0 DEF Owners, RunsOwn
<1> QED BY <1>2, <1>3, <1>4, <1>5, <1>6, <1>7 DEF Owners

(* A flow on the core that does not hang is that of a scheduled thread.    *)
LEMMA OnCore ==
  ASSUME Base, fault = "none", ctx.pc # "hang"
  PROVE  /\ running_thread # Null /\ running_thread \in Scheduled /\ running_thread \in Thread
         /\ FlowOK(running_thread, ctx) /\ Owners
<1>1. running_thread # Null
  BY DEF Base, CoreOK
<1>2. running_thread \in Scheduled /\ running_thread \in Thread /\ Flow(running_thread) = ctx
  BY <1>1 DEF Base, TypeOK, Scheduled, Flow
<1> QED BY <1>1, <1>2 DEF Base, Owners, FlowInv

(* A step that changes neither running_thread nor the queue schedules      *)
(* nobody.                                                                 *)
LEMMA Stay ==
  ASSUME Base, running_thread # Null, UNCHANGED <<running_thread, waiting_queue>>
  PROVE  InOnePlace' /\ Scheduled' = Scheduled
BY DEF Base, InOnePlace, Scheduled

(* Lowest finds the least element.                                         *)
LEMMA LowestIn ==
  ASSUME NEW S \in SUBSET Id, S # {}
  PROVE  Lowest(S) \in S /\ \A y \in S : Lowest(S) <= y
<1>1. Id \subseteq Nat
  BY IdsAssumption DEF Id
<1>2. \E x \in S : \A y \in S : x <= y
  BY <1>1, Least
<1> QED BY <1>2 DEF Lowest

(* A fresh register file is one.                                           *)
LEMMA ContextIn ==
  ASSUME NEW p \in Proc \cup {Null}, NEW kind \in {"boot", "kernel", "user"},
            NEW l \in {"hang", "user", "new"}
  PROVE  Context(kind, l, p) \in ContextType
<1>1. [k \in Kind |-> 0] \in [Kind -> Id \cup {NoId}] /\ "pid" \in Kind
  BY IdsAssumption DEF Id, Kind
<1> QED BY <1>1 DEF Context, ContextType, HeapSection

-----------------------------------------------------------------------------
(* The steps of the flow on the core that neither allocate nor schedule    *)
(* anything.                                                               *)
LocalStep ==
  \/ EnterSched \/ EnterHeap \/ FindId \/ FindNoId \/ LoadId \/ StoreId
  \/ ProgramIds \/ ListProgram \/ OverrideIds \/ OtherReturns
  \/ ListChild \/ ChildPid \/ ChildNoTid \/ ChildTid \/ ChildRegs
  \/ ExitSection \/ CloseFds \/ ExitLoadPid \/ ExitStorePid \/ ExitDelete

(* What they have in common.                                               *)
LEMMA LocalCore ==
  ASSUME Base, LocalStep
  PROVE  /\ fault = "none" /\ UNCHANGED <<fault, running_thread, running_process,
            waiting_queue, toStart>>
         /\ running_thread # Null /\ running_thread \in Scheduled /\ running_thread \in Thread
         /\ FlowOK(running_thread, ctx) /\ Owners /\ Scheduled' = Scheduled
         /\ TypeOK /\ IdsInv /\ SectionHolders /\ CoreOK
<1> USE DEF Reached, At, Goto, InSched, InHeap, LeaveSched, LeaveHeap, Return, UserContext,
       Context, schedvars, data, locks, ghosts, threadvars, procvars, SchedSection, HeapSection
<1> SUFFICES fault = "none" /\ ctx.pc # "hang" /\ UNCHANGED <<fault, running_thread,
       running_process, waiting_queue, toStart>>
  BY OnCore DEF Base, Scheduled
<1>1. CASE EnterSched
  BY <1>1 DEF EnterSched
<1>2. CASE EnterHeap
  BY <1>2 DEF EnterHeap
<1>3. CASE FindId
  BY <1>3 DEF FindId
<1>4. CASE FindNoId
  BY <1>4 DEF FindNoId, HaveId
<1>5. CASE LoadId
  BY <1>5 DEF LoadId
<1>6. CASE StoreId
  BY <1>6 DEF StoreId, StoreStep, Store, HaveId
<1>7. CASE ProgramIds
  BY <1>7 DEF ProgramIds
<1>8. CASE ListProgram
  BY <1>8 DEF ListProgram
<1>9. CASE OverrideIds
  BY <1>9 DEF OverrideIds
<1>10. CASE OtherReturns
  BY <1>10 DEF OtherReturns
<1>11. CASE ListChild
  BY <1>11 DEF ListChild
<1>12. CASE ChildPid
  BY <1>12 DEF ChildPid
<1>13. CASE ChildNoTid
  BY <1>13 DEF ChildNoTid
<1>14. CASE ChildTid
  BY <1>14 DEF ChildTid, ChildTidStep
<1>15. CASE ChildRegs
  BY <1>15 DEF ChildRegs
<1>16. CASE ExitSection
  BY <1>16 DEF ExitSection
<1>17. CASE CloseFds
  BY <1>17 DEF CloseFds
<1>18. CASE ExitLoadPid
  BY <1>18 DEF ExitLoadPid
<1>19. CASE ExitStorePid
  BY <1>19 DEF ExitStorePid, ExitStoreStep, Store
<1>20. CASE ExitDelete
  BY <1>20 DEF ExitDelete
<1> QED BY <1>1, <1>2, <1>3, <1>4, <1>5, <1>6, <1>7, <1>8, <1>9, <1>10, <1>11, <1>12, <1>13,
       <1>14, <1>15, <1>16, <1>17, <1>18, <1>19, <1>20 DEF LocalStep

(* They keep the types.                                                    *)
LEMMA LocalType ==
  ASSUME Base, LocalStep
  PROVE  TypeOK'
<1> USE LocalCore, CoreType, SlotsAssumption, IdsAssumption DEF Reached, At, Goto, InSched,
       InHeap, LeaveSched, LeaveHeap, Return, UserContext, Context, schedvars, data, locks,
       ghosts, threadvars, procvars, Kind, TypeOK
<1>1. CASE EnterSched
  <2>1. ctx' \in ContextType
    BY <1>1 DEF ContextType, SchedSection, HeapSection, EnterSched
  <2> QED BY <1>1, <2>1 DEF EnterSched
<1>2. CASE EnterHeap
  <2>1. ctx' \in ContextType
    BY <1>2 DEF ContextType, SchedSection, HeapSection, EnterHeap
  <2> QED BY <1>2, <2>1 DEF EnterHeap
<1>3. CASE FindId
  <2>0. Lowest(Unused) \in Id
    <3>1. Unused \subseteq Id /\ Unused # {}
      BY <1>3 DEF Unused, FindId
    <3> QED BY <3>1, LowestIn
  <2>1. ctx' \in ContextType
    BY <1>3, <2>0 DEF ContextType, SchedSection, HeapSection, FindId
  <2> QED BY <1>3, <2>1 DEF FindId
<1>4. CASE FindNoId
  <2>1. ctx' \in ContextType
    BY <1>4 DEF ContextType, SchedSection, HeapSection, FindNoId, HaveId
  <2> QED BY <1>4, <2>1 DEF FindNoId, HaveId
<1>5. CASE LoadId
  <2>1. ctx' \in ContextType
    BY <1>5 DEF ContextType, SchedSection, HeapSection, LoadId
  <2> QED BY <1>5, <2>1 DEF LoadId
<1>6. CASE StoreId
  <2>1. ctx' \in ContextType
    BY <1>6 DEF ContextType, SchedSection, HeapSection, StoreId, StoreStep, Store, HaveId
  <2>2. bitmap' \in [Kind -> SUBSET Id]
    BY <1>6 DEF StoreId, StoreStep, Store, IdsInv, NewId
  <2>3. id_lock' \in [Kind -> BOOLEAN] /\ overwrote' \subseteq Kind
    BY <1>6 DEF StoreId, StoreStep, Store, HaveId
  <2> QED BY <1>6, <2>1, <2>2, <2>3 DEF StoreId, StoreStep, Store, HaveId
<1>7. CASE ProgramIds
  <2>1. ctx' \in ContextType
    BY <1>7 DEF ContextType, SchedSection, HeapSection, ProgramIds
  <2>2. pid' \in [Proc -> Id \cup {NoId}]
    BY <1>7 DEF ProgramIds
  <2>3. ctx.new["tid"] \in Id
    BY <1>7 DEF ProgramIds, Range
  <2>4. tid' \in [Thread -> Id]
    BY <1>7, <2>3 DEF ProgramIds
  <2>5. parent_process' \in [Thread -> Proc \cup {Null}]
    BY <1>7 DEF ProgramIds
  <2> QED BY <1>7, <2>1, <2>2, <2>3, <2>4, <2>5 DEF ProgramIds
<1>8. CASE ListProgram
  <2>1. ctx' \in ContextType
    BY <1>8 DEF ContextType, SchedSection, HeapSection, ListProgram
  <2>2. ctx.p \in Proc
    BY <1>8 DEF ListProgram, FlowOK, Stage, Builds
  <2>3. process_list' \in Seq(Proc)
    BY <1>8, <2>2 DEF ListProgram
  <2> QED BY <1>8, <2>1, <2>3 DEF ListProgram
<1>9. CASE OverrideIds
  <2>1. ctx' \in ContextType
    BY <1>9 DEF ContextType, SchedSection, HeapSection, OverrideIds
  <2>2. pid' \in [Proc -> Id \cup {NoId}]
    BY <1>9 DEF OverrideIds, Id
  <2>3. tid' \in [Thread -> Id]
    BY <1>9 DEF OverrideIds, Id
  <2> QED BY <1>9, <2>1, <2>2, <2>3 DEF OverrideIds
<1>10. CASE OtherReturns
  <2>1. ctx' \in ContextType
    BY <1>10, ContextIn DEF OtherReturns
  <2> QED BY <1>10, <2>1 DEF OtherReturns
<1>11. CASE ListChild
  <2>1. ctx' \in ContextType
    BY <1>11 DEF ContextType, SchedSection, HeapSection, ListChild
  <2>2. ctx.p \in Proc
    BY <1>11 DEF ListChild, FlowOK, Stage, Builds
  <2>3. process_list' \in Seq(Proc)
    BY <1>11, <2>2 DEF ListChild
  <2> QED BY <1>11, <2>1, <2>3 DEF ListChild
<1>12. CASE ChildPid
  <2>1. ctx' \in ContextType
    BY <1>12 DEF ContextType, SchedSection, HeapSection, ChildPid
  <2> QED BY <1>12, <2>1 DEF ChildPid
<1>13. CASE ChildNoTid
  <2>1. ctx' \in ContextType
    BY <1>13, ContextIn DEF ChildNoTid
  <2> QED BY <1>13, <2>1 DEF ChildNoTid
<1>14. CASE ChildTid
  <2>1. ctx' \in ContextType
    BY <1>14 DEF ContextType, SchedSection, HeapSection, ChildTid, ChildTidStep
  <2> QED BY <1>14, <2>1 DEF ChildTid, ChildTidStep
<1>15. CASE ChildRegs
  <2>1. ctx' \in ContextType
    BY <1>15 DEF ContextType, SchedSection, HeapSection, ChildRegs
  <2>2. regs' \in [Thread -> ContextType]
    BY <1>15, ContextIn DEF ChildRegs
  <2>3. threads' \in [Proc -> Thread \cup {Null}]
    BY <1>15 DEF ChildRegs
  <2> QED BY <1>15, <2>1, <2>2, <2>3 DEF ChildRegs
<1>16. CASE ExitSection
  <2>1. ctx' \in ContextType
    BY <1>16 DEF ContextType, SchedSection, HeapSection, ExitSection
  <2>2. process_list' \in Seq(Proc)
    BY <1>16, EraseKeeps DEF ExitSection
  <2>3. bitmap' \in [Kind -> SUBSET Id]
    BY <1>16 DEF ExitSection
  <2> QED BY <1>16, <2>1, <2>2, <2>3 DEF ExitSection
<1>17. CASE CloseFds
  <2>1. ctx' \in ContextType
    BY <1>17 DEF ContextType, SchedSection, HeapSection, CloseFds
  <2> QED BY <1>17, <2>1 DEF CloseFds
<1>18. CASE ExitLoadPid
  <2>1. ctx' \in ContextType
    BY <1>18 DEF ContextType, SchedSection, HeapSection, ExitLoadPid
  <2> QED BY <1>18, <2>1 DEF ExitLoadPid
<1>19. CASE ExitStorePid
  <2>1. ctx' \in ContextType
    BY <1>19 DEF ContextType, SchedSection, HeapSection, ExitStorePid, ExitStoreStep, Store
  <2> QED BY <1>19, <2>1 DEF ExitStorePid, ExitStoreStep, Store
<1>20. CASE ExitDelete
  <2>1. ctx' \in ContextType
    BY <1>20 DEF ContextType, SchedSection, HeapSection, ExitDelete
  <2> QED BY <1>20, <2>1 DEF ExitDelete
<1> QED BY <1>1, <1>2, <1>3, <1>4, <1>5, <1>6, <1>7, <1>8, <1>9, <1>10, <1>11, <1>12, <1>13,
       <1>14, <1>15, <1>16, <1>17, <1>18, <1>19, <1>20 DEF LocalStep

(* They only ever find bits of the bitmap.                                 *)
LEMMA LocalIds ==
  ASSUME Base, LocalStep
  PROVE  IdsInv'
<1> USE LocalCore, CoreType, SlotsAssumption, IdsAssumption DEF Reached, At, Goto, InSched,
       InHeap, LeaveSched, LeaveHeap, Return, UserContext, Context, schedvars, data, locks,
       ghosts, threadvars, procvars, Kind, TypeOK, IdsInv, NewId
<1>1. CASE EnterSched
  BY <1>1 DEF EnterSched
<1>2. CASE EnterHeap
  BY <1>2 DEF EnterHeap
<1>3. CASE FindId
  <2>1. Lowest(Unused) \in Id
    <3>1. Unused \subseteq Id /\ Unused # {}
      BY <1>3 DEF Unused, FindId
    <3> QED BY <3>1, LowestIn
  <2>2. ctx'.which = ctx.which /\ ctx'.new[ctx.which] = Lowest(Unused)
    BY <1>3 DEF FindId
  <2> QED BY <1>3, <2>1, <2>2 DEF FindId
<1>4. CASE FindNoId
  BY <1>4 DEF FindNoId, HaveId
<1>5. CASE LoadId
  BY <1>5 DEF LoadId
<1>6. CASE StoreId
  BY <1>6 DEF StoreId, StoreStep, Store, HaveId
<1>7. CASE ProgramIds
  BY <1>7 DEF ProgramIds
<1>8. CASE ListProgram
  BY <1>8 DEF ListProgram
<1>9. CASE OverrideIds
  BY <1>9 DEF OverrideIds
<1>10. CASE OtherReturns
  BY <1>10 DEF OtherReturns
<1>11. CASE ListChild
  BY <1>11 DEF ListChild
<1>12. CASE ChildPid
  BY <1>12 DEF ChildPid
<1>13. CASE ChildNoTid
  BY <1>13 DEF ChildNoTid
<1>14. CASE ChildTid
  BY <1>14 DEF ChildTid, ChildTidStep
<1>15. CASE ChildRegs
  BY <1>15 DEF ChildRegs
<1>16. CASE ExitSection
  BY <1>16 DEF ExitSection
<1>17. CASE CloseFds
  BY <1>17 DEF CloseFds
<1>18. CASE ExitLoadPid
  BY <1>18 DEF ExitLoadPid
<1>19. CASE ExitStorePid
  BY <1>19 DEF ExitStorePid, ExitStoreStep, Store
<1>20. CASE ExitDelete
  BY <1>20 DEF ExitDelete
<1> QED BY <1>1, <1>2, <1>3, <1>4, <1>5, <1>6, <1>7, <1>8, <1>9, <1>10, <1>11, <1>12, <1>13,
       <1>14, <1>15, <1>16, <1>17, <1>18, <1>19, <1>20 DEF LocalStep

(* They take and release sched_lock and heap_lock with their section.      *)
LEMMA LocalHolder ==
  ASSUME Base, LocalStep
  PROVE  SectionHolders'
<1> USE LocalCore, CoreType DEF Reached, At, Goto, InSched, InHeap, LeaveSched, LeaveHeap,
       Return, UserContext, Context, schedvars, data, locks, ghosts, threadvars, procvars,
       SchedSection, HeapSection, SectionHolders, CoreOK
<1>1. CASE EnterSched
  BY <1>1 DEF EnterSched
<1>2. CASE EnterHeap
  BY <1>2 DEF EnterHeap
<1>3. CASE FindId
  BY <1>3 DEF FindId
<1>4. CASE FindNoId
  BY <1>4 DEF FindNoId, HaveId
<1>5. CASE LoadId
  BY <1>5 DEF LoadId
<1>6. CASE StoreId
  BY <1>6 DEF StoreId, StoreStep, Store, HaveId
<1>7. CASE ProgramIds
  BY <1>7 DEF ProgramIds
<1>8. CASE ListProgram
  BY <1>8 DEF ListProgram
<1>9. CASE OverrideIds
  BY <1>9 DEF OverrideIds
<1>10. CASE OtherReturns
  BY <1>10 DEF OtherReturns
<1>11. CASE ListChild
  BY <1>11 DEF ListChild
<1>12. CASE ChildPid
  BY <1>12 DEF ChildPid
<1>13. CASE ChildNoTid
  BY <1>13 DEF ChildNoTid
<1>14. CASE ChildTid
  BY <1>14 DEF ChildTid, ChildTidStep
<1>15. CASE ChildRegs
  BY <1>15 DEF ChildRegs
<1>16. CASE ExitSection
  BY <1>16 DEF ExitSection
<1>17. CASE CloseFds
  BY <1>17 DEF CloseFds
<1>18. CASE ExitLoadPid
  BY <1>18 DEF ExitLoadPid
<1>19. CASE ExitStorePid
  BY <1>19 DEF ExitStorePid, ExitStoreStep, Store
<1>20. CASE ExitDelete
  BY <1>20 DEF ExitDelete
<1> QED BY <1>1, <1>2, <1>3, <1>4, <1>5, <1>6, <1>7, <1>8, <1>9, <1>10, <1>11, <1>12, <1>13,
       <1>14, <1>15, <1>16, <1>17, <1>18, <1>19, <1>20 DEF LocalStep

(* They stay inside a section only at its statement.                       *)
LEMMA LocalPlace ==
  ASSUME Base, LocalStep
  PROVE  CoreOK'
<1> USE LocalCore, CoreType DEF Reached, At, Goto, InSched, InHeap, LeaveSched, LeaveHeap,
       Return, UserContext, Context, schedvars, data, locks, ghosts, threadvars, procvars,
       SchedSection, HeapSection, CoreOK
<1>1. CASE EnterSched
  BY <1>1 DEF EnterSched
<1>2. CASE EnterHeap
  BY <1>2 DEF EnterHeap
<1>3. CASE FindId
  BY <1>3 DEF FindId
<1>4. CASE FindNoId
  BY <1>4 DEF FindNoId, HaveId
<1>5. CASE LoadId
  BY <1>5 DEF LoadId
<1>6. CASE StoreId
  BY <1>6 DEF StoreId, StoreStep, Store, HaveId
<1>7. CASE ProgramIds
  BY <1>7 DEF ProgramIds
<1>8. CASE ListProgram
  BY <1>8 DEF ListProgram
<1>9. CASE OverrideIds
  BY <1>9 DEF OverrideIds
<1>10. CASE OtherReturns
  BY <1>10 DEF OtherReturns
<1>11. CASE ListChild
  BY <1>11 DEF ListChild
<1>12. CASE ChildPid
  BY <1>12 DEF ChildPid
<1>13. CASE ChildNoTid
  BY <1>13 DEF ChildNoTid
<1>14. CASE ChildTid
  BY <1>14 DEF ChildTid, ChildTidStep
<1>15. CASE ChildRegs
  BY <1>15 DEF ChildRegs
<1>16. CASE ExitSection
  BY <1>16 DEF ExitSection
<1>17. CASE CloseFds
  BY <1>17 DEF CloseFds
<1>18. CASE ExitLoadPid
  BY <1>18 DEF ExitLoadPid
<1>19. CASE ExitStorePid
  BY <1>19 DEF ExitStorePid, ExitStoreStep, Store
<1>20. CASE ExitDelete
  BY <1>20 DEF ExitDelete
<1> QED BY <1>1, <1>2, <1>3, <1>4, <1>5, <1>6, <1>7, <1>8, <1>9, <1>10, <1>11, <1>12, <1>13,
       <1>14, <1>15, <1>16, <1>17, <1>18, <1>19, <1>20 DEF LocalStep

(* They leave the flow on the core in order, statement by statement.       *)
LEMMA LocalFlow ==
  ASSUME Base, LocalStep
  PROVE  FlowOK(running_thread, ctx)'
<1> USE LocalCore, CoreType, SlotsAssumption DEF Reached, At, Goto, InSched, InHeap,
       LeaveSched, LeaveHeap, Return, UserContext, Context, schedvars, data, locks, ghosts,
       threadvars, procvars, SchedSection, HeapSection, FlowOK, Builds, ExitTail, IdSteps
<1>1. CASE EnterSched
  <2>1. Kinds(running_thread, ctx)' /\ Stage(ctx)'
    BY <1>1 DEF Kinds, Stage, KernelPc, UserPc, EnterSched
  <2>2. Own(running_thread, ctx)' /\ Alive(running_thread, ctx)'
    BY <1>1 DEF Kinds, Stage, Own, Alive, Building, TypeOK, EnterSched
  <2>3. Building(ctx)'
    BY <1>1 DEF Kinds, Stage, Own, Alive, Building, TypeOK, EnterSched
  <2> QED BY <2>1, <2>2, <2>3
<1>2. CASE EnterHeap
  <2>1. Kinds(running_thread, ctx)' /\ Stage(ctx)'
    BY <1>2 DEF Kinds, Stage, KernelPc, UserPc, EnterHeap
  <2>2. Own(running_thread, ctx)' /\ Alive(running_thread, ctx)'
    BY <1>2 DEF Kinds, Stage, Own, Alive, Building, TypeOK, EnterHeap
  <2>3. Building(ctx)'
    BY <1>2 DEF Kinds, Stage, Own, Alive, Building, TypeOK, EnterHeap
  <2> QED BY <2>1, <2>2, <2>3
<1>3. CASE FindId
  <2>1. Kinds(running_thread, ctx)' /\ Stage(ctx)'
    BY <1>3 DEF Kinds, Stage, KernelPc, UserPc, FindId
  <2>2. Own(running_thread, ctx)' /\ Alive(running_thread, ctx)'
    BY <1>3 DEF Kinds, Stage, Own, Alive, Building, TypeOK, FindId
  <2>3. Building(ctx)'
    BY <1>3 DEF Kinds, Stage, Own, Alive, Building, TypeOK, FindId
  <2> QED BY <2>1, <2>2, <2>3
<1>4. CASE FindNoId
  <2>1. Kinds(running_thread, ctx)' /\ Stage(ctx)'
    BY <1>4 DEF Kinds, Stage, KernelPc, UserPc, Kind, FindNoId, HaveId
  <2>2. Own(running_thread, ctx)' /\ Alive(running_thread, ctx)'
    BY <1>4 DEF Kinds, Stage, Own, Alive, Building, TypeOK, FindNoId, HaveId
  <2>3. Building(ctx)'
    BY <1>4 DEF Kinds, Stage, Own, Alive, Building, TypeOK, FindNoId, HaveId
  <2> QED BY <2>1, <2>2, <2>3
<1>5. CASE LoadId
  <2>1. Kinds(running_thread, ctx)' /\ Stage(ctx)'
    BY <1>5 DEF Kinds, Stage, KernelPc, UserPc, LoadId
  <2>2. Own(running_thread, ctx)' /\ Alive(running_thread, ctx)'
    BY <1>5 DEF Kinds, Stage, Own, Alive, Building, TypeOK, LoadId
  <2>3. Building(ctx)'
    BY <1>5 DEF Kinds, Stage, Own, Alive, Building, TypeOK, LoadId
  <2> QED BY <2>1, <2>2, <2>3
<1>6. CASE StoreId
  <2>1. Kinds(running_thread, ctx)' /\ Stage(ctx)'
    BY <1>6 DEF Kinds, Stage, KernelPc, UserPc, Kind, StoreId, StoreStep, Store, HaveId
  <2>2. Own(running_thread, ctx)' /\ Alive(running_thread, ctx)'
    BY <1>6 DEF Kinds, Stage, Own, Alive, Building, TypeOK, StoreId, StoreStep, Store, HaveId
  <2>3. Building(ctx)'
    BY <1>6 DEF Kinds, Stage, Own, Alive, Building, TypeOK, StoreId, StoreStep, Store, HaveId
  <2> QED BY <2>1, <2>2, <2>3
<1>7. CASE ProgramIds
  <2>1. Kinds(running_thread, ctx)' /\ Stage(ctx)'
    BY <1>7 DEF Kinds, Stage, KernelPc, UserPc, ProgramIds
  <2>2. Own(running_thread, ctx)' /\ Alive(running_thread, ctx)'
    BY <1>7 DEF Kinds, Stage, Own, Alive, Building, TypeOK, ProgramIds
  <2>3. Building(ctx)'
    BY <1>7 DEF Kinds, Stage, Own, Alive, Building, TypeOK, ProgramIds
  <2> QED BY <2>1, <2>2, <2>3
<1>8. CASE ListProgram
  <2>1. Kinds(running_thread, ctx)' /\ Stage(ctx)'
    BY <1>8 DEF Kinds, Stage, KernelPc, UserPc, ListProgram
  <2>2. Own(running_thread, ctx)' /\ Alive(running_thread, ctx)'
    BY <1>8 DEF Kinds, Stage, Own, Alive, Building, TypeOK, ListProgram
  <2>3. Building(ctx)'
    BY <1>8 DEF Kinds, Stage, Own, Alive, Building, TypeOK, ListProgram
  <2> QED BY <2>1, <2>2, <2>3
<1>9. CASE OverrideIds
  <2>1. Kinds(running_thread, ctx)' /\ Stage(ctx)'
    BY <1>9 DEF Kinds, Stage, KernelPc, UserPc, OverrideIds
  <2>2. Own(running_thread, ctx)' /\ Alive(running_thread, ctx)'
    BY <1>9 DEF Kinds, Stage, Own, Alive, Building, TypeOK, OverrideIds
  <2>3. Building(ctx)'
    BY <1>9 DEF Kinds, Stage, Own, Alive, Building, TypeOK, OverrideIds
  <2> QED BY <2>1, <2>2, <2>3
<1>10. CASE OtherReturns
  <2>1. Kinds(running_thread, ctx)' /\ Stage(ctx)'
    BY <1>10 DEF Kinds, Stage, KernelPc, UserPc, OtherReturns
  <2>2. Own(running_thread, ctx)' /\ Alive(running_thread, ctx)'
    BY <1>10 DEF Kinds, Stage, Own, Alive, Building, TypeOK, OtherReturns
  <2>3. Building(ctx)'
    BY <1>10 DEF Kinds, Stage, Own, Alive, Building, TypeOK, OtherReturns
  <2> QED BY <2>1, <2>2, <2>3
<1>11. CASE ListChild
  <2>1. Kinds(running_thread, ctx)' /\ Stage(ctx)'
    BY <1>11 DEF Kinds, Stage, KernelPc, UserPc, ListChild
  <2>2. Own(running_thread, ctx)' /\ Alive(running_thread, ctx)'
    BY <1>11 DEF Kinds, Stage, Own, Alive, Building, TypeOK, ListChild
  <2>3. Building(ctx)'
    BY <1>11 DEF Kinds, Stage, Own, Alive, Building, TypeOK, ListChild
  <2> QED BY <2>1, <2>2, <2>3
<1>12. CASE ChildPid
  <2>1. Kinds(running_thread, ctx)' /\ Stage(ctx)'
    BY <1>12 DEF Kinds, Stage, KernelPc, UserPc, ChildPid
  <2>2. Own(running_thread, ctx)' /\ Alive(running_thread, ctx)'
    BY <1>12 DEF Kinds, Stage, Own, Alive, Building, TypeOK, ChildPid
  <2>3. Building(ctx)'
    BY <1>12 DEF Kinds, Stage, Own, Alive, Building, TypeOK, ChildPid
  <2> QED BY <2>1, <2>2, <2>3
<1>13. CASE ChildNoTid
  <2>1. Kinds(running_thread, ctx)' /\ Stage(ctx)'
    BY <1>13 DEF Kinds, Stage, KernelPc, UserPc, ChildNoTid
  <2>2. Own(running_thread, ctx)' /\ Alive(running_thread, ctx)'
    BY <1>13 DEF Kinds, Stage, Own, Alive, Building, TypeOK, ChildNoTid
  <2>3. Building(ctx)'
    BY <1>13 DEF Kinds, Stage, Own, Alive, Building, TypeOK, ChildNoTid
  <2> QED BY <2>1, <2>2, <2>3
<1>14. CASE ChildTid
  <2>1. Kinds(running_thread, ctx)' /\ Stage(ctx)'
    BY <1>14 DEF Kinds, Stage, KernelPc, UserPc, ChildTid, ChildTidStep
  <2>2. Own(running_thread, ctx)' /\ Alive(running_thread, ctx)'
    BY <1>14 DEF Kinds, Stage, Own, Alive, Building, TypeOK, ChildTid, ChildTidStep
  <2>3. Building(ctx)'
    BY <1>14 DEF Kinds, Stage, Own, Alive, Building, TypeOK, ChildTid, ChildTidStep
  <2> QED BY <2>1, <2>2, <2>3
<1>15. CASE ChildRegs
  <2>1. Kinds(running_thread, ctx)' /\ Stage(ctx)'
    BY <1>15 DEF Kinds, Stage, KernelPc, UserPc, ChildRegs
  <2>2. Own(running_thread, ctx)' /\ Alive(running_thread, ctx)'
    BY <1>15 DEF Kinds, Stage, Own, Alive, Building, TypeOK, ChildRegs
  <2>3. Building(ctx)'
    BY <1>15 DEF Kinds, Stage, Own, Alive, Building, TypeOK, ChildRegs
  <2> QED BY <2>1, <2>2, <2>3
<1>16. CASE ExitSection
  <2>1. Kinds(running_thread, ctx)' /\ Stage(ctx)'
    BY <1>16 DEF Kinds, Stage, KernelPc, UserPc, ExitSection
  <2>2. Own(running_thread, ctx)' /\ Alive(running_thread, ctx)'
    BY <1>16 DEF Kinds, Stage, Own, Alive, Building, TypeOK, ExitSection
  <2>3. Building(ctx)'
    BY <1>16 DEF Kinds, Stage, Own, Alive, Building, TypeOK, ExitSection
  <2> QED BY <2>1, <2>2, <2>3
<1>17. CASE CloseFds
  <2>1. Kinds(running_thread, ctx)' /\ Stage(ctx)'
    BY <1>17 DEF Kinds, Stage, KernelPc, UserPc, CloseFds
  <2>2. Own(running_thread, ctx)' /\ Alive(running_thread, ctx)'
    BY <1>17 DEF Kinds, Stage, Own, Alive, Building, TypeOK, CloseFds
  <2>3. Building(ctx)'
    BY <1>17 DEF Kinds, Stage, Own, Alive, Building, TypeOK, CloseFds
  <2> QED BY <2>1, <2>2, <2>3
<1>18. CASE ExitLoadPid
  <2>1. Kinds(running_thread, ctx)' /\ Stage(ctx)'
    BY <1>18 DEF Kinds, Stage, KernelPc, UserPc, ExitLoadPid
  <2>2. Own(running_thread, ctx)' /\ Alive(running_thread, ctx)'
    BY <1>18 DEF Kinds, Stage, Own, Alive, Building, TypeOK, ExitLoadPid
  <2>3. Building(ctx)'
    BY <1>18 DEF Kinds, Stage, Own, Alive, Building, TypeOK, ExitLoadPid
  <2> QED BY <2>1, <2>2, <2>3
<1>19. CASE ExitStorePid
  <2>1. Kinds(running_thread, ctx)' /\ Stage(ctx)'
    BY <1>19 DEF Kinds, Stage, KernelPc, UserPc, ExitStorePid, ExitStoreStep, Store
  <2>2. Own(running_thread, ctx)' /\ Alive(running_thread, ctx)'
    BY <1>19 DEF Kinds, Stage, Own, Alive, Building, TypeOK, ExitStorePid, ExitStoreStep, Store
  <2>3. Building(ctx)'
    BY <1>19 DEF Kinds, Stage, Own, Alive, Building, TypeOK, ExitStorePid, ExitStoreStep, Store
  <2> QED BY <2>1, <2>2, <2>3
<1>20. CASE ExitDelete
  <2>1. Kinds(running_thread, ctx)' /\ Stage(ctx)'
    BY <1>20 DEF Kinds, Stage, KernelPc, UserPc, ExitDelete
  <2>2. Own(running_thread, ctx)' /\ Alive(running_thread, ctx)'
    BY <1>20 DEF Kinds, Stage, Own, Alive, Building, TypeOK, ExitDelete
  <2>3. Building(ctx)'
    BY <1>20 DEF Kinds, Stage, Own, Alive, Building, TypeOK, ExitDelete
  <2> QED BY <2>1, <2>2, <2>3
<1> QED BY <1>1, <1>2, <1>3, <1>4, <1>5, <1>6, <1>7, <1>8, <1>9, <1>10, <1>11, <1>12, <1>13,
       <1>14, <1>15, <1>16, <1>17, <1>18, <1>19, <1>20 DEF LocalStep

(* They are steps in the sense of Moves.                                   *)
LEMMA LocalMoves ==
  ASSUME Base, LocalStep
  PROVE  Moves
<1> USE LocalCore, CoreType, SlotsAssumption DEF Reached, At, Goto, InSched, InHeap,
       LeaveSched, LeaveHeap, Return, UserContext, Context, schedvars, data, locks, ghosts,
       threadvars, procvars, SchedSection, HeapSection, FlowOK, Builds, ExitTail, IdSteps,
       Moves, Active, InSyscall
<1>1. CASE EnterSched
  BY <1>1 DEF Kinds, Stage, Own, Building, StartInv, Owners, TypeOK, EnterSched
<1>2. CASE EnterHeap
  <2>1. ctx.kind = "kernel" /\ ctx.pc = "new" => toStart > 0
    BY DEF Owners, StartInv, Flow
  <2> QED BY <1>2, <2>1 DEF Stage, TypeOK, Building, EnterHeap
<1>3. CASE FindId
  BY <1>3 DEF Kinds, Stage, Own, Building, StartInv, Owners, TypeOK, FindId
<1>4. CASE FindNoId
  BY <1>4 DEF Kinds, Stage, Own, Building, StartInv, Owners, TypeOK, FindNoId, HaveId
<1>5. CASE LoadId
  BY <1>5 DEF Kinds, Stage, Own, Building, StartInv, Owners, TypeOK, LoadId
<1>6. CASE StoreId
  BY <1>6 DEF Kinds, Stage, Own, Building, StartInv, Owners, TypeOK, StoreId, StoreStep,
     Store, HaveId
<1>7. CASE ProgramIds
  BY <1>7 DEF Kinds, Stage, Own, Building, StartInv, Owners, TypeOK, ProgramIds
<1>8. CASE ListProgram
  BY <1>8 DEF Kinds, Stage, Own, Building, StartInv, Owners, TypeOK, ListProgram
<1>9. CASE OverrideIds
  BY <1>9 DEF Kinds, Stage, Own, Building, StartInv, Owners, TypeOK, OverrideIds
<1>10. CASE OtherReturns
  BY <1>10 DEF Kinds, Stage, Own, Building, StartInv, Owners, TypeOK, OtherReturns
<1>11. CASE ListChild
  BY <1>11 DEF Kinds, Stage, Own, Building, StartInv, Owners, TypeOK, ListChild
<1>12. CASE ChildPid
  BY <1>12 DEF Kinds, Stage, Own, Building, StartInv, Owners, TypeOK, ChildPid
<1>13. CASE ChildNoTid
  BY <1>13 DEF Kinds, Stage, Own, Building, StartInv, Owners, TypeOK, ChildNoTid
<1>14. CASE ChildTid
  BY <1>14 DEF Kinds, Stage, Own, Building, StartInv, Owners, TypeOK, ChildTid, ChildTidStep
<1>15. CASE ChildRegs
  BY <1>15 DEF Kinds, Stage, Own, Building, StartInv, Owners, TypeOK, ChildRegs
<1>16. CASE ExitSection
  BY <1>16 DEF Kinds, Stage, Own, Building, StartInv, Owners, TypeOK, ExitSection
<1>17. CASE CloseFds
  BY <1>17 DEF Kinds, Stage, Own, Building, StartInv, Owners, TypeOK, CloseFds
<1>18. CASE ExitLoadPid
  BY <1>18 DEF Kinds, Stage, Own, Building, StartInv, Owners, TypeOK, ExitLoadPid
<1>19. CASE ExitStorePid
  BY <1>19 DEF Kinds, Stage, Own, Building, StartInv, Owners, TypeOK, ExitStorePid,
     ExitStoreStep, Store
<1>20. CASE ExitDelete
  BY <1>20 DEF Kinds, Stage, Own, Building, StartInv, Owners, TypeOK, ExitDelete
<1> QED BY <1>1, <1>2, <1>3, <1>4, <1>5, <1>6, <1>7, <1>8, <1>9, <1>10, <1>11, <1>12, <1>13,
       <1>14, <1>15, <1>16, <1>17, <1>18, <1>19, <1>20 DEF LocalStep

(* So they keep the invariant.                                             *)
LEMMA LocalBase ==
  ASSUME Base, LocalStep
  PROVE  Base'
<1>1. InOnePlace'
  BY LocalCore, Stay DEF Base
<1>2. Owners'
  BY LocalCore, LocalMoves, LocalType, LocalFlow, MoveOn
<1> QED BY LocalType, LocalIds, LocalHolder, LocalPlace, <1>1, <1>2 DEF Base

-----------------------------------------------------------------------------
(* When no flow changes, and nothing that flows build or own, Owners is    *)
(* kept: the case of ticks and faults.                                     *)
LEMMA SameFlows ==
  ASSUME Owners, Scheduled' = Scheduled, Scheduled \subseteq Thread,
         \A t \in Scheduled : Flow(t)' = Flow(t),
         \A t \in Scheduled : Flow(t).t \in Thread \cup {Null},
         \A t \in Thread \ Scheduled : regs'[t] = regs[t],
         UNCHANGED <<parent_process, threads, liveT, liveP, toStart>>,
         RunsOwn'
  PROVE  Owners'
<1>1. FlowInv'
  <2> SUFFICES ASSUME NEW u \in Scheduled PROVE FlowOK(u, Flow(u))'
    BY DEF FlowInv
  <2>1. FlowOK(u, Flow(u)) /\ Flow(u)' = Flow(u)
    BY DEF Owners, FlowInv
  <2>2. Flow(u).t # Null => regs'[Flow(u).t] = regs[Flow(u).t]
    BY <2>1 DEF FlowOK, Building
  <2>3. Kinds(u, Flow(u))' /\ Stage(Flow(u))' /\ Own(u, Flow(u))' /\ Alive(u, Flow(u))'
    BY <2>1 DEF FlowOK, Kinds, Stage, Own, Alive, Builds
  <2>4. Building(Flow(u))'
    BY <2>1, <2>2 DEF FlowOK, Building, Stage, Builds
  <2> QED BY <2>3, <2>4 DEF FlowOK
<1>2. Apart' /\ OneActive' /\ StartInv'
  BY DEF Owners, Apart, OneActive, StartInv, Active, InSyscall, Builds
<1>3. Reachable'
  BY DEF Owners, Reachable
<1> QED BY <1>1, <1>2, <1>3 DEF Owners

(* The fields of a scheduled flow.                                         *)
LEMMA FlowType ==
  ASSUME TypeOK
  PROVE  \A t \in Scheduled : Flow(t) \in ContextType /\ Flow(t).t \in Thread \cup {Null}
                              /\ Flow(t).p \in Proc \cup {Null} /\ t \in Thread
<1>1. \A t \in Scheduled : Flow(t) \in ContextType /\ t \in Thread
  BY ScheduledType DEF TypeOK, Flow
<1> QED BY <1>1 DEF ContextType

(* The steps after which the core is not followed further.                 *)
FaultStep ==
  \/ ProgramNoIds \/ RunClobbered \/ ExitWildPid \/ TickSpins
  \/ AllocationFails \/ AllocatesFreed

(* A step that loses the core changes no flow.                             *)
LEMMA FaultBase ==
  ASSUME Base, FaultStep
  PROVE  Base' /\ Scheduled' = Scheduled /\ \A t \in Scheduled : Flow(t)' = Flow(t)
<1>1. /\ fault = "none" /\ fault' \in {"null", "stack", "wild", "spin", "dangling", "nomem"}
      /\ UNCHANGED <<ctx, schedvars, data, id_lock, toStart, forks, overwrote>>
      /\ sched_lock' \in BOOLEAN /\ heap_lock' \in BOOLEAN
      /\ heap_lock' <=> (heap_lock \/ fault' = "nomem")
      /\ fault' = "spin" => sched_lock' = TRUE /\ (sched_lock \/ heap_lock)
      /\ fault' \notin {"spin", "nomem"} => sched_lock' = sched_lock
  <2>0. fault = "none" /\ sched_lock \in BOOLEAN /\ heap_lock \in BOOLEAN
    BY DEF FaultStep, ProgramNoIds, RunClobbered, ExitWildPid, TickSpins, AllocationFails,
       AllocatesFreed, FlowAllocates, TickAllocates, SchedulerFree, Reached, At, Base, TypeOK
  <2>1. CASE ProgramNoIds \/ RunClobbered \/ ExitWildPid
    BY <2>0, <2>1 DEF ProgramNoIds, RunClobbered, ExitWildPid, locks
  <2>2. CASE TickSpins
    BY <2>0, <2>2 DEF TickSpins
  <2>3. CASE AllocationFails
    BY <2>0, <2>3 DEF AllocationFails
  <2>4. CASE AllocatesFreed
    BY <2>0, <2>4 DEF AllocatesFreed, locks
  <2> QED BY <2>1, <2>2, <2>3, <2>4 DEF FaultStep
<1> USE <1>1 DEF schedvars, data, threadvars, procvars
<1>2. TypeOK' /\ IdsInv'
  BY DEF Base, TypeOK, IdsInv, NewId
<1>3. SectionHolders' /\ InOnePlace' /\ CoreOK'
  <2>1. SectionHolders /\ InOnePlace /\ CoreOK
    BY DEF Base
  <2>2. fault' \notin {"spin", "nomem"} => (sched_lock' <=> ctx'.in = "sched")
    BY <2>1 DEF SectionHolders
  <2>3. heap_lock' <=> (ctx'.in = "heap" \/ fault' = "nomem")
    BY <2>1 DEF SectionHolders
  <2>4. fault' = "spin" => ctx'.in # "none"
    BY <2>1 DEF SectionHolders
  <2>5. \A t \in Range(waiting_queue') : regs'[t].in = "none"
    BY <2>1 DEF SectionHolders
  <2>6. SectionHolders'
    BY <2>2, <2>3, <2>4, <2>5 DEF SectionHolders
  <2> QED BY <2>1, <2>6 DEF InOnePlace, CoreOK, Scheduled
<1>4. Owners'
  <2>1. Scheduled' = Scheduled /\ (\A t \in Scheduled : Flow(t)' = Flow(t)) /\ RunsOwn'
    BY DEF Scheduled, Flow, RunsOwn, Base, Owners
  <2>2. \A t \in Scheduled : Flow(t).t \in Thread \cup {Null} /\ t \in Thread
    BY FlowType DEF Base
  <2> QED BY <2>1, <2>2, SameFlows DEF Base
<1>5. Scheduled' = Scheduled /\ (\A t \in Scheduled : Flow(t)' = Flow(t))
  BY DEF Scheduled, Flow
<1> QED BY <1>2, <1>3, <1>4, <1>5 DEF Base

(* reschedule with an empty queue saves the registers and goes on.         *)
LEMMA TickKeepsBase ==
  ASSUME Base, TickKeeps
  PROVE  Base' /\ Scheduled' = Scheduled /\ \A t \in Scheduled : Flow(t)' = Flow(t)
<1> DEFINE r == running_thread
<1> USE DEF TickKeeps, locks, ghosts
<1>1. r \in Thread /\ r \in Scheduled /\ Flow(r) = ctx /\ Owners /\ FlowOK(r, ctx) /\ TypeOK
  BY DEF Base, Owners, FlowInv, TypeOK, Scheduled, Flow
<1>2. TypeOK'
  BY <1>1 DEF TypeOK
<1>3. IdsInv' /\ SectionHolders' /\ InOnePlace' /\ CoreOK'
  BY <1>1 DEF Base, IdsInv, NewId, SectionHolders, InOnePlace, CoreOK, Scheduled, TypeOK
<1>4. Scheduled' = Scheduled /\ (\A t \in Thread \ {r} : regs'[t] = regs[t])
  BY <1>1 DEF Scheduled, TypeOK
<1>5. \A t \in Scheduled : Flow(t)' = Flow(t) /\ Flow(t).t \in Thread \cup {Null}
         /\ t \in Thread
  BY <1>1, <1>4, FlowType DEF Flow
<1>6. RunsOwn'
  BY DEF RunsOwn
<1>7. Owners'
  BY <1>1, <1>4, <1>5, <1>6, SameFlows
<1> QED BY <1>2, <1>3, <1>4, <1>5, <1>7 DEF Base

(* reschedule with a waiting thread: the running one goes to the end of    *)
(* the queue with its registers saved, the first one to the core; no flow  *)
(* changes.                                                                *)
LEMMA TickSwitchesBase ==
  ASSUME Base, TickSwitches
  PROVE  Base' /\ Scheduled' = Scheduled /\ \A t \in Scheduled : Flow(t)' = Flow(t)
<1> DEFINE r == running_thread
           s == First
           rest == Tail(waiting_queue)
<1> USE DEF TickSwitches, SwitchTo, SchedulerFree, locks, ghosts
<1>0. TypeOK /\ IdsInv /\ SectionHolders /\ InOnePlace /\ CoreOK /\ Owners /\ fault = "none"
  BY DEF Base
<1>1. /\ s \in Thread /\ rest \in Seq(Thread) /\ Range(waiting_queue) = {s} \cup Range(rest)
      /\ Distinct(rest) /\ s \notin Range(rest) /\ s # r /\ r \notin Range(rest)
  BY <1>0, RangeTail, DistinctTail DEF TypeOK, InOnePlace, Distinct, First
<1>2. Saves(s) <=> r # Null
  BY <1>1 DEF Saves
<1>3. /\ waiting_queue' \in Seq(Thread) /\ Distinct(waiting_queue')
      /\ Range(waiting_queue') = Range(rest) \cup ({r} \ {Null})
  <2>1. CASE r = Null
    BY <1>1, <1>2, <2>1
  <2>2. CASE r # Null
    <3>1. r \in Thread /\ waiting_queue' = Append(rest, r)
      BY <1>0, <1>2, <2>2 DEF TypeOK
    <3> HIDE DEF rest
    <3>2. Append(rest, r) \in Seq(Thread) /\ Range(Append(rest, r)) = Range(rest) \cup {r}
      <4>1. rest \in Seq(Thread) /\ r \in Thread
        BY <1>1, <3>1
      <4> HIDE DEF r
      <4> QED BY <4>1, RangeAppend, AppendProperties
    <3>3. Distinct(waiting_queue')
      BY <1>1, <3>1, DistinctAppend
    <3> QED BY <2>2, <3>1, <3>2, <3>3
  <2> QED BY <2>1, <2>2
<1>4. /\ ctx' = regs[s] /\ running_thread' = s /\ running_process' = parent_process[s]
      /\ s # Null /\ regs[s] \in ContextType
      /\ regs' \in [Thread -> ContextType]
      /\ \A t \in Thread : regs'[t] = IF t = r THEN ctx ELSE regs[t]
  BY <1>0, <1>1, <1>2, SlotsAssumption DEF TypeOK
<1>5. Scheduled' = Scheduled /\ Scheduled \subseteq Thread /\ s \in Scheduled
  BY <1>0, <1>1, <1>3, <1>4, ScheduledType DEF Scheduled
<1>6. TypeOK'
  <2>1. status' \in [Thread -> {"Waiting", "Running"}]
    BY <1>0 DEF TypeOK
  <2>2. pstatus' \in [Proc -> {"Waiting", "Running"}]
    BY <1>0 DEF TypeOK
  <2>3. running_process' \in Proc \cup {Null}
    BY <1>0, <1>1, <1>4 DEF TypeOK
  <2> QED BY <1>0, <1>1, <1>3, <1>4, <2>1, <2>2, <2>3 DEF TypeOK
<1>7. IdsInv'
  BY <1>0, <1>1, <1>4 DEF IdsInv, NewId
<1>8. SectionHolders'
  <2>1. ctx.in = "none" /\ ~sched_lock' /\ ~heap_lock' /\ fault' = "none"
    BY <1>0, CoreType DEF SectionHolders
  <2>2. ctx'.in = "none" /\ \A t \in Range(rest) : regs[t].in = "none"
    BY <1>0, <1>1, <1>4 DEF SectionHolders
  <2>3. \A t \in Range(waiting_queue') : regs'[t].in = "none"
    BY <1>1, <1>3, <1>4, <1>5, <2>1, <2>2, RangeOfSeq DEF Scheduled
  <2> QED BY <2>1, <2>2, <2>3 DEF SectionHolders
<1>9. InOnePlace'
  BY <1>1, <1>3, <1>4 DEF InOnePlace, Distinct
<1>10. CoreOK'
  <2>1. ctx'.in = "none"
    BY <1>0, <1>1, <1>4 DEF SectionHolders
  <2> QED BY <1>0, <1>4, <1>5, <2>1 DEF CoreOK
<1>11. \A t \in Scheduled : Flow(t)' = Flow(t) /\ Flow(t).t \in Thread \cup {Null}
  BY <1>0, <1>1, <1>4, <1>5, FlowType DEF Flow
<1>12. \A t \in Thread \ Scheduled : regs'[t] = regs[t]
  BY <1>4, SlotsAssumption DEF Scheduled
<1>13. RunsOwn'
  BY <1>4 DEF RunsOwn
<1>14. Owners'
  BY <1>0, <1>5, <1>11, <1>12, <1>13, SameFlows
<1> QED BY <1>5, <1>6, <1>7, <1>8, <1>9, <1>10, <1>11, <1>14 DEF Base

(* A user program enters the kernel.                                       *)
CallStep == EnterOther \/ EnterFork \/ EnterExit

(* A system call overwrites the frames of the ones that were preempted;    *)
(* what those had allocated stays theirs.                                  *)
LEMMA CallBase ==
  ASSUME Base, CallStep
  PROVE  Base'
<1> DEFINE r == running_thread
<1> USE SlotsAssumption DEF At, Reached
<1>1. At("user", "user") /\ fault = "none"
  BY DEF CallStep, EnterOther, EnterFork, EnterExit, Enter
<1>2. /\ r # Null /\ r \in Scheduled /\ r \in Thread /\ FlowOK(r, ctx) /\ Owners
      /\ TypeOK /\ IdsInv /\ SectionHolders /\ InOnePlace /\ CoreOK
  BY <1>1, OnCore DEF Base
<1>3. /\ UNCHANGED <<schedvars, locks, bitmap, tid, status, parent_process, liveT, procvars,
         toStart, fault, overwrote>>
      /\ forks' \in 0 .. MaxForks
      /\ \A t \in Thread : regs'[t] = IF InSyscall(regs[t]) THEN [regs[t] EXCEPT !.pc = "clobbered"] ELSE regs[t]
      /\ regs' \in [Thread -> ContextType]
  <2>1. /\ UNCHANGED <<schedvars, locks, bitmap, tid, status, parent_process, liveT, procvars,
           toStart, fault, overwrote>>
        /\ forks' \in 0 .. MaxForks
    BY <1>2, BoundAssumption DEF CallStep, EnterOther, EnterFork, EnterExit, Enter, ghosts,
       TypeOK
  <2>2. regs' = [t \in Thread |-> IF InSyscall(regs[t]) THEN [regs[t] EXCEPT !.pc = "clobbered"] ELSE regs[t]]
    BY DEF CallStep, EnterOther, EnterFork, EnterExit, Enter
  <2>3. \A t \in Thread : [regs[t] EXCEPT !.pc = "clobbered"] \in ContextType
    <3>1. \A c \in ContextType : [c EXCEPT !.pc = "clobbered"] \in ContextType
      BY DEF ContextType
    <3> QED BY <1>2, <3>1 DEF TypeOK
  <2> QED BY <1>2, <2>1, <2>2, <2>3 DEF TypeOK
<1>4. /\ ctx'.pc \in {"other", "new", "exit"} /\ ctx'.kind = "user" /\ ctx'.in = ctx.in
         /\ ctx'.me = ctx.me
      /\ ctx'.p = (IF ctx'.pc = "exit" THEN ctx.me ELSE ctx.p) /\ ctx'.t = ctx.t
         /\ ctx'.which = ctx.which
      /\ ctx' \in ContextType
  <2>1. running_process = ctx.me /\ running_process \in Proc
    BY <1>2 DEF Owners, RunsOwn, FlowOK, Own
  <2>2. CASE EnterOther
    BY <1>1, <1>2, <2>2, CoreType DEF TypeOK, ContextType, EnterOther, Enter, HeapSection
  <2>3. CASE EnterFork
    BY <1>1, <1>2, <2>3, CoreType DEF TypeOK, ContextType, EnterFork, Enter, HeapSection
  <2>4. CASE EnterExit
    BY <1>1, <1>2, <2>1, <2>4, CoreType DEF TypeOK, ContextType, EnterExit, Enter, SchedSection
  <2> QED BY <2>2, <2>3, <2>4 DEF CallStep
<1> USE DEF schedvars, locks, procvars
<1>5. TypeOK' /\ IdsInv'
  <2>1. TypeOK'
    BY <1>2, <1>3, <1>4 DEF TypeOK
  <2>2. IdsInv'
    <3>1. \A t \in Thread : NewId(regs[t])'
      BY <1>2, <1>3 DEF IdsInv, NewId, TypeOK, ContextType
    <3> QED BY <1>4, <3>1 DEF IdsInv, NewId
  <2> QED BY <2>1, <2>2
<1>6. ctx.in = "none" /\ ctx.p = Null /\ ctx.t = Null /\ ctx.which = "pid"
  BY <1>1, <1>2, CoreType DEF CoreOK, SchedSection, HeapSection, FlowOK, Stage
<1>7. Scheduled' = Scheduled /\ Scheduled \subseteq Thread /\ InOnePlace' /\ CoreOK'
  BY <1>2, <1>3, <1>4, <1>6, ScheduledType DEF Scheduled, InOnePlace, CoreOK
<1>8. SectionHolders'
  <2>1. \A t \in Range(waiting_queue) : regs[t] \in ContextType /\ t \in Thread
    BY <1>2, <1>7 DEF TypeOK, Scheduled
  <2>2. \A t \in Range(waiting_queue) : regs'[t].in = regs[t].in
    BY <1>3, <2>1 DEF ContextType
  <2> QED BY <1>2, <1>3, <1>4, <2>2 DEF SectionHolders
<1>9. \A u \in Scheduled : u # r =>
        /\ Flow(u)'.kind = Flow(u).kind /\ Flow(u)'.me = Flow(u).me /\ Flow(u)'.p = Flow(u).p
        /\ Flow(u)'.t = Flow(u).t /\ Flow(u)'.which = Flow(u).which
        /\ Flow(u)'.pc = IF InSyscall(Flow(u)) THEN "clobbered" ELSE Flow(u).pc
  <2>1. \A u \in Scheduled : u # r => Flow(u) = regs[u] /\ Flow(u)' = regs'[u]
           /\ regs[u] \in ContextType /\ u \in Thread
    BY <1>2, <1>3, <1>7 DEF Flow, TypeOK
  <2> QED BY <1>3, <2>1 DEF ContextType
<1>10. Flow(r) = ctx /\ Flow(r)' = ctx'
  BY <1>3 DEF Flow
<1>11. FlowInv'
  <2> SUFFICES ASSUME NEW u \in Scheduled PROVE FlowOK(u, Flow(u))'
    BY <1>7 DEF FlowInv
  <2>1. CASE u = r
    <3>1. Kinds(u, ctx)' /\ Stage(ctx)' /\ Own(u, ctx)' /\ Alive(u, ctx)'
      BY <1>1, <1>2, <1>3, <1>4, <1>6, <2>1 DEF FlowOK, Kinds, Stage, Own, Alive, Builds,
         UserPc, ExitTail, IdSteps
    <3>2. Building(ctx)'
      BY <1>4, <1>6 DEF Building, Builds
    <3>3. FlowOK(u, ctx)' /\ Flow(u)' = ctx'
      BY <1>3, <1>10, <2>1, <3>1, <3>2 DEF FlowOK
    <3> QED BY <3>3
  <2>2. CASE u # r
    <3> DEFINE c == Flow(u)
    <3>1. FlowOK(u, c) /\ c.t \in Thread \cup {Null}
      BY <1>2, FlowType DEF Owners, FlowInv
    <3>2. /\ c'.kind = c.kind /\ c'.me = c.me /\ c'.p = c.p /\ c'.t = c.t /\ c'.which = c.which
          /\ c'.pc = IF InSyscall(c) THEN "clobbered" ELSE c.pc
      BY <1>9, <2>2
    <3>3. Kinds(u, c)' /\ Stage(c)' /\ Own(u, c)' /\ Alive(u, c)'
      BY <1>3, <3>1, <3>2 DEF FlowOK, Kinds, Stage, Own, Alive, Builds, UserPc, ExitTail,
         IdSteps, InSyscall
    <3>4. c.t # Null /\ regs[c.t] = UserContext(c.p) => regs'[c.t] = UserContext(c.p)
      BY <1>3, <3>1 DEF InSyscall, UserContext, Context
    <3>5. Building(c)'
      BY <1>3, <1>7, <3>1, <3>2, <3>4 DEF FlowOK, Stage, Building, Builds, InSyscall
    <3> QED BY <3>3, <3>5 DEF FlowOK
  <2> QED BY <2>1, <2>2
<1>12. Apart'
  <2>1. ctx'.t = Null /\ ~Builds(ctx')
    BY <1>4, <1>6 DEF Builds
  <2>2. \A u \in Scheduled : u # r => Builds(Flow(u))' = Builds(Flow(u))
    BY <1>9 DEF Builds
  <2>3. \A u \in Scheduled : u = r => Flow(u)'.t = Null /\ ~Builds(Flow(u))'
    BY <1>3, <1>10, <2>1
  <2> QED BY <1>2, <1>7, <1>9, <2>2, <2>3 DEF Owners, Apart
<1>13. Reachable'
  BY <1>2, <1>3, <1>6, <1>7, <1>9, <1>10 DEF Owners, Reachable
<1>14. OneActive' /\ StartInv' /\ RunsOwn'
  <2>1. OneActive'
    BY <1>7, <1>9 DEF OneActive, Active, InSyscall
  <2>2. StartInv'
    BY <1>2, <1>3, <1>4, <1>7, <1>9, <1>10 DEF Owners, StartInv, InSyscall
  <2>3. RunsOwn'
    BY <1>2, <1>3 DEF Owners, RunsOwn
  <2> QED BY <2>1, <2>2, <2>3
<1>15. Owners'
  BY <1>11, <1>12, <1>13, <1>14 DEF Owners
<1> QED BY <1>5, <1>7, <1>8, <1>15 DEF Base

-----------------------------------------------------------------------------
(* The steps that allocate a process or a thread structure.                *)
AllocStep ==
  \/ \E p \in Proc \ liveP, t \in Thread \ liveT : NewProgram(p, t)
  \/ \E p \in Proc \ liveP : ForkProcess(p)
  \/ \E t \in Thread \ liveT : ForkThread(t)

(* What they have in common.                                               *)
LEMMA AllocCore ==
  ASSUME Base, AllocStep
  PROVE  /\ fault = "none" /\ ctx.in = "heap" /\ heap_lock /\ heap_lock' = FALSE
            /\ ctx'.in = "none"
         /\ ctx.pc # "hang"
         /\ UNCHANGED <<schedvars, sched_lock, id_lock, bitmap, tid, parent_process, forks,
            overwrote>>
         /\ running_thread # Null /\ running_thread \in Scheduled /\ running_thread \in Thread
         /\ FlowOK(running_thread, ctx) /\ Owners /\ Scheduled' = Scheduled
         /\ TypeOK /\ IdsInv /\ SectionHolders /\ InOnePlace /\ CoreOK
         /\ fault' \in {"none", "dangling"}
         /\ ctx.me \in liveP /\ running_thread \in liveT
            /\ parent_process[running_thread] = ctx.me
<1> USE DEF InHeap, LeaveHeap, At, Reached, Reuse, schedvars, threadvars, procvars
<1>1. /\ fault = "none" /\ ctx.in = "heap" /\ heap_lock' = FALSE /\ ctx.pc \in {"new",
         "newthread"}
      /\ UNCHANGED <<schedvars, sched_lock, id_lock, bitmap, tid, parent_process, forks,
         overwrote>>
      /\ fault' \in {"none", "dangling"}
      /\ ctx'.in = "none"
  BY CoreType DEF AllocStep, NewProgram, ForkProcess, ForkThread, Base
<1>2. /\ running_thread # Null /\ running_thread \in Scheduled /\ running_thread \in Thread
      /\ FlowOK(running_thread, ctx) /\ Owners
  BY <1>1, OnCore
<1>3. heap_lock /\ Scheduled' = Scheduled
  BY <1>1 DEF Base, SectionHolders, Scheduled
<1>4. ctx.me \in liveP /\ running_thread \in liveT /\ parent_process[running_thread] = ctx.me
  BY <1>1, <1>2 DEF FlowOK, Alive, Own, ExitTail
<1> QED BY <1>1, <1>2, <1>3, <1>4 DEF Base

(* They leave the lock section and schedule nothing.                       *)
LEMMA AllocPlace ==
  ASSUME Base, AllocStep, TypeOK'
  PROVE  SectionHolders' /\ InOnePlace' /\ CoreOK'
<1> USE AllocCore DEF schedvars
<1>1. \A t \in Range(waiting_queue) : regs'[t].in = "none"
  <2>1. \A t \in Thread : regs'[t] = regs[t] \/ regs'[t].in = "none"
    <3>1. ASSUME NEW p, NEW t, NewProgram(p, t) PROVE \A x \in Thread : regs'[x] = regs[x]
                    \/ regs'[x].in = "none"
      BY <3>1 DEF NewProgram, UserContext, Context, TypeOK
    <3>2. ASSUME NEW p, ForkProcess(p) \/ ForkThread(p) PROVE regs' = regs
      BY <3>2 DEF ForkProcess, ForkThread, threadvars
    <3> QED BY <3>1, <3>2 DEF AllocStep
  <2>2. Range(waiting_queue) \subseteq Thread
    BY ScheduledType DEF Scheduled
  <2> QED BY <2>1, <2>2 DEF SectionHolders
<1>2. SectionHolders'
  BY <1>1 DEF SectionHolders
<1>3. InOnePlace' /\ CoreOK'
  BY DEF InOnePlace, CoreOK
<1> QED BY <1>2, <1>3

(* create_process allocates the structures of a program.                   *)
LEMMA NewProgramBase ==
  ASSUME Base, NEW p \in Proc \ liveP, NEW t \in Thread \ liveT, NewProgram(p, t)
  PROVE  Base' /\ (fault' # "dangling" => Moves)
<1> USE SlotsAssumption, IdsAssumption DEF InHeap, LeaveHeap, At, Reached, schedvars, NewProgram
<1>0. AllocStep
  BY DEF AllocStep
<1>1. /\ ctx'.kind = "kernel" /\ ctx'.pc = "find" /\ ctx'.me = ctx.me /\ ctx'.p = p
         /\ ctx'.t = t
      /\ ctx'.which = ctx.which /\ ctx'.new = ctx.new /\ ctx' \in ContextType /\ toStart > 0
  <2>1. toStart > 0
    BY <1>0, AllocCore DEF Owners, StartInv, Flow
  <2> QED BY <1>0, <2>1, AllocCore, CoreType DEF TypeOK, ContextType
<1>2. TypeOK'
  <2>1. UserContext(p) \in ContextType
    BY ContextIn DEF UserContext
  <2>2. regs' \in [Thread -> ContextType] /\ threads' \in [Proc -> Thread \cup {Null}]
    BY <1>0, <2>1, AllocCore DEF TypeOK
  <2>3. status' \in [Thread -> {"Waiting", "Running"}] /\ pstatus' \in [Proc -> {"Waiting",
           "Running"}]
    BY <1>0, AllocCore DEF TypeOK
  <2>4. toStart' \in 0 .. Programs
    BY <1>0, <1>1, AllocCore DEF TypeOK, Programs
  <2> QED BY <1>0, <1>1, <2>2, <2>3, <2>4, AllocCore DEF TypeOK
<1>3. IdsInv'
  BY <1>0, <1>1, AllocCore DEF IdsInv, NewId, TypeOK, UserContext, Context
<1>4. ASSUME fault' # "dangling" PROVE Owners' /\ Moves
  <2>1. t \notin Scheduled /\ \A u \in Scheduled : parent_process[u] # p
    BY <1>0, <1>4, AllocCore DEF Reuse, StillQueued, StillReached, Scheduled
  <2>2. ctx.p = Null /\ ctx.t = Null /\ ctx.which = "pid" /\ p # ctx.me
    BY <1>0, AllocCore DEF FlowOK, Stage
  <2>3. threads'[p] = t /\ regs'[t] = UserContext(p)
    BY <1>0, AllocCore DEF TypeOK
  <2>4. FlowOK(running_thread, ctx)'
    <3>0. Builds(ctx')
      BY <1>1, <2>2 DEF Builds
    <3>1. Kinds(running_thread, ctx)' /\ Stage(ctx)'
      <4>1. Kinds(running_thread, ctx)'
        BY <1>0, <1>1, AllocCore DEF FlowOK, Kinds, KernelPc, IdSteps
      <4>2. Stage(ctx)'
        BY <1>1, <3>0 DEF Stage, IdSteps, ExitTail
      <4> QED BY <4>1, <4>2
    <3>2. Own(running_thread, ctx)' /\ Alive(running_thread, ctx)'
      BY <1>0, <1>1, <2>2, AllocCore DEF FlowOK, Own, Alive, ExitTail, TypeOK
    <3>3. Building(ctx)'
      BY <1>0, <1>1, <2>1, <2>2, <2>3, AllocCore DEF Building, Builds
    <3> QED BY <3>1, <3>2, <3>3 DEF FlowOK
  <2>5. Moves
    <3>1. \A q \in Proc \ {p} : threads'[q] = threads[q]
      BY <1>0, AllocCore DEF TypeOK
    <3>2. \A x \in Thread \ {t} : regs'[x] = regs[x]
      BY <1>0, AllocCore DEF TypeOK
    <3> QED BY <1>0, <1>1, <2>1, <2>2, <2>3, <3>1, <3>2, AllocCore DEF Moves, Builds, Active,
           InSyscall
  <2> QED BY <1>0, <1>2, <2>4, <2>5, AllocCore, MoveOn
<1> QED BY <1>0, <1>2, <1>3, <1>4, AllocPlace DEF Base

(* fork allocates the process of the child.                                *)
LEMMA ForkProcessBase ==
  ASSUME Base, NEW p \in Proc \ liveP, ForkProcess(p)
  PROVE  Base' /\ (fault' # "dangling" => Moves)
<1> USE SlotsAssumption, IdsAssumption DEF InHeap, LeaveHeap, At, Reached, schedvars,
       threadvars, ForkProcess
<1>0. AllocStep
  BY DEF AllocStep
<1>1. /\ ctx'.kind = "user" /\ ctx'.pc = "list" /\ ctx'.me = ctx.me /\ ctx'.p = p
         /\ ctx'.t = ctx.t
      /\ ctx'.which = ctx.which /\ ctx' \in ContextType
  BY <1>0, AllocCore, CoreType DEF TypeOK, ContextType, SchedSection
<1>2. TypeOK'
  <2>1. pid' \in [Proc -> Id \cup {NoId}] /\ threads' \in [Proc -> Thread \cup {Null}]
    BY <1>0, AllocCore DEF TypeOK
  <2> QED BY <1>0, <1>1, <2>1, AllocCore DEF TypeOK
<1>3. IdsInv'
  BY <1>0, <1>1, AllocCore DEF IdsInv, NewId
<1>4. ASSUME fault' # "dangling" PROVE Owners' /\ Moves
  <2>1. \A u \in Scheduled : parent_process[u] # p
    BY <1>0, <1>4, AllocCore DEF Reuse, StillReached, Scheduled
  <2>2. ctx.p = Null /\ ctx.t = Null /\ ctx.which = "pid" /\ p # ctx.me
    BY <1>0, AllocCore DEF FlowOK, Stage
  <2>3. threads'[p] = Null /\ \A q \in Proc \ {p} : threads'[q] = threads[q]
    BY <1>0, AllocCore DEF TypeOK
  <2>4. FlowOK(running_thread, ctx)'
    <3>1. Kinds(running_thread, ctx)' /\ Stage(ctx)'
      BY <1>0, <1>1, <2>2, AllocCore DEF FlowOK, Kinds, Stage, Builds, UserPc, ExitTail, IdSteps
    <3>2. Own(running_thread, ctx)' /\ Alive(running_thread, ctx)'
      BY <1>0, <1>1, <2>2, <2>3, AllocCore DEF FlowOK, Own, Alive, ExitTail, TypeOK
    <3>3. Building(ctx)'
      BY <1>0, <1>1, <2>1, <2>2, <2>3, AllocCore DEF Building, Builds
    <3> QED BY <3>1, <3>2, <3>3 DEF FlowOK
  <2>5. Moves
    BY <1>0, <1>1, <2>1, <2>2, <2>3, AllocCore DEF Moves, Builds, Active, InSyscall
  <2> QED BY <1>0, <1>2, <2>4, <2>5, AllocCore, MoveOn
<1> QED BY <1>0, <1>2, <1>3, <1>4, AllocPlace DEF Base

(* fork allocates the thread of the child.                                 *)
LEMMA ForkThreadBase ==
  ASSUME Base, NEW t \in Thread \ liveT, ForkThread(t)
  PROVE  Base' /\ (fault' # "dangling" => Moves)
<1> USE SlotsAssumption, IdsAssumption DEF InHeap, LeaveHeap, At, Reached, schedvars,
       procvars, ForkThread
<1>0. AllocStep
  BY DEF AllocStep
<1>1. /\ ctx'.kind = "user" /\ ctx'.pc = "find" /\ ctx'.me = ctx.me /\ ctx'.p = ctx.p
         /\ ctx'.t = t
      /\ ctx'.which = "tid" /\ ctx' \in ContextType
  BY <1>0, AllocCore, CoreType DEF TypeOK, ContextType, Kind
<1>2. TypeOK'
  BY <1>0, <1>1, AllocCore DEF TypeOK
<1>3. IdsInv'
  BY <1>0, <1>1, AllocCore DEF IdsInv, NewId
<1>4. ASSUME fault' # "dangling" PROVE Owners' /\ Moves
  <2>1. t \notin Scheduled
    BY <1>0, <1>4, AllocCore DEF Reuse, StillQueued, Scheduled
  <2>2. Builds(ctx) /\ ctx.t = Null /\ threads[ctx.p] = Null
    BY <1>0, AllocCore DEF FlowOK, Stage, Building
  <2>4. FlowOK(running_thread, ctx)'
    <3>1. Kinds(running_thread, ctx)' /\ Stage(ctx)'
      BY <1>0, <1>1, <2>2, AllocCore DEF FlowOK, Kinds, Stage, Builds, UserPc, ExitTail, IdSteps
    <3>2. Own(running_thread, ctx)' /\ Alive(running_thread, ctx)'
      BY <1>0, <1>1, <2>2, AllocCore DEF FlowOK, Own, Alive, ExitTail, TypeOK
    <3>3. Building(ctx)'
      BY <1>0, <1>1, <2>1, <2>2, AllocCore DEF FlowOK, Building, Builds
    <3> QED BY <3>1, <3>2, <3>3 DEF FlowOK
  <2>5. Moves
    BY <1>0, <1>1, <2>1, <2>2, AllocCore DEF Moves, Builds, Active, InSyscall
  <2> QED BY <1>0, <1>2, <2>4, <2>5, AllocCore, MoveOn
<1> QED BY <1>0, <1>2, <1>3, <1>4, AllocPlace DEF Base

-----------------------------------------------------------------------------
(* A finished thread is pushed to the queue.                               *)
QueueStep == QueueProgram \/ QueueChild

(* What is pushed is completely set up, and was in no other place.         *)
LEMMA QueueBase ==
  ASSUME Base, QueueStep
  PROVE  Base'
<1>0. PICK r, n, m : r = running_thread /\ n = ctx.t /\ m = ctx.p
  OBVIOUS
<1> USE <1>0
<1> USE SlotsAssumption DEF InSched, LeaveSched, At, Reached
<1>1. /\ fault = "none" /\ ctx.pc = "queue" /\ ctx.in = "sched"
      /\ waiting_queue' = Append(waiting_queue, n) /\ sched_lock' = FALSE
      /\ \E l \in {"hang", "new", "user"} :
           /\ ctx' = Context(ctx.kind, l, ctx.me)
           /\ IF l = "user" THEN ctx.kind = "user" ELSE ctx.kind = "kernel"
           /\ l = "new" => toStart # 0
      /\ UNCHANGED <<running_thread, running_process, process_list, data, heap_lock, id_lock,
         ghosts>>
  BY DEF QueueStep, QueueProgram, QueueChild, Return, UserContext, Context
<1>2. /\ r # Null /\ r \in Scheduled /\ r \in Thread /\ FlowOK(r, ctx) /\ Owners
      /\ TypeOK /\ IdsInv /\ SectionHolders /\ InOnePlace /\ CoreOK
  BY <1>1, OnCore DEF Base
<1>3. /\ n \in Thread /\ n \in liveT /\ n \notin Scheduled /\ Builds(ctx)
         /\ parent_process[n] = ctx.p
      /\ threads[ctx.p] = n /\ regs[n] = UserContext(ctx.p) /\ ctx.p \in liveP /\ ctx.p \in Proc
      /\ m # ctx.me
  BY <1>1, <1>2, CoreType DEF FlowOK, Stage, Building, Builds, TypeOK
<1>4. /\ waiting_queue' \in Seq(Thread) /\ Range(waiting_queue') = Range(waiting_queue) \cup {n}
      /\ Distinct(waiting_queue')
  <2>1. waiting_queue \in Seq(Thread) /\ Distinct(waiting_queue)
           /\ n \notin Range(waiting_queue) /\ n \in Thread
    BY <1>2, <1>3 DEF TypeOK, InOnePlace, Distinct, Scheduled
  <2>2. Append(waiting_queue, n) \in Seq(Thread)
    BY <2>1
  <2> QED BY <1>1, <2>1, <2>2, RangeAppend, DistinctAppend
<1>5. Scheduled' = Scheduled \cup {n} /\ Scheduled \subseteq Thread
  BY <1>1, <1>2, <1>4, ScheduledType DEF Scheduled
<1>6. /\ ctx' \in ContextType /\ ctx'.in = "none" /\ ctx'.p = Null /\ ctx'.t = Null
         /\ ctx'.me = ctx.me
      /\ ctx'.which = "pid" /\ ctx'.kind = ctx.kind /\ ctx'.pc \in {"hang", "new", "user"}
      /\ IF ctx'.pc = "user" THEN ctx.kind = "user" ELSE ctx.kind = "kernel"
      /\ ctx'.pc = "new" => toStart # 0
  <2>1. PICK l \in {"hang", "new", "user"} :
           /\ ctx' = Context(ctx.kind, l, ctx.me)
           /\ IF l = "user" THEN ctx.kind = "user" ELSE ctx.kind = "kernel"
           /\ l = "new" => toStart # 0
    BY <1>1
  <2>2. ctx' \in ContextType
    BY <1>2, <2>1, CoreType, ContextIn
  <2> QED BY <2>1, <2>2 DEF Context
<1> USE DEF data, ghosts, threadvars, procvars
<1>7. TypeOK' /\ IdsInv' /\ InOnePlace' /\ CoreOK'
  <2>1. TypeOK'
    BY <1>1, <1>2, <1>4, <1>6 DEF TypeOK
  <2>2. IdsInv'
    BY <1>1, <1>2, <1>6 DEF IdsInv, NewId
  <2>3. InOnePlace' /\ CoreOK'
    BY <1>1, <1>2, <1>3, <1>4, <1>5, <1>6 DEF InOnePlace, Distinct, CoreOK, Scheduled
  <2> QED BY <2>1, <2>2, <2>3
<1>8. SectionHolders'
  <2>1. regs[n].in = "none"
    BY <1>3 DEF UserContext, Context
  <2> QED BY <1>1, <1>2, <1>4, <1>6, <2>1 DEF SectionHolders
<1>9. \A u \in Scheduled : u # r =>
        /\ Flow(u)' = Flow(u) /\ u # n /\ FlowOK(u, Flow(u))
        /\ Flow(u).t # Null => Flow(u).t # n
        /\ Builds(Flow(u)) => Flow(u).p # ctx.p
  BY <1>1, <1>2, <1>3 DEF Flow, Owners, FlowInv, Apart
<1>10. /\ \A u \in Scheduled : u = r => Flow(u)' = ctx' /\ Flow(u) = ctx
       /\ Flow(n)' = UserContext(m)
  BY <1>1, <1>2, <1>3 DEF Flow
<1>11. FlowInv'
  <2> SUFFICES ASSUME NEW u \in Scheduled \cup {n} PROVE FlowOK(u, Flow(u))'
    BY <1>5 DEF FlowInv
  <2>1. CASE u = r
    <3>1. Kinds(u, ctx)' /\ Stage(ctx)'
      BY <1>2, <1>6, <2>1 DEF FlowOK, Kinds, Stage, Builds, KernelPc, UserPc, IdSteps, ExitTail
    <3>2. Own(u, ctx)' /\ Alive(u, ctx)'
      BY <1>1, <1>2, <1>6, <2>1 DEF FlowOK, Own, Alive, ExitTail
    <3>3. Building(ctx)'
      BY <1>6 DEF Building, Builds
    <3>4. FlowOK(u, ctx)' /\ Flow(u)' = ctx'
      BY <1>2, <1>10, <2>1, <3>1, <3>2, <3>3 DEF FlowOK
    <3> QED BY <3>4
  <2>2. CASE u = n
    <3> DEFINE c == UserContext(m)
    <3>1. n # init_thread
      BY <1>2, <1>3 DEF CoreOK
    <3>2. c.kind = "user" /\ c.pc = "user" /\ c.me = m /\ c.p = Null /\ c.t = Null
             /\ c.which = "pid"
      BY DEF UserContext, Context
    <3>3. Kinds(n, c) /\ Stage(c)
      BY <3>1, <3>2 DEF Kinds, Stage, Builds, UserPc, IdSteps, ExitTail
    <3>4. Own(n, c)' /\ Alive(n, c)'
      BY <1>1, <1>3, <3>2 DEF Own, Alive, ExitTail
    <3>5. Building(c)'
      BY <3>2 DEF Building, Builds
    <3> HIDE DEF c
    <3> QED BY <1>10, <2>2, <3>3, <3>4, <3>5 DEF FlowOK, c
  <2>3. CASE u \in Scheduled /\ u # r
    <3> DEFINE c == Flow(u)
    <3>1. c' = c /\ FlowOK(u, c) /\ (c.t # Null => c.t # n) /\ (Builds(c) => c.p # m)
      BY <1>9, <2>3
    <3>2. Kinds(u, c)' /\ Stage(c)' /\ Own(u, c)' /\ Alive(u, c)'
      BY <1>1, <3>1 DEF FlowOK, Kinds, Stage, Own, Alive, Builds
    <3>3. Building(c)'
      BY <1>1, <1>3, <1>5, <3>1 DEF FlowOK, Building, Builds
    <3> QED BY <3>2, <3>3 DEF FlowOK
  <2> QED BY <2>1, <2>2, <2>3
<1>12. \A u \in Scheduled' : u # r /\ u # n => u \in Scheduled /\ Flow(u)' = Flow(u)
  BY <1>5, <1>9
<1>13. \A u \in Scheduled' : u = r \/ u = n =>
         Flow(u)'.t = Null /\ Flow(u)'.p = Null /\ ~Builds(Flow(u))' /\ (u = r
            \/ ~InSyscall(Flow(u))')
  BY <1>2, <1>6, <1>10 DEF UserContext, Context, Builds, InSyscall
<1>14. Apart'
  BY <1>2, <1>12, <1>13 DEF Owners, Apart
<1>15. Reachable'
  <2> SUFFICES ASSUME NEW q \in liveP, threads[q] # Null
               PROVE  \/ threads[q] \in Scheduled' /\ parent_process[threads[q]] = q
                      \/ \E u \in Scheduled' : Flow(u)'.p = q /\ Flow(u)'.t = threads[q]
    BY <1>1 DEF Reachable
  <2>1. CASE q = m
    BY <1>3, <1>5, <2>1
  <2>2. CASE q # m /\ threads[q] \in Scheduled /\ parent_process[threads[q]] = q
    BY <1>5, <2>2
  <2>3. CASE q # m /\ \E u \in Scheduled : Flow(u).p = q /\ Flow(u).t = threads[q]
    <3>1. PICK u \in Scheduled : Flow(u).p = q /\ Flow(u).t = threads[q]
      BY <2>3
    <3>2. u # r
      BY <1>2, <1>10, <2>3, <3>1
    <3> QED BY <1>5, <1>9, <3>1, <3>2
  <2> QED BY <1>2, <2>1, <2>2, <2>3 DEF Owners, Reachable
<1>16. OneActive'
  <2>1. ~Active(ctx')
    BY <1>6 DEF Active, InSyscall
  <2> QED BY <1>2, <1>6, <1>10, <1>12, <1>13 DEF Owners, OneActive, Active, InSyscall
<1>17. StartInv' /\ RunsOwn'
  <2>1. toStart \in Nat
    BY <1>2 DEF TypeOK, Programs
  <2>2. Flow(n)'.kind = "user"
    BY <1>10 DEF UserContext, Context
  <2>3. StartInv'
    BY <1>1, <1>2, <1>6, <1>10, <1>12, <2>1, <2>2 DEF Owners, StartInv
  <2> QED BY <1>1, <1>2, <2>3 DEF Owners, RunsOwn
<1> QED BY <1>7, <1>8, <1>11, <1>14, <1>15, <1>16, <1>17 DEF Base, Owners

(* The last step of exit_process: the thread leaves the core and is not    *)
(* scheduled any more.                                                     *)
LEMMA ExitLeaveBase ==
  ASSUME Base, ExitLeave
  PROVE  Base'
<1>0. PICK r, m : r = running_thread /\ m = ctx.me
  OBVIOUS
<1> USE <1>0, SlotsAssumption DEF At, Reached, ExitLeave, data, threadvars, procvars, locks,
       ghosts
<1>1. /\ r # Null /\ r \in Scheduled /\ r \in Thread /\ FlowOK(r, ctx) /\ Owners
      /\ TypeOK /\ IdsInv /\ SectionHolders /\ InOnePlace /\ CoreOK
  BY OnCore DEF Base
<1>2. r # init_thread /\ m \notin liveP /\ parent_process[r] = m /\ ctx.in = "none" /\ ctx.p = m
  BY <1>1, CoreType DEF FlowOK, Kinds, Alive, Own, CoreOK, SchedSection, HeapSection, Stage,
     ExitTail
<1>3. Scheduled' = Scheduled \ {r} /\ Scheduled \subseteq Thread
  BY <1>1, ScheduledType DEF Scheduled, InOnePlace
<1>4. /\ ctx' \in ContextType /\ ctx'.in = "none" /\ ctx'.pc = "hang" /\ ctx'.t = Null
  BY <1>1, CoreType, ContextIn DEF Context
<1>5. TypeOK' /\ IdsInv'
  BY <1>1, <1>4 DEF TypeOK, IdsInv, NewId
<1>6. SectionHolders' /\ InOnePlace' /\ CoreOK'
  <2>1. SectionHolders'
    BY <1>1, <1>2, <1>4 DEF SectionHolders
  <2>2. InOnePlace'
    BY <1>1, RangeOfSeq DEF InOnePlace, TypeOK
  <2>3. CoreOK'
    BY <1>1, <1>2, <1>3, <1>4 DEF CoreOK
  <2> QED BY <2>1, <2>2, <2>3
<1>7. \A u \in Scheduled' : u \in Scheduled /\ u # r /\ Flow(u)' = Flow(u) /\ FlowOK(u, Flow(u))
  <2>1. \A u \in Scheduled' : u \in Scheduled /\ u # r /\ u # Null
    BY <1>3
  <2> QED BY <1>1, <2>1 DEF Flow, Owners, FlowInv
<1>8. FlowInv'
  <2> SUFFICES ASSUME NEW u \in Scheduled' PROVE FlowOK(u, Flow(u))'
    BY DEF FlowInv
  <2> DEFINE c == Flow(u)
  <2>1. c' = c /\ FlowOK(u, c)
    BY <1>7
  <2>2. Kinds(u, c)' /\ Stage(c)' /\ Own(u, c)' /\ Alive(u, c)'
    BY <2>1 DEF FlowOK, Kinds, Stage, Own, Alive, Builds
  <2>3. Building(c)'
    BY <1>3, <2>1 DEF FlowOK, Building, Builds
  <2> QED BY <2>2, <2>3 DEF FlowOK
<1>9. Apart' /\ OneActive' /\ StartInv' /\ RunsOwn'
  <2>1. Apart'
    BY <1>1, <1>7 DEF Owners, Apart
  <2>2. OneActive' /\ StartInv' /\ RunsOwn'
    BY <1>1, <1>7 DEF Owners, OneActive, StartInv, RunsOwn, Active, InSyscall
  <2> QED BY <2>1, <2>2
<1>10. Reachable'
  <2>1. Flow(r) = ctx
    BY <1>1 DEF Flow
  <2> QED BY <1>1, <1>2, <1>3, <1>7, <2>1 DEF Owners, Reachable
<1> QED BY <1>5, <1>6, <1>8, <1>9, <1>10 DEF Base, Owners

-----------------------------------------------------------------------------
(* The state that Sched::init leaves.                                      *)
LEMMA InitBase ==
  ASSUME Init
  PROVE  Base
<1> USE SlotsAssumption, IdsAssumption, BoundAssumption DEF Init
<1>1. Context("boot", "hang", Null) \in ContextType /\ Context("kernel", "new",
         init_process) \in ContextType
      /\ UserContext(Null) \in ContextType
  BY ContextIn DEF UserContext
<1>2. TypeOK
  <2>1. waiting_queue \in Seq(Thread) /\ process_list \in Seq(Proc)
    OBVIOUS
  <2>2. 0 \in Id
    BY DEF Id
  <2>3. /\ bitmap \in [Kind -> SUBSET Id] /\ id_lock \in [Kind -> BOOLEAN]
        /\ tid \in [Thread -> Id] /\ pid \in [Proc -> Id \cup {NoId}]
    BY <2>2
  <2>4. /\ status \in [Thread -> {"Waiting", "Running"}] /\ pstatus \in [Proc -> {"Waiting",
           "Running"}]
        /\ parent_process \in [Thread -> Proc \cup {Null}]
           /\ threads \in [Proc -> Thread \cup {Null}]
    OBVIOUS
  <2>5. regs \in [Thread -> ContextType]
    BY <1>1
  <2>6. ctx \in ContextType /\ running_thread \in Thread \cup {Null}
           /\ running_process \in Proc \cup {Null}
    BY <1>1
  <2>7. liveT \subseteq Thread /\ liveP \subseteq Proc /\ overwrote \subseteq Kind
    OBVIOUS
  <2>8. toStart \in 0 .. Programs /\ forks \in 0 .. MaxForks
    BY DEF Programs
  <2>9. /\ sched_lock \in BOOLEAN /\ heap_lock \in BOOLEAN
        /\ fault \in {"none", "spin", "null", "wild", "stack", "dangling", "nomem"}
    BY Zenon
  <2> HIDE DEF Init
  <2> QED BY <2>1, <2>3, <2>4, <2>5, <2>6, <2>7, <2>8, <2>9 DEF TypeOK
<1>3. Range(waiting_queue) = {init_thread} /\ Scheduled = {init_thread} /\ waiting_queue # <<>>
  BY DEF Range, Scheduled
<1>4. IdsInv /\ SectionHolders
  BY <1>3 DEF IdsInv, NewId, SectionHolders, Context, UserContext
<1>5. InOnePlace /\ CoreOK
  BY <1>3 DEF InOnePlace, CoreOK, Context
<1>6. Flow(init_thread) = Context("kernel", "new", init_process)
  BY DEF Flow
<1>7. FlowInv
  <2>1. FlowOK(init_thread, Context("kernel", "new", init_process))
    BY <1>3 DEF FlowOK, Kinds, Stage, Own, Alive, Building, Builds, Context, KernelPc,
       IdSteps, ExitTail
  <2> QED BY <1>3, <1>6, <2>1 DEF FlowInv
<1>8. Apart /\ OneActive
  BY <1>3 DEF Apart, OneActive
<1>9. Reachable
  BY <1>3 DEF Reachable
<1>10. StartInv /\ RunsOwn
  BY DEF StartInv, RunsOwn, Programs
<1> QED BY <1>2, <1>4, <1>5, <1>7, <1>8, <1>9, <1>10 DEF Base, Owners

(* Every step keeps the invariant.                                         *)
LEMMA NextBase ==
  ASSUME Base, [Next]_vars
  PROVE  Base'
<1>1. CASE LocalStep
  BY <1>1, LocalBase
<1>2. CASE FaultStep
  BY <1>2, FaultBase
<1>3. CASE CallStep
  BY <1>3, CallBase
<1>4. CASE AllocStep
  BY <1>4, NewProgramBase, ForkProcessBase, ForkThreadBase DEF AllocStep
<1>5. CASE QueueStep
  BY <1>5, QueueBase
<1>6. CASE ExitLeave
  BY <1>6, ExitLeaveBase
<1>7. CASE TickKeeps \/ TickSwitches
  BY <1>7, TickKeepsBase, TickSwitchesBase
<1>8. CASE UNCHANGED vars
  BY <1>8 DEF vars, schedvars, locks, data, threadvars, procvars, ghosts, Base, TypeOK,
     IdsInv, NewId,
     SectionHolders, InOnePlace, CoreOK, Scheduled, Owners, RunsOwn, FlowInv, FlowOK, Flow,
        Kinds, Stage, Own, Alive, Building, Builds,
     Apart, Reachable, OneActive, Active, InSyscall, StartInv
<1> QED BY <1>1, <1>2, <1>3, <1>4, <1>5, <1>6, <1>7, <1>8 DEF Next, UserStep, KernelStep,
       Tick, LocalStep, FaultStep, CallStep, AllocStep, QueueStep

(* Base is an invariant of the scheduler.                                  *)
THEOREM SpecBase == Spec => []Base
<1> QED BY InitBase, NextBase, PTL DEF Spec

(* Base implies NoThreadLost.                                              *)
LEMMA BaseNoThreadLost ==
  ASSUME Base
  PROVE  NoThreadLost
<1>1. running_thread = Null => waiting_queue # <<>>
  <2> SUFFICES ASSUME running_thread = Null, waiting_queue = <<>> PROVE FALSE
    OBVIOUS
  <2>1. Range(waiting_queue) = {}
    BY DEF Range
  <2> QED BY <2>1 DEF Base, CoreOK, Scheduled
<1>2. ASSUME fault # "dangling", NEW p \in liveP, threads[p] \in liveT
      PROVE  \/ threads[p] \in Scheduled
             \/ ctx.t = threads[p]
             \/ \E u \in Range(waiting_queue) : regs[u].t = threads[p]
  <2>1. threads[p] # Null
    BY <1>2, SlotsAssumption DEF Base, TypeOK
  <2>2. CASE \E u \in Scheduled : Flow(u).p = p /\ Flow(u).t = threads[p]
    BY <2>2 DEF Flow, Scheduled
  <2> QED BY <1>2, <2>1, <2>2 DEF Base, Owners, Reachable
<1> QED BY <1>1, <1>2 DEF NoThreadLost

(* Base implies ResumesOwn.                                                *)
LEMMA BaseResumesOwn ==
  ASSUME Base
  PROVE  ResumesOwn
<1> SUFFICES ASSUME fault # "dangling" PROVE
    /\ \A t \in Scheduled : parent_process[t] \in Proc /\ threads[parent_process[t]] = t
    /\ \A t \in Range(waiting_queue) : regs[t].me = parent_process[t]
    /\ running_thread # Null =>
         running_process = parent_process[running_thread] /\ ctx.me = running_process
  BY DEF ResumesOwn
<1>1. \A t \in Scheduled : Own(t, Flow(t))
  BY DEF Base, Owners, FlowInv, FlowOK
<1>2. \A t \in Range(waiting_queue) : t \in Scheduled /\ Flow(t) = regs[t]
  BY DEF Base, InOnePlace, Scheduled, Flow
<1>3. running_thread # Null => running_thread \in Scheduled /\ Flow(running_thread) = ctx
  BY DEF Scheduled, Flow
<1> QED BY <1>1, <1>2, <1>3 DEF Own, Base, Owners, RunsOwn

(* Every queued or running entry is a thread, and a failed get_new_tid     *)
(* never reaches a thread.                                                 *)
THEOREM SchedTypeOK == Spec => []TypeOK
BY SpecBase, PTL DEF Base

(* No thread is queued twice, or queued while it runs.                     *)
THEOREM SchedInOnePlace == Spec => []InOnePlace
BY SpecBase, PTL DEF Base

(* The thread of an allocated process is running, queued or being built,   *)
(* as long as no block in use was given to somebody else, and reschedule   *)
(* never reads a field of a null running_thread.                           *)
THEOREM SchedNoThreadLost == Spec => []NoThreadLost
BY SpecBase, BaseNoThreadLost, PTL

(* reschedule resumes a thread that is completely set up, together with    *)
(* its own process.                                                        *)
THEOREM SchedResumesOwn == Spec => []ResumesOwn
BY SpecBase, BaseResumesOwn, PTL

-----------------------------------------------------------------------------
(***************************************************************************)
(* The invariant Ids says which flow is allowed to hold which id at each   *)
(* statement of get_new_pid, get_new_tid, create_process, fork and         *)
(* exit_process; it rests on the invariant Base.                           *)
(***************************************************************************)

(* pid_lock and tid_lock have one holder, which may be switched out.       *)
LockInv ==
  \A k \in Kind : \A t \in Scheduled : HasLock(Flow(t), k) =>
    /\ id_lock[k]
    /\ \A u \in Scheduled : HasLock(Flow(u), k) => t = u

(* The flow has given its new thread a tid.                                *)
NamesT(c) == c.pc \in {"list", "override", "queue", "copyregs"}

(* Thread t has a tid that counts: it is scheduled and allocated, or a     *)
(* flow that has named it is about to queue it.                            *)
NamedT(t) ==
  \/ t \in Scheduled \cap liveT
  \/ \E u \in Scheduled : NamesT(Flow(u)) /\ Flow(u).t = t

(* The flow holds a tid that it has not yet written to a thread.           *)
HasTid(c) == c.which = "tid" /\ c.pc \in {"load", "store", "got"} /\ c.new["tid"] # NoId

(* Threads that are named have different tids (but for the one that        *)
(* init_proc writes).                                                      *)
TidsApart ==
  \A t, u \in Thread : NamedT(t) /\ NamedT(u) /\ tid[t] = tid[u] => t = u
     \/ tid[t] = OverrideTid

(* The bit of a named thread is set; nobody else is about to use the id,   *)
(* and nobody has read the byte before the bit was set.                    *)
TidsMarked ==
  \A t \in Thread : NamedT(t) /\ tid[t] # OverrideTid =>
    /\ tid[t] \in bitmap["tid"]
    /\ \A u \in Scheduled : HasTid(Flow(u)) =>
         /\ tid[t] # Flow(u).new["tid"]
         /\ Flow(u).pc = "store" => tid[t] \in Flow(u).byte

(* The same for an id that get_new_tid has returned and that is not yet    *)
(* written.                                                                *)
TidsPending ==
  \A u \in Scheduled : HasTid(Flow(u)) /\ Flow(u).pc = "got"
     /\ Flow(u).new["tid"] # OverrideTid =>
    /\ Flow(u).new["tid"] \in bitmap["tid"]
    /\ \A v \in Scheduled : HasTid(Flow(v)) =>
         /\ v = u \/ Flow(u).new["tid"] # Flow(v).new["tid"]
         /\ Flow(v).pc = "store" => Flow(u).new["tid"] \in Flow(v).byte

(* What makes tids unique.                                                 *)
TidInv == TidsApart /\ TidsMarked /\ TidsPending

(* The ids that get_new_pid did not hand out: the one that init_proc       *)
(* writes, and the -1 that fork does not check.                            *)
Foreign(x) == x \in {OverridePid, NoId}

(* The flow has given its new process a pid.                               *)
SetsPid(c) ==
  \/ c.kind = "user" /\ c.pc \in {"newthread", "copyregs", "queue"}
  \/ c.kind = "user" /\ c.pc \in IdSteps /\ c.which = "tid"
  \/ c.kind = "kernel" /\ c.pc \in {"list", "override", "queue"}

(* The flow c of thread t has not yet cleared the bit of its process (one  *)
(* that was overwritten in exit_process no longer counts).                 *)
HoldsPid(t, c) == c.pc \notin {"delete", "leave"} /\ (t \in liveT \/ c.pc # "clobbered")

(* Process p has a pid that counts.                                        *)
NamedP(p) ==
  \/ \E t \in Scheduled : parent_process[t] = p /\ HoldsPid(t, Flow(t))
  \/ \E u \in Scheduled : SetsPid(Flow(u)) /\ Flow(u).p = p

(* The flow holds a pid that it has not yet written to a process.          *)
HasPid(c) ==
  \/ c.which = "pid" /\ c.pc \in {"load", "store", "got"}
  \/ c.kind = "kernel" /\ c.which = "tid" /\ c.pc \in IdSteps

(* Processes that are named have different pids.                           *)
PidsApart ==
  \A p, q \in Proc : NamedP(p) /\ NamedP(q) /\ pid[p] = pid[q] => p = q \/ Foreign(pid[p])

(* The bit of a named process is set, and nobody else is about to use the  *)
(* id.                                                                     *)
PidsMarked ==
  \A p \in Proc : NamedP(p) /\ ~Foreign(pid[p]) =>
    /\ pid[p] \in bitmap["pid"]
    /\ \A u \in Scheduled : HasPid(Flow(u)) => pid[p] # Flow(u).new["pid"]

(* The same for an id that get_new_pid has found.                          *)
PidsPending ==
  \A u \in Scheduled : HasPid(Flow(u)) /\ ~Foreign(Flow(u).new["pid"]) =>
    /\ HasLock(Flow(u), "pid") \/ Flow(u).new["pid"] \in bitmap["pid"]
    /\ \A v \in Scheduled : HasPid(Flow(v)) => v = u \/ Flow(u).new["pid"] # Flow(v).new["pid"]

(* What makes pids unique, until the unlocked clear_bit of exit_process    *)
(* and a set_bit have crossed.                                             *)
PidInv == "pid" \notin overwrote => PidsApart /\ PidsMarked /\ PidsPending

(* The cases in which an exit may remove the entry of somebody else.       *)
Excused(p) == ForeignPid(p) \/ "pid" \in overwrote

(* fork has put its child on process_list.                                 *)
ListsChild(c) == c.kind = "user" /\ c.pc \in IdSteps \cup {"newthread", "copyregs", "queue"}

(* create_process has put its program on process_list.                     *)
ListsProgram(c) == c.kind = "kernel" /\ c.pc \in {"override", "queue"}

(* What was put on process_list is still there.                            *)
ListInv ==
  /\ \A u \in Scheduled : ListsChild(Flow(u)) => Flow(u).p \in Range(process_list)
  /\ \A u \in Scheduled : ListsProgram(Flow(u)) =>
       Flow(u).p \in Range(process_list) \/ Excused(Flow(u).p)
  /\ \A t \in Scheduled \cap liveT :
       parent_process[t] \in Range(process_list) \/ Excused(parent_process[t])

(* The invariant about ids.                                                *)
Ids == LockInv /\ TidInv /\ PidInv /\ ListInv

(* The inductive invariant.                                                *)
IdBase == Base /\ (fault # "dangling" => Ids)

-----------------------------------------------------------------------------
(* A flow that has nothing to do with ids or the list.                     *)
Silent(c) == c.pc \in {"user", "other", "new", "exit", "clobbered", "hang"}

(* A silent flow holds no lock, no id and no entry.                        *)
LEMMA SilentHasNothing ==
  ASSUME NEW c, Silent(c)
  PROVE  /\ \A k : ~HasLock(c, k)
         /\ ~NamesT(c) /\ ~HasTid(c) /\ ~SetsPid(c) /\ ~HasPid(c) /\ ~ListsChild(c)
            /\ ~ListsProgram(c)
BY DEF Silent, HasLock, NamesT, HasTid, SetsPid, HasPid, ListsChild, ListsProgram, IdSteps

(* A step in which flows stay or fall silent, and that changes no id,      *)
(* keeps Ids.                                                              *)
LEMMA QuietIds ==
  ASSUME Ids, Scheduled' \subseteq Thread,
         \A u \in Scheduled' : (u \in Scheduled /\ Flow(u)' = Flow(u)) \/ Silent(Flow(u)'),
         \A t \in Scheduled' \cap liveT' : NamedT(t),
         \A t \in Scheduled' : /\ parent_process'[t] = parent_process[t]
                               /\ HoldsPid(t, Flow(t))' => NamedP(parent_process[t]),
         \A t \in Scheduled' \cap liveT' :
           parent_process[t] \in Range(process_list) \/ Excused(parent_process[t]),
         UNCHANGED <<id_lock, bitmap, tid, pid, process_list, overwrote>>
  PROVE  Ids'
<1>1. \A u \in Scheduled' :
        /\ \A k : HasLock(Flow(u)', k) => u \in Scheduled /\ Flow(u)' = Flow(u)
        /\ NamesT(Flow(u)') \/ HasTid(Flow(u)') \/ SetsPid(Flow(u)') \/ HasPid(Flow(u)')
             \/ ListsChild(Flow(u)') \/ ListsProgram(Flow(u)') => u \in Scheduled
                /\ Flow(u)' = Flow(u)
  BY SilentHasNothing
<1>2. LockInv'
  BY <1>1 DEF Ids, LockInv, HasLock
<1>3. \A t \in Thread : NamedT(t)' => NamedT(t)
  BY <1>1 DEF NamedT, NamesT
<1>4. TidInv'
  <2>1. TidsApart'
    BY <1>3 DEF Ids, TidInv, TidsApart
  <2>2. TidsMarked'
    BY <1>1, <1>3 DEF Ids, TidInv, TidsMarked, HasTid
  <2>3. TidsPending'
    BY <1>1 DEF Ids, TidInv, TidsPending, HasTid
  <2> QED BY <2>1, <2>2, <2>3 DEF TidInv
<1>5. \A p \in Proc : NamedP(p)' => NamedP(p)
  BY <1>1 DEF NamedP, SetsPid
<1>6. PidInv'
  <2> SUFFICES ASSUME "pid" \notin overwrote PROVE PidsApart' /\ PidsMarked' /\ PidsPending'
    BY DEF PidInv
  <2>1. PidsApart'
    BY <1>5 DEF Ids, PidInv, PidsApart, Foreign
  <2>2. PidsMarked'
    BY <1>1, <1>5 DEF Ids, PidInv, PidsMarked, Foreign, HasPid
  <2>3. PidsPending'
    BY <1>1 DEF Ids, PidInv, PidsPending, Foreign, HasPid, HasLock
  <2> QED BY <2>1, <2>2, <2>3
<1>7. ListInv'
  BY <1>1 DEF Ids, ListInv, Excused, ForeignPid, ListsChild, ListsProgram
<1> QED BY <1>2, <1>4, <1>6, <1>7 DEF Ids

(* Ticks and faults.                                                       *)
LEMMA TickIds ==
  ASSUME IdBase, TickKeeps \/ TickSwitches \/ FaultStep, fault' # "dangling"
  PROVE  Ids'
<1>0. /\ Base /\ Ids /\ TypeOK /\ Owners /\ fault = "none"
  BY DEF IdBase, Base, TickKeeps, TickSwitches, SchedulerFree, SwitchTo, FaultStep,
     ProgramNoIds, RunClobbered,
     ExitWildPid, TickSpins, AllocationFails, AllocatesFreed, FlowAllocates, TickAllocates,
     Reached, At, ghosts
<1>1. /\ UNCHANGED <<id_lock, bitmap, tid, pid, process_list, overwrote, parent_process, liveT>>
  BY DEF TickKeeps, TickSwitches, SwitchTo, FaultStep, ProgramNoIds, RunClobbered,
     ExitWildPid, TickSpins, AllocationFails, AllocatesFreed,
         locks, data, threadvars, procvars, ghosts, schedvars
<1>2. Scheduled' = Scheduled /\ Scheduled \subseteq Thread
         /\ \A t \in Scheduled : Flow(t)' = Flow(t)
  BY <1>0, ScheduledType, TickKeepsBase, TickSwitchesBase, FaultBase
<1>3. \A t \in Scheduled \cap liveT : NamedT(t)
  BY DEF NamedT
<1>4. \A t \in Scheduled : HoldsPid(t, Flow(t))' => NamedP(parent_process[t])
  BY <1>1, <1>2 DEF NamedP, HoldsPid
<1> QED BY <1>0, <1>1, <1>2, <1>3, <1>4, QuietIds DEF Ids, ListInv

(* A system call silences the flows whose frames it overwrites.            *)
LEMMA CallIds ==
  ASSUME IdBase, CallStep
  PROVE  Ids'
<1>0. PICK r : r = running_thread
  OBVIOUS
<1> USE <1>0 DEF At, Reached
<1>1. /\ fault = "none" /\ At("user", "user")
      /\ UNCHANGED <<running_thread, waiting_queue, id_lock, bitmap, tid, pid, process_list,
         overwrote, parent_process, liveT>>
      /\ regs' = [t \in Thread |-> IF InSyscall(regs[t]) THEN [regs[t] EXCEPT !.pc = "clobbered"] ELSE regs[t]]
  BY DEF CallStep, EnterOther, EnterFork, EnterExit, Enter, schedvars, locks, procvars, ghosts
<1>2. Base /\ TypeOK /\ Owners /\ Ids /\ r \in Scheduled /\ r # Null /\ FlowOK(r, ctx)
         /\ Flow(r) = ctx
  BY <1>1, OnCore DEF IdBase, Base, Flow
<1>3. ctx'.pc \in {"other", "new", "exit"}
  BY <1>2, CoreType DEF CallStep, EnterOther, EnterFork, EnterExit, Enter
<1>4. Scheduled' = Scheduled /\ Scheduled \subseteq Thread
  BY <1>1, <1>2, ScheduledType DEF Scheduled
<1>5. \A u \in Scheduled : u # r =>
        /\ Flow(u)' = Flow(u) \/ Flow(u)'.pc = "clobbered"
        /\ u \in liveT => Flow(u).pc \notin ExitTail
  <2>1. \A u \in Scheduled : u # r => Flow(u) = regs[u] /\ Flow(u)' = regs'[u]
           /\ regs[u] \in ContextType /\ u \in Thread
    BY <1>1, <1>2, <1>4 DEF Flow, TypeOK
  <2>2. \A u \in Scheduled : Alive(u, Flow(u))
    BY <1>2 DEF Owners, FlowInv, FlowOK
  <2> QED BY <1>1, <2>1, <2>2 DEF ContextType, Alive
<1>6. \A u \in Scheduled : u = r => Flow(u)' = ctx'
  BY <1>1 DEF Flow
<1>7. \A u \in Scheduled : Flow(u)' = Flow(u) \/ Silent(Flow(u)')
  BY <1>3, <1>5, <1>6 DEF Silent
<1>8. \A t \in Scheduled \cap liveT : NamedT(t)
  BY DEF NamedT
<1>9. r \in liveT /\ HoldsPid(r, ctx)
  BY <1>1, <1>2 DEF FlowOK, Alive, ExitTail, HoldsPid
<1>10. \A t \in Scheduled : HoldsPid(t, Flow(t))' => HoldsPid(t, Flow(t))
  <2>1. ASSUME NEW t \in Scheduled, t # r, HoldsPid(t, Flow(t))' PROVE HoldsPid(t, Flow(t))
    BY <1>1, <1>5, <2>1 DEF HoldsPid, ExitTail
  <2> QED BY <1>2, <1>9, <2>1
<1>11. \A t \in Scheduled : HoldsPid(t, Flow(t))' => NamedP(parent_process[t])
  BY <1>10 DEF NamedP
<1> QED BY <1>1, <1>2, <1>4, <1>7, <1>8, <1>11, QuietIds DEF Ids, ListInv

(* A queued thread keeps the ids that its builder gave it.                 *)
LEMMA QueueIds ==
  ASSUME IdBase, QueueStep
  PROVE  Ids'
<1>0. PICK r, n, m : r = running_thread /\ n = ctx.t /\ m = ctx.p
  OBVIOUS
<1> USE <1>0, SlotsAssumption DEF InSched, LeaveSched, At, Reached
<1>1. /\ fault = "none" /\ ctx.pc = "queue"
      /\ waiting_queue' = Append(waiting_queue, n)
      /\ ctx'.pc \in {"hang", "new", "user"}
      /\ UNCHANGED <<running_thread, process_list, id_lock, data, overwrote>>
  BY DEF QueueStep, QueueProgram, QueueChild, Return, UserContext, Context, ghosts
<1> USE DEF data, threadvars, procvars
<1>2. Base /\ TypeOK /\ Owners /\ Ids /\ r \in Scheduled /\ r # Null /\ FlowOK(r, ctx)
         /\ Flow(r) = ctx
  BY <1>1, OnCore DEF IdBase, Base, Flow
<1>3. /\ n \in Thread /\ n \in liveT /\ n \notin Scheduled /\ Builds(ctx)
         /\ parent_process[n] = m
      /\ regs[n] = UserContext(m) /\ ctx.kind \in {"kernel", "user"}
  BY <1>1, <1>2, CoreType DEF FlowOK, Kinds, Stage, Building, Builds
<1>4. Scheduled' = Scheduled \cup {n} /\ Scheduled \subseteq Thread
  <2>1. Range(Append(waiting_queue, n)) = Range(waiting_queue) \cup {n}
    BY <1>2, <1>3, RangeAppend DEF TypeOK
  <2> QED BY <1>1, <1>2, <2>1, ScheduledType DEF Scheduled
<1>5. /\ \A u \in Scheduled : u # r => Flow(u)' = Flow(u)
      /\ \A u \in Scheduled : u = r => Flow(u)' = ctx'
      /\ Flow(n)' = UserContext(m)
  BY <1>1, <1>2, <1>3 DEF Flow
<1>6. \A u \in Scheduled' : (u \in Scheduled /\ Flow(u)' = Flow(u)) \/ Silent(Flow(u)')
  BY <1>1, <1>4, <1>5 DEF Silent, UserContext, Context
<1>7. \A t \in Scheduled' \cap liveT' : NamedT(t)
  BY <1>1, <1>2, <1>4 DEF NamedT, NamesT
<1>8. \A t \in Scheduled' : HoldsPid(t, Flow(t))' => NamedP(parent_process[t])
  <2>1. NamedP(m)
    BY <1>1, <1>2, <1>3 DEF NamedP, SetsPid
  <2>2. r \in liveT /\ HoldsPid(r, ctx)
    BY <1>1, <1>2 DEF FlowOK, Alive, ExitTail, HoldsPid
  <2>3. \A u \in Scheduled : u # r /\ HoldsPid(u, Flow(u))' => HoldsPid(u, Flow(u))
    BY <1>1, <1>5 DEF HoldsPid
  <2> QED BY <1>2, <1>3, <1>4, <2>1, <2>2, <2>3 DEF NamedP
<1>9. m \in Range(process_list) \/ Excused(m)
  BY <1>1, <1>2, <1>3 DEF Ids, ListInv, ListsChild, ListsProgram
<1>10. \A t \in Scheduled' \cap liveT' : parent_process[t] \in Range(process_list)
          \/ Excused(parent_process[t])
  BY <1>1, <1>2, <1>3, <1>4, <1>9 DEF Ids, ListInv
<1>11. Scheduled' \subseteq Thread
  BY <1>3, <1>4
<1> QED BY <1>1, <1>2, <1>6, <1>7, <1>8, <1>10, <1>11, QuietIds

(* The end of exit_process: the pid was given back before.                 *)
LEMMA LeaveIds ==
  ASSUME IdBase, ExitLeave
  PROVE  Ids'
<1>0. PICK r : r = running_thread
  OBVIOUS
<1> USE <1>0, SlotsAssumption DEF At, Reached, ExitLeave, data, threadvars, procvars, locks,
       ghosts
<1>1. Base /\ TypeOK /\ InOnePlace /\ Ids /\ r \in Scheduled /\ r # Null
  BY OnCore DEF IdBase, Base
<1>2. Scheduled' = Scheduled \ {r} /\ Scheduled \subseteq Thread
  BY <1>1, ScheduledType DEF Scheduled, InOnePlace
<1>3. \A u \in Scheduled' : u \in Scheduled /\ Flow(u)' = Flow(u)
  BY <1>2 DEF Flow
<1>4. \A t \in Scheduled' \cap liveT' : NamedT(t)
  BY <1>2 DEF NamedT
<1>5. \A t \in Scheduled' : HoldsPid(t, Flow(t))' => NamedP(parent_process[t])
  BY <1>3 DEF NamedP, HoldsPid
<1>6. \A t \in Scheduled' \cap liveT' : parent_process[t] \in Range(process_list)
         \/ Excused(parent_process[t])
  BY <1>1, <1>2 DEF Ids, ListInv
<1> QED BY <1>1, <1>2, <1>3, <1>4, <1>5, <1>6, QuietIds

-----------------------------------------------------------------------------
(* A step of the flow on the core that schedules nothing.                  *)
MoveStep == (LocalStep \/ AllocStep) /\ fault' # "dangling"

(* What is known when it happens.                                          *)
LEMMA MoveCore ==
  ASSUME IdBase, MoveStep
  PROVE  /\ Base /\ Ids /\ fault = "none" /\ running_thread # Null
            /\ running_thread \in Thread /\ Moves
         /\ TypeOK /\ IdsInv /\ Owners /\ FlowOK(running_thread, ctx)
            /\ Flow(running_thread) = ctx
         /\ \A t \in Scheduled : t \in liveT' => t \in liveT
<1>1. fault = "none" /\ running_thread # Null /\ running_thread \in Thread
         /\ FlowOK(running_thread, ctx) /\ Owners
  BY LocalCore, AllocCore DEF MoveStep, IdBase
<1>2. Moves
  BY LocalMoves, NewProgramBase, ForkProcessBase, ForkThreadBase DEF MoveStep, AllocStep, IdBase
<1> QED BY <1>1, <1>2 DEF IdBase, Base, Flow, Moves

(* It can name only the thread and the process that it builds.             *)
LEMMA MoveNames ==
  ASSUME IdBase, MoveStep
  PROVE  /\ \A t \in Thread : NamedT(t)' => NamedT(t) \/ (NamesT(ctx') /\ ctx'.t = t)
         /\ (HoldsPid(running_thread, ctx)' => HoldsPid(running_thread, ctx)) =>
              \A p \in Proc : NamedP(p)' => NamedP(p) \/ (SetsPid(ctx') /\ ctx'.p = p)
<1>0. PICK r : r = running_thread
  OBVIOUS
<1> USE <1>0, MoveCore, MoveOthers
<1>1. \A u \in Scheduled : u # r => NamesT(Flow(u))' = NamesT(Flow(u))
         /\ SetsPid(Flow(u))' = SetsPid(Flow(u))
  BY DEF NamesT, SetsPid
<1>2. \A t \in Thread : NamedT(t)' => NamedT(t) \/ (NamesT(ctx') /\ ctx'.t = t)
  BY <1>1 DEF NamedT
<1>3. \A u \in Scheduled : u # r => (HoldsPid(u, Flow(u))' => HoldsPid(u, Flow(u)))
  BY DEF HoldsPid
<1>4. ASSUME HoldsPid(running_thread, ctx)' => HoldsPid(running_thread, ctx), NEW p \in Proc,
                NamedP(p)'
      PROVE  NamedP(p) \/ (SetsPid(ctx') /\ ctx'.p = p)
  <2>1. CASE \E t \in Scheduled : parent_process[t] = p /\ HoldsPid(t, Flow(t))'
    <3>1. PICK t \in Scheduled : parent_process[t] = p /\ HoldsPid(t, Flow(t))'
      BY <2>1
    <3>2. t = r => HoldsPid(running_thread, ctx)'
      BY <3>1 DEF HoldsPid, Moves
    <3> QED BY <1>3, <1>4, <3>1, <3>2 DEF NamedP
  <2>2. CASE \E u \in Scheduled : SetsPid(Flow(u))' /\ Flow(u)'.p = p
    BY <1>1, <2>2 DEF NamedP
  <2> QED BY <1>4, <2>1, <2>2 DEF NamedP
<1> QED BY <1>2, <1>4

(* The step has nothing to do with pid_lock and tid_lock,                  *)
LockStill == id_lock' = id_lock /\ \A k \in Kind : HasLock(ctx', k) => HasLock(ctx, k)

(* and so keeps their invariant.                                           *)
LEMMA LockMove ==
  ASSUME IdBase, MoveStep, LockStill
  PROVE  LockInv'
<1> USE MoveCore, MoveOthers DEF LockStill
<1>1. \A k \in Kind : \A u \in Scheduled : HasLock(Flow(u), k)' => HasLock(Flow(u), k)
  BY DEF HasLock
<1> QED BY <1>1 DEF Ids, LockInv

(* The step has nothing to do with tids,                                   *)
TidStill ==
  /\ bitmap'["tid"] = bitmap["tid"] /\ tid' = tid
  /\ NamesT(ctx') /\ ctx'.t # Null => NamesT(ctx) /\ ctx'.t = ctx.t
  /\ HasTid(ctx') => HasTid(ctx) /\ ctx'.new = ctx.new /\ ctx'.pc = ctx.pc
     /\ ctx'.byte = ctx.byte

(* and so keeps their invariant.                                           *)
LEMMA TidMove ==
  ASSUME IdBase, MoveStep, TidStill
  PROVE  TidInv'
<1> USE MoveCore, MoveOthers, SlotsAssumption DEF TidStill
<1>1. \A t \in Thread : NamedT(t)' => NamedT(t)
  BY MoveNames DEF NamedT
<1>2. \A u \in Scheduled : HasTid(Flow(u))' =>
        /\ HasTid(Flow(u)) /\ Flow(u)'.pc = Flow(u).pc
        /\ Flow(u)'.new["tid"] = Flow(u).new["tid"] /\ Flow(u)'.byte = Flow(u).byte
  BY DEF HasTid
<1>3. TidsApart'
  BY <1>1 DEF Ids, TidInv, TidsApart
<1>4. TidsMarked'
  BY <1>1, <1>2 DEF Ids, TidInv, TidsMarked
<1>5. TidsPending'
  BY <1>2 DEF Ids, TidInv, TidsPending
<1> QED BY <1>3, <1>4, <1>5 DEF TidInv

(* The step has nothing to do with pids (the heap block of a new process   *)
(* may hold any pid: nobody uses it),                                      *)
PidStill ==
  /\ bitmap'["pid"] = bitmap["pid"] /\ overwrote \subseteq overwrote' /\ ctx'.me = ctx.me
  /\ \A q \in Proc : pid'[q] = pid[q] \/ (q = ctx'.p /\ Builds(ctx') /\ ~SetsPid(ctx'))
  /\ SetsPid(ctx') => SetsPid(ctx) /\ ctx'.p = ctx.p
  /\ HoldsPid(running_thread, ctx)' => HoldsPid(running_thread, ctx)
  /\ HasPid(ctx') =>
       /\ HasPid(ctx) /\ ctx'.new["pid"] = ctx.new["pid"]
       /\ HasLock(ctx, "pid") => HasLock(ctx', "pid")

(* and so keeps their invariant.                                           *)
LEMMA PidMove ==
  ASSUME IdBase, MoveStep, PidStill
  PROVE  PidInv'
<1> USE MoveCore, MoveOthers, SlotsAssumption DEF PidStill
<1>1. \A p \in Proc : NamedP(p)' => NamedP(p)
  BY MoveNames DEF NamedP
<1>2. \A p \in Proc : NamedP(p)' => pid'[p] = pid[p]
  <2>1. ASSUME NEW m \in Proc, m = ctx'.p, Builds(ctx'), ~SetsPid(ctx') PROVE ~NamedP(m)'
    <3>1. parent_process[running_thread] = ctx.me
      BY DEF FlowOK, Own
    <3>2. \A t \in Scheduled : parent_process'[t] # m
      BY <2>1, <3>1 DEF Builds
    <3>3. \A u \in Scheduled : u # running_thread /\ SetsPid(Flow(u)') => Builds(Flow(u))
      BY DEF FlowOK, Stage, SetsPid, IdSteps
    <3>4. \A u \in Scheduled : SetsPid(Flow(u)') => Flow(u)'.p # m
      BY <2>1, <3>3
    <3> QED BY <3>2, <3>4 DEF NamedP
  <2> QED BY <2>1
<1>3. \A u \in Scheduled : HasPid(Flow(u))' =>
        /\ HasPid(Flow(u)) /\ Flow(u)'.new["pid"] = Flow(u).new["pid"]
        /\ HasLock(Flow(u), "pid") => HasLock(Flow(u), "pid")'
  BY DEF HasPid, HasLock
<1> SUFFICES ASSUME "pid" \notin overwrote' PROVE PidsApart' /\ PidsMarked' /\ PidsPending'
  BY DEF PidInv
<1>4. PidsApart /\ PidsMarked /\ PidsPending
  BY DEF Ids, PidInv
<1>5. PidsApart'
  BY <1>1, <1>2, <1>4 DEF PidsApart, Foreign
<1>6. PidsMarked'
  BY <1>1, <1>2, <1>3, <1>4 DEF PidsMarked, Foreign
<1>7. PidsPending'
  BY <1>3, <1>4 DEF PidsPending, Foreign
<1> QED BY <1>5, <1>6, <1>7

(* The step takes nothing off process_list,                                *)
ListStill ==
  /\ Range(process_list) \subseteq Range(process_list') /\ overwrote \subseteq overwrote'
     /\ ctx'.me = ctx.me
  /\ \A q \in Proc : pid'[q] = pid[q] \/ (q = ctx'.p /\ Builds(ctx'))
  /\ ListsChild(ctx') => ctx'.p \in Range(process_list')
  /\ ListsProgram(ctx') => ctx'.p \in Range(process_list') \/ \A q : q = ctx'.p => Excused(q)'

(* and so keeps what is known of it.                                       *)
LEMMA ListMove ==
  ASSUME IdBase, MoveStep, ListStill
  PROVE  ListInv'
<1> USE MoveCore, MoveOthers, SlotsAssumption DEF ListStill
<1>0. \A q \in Proc : Excused(q) => Excused(q)' \/ (q = ctx'.p /\ Builds(ctx'))
  BY DEF Excused, ForeignPid
<1>1. \A u \in Scheduled : ListsChild(Flow(u)') => Flow(u)'.p \in Range(process_list')
  BY DEF Ids, ListInv
<1>2. ASSUME NEW u \in Scheduled, NEW q, q = Flow(u)'.p, ListsProgram(Flow(u)')
      PROVE  q \in Range(process_list') \/ Excused(q)'
  <2>1. CASE u = running_thread
    BY <1>2, <2>1
  <2>2. CASE u # running_thread
    <3>1. Flow(u)' = Flow(u) /\ q = Flow(u).p /\ ListsProgram(Flow(u))
      BY <1>2, <2>2
    <3>2. Builds(Flow(u)) /\ q \in Proc
      BY <2>2, <3>1 DEF FlowOK, Stage, ListsProgram, Builds
    <3>3. q \in Range(process_list) \/ Excused(q)
      BY <3>1 DEF Ids, ListInv
    <3> QED BY <1>0, <2>2, <3>1, <3>2, <3>3
  <2> QED BY <2>1, <2>2
<1>3. ASSUME NEW t \in Scheduled, NEW q, q = parent_process[t], t \in liveT'
      PROVE  q \in Range(process_list') \/ Excused(q)'
  <2>1. q \in Proc /\ (Builds(ctx') => q # ctx'.p)
    BY <1>3 DEF FlowOK, Own, Builds
  <2> QED BY <1>0, <1>3, <2>1 DEF Ids, ListInv
<1> QED BY <1>1, <1>2, <1>3 DEF ListInv, Excused, ForeignPid

-----------------------------------------------------------------------------
(* The steps that leave pid_lock and tid_lock alone.                       *)
LEMMA LocksStill ==
  ASSUME IdBase, MoveStep
  PROVE  \/ FindId \/ StoreId
         \/ LockStill
<1> USE MoveCore, CoreType, SlotsAssumption DEF Reached, At, Goto, InSched, InHeap,
       LeaveSched, LeaveHeap, Return, UserContext, Context,
  schedvars, data, locks, ghosts, threadvars, procvars,
  FlowOK, Kinds, Stage, LockStill, HasLock
<1>1. CASE EnterSched
  BY <1>1 DEF EnterSched
<1>2. CASE EnterHeap
  BY <1>2 DEF EnterHeap
<1>3. CASE FindNoId
  BY <1>3 DEF FindNoId, HaveId
<1>4. CASE LoadId
  BY <1>4 DEF LoadId
<1>5. CASE ProgramIds
  BY <1>5 DEF ProgramIds
<1>6. CASE ListProgram
  BY <1>6 DEF ListProgram
<1>7. CASE OverrideIds
  BY <1>7 DEF OverrideIds
<1>8. CASE OtherReturns
  BY <1>8 DEF OtherReturns
<1>9. CASE ListChild
  BY <1>9 DEF ListChild
<1>10. CASE ChildPid
  BY <1>10 DEF ChildPid
<1>11. CASE ChildNoTid
  BY <1>11 DEF ChildNoTid
<1>12. CASE ChildTid
  BY <1>12 DEF ChildTid, ChildTidStep
<1>13. CASE ChildRegs
  BY <1>13 DEF ChildRegs
<1>14. CASE ExitSection
  BY <1>14 DEF ExitSection
<1>15. CASE CloseFds
  BY <1>15 DEF CloseFds
<1>16. CASE ExitLoadPid
  BY <1>16 DEF ExitLoadPid
<1>17. CASE ExitStorePid
  BY <1>17 DEF ExitStorePid, ExitStoreStep, Store
<1>18. CASE ExitDelete
  BY <1>18 DEF ExitDelete
<1>19. ASSUME NEW p \in Proc \ liveP, NEW t \in Thread \ liveT, NewProgram(p, t) PROVE LockStill
  BY <1>19 DEF NewProgram
<1>20. ASSUME NEW p \in Proc \ liveP, ForkProcess(p) PROVE LockStill
  BY <1>20 DEF ForkProcess
<1>21. ASSUME NEW t \in Thread \ liveT, ForkThread(t) PROVE LockStill
  BY <1>21 DEF ForkThread
<1> HIDE DEF LockStill
<1> QED BY <1>1, <1>2, <1>3, <1>4, <1>5, <1>6, <1>7, <1>8, <1>9, <1>10, <1>11, <1>12, <1>13,
       <1>14, <1>15, <1>16, <1>17, <1>18, <1>19, <1>20, <1>21
  DEF MoveStep, LocalStep, AllocStep

(* The steps that leave tids alone.                                        *)
LEMMA TidsStill ==
  ASSUME IdBase, MoveStep
  PROVE  \/ FindId \/ LoadId \/ StoreId \/ ProgramIds \/ OverrideIds \/ ChildTid \/ ExitSection
         \/ TidStill
<1> USE MoveCore, CoreType, SlotsAssumption DEF Reached, At, Goto, InSched, InHeap,
       LeaveSched, LeaveHeap, Return, UserContext, Context,
  schedvars, data, locks, ghosts, threadvars, procvars,
  FlowOK, Kinds, Stage, TidStill, NamesT, HasTid
<1>1. CASE EnterSched
  BY <1>1 DEF EnterSched
<1>2. CASE EnterHeap
  BY <1>2 DEF EnterHeap
<1>3. CASE FindNoId
  BY <1>3 DEF FindNoId, HaveId
<1>4. CASE ListProgram
  BY <1>4 DEF ListProgram
<1>5. CASE OtherReturns
  BY <1>5 DEF OtherReturns
<1>6. CASE ListChild
  BY <1>6 DEF ListChild
<1>7. CASE ChildPid
  BY <1>7 DEF ChildPid
<1>8. CASE ChildNoTid
  BY <1>8 DEF ChildNoTid
<1>9. CASE ChildRegs
  BY <1>9 DEF ChildRegs
<1>10. CASE CloseFds
  BY <1>10 DEF CloseFds
<1>11. CASE ExitLoadPid
  BY <1>11 DEF ExitLoadPid
<1>12. CASE ExitStorePid
  BY <1>12 DEF ExitStorePid, ExitStoreStep, Store
<1>13. CASE ExitDelete
  BY <1>13 DEF ExitDelete
<1>14. ASSUME NEW p \in Proc \ liveP, NEW t \in Thread \ liveT, NewProgram(p, t) PROVE TidStill
  BY <1>14 DEF NewProgram
<1>15. ASSUME NEW p \in Proc \ liveP, ForkProcess(p) PROVE TidStill
  BY <1>15 DEF ForkProcess
<1>16. ASSUME NEW t \in Thread \ liveT, ForkThread(t) PROVE TidStill
  BY <1>16 DEF ForkThread
<1> HIDE DEF TidStill
<1> QED BY <1>1, <1>2, <1>3, <1>4, <1>5, <1>6, <1>7, <1>8, <1>9, <1>10, <1>11, <1>12, <1>13,
       <1>14, <1>15, <1>16
  DEF MoveStep, LocalStep, AllocStep

(* The steps that leave pids alone.                                        *)
LEMMA PidsStill ==
  ASSUME IdBase, MoveStep
  PROVE  \/ FindId \/ FindNoId \/ StoreId \/ ProgramIds \/ OverrideIds \/ ChildPid
            \/ ExitStorePid
         \/ PidStill
<1> USE MoveCore, CoreType, SlotsAssumption DEF Reached, At, Goto, InSched, InHeap,
       LeaveSched, LeaveHeap, Return, UserContext, Context,
  schedvars, data, locks, ghosts, threadvars, procvars,
  FlowOK, Kinds, Stage, PidStill, SetsPid, HoldsPid, HasPid, HasLock, IdSteps, Builds, Alive,
     ExitTail, TypeOK
<1>1. CASE EnterSched
  BY <1>1 DEF EnterSched
<1>2. CASE EnterHeap
  BY <1>2 DEF EnterHeap
<1>3. CASE LoadId
  BY <1>3 DEF LoadId
<1>4. CASE ListProgram
  BY <1>4 DEF ListProgram
<1>5. CASE OtherReturns
  BY <1>5 DEF OtherReturns
<1>6. CASE ListChild
  BY <1>6 DEF ListChild
<1>7. CASE ChildNoTid
  BY <1>7 DEF ChildNoTid
<1>8. CASE ChildTid
  BY <1>8 DEF ChildTid, ChildTidStep
<1>9. CASE ChildRegs
  BY <1>9 DEF ChildRegs
<1>10. CASE ExitSection
  BY <1>10 DEF ExitSection
<1>11. CASE CloseFds
  BY <1>11 DEF CloseFds
<1>12. CASE ExitLoadPid
  BY <1>12 DEF ExitLoadPid
<1>13. CASE ExitDelete
  BY <1>13 DEF ExitDelete
<1>14. ASSUME NEW p \in Proc \ liveP, NEW t \in Thread \ liveT, NewProgram(p, t) PROVE PidStill
  BY <1>14 DEF NewProgram
<1>15. ASSUME NEW p \in Proc \ liveP, ForkProcess(p) PROVE PidStill
  BY <1>15 DEF ForkProcess
<1>16. ASSUME NEW t \in Thread \ liveT, ForkThread(t) PROVE PidStill
  BY <1>16 DEF ForkThread
<1> HIDE DEF PidStill
<1> QED BY <1>1, <1>2, <1>3, <1>4, <1>5, <1>6, <1>7, <1>8, <1>9, <1>10, <1>11, <1>12, <1>13,
       <1>14, <1>15, <1>16
  DEF MoveStep, LocalStep, AllocStep

(* Only exit_process takes an entry off the list.                          *)
LEMMA ListsStill ==
  ASSUME IdBase, MoveStep
  PROVE  \/ ExitSection
         \/ ListStill
<1> USE MoveCore, CoreType, SlotsAssumption DEF Reached, At, Goto, InSched, InHeap,
       LeaveSched, LeaveHeap, Return, UserContext, Context,
  schedvars, data, locks, ghosts, threadvars, procvars,
  FlowOK, Kinds, Stage, ListStill, ListsChild, ListsProgram, IdSteps, Builds, Excused,
     ForeignPid, TypeOK
<1>0. /\ ListsChild(ctx) => ctx.p \in Range(process_list)
      /\ ListsProgram(ctx) => ctx.p \in Range(process_list) \/ Excused(ctx.p)
      /\ \A q \in Proc : Range(Append(process_list, q)) = Range(process_list) \cup {q}
  BY MoveOthers, RangeAppend DEF Ids, ListInv, TypeOK
<1> USE <1>0
<1>1. CASE EnterSched
  BY <1>1 DEF EnterSched
<1>2. CASE EnterHeap
  BY <1>2 DEF EnterHeap
<1>3. CASE FindId
  BY <1>3 DEF FindId
<1>4. CASE FindNoId
  BY <1>4 DEF FindNoId, HaveId
<1>5. CASE LoadId
  BY <1>5 DEF LoadId
<1>6. CASE StoreId
  BY <1>6 DEF StoreId, StoreStep, Store, HaveId
<1>7. CASE ProgramIds
  BY <1>7 DEF ProgramIds
<1>8. CASE ListProgram
  BY <1>8 DEF ListProgram
<1>9. CASE OverrideIds
  BY <1>9 DEF OverrideIds
<1>10. CASE OtherReturns
  BY <1>10 DEF OtherReturns
<1>11. CASE ListChild
  BY <1>11 DEF ListChild
<1>12. CASE ChildPid
  BY <1>12 DEF ChildPid
<1>13. CASE ChildNoTid
  BY <1>13 DEF ChildNoTid
<1>14. CASE ChildTid
  BY <1>14 DEF ChildTid, ChildTidStep
<1>15. CASE ChildRegs
  BY <1>15 DEF ChildRegs
<1>16. CASE CloseFds
  BY <1>16 DEF CloseFds
<1>17. CASE ExitLoadPid
  BY <1>17 DEF ExitLoadPid
<1>18. CASE ExitStorePid
  BY <1>18 DEF ExitStorePid, ExitStoreStep, Store
<1>19. CASE ExitDelete
  BY <1>19 DEF ExitDelete
<1>20. ASSUME NEW p \in Proc \ liveP, NEW t \in Thread \ liveT, NewProgram(p, t) PROVE ListStill
  BY <1>20 DEF NewProgram
<1>21. ASSUME NEW p \in Proc \ liveP, ForkProcess(p) PROVE ListStill
  BY <1>21 DEF ForkProcess, Alive, ExitTail
<1>22. ASSUME NEW t \in Thread \ liveT, ForkThread(t) PROVE ListStill
  BY <1>22 DEF ForkThread
<1> HIDE DEF ListStill
<1> QED BY <1>1, <1>2, <1>3, <1>4, <1>5, <1>6, <1>7, <1>8, <1>9, <1>10, <1>11, <1>12, <1>13,
       <1>14, <1>15, <1>16, <1>17, <1>18, <1>19, <1>20, <1>21, <1>22
  DEF MoveStep, LocalStep, AllocStep

-----------------------------------------------------------------------------
(* The lock is free when it is taken, and its only holder releases it.     *)
LEMMA LockNext ==
  ASSUME IdBase, MoveStep
  PROVE  LockInv'
<1>0. PICK r, w : r = running_thread /\ w = ctx.which
  OBVIOUS
<1> USE <1>0, MoveCore, MoveOthers, CoreType
<1>1. \A u \in Scheduled : u # r => \A k : HasLock(Flow(u)', k) <=> HasLock(Flow(u), k)
  OBVIOUS
<1>2. CASE FindId
  <2>1. /\ ~id_lock[w] /\ id_lock' = [id_lock EXCEPT ![w] = TRUE] /\ w \in Kind
        /\ ctx'.pc = "load" /\ ctx'.which = w
    BY <1>2 DEF FindId
  <2>2. \A u \in Scheduled : u # r => ~HasLock(Flow(u), w)
    BY <2>1 DEF Ids, LockInv
  <2>3. \A k : HasLock(ctx', k) <=> k = w
    BY <2>1 DEF HasLock
  <2>4. \A k \in Kind : k = w \/ id_lock[k] => id_lock'[k]
    BY <2>1 DEF TypeOK
  <2>5. \A k \in Kind : \A t \in Scheduled : HasLock(Flow(t)', k) => IF k = w THEN t = r
           ELSE t # r /\ HasLock(Flow(t), k)
    BY <1>1, <2>2, <2>3
  <2>6. \A k \in Kind : \A t \in Scheduled : HasLock(Flow(t)', k) =>
          id_lock'[k] /\ \A u \in Scheduled : HasLock(Flow(u)', k) => t = u
    BY <2>4, <2>5 DEF Ids, LockInv
  <2> QED BY <2>6 DEF LockInv
<1>3. CASE StoreId
  <2>1. /\ id_lock' = [id_lock EXCEPT ![w] = FALSE] /\ w \in Kind
        /\ ctx.pc = "store" /\ ctx'.pc \in {"find", "got"}
    BY <1>3 DEF StoreId, StoreStep, HaveId, Reached
  <2>2. \A u \in Scheduled : u # r => ~HasLock(Flow(u), w)
    BY <2>1 DEF Ids, LockInv, HasLock
  <2>3. \A k : ~HasLock(ctx', k)
    BY <2>1 DEF HasLock
  <2>4. \A k \in Kind : k # w => id_lock'[k] = id_lock[k]
    BY <2>1 DEF TypeOK
  <2> QED BY <1>1, <2>1, <2>2, <2>3, <2>4 DEF Ids, LockInv
<1> QED BY <1>2, <1>3, LocksStill, LockMove

(* get_new_tid reads and writes the bitmap under tid_lock, and             *)
(* exit_process clears the bit inside one section: so the id it hands out  *)
(* is nobody's.                                                            *)
LEMMA TidNext ==
  ASSUME IdBase, MoveStep
  PROVE  TidInv'
<1>0. PICK r, n, x, b : r = running_thread /\ n = ctx.t /\ x = ctx.new["tid"]
         /\ b = bitmap["tid"]
  OBVIOUS
<1> USE <1>0, MoveCore, MoveOthers, CoreType DEF Reached, At, Goto
<1>1. /\ TidsApart /\ TidsMarked /\ TidsPending /\ r \in Scheduled /\ "tid" \in Kind
      /\ \A t \in Thread : NamedT(t)' => NamedT(t) \/ (NamesT(ctx') /\ ctx'.t = t)
  BY MoveNames DEF Ids, TidInv, Kind
<1>2. \A u \in Scheduled : u # r => HasTid(Flow(u)') = HasTid(Flow(u))
  OBVIOUS
<1>3. CASE (FindId \/ LoadId \/ StoreId) /\ ctx.which = "pid"
  <2>1. /\ ctx'.pc \in {"find", "load", "store", "got"} /\ ~HasTid(ctx')
    BY <1>3 DEF FindId, LoadId, StoreId, StoreStep, HaveId, HasTid
  <2>2. tid' = tid /\ bitmap'["tid"] = b
    BY <1>3 DEF FindId, LoadId, StoreId, StoreStep, Store, data, threadvars, TypeOK, Kind
  <2>3. TidStill
    BY <2>1, <2>2 DEF TidStill, NamesT
  <2> QED BY <2>3, TidMove
<1>4. CASE FindId /\ ctx.which = "tid"
  <2>1. /\ ctx'.pc = "load" /\ ctx'.new["tid"] \notin b /\ UNCHANGED <<tid, bitmap>>
    <3>1. Unused = Id \ b /\ Unused # {} /\ Lowest(Unused) \in Unused
      BY <1>4, LowestIn DEF FindId, Unused
    <3>2. ctx'.pc = "load" /\ ctx'.new = [ctx.new EXCEPT !["tid"] = Lowest(Unused)] /\ UNCHANGED <<tid, bitmap>>
      BY <1>4 DEF FindId, data, threadvars
    <3> QED BY <1>1, <3>1, <3>2
  <2>2. \A t \in Thread : NamedT(t)' => NamedT(t)
    BY <1>1, <2>1 DEF NamesT
  <2>3. TidsApart'
    BY <1>1, <2>1, <2>2 DEF TidsApart
  <2>4. TidsMarked'
    BY <1>1, <1>2, <2>1, <2>2 DEF TidsMarked
  <2>5. TidsPending'
    BY <1>1, <1>2, <2>1 DEF TidsPending
  <2> QED BY <2>3, <2>4, <2>5 DEF TidInv
<1>5. CASE LoadId /\ ctx.which = "tid"
  <2>1. /\ ctx.pc = "load" /\ ctx'.pc = "store" /\ ctx'.which = "tid" /\ ctx'.byte = b
           /\ ctx'.new = ctx.new
        /\ UNCHANGED <<tid, bitmap>>
    BY <1>5 DEF LoadId, data, threadvars
  <2>2. HasTid(ctx)
    BY <1>5, <2>1, IdsAssumption DEF HasTid, IdsInv, NewId, Id, NoId
  <2>3. \A t \in Thread : NamedT(t)' => NamedT(t)
    BY <1>1, <2>1 DEF NamesT
  <2>4. TidsApart'
    BY <1>1, <2>1, <2>3 DEF TidsApart
  <2>5. TidsMarked'
    BY <1>1, <1>2, <2>1, <2>2, <2>3 DEF TidsMarked
  <2>6. TidsPending'
    BY <1>1, <1>2, <2>1, <2>2 DEF TidsPending
  <2> QED BY <2>4, <2>5, <2>6 DEF TidInv
<1>6. CASE StoreId /\ ctx.which = "tid"
  <2>1. /\ ctx.pc = "store" /\ ctx'.pc = "got" /\ ctx'.which = "tid" /\ ctx'.new = ctx.new
        /\ bitmap'["tid"] = ctx.byte \cup {x} /\ tid' = tid
    BY <1>6 DEF StoreId, StoreStep, Store, HaveId, threadvars, TypeOK, Kind
  <2>2. HasTid(ctx) /\ HasLock(ctx, "tid")
    BY <1>6, <2>1, IdsAssumption DEF HasTid, HasLock, IdsInv, NewId, Id, NoId
  <2>3. \A t \in Thread : NamedT(t)' => NamedT(t)
    BY <1>1, <2>1 DEF NamesT
  <2>4. \A u \in Scheduled : u # r /\ HasTid(Flow(u)) => Flow(u).pc = "got"
    BY <1>1, <2>2 DEF HasTid, HasLock, Ids, LockInv
  <2>5. TidsApart'
    BY <1>1, <2>1, <2>3 DEF TidsApart
  <2>6. TidsMarked'
    BY <1>1, <1>2, <2>1, <2>2, <2>3 DEF TidsMarked
  <2>7. TidsPending'
    BY <1>1, <1>2, <2>1, <2>2, <2>4 DEF TidsPending
  <2> QED BY <2>5, <2>6, <2>7 DEF TidInv
<1>7. CASE ProgramIds \/ ChildTid
  <2>1. /\ ctx.pc = "got" /\ ctx.which = "tid" /\ x # NoId
        /\ NamesT(ctx') /\ ctx'.t = n /\ ~HasTid(ctx')
        /\ tid' = [tid EXCEPT ![n] = x] /\ bitmap' = bitmap
    <3>1. CASE ProgramIds
      <4>1. ctx.which = "tid"
        BY <3>1 DEF ProgramIds, FlowOK, Stage
      <4>2. x # NoId
        BY <3>1 DEF ProgramIds, Range, Kind
      <4> QED BY <3>1, <4>1, <4>2 DEF ProgramIds, NamesT, HasTid
    <3>2. CASE ChildTid
      BY <3>2 DEF ChildTid, ChildTidStep, NamesT, HasTid
    <3> QED BY <1>7, <3>1, <3>2
  <2>2. HasTid(ctx)
    BY <2>1 DEF HasTid
  <2>3. \A t \in Thread : tid'[t] = IF t = n THEN x ELSE tid[t]
    BY <2>1 DEF TypeOK
  <2>4. \A t \in Thread : NamedT(t)' => NamedT(t) \/ t = n
    BY <1>1, <2>1
  <2>5. TidsApart'
    BY <1>1, <2>2, <2>3, <2>4 DEF TidsApart, TidsMarked
  <2>6. TidsMarked'
    BY <1>1, <1>2, <2>1, <2>2, <2>3, <2>4 DEF TidsMarked, TidsPending
  <2>7. TidsPending'
    BY <1>1, <1>2, <2>1 DEF TidsPending
  <2> QED BY <2>5, <2>6, <2>7 DEF TidInv
<1>8. CASE OverrideIds
  <2>1. /\ ctx.pc = "override" /\ ~HasTid(ctx') /\ NamesT(ctx)
        /\ ctx'.t = n /\ tid' = [tid EXCEPT ![n] = OverrideTid] /\ bitmap' = bitmap
    BY <1>8 DEF OverrideIds, HasTid, NamesT
  <2>2. \A t \in Thread : tid'[t] = IF t = n THEN OverrideTid ELSE tid[t]
    BY <2>1 DEF TypeOK
  <2>3. \A t \in Thread : NamedT(t)' => NamedT(t)
    BY <1>1, <2>1 DEF NamedT
  <2>4. TidsApart'
    BY <1>1, <2>2, <2>3 DEF TidsApart
  <2>5. TidsMarked'
    BY <1>1, <1>2, <2>1, <2>2, <2>3 DEF TidsMarked
  <2>6. TidsPending'
    BY <1>1, <1>2, <2>1 DEF TidsPending
  <2> QED BY <2>4, <2>5, <2>6 DEF TidInv
<1>9. CASE ExitSection
  <2>1. /\ ctx.pc = "exit" /\ ctx.p = parent_process[r] /\ threads[ctx.p] = r /\ r \in liveT
    BY <1>9 DEF ExitSection, InSched, FlowOK, Stage, Own, Alive, ExitTail
  <2>2. /\ ~HasTid(ctx') /\ ~NamesT(ctx') /\ tid' = tid /\ bitmap'["tid"] = b \ {tid[r]}
        /\ liveT' = liveT \ {r}
    BY <1>9, <2>1 DEF ExitSection, InSched, LeaveSched, HasTid, NamesT, TypeOK, Kind
  <2>3. NamedT(r) /\ ~NamedT(r)'
    <3>1. \A u \in Scheduled : u # r => Flow(u).t # r
      BY SlotsAssumption DEF FlowOK, Building
    <3> QED BY <1>1, <2>1, <2>2, <3>1 DEF NamedT
  <2>4. \A t \in Thread : NamedT(t)' => NamedT(t) /\ t # r
    BY <1>1, <2>2, <2>3
  <2>5. TidsApart'
    BY <1>1, <2>2, <2>4 DEF TidsApart
  <2>6. TidsMarked'
    BY <1>1, <1>2, <2>2, <2>3, <2>4 DEF TidsMarked, TidsApart
  <2>7. TidsPending'
    BY <1>1, <1>2, <2>2, <2>3 DEF TidsPending, TidsMarked
  <2> QED BY <2>5, <2>6, <2>7 DEF TidInv
<1>10. ctx.which \in {"pid", "tid"}
  BY DEF Kind
<1> QED BY <1>3, <1>4, <1>5, <1>6, <1>7, <1>8, <1>9, <1>10, TidsStill, TidMove

(* get_new_pid, as long as no clear_bit of exit_process was lost or        *)
(* undone.                                                                 *)
LEMMA PidNext ==
  ASSUME IdBase, MoveStep
  PROVE  PidInv'
<1>0. PICK r, m, y, b : r = running_thread /\ m = ctx.p /\ y = ctx.new["pid"]
         /\ b = bitmap["pid"]
  OBVIOUS
<1> USE <1>0, MoveCore, MoveOthers, CoreType DEF Reached, At, Goto
<1>1. CASE PidStill
  BY <1>1, PidMove
<1>2. CASE (FindId \/ FindNoId \/ StoreId) /\ ctx.which = "tid"
  <2>1. bitmap'["pid"] = b /\ overwrote \subseteq overwrote' /\ pid' = pid
    BY <1>2 DEF FindId, FindNoId, StoreId, StoreStep, Store, data, procvars, ghosts, TypeOK,
       Kind
  <2>2. /\ ctx.pc \in IdSteps /\ ctx'.pc \in IdSteps /\ ctx'.me = ctx.me /\ ctx'.p = m
           /\ ctx'.which = "tid"
        /\ ctx'.kind = ctx.kind /\ ctx'.new["pid"] = y
    <3>1. CASE FindId
      BY <1>2, <3>1 DEF FindId, IdSteps, Kind
    <3>2. CASE FindNoId
      BY <1>2, <3>2 DEF FindNoId, HaveId, IdSteps, Kind
    <3>3. CASE StoreId
      BY <1>2, <3>3 DEF StoreId, StoreStep, HaveId, IdSteps
    <3> QED BY <1>2, <3>1, <3>2, <3>3
  <2>3. PidStill
    BY <1>2, <2>1, <2>2 DEF PidStill, SetsPid, HoldsPid, HasPid, HasLock, IdSteps
  <2> QED BY <2>3, PidMove
<1>3. CASE (~PidStill /\ ctx.which = "pid") \/ ProgramIds \/ OverrideIds \/ ExitStorePid
  <2> SUFFICES ASSUME "pid" \notin overwrote' PROVE PidsApart' /\ PidsMarked' /\ PidsPending'
    BY DEF PidInv
  <2>0. \A u \in Scheduled : u # r => /\ HasPid(Flow(u)') = HasPid(Flow(u))
                                      /\ HasLock(Flow(u)', "pid") = HasLock(Flow(u), "pid")
    OBVIOUS
  <2>1. CASE FindId /\ ctx.which = "pid"
    <3>1. /\ ctx.pc = "find" /\ ctx'.pc = "load" /\ ctx'.kind = ctx.kind /\ ctx'.which = "pid"
          /\ ctx'.new["pid"] \notin b /\ UNCHANGED <<pid, bitmap, overwrote>> /\ ~id_lock["pid"]
      <4>1. Unused = Id \ b /\ Unused # {} /\ Lowest(Unused) \in Unused
        BY <2>1, LowestIn DEF FindId, Unused
      <4>2. ctx'.pc = "load" /\ ctx'.new = [ctx.new EXCEPT !["pid"] = Lowest(Unused)]
        BY <2>1 DEF FindId
      <4>3. ctx'.new["pid"] \notin b
        BY <4>1, <4>2 DEF Kind
      <4> QED BY <2>1, <4>2, <4>3 DEF FindId, data, procvars, ghosts
    <3>2. \A p \in Proc : NamedP(p)' => NamedP(p)
      BY <3>1, MoveNames DEF HoldsPid, SetsPid
    <3>3. PidsApart /\ PidsMarked /\ PidsPending
      BY <3>1 DEF Ids, PidInv
    <3>4. HasLock(ctx', "pid") /\ \A u \in Scheduled : ~HasLock(Flow(u), "pid")
      BY <3>1 DEF HasLock, Ids, LockInv, Kind
    <3>5. PidsApart'
      BY <3>1, <3>2, <3>3 DEF PidsApart, Foreign
    <3>6. PidsMarked'
      BY <2>0, <3>1, <3>2, <3>3 DEF PidsMarked, Foreign
    <3>7. PidsPending'
      BY <2>0, <3>1, <3>3, <3>4 DEF PidsPending, Foreign
    <3> QED BY <3>5, <3>6, <3>7
  <2>2. CASE FindNoId /\ ctx.which = "pid"
    <3>1. /\ ctx.pc = "find" /\ ctx'.pc \in {"find", "got"} /\ ctx'.kind = ctx.kind
          /\ (ctx'.which = "pid" \/ ctx'.kind = "kernel")
          /\ ctx'.new["pid"] = NoId /\ UNCHANGED <<pid, bitmap, overwrote>>
      BY <2>2 DEF FindNoId, HaveId, data, procvars, ghosts, Kind
    <3>2. \A p \in Proc : NamedP(p)' => NamedP(p)
      BY <3>1, MoveNames DEF HoldsPid, SetsPid
    <3>3. PidsApart /\ PidsMarked /\ PidsPending
      BY <3>1 DEF Ids, PidInv
    <3>5. PidsApart'
      BY <3>1, <3>2, <3>3 DEF PidsApart, Foreign
    <3>6. PidsMarked'
      BY <2>0, <3>1, <3>2, <3>3 DEF PidsMarked, Foreign
    <3>7. PidsPending'
      BY <2>0, <3>1, <3>3 DEF PidsPending, Foreign
    <3> QED BY <3>5, <3>6, <3>7
  <2>3. CASE StoreId /\ ctx.which = "pid"
    <3>1. /\ ctx.pc = "store" /\ ctx'.pc \in {"find", "got"} /\ ctx'.kind = ctx.kind
          /\ (ctx'.which = "pid" \/ ctx'.kind = "kernel")
          /\ ctx'.new["pid"] = y /\ pid' = pid /\ overwrote' = overwrote
             /\ bitmap'["pid"] = b \cup {y}
      BY <2>3 DEF StoreId, StoreStep, Store, HaveId, procvars, TypeOK, Kind
    <3>2. \A p \in Proc : NamedP(p)' => NamedP(p)
      BY <3>1, MoveNames DEF HoldsPid, SetsPid
    <3>3. PidsApart /\ PidsMarked /\ PidsPending
      BY <3>1 DEF Ids, PidInv
    <3>4. HasPid(ctx)
      BY <2>3, <3>1 DEF HasPid
    <3>5. PidsApart'
      BY <3>1, <3>2, <3>3 DEF PidsApart, Foreign
    <3>6. PidsMarked'
      BY <2>0, <3>1, <3>2, <3>3, <3>4 DEF PidsMarked, Foreign
    <3>7. PidsPending'
      BY <2>0, <3>1, <3>3, <3>4 DEF PidsPending, Foreign
    <3> QED BY <3>5, <3>6, <3>7
  <2>4. CASE ProgramIds \/ ChildPid
    <3>1. /\ ctx.pc = "got" /\ HasPid(ctx) /\ ~HasPid(ctx') /\ SetsPid(ctx') /\ ctx'.p = m
          /\ pid' = [pid EXCEPT ![m] = y] /\ bitmap' = bitmap /\ overwrote' = overwrote
      BY <2>4 DEF ProgramIds, ChildPid, HasPid, SetsPid, FlowOK, Stage, IdSteps, ghosts
    <3>2. \A p \in Proc : NamedP(p)' => NamedP(p) \/ p = m
      BY <3>1, MoveNames DEF HoldsPid
    <3>3. PidsApart /\ PidsMarked /\ PidsPending
      BY <3>1 DEF Ids, PidInv
    <3>4. \A p \in Proc : pid'[p] = IF p = m THEN y ELSE pid[p]
      BY <3>1 DEF TypeOK
    <3>5. PidsApart'
      BY <3>1, <3>2, <3>3, <3>4 DEF PidsApart, PidsMarked, Foreign
    <3>6. PidsMarked'
      BY <2>0, <3>1, <3>2, <3>3, <3>4 DEF PidsMarked, PidsPending, Foreign, HasLock
    <3>7. PidsPending'
      BY <2>0, <3>1, <3>3 DEF PidsPending, Foreign
    <3> QED BY <3>5, <3>6, <3>7
  <2>5. CASE OverrideIds
    <3>1. /\ ctx.pc = "override" /\ ~HasPid(ctx') /\ SetsPid(ctx) /\ ctx'.p = m
          /\ pid' = [pid EXCEPT ![m] = OverridePid] /\ bitmap' = bitmap
             /\ overwrote' = overwrote
      BY <2>5 DEF OverrideIds, HasPid, SetsPid, IdSteps, ghosts
    <3>2. \A p \in Proc : NamedP(p)' => NamedP(p)
      BY <3>1, MoveNames DEF HoldsPid, NamedP
    <3>3. PidsApart /\ PidsMarked /\ PidsPending
      BY <3>1 DEF Ids, PidInv
    <3>4. \A p \in Proc : pid'[p] = IF p = m THEN OverridePid ELSE pid[p]
      BY <3>1 DEF TypeOK
    <3>5. PidsApart'
      BY <3>1, <3>2, <3>3, <3>4 DEF PidsApart, Foreign
    <3>6. PidsMarked'
      BY <2>0, <3>1, <3>2, <3>3, <3>4 DEF PidsMarked, Foreign
    <3>7. PidsPending'
      BY <2>0, <3>1, <3>3 DEF PidsPending, Foreign
    <3> QED BY <3>5, <3>6, <3>7
  <2>6. CASE ExitStorePid
    <3>1. /\ ctx.pc = "storeexit" /\ ctx'.pc = "delete"
          /\ pid' = pid /\ overwrote' = overwrote /\ bitmap'["pid"] = b \ {pid[m]}
      BY <2>6 DEF ExitStorePid, ExitStoreStep, Store, procvars, TypeOK, Kind
    <3>2. m = parent_process[r] /\ m \in Proc /\ threads[m] = r /\ HoldsPid(r, ctx)
      BY <3>1 DEF FlowOK, Stage, Own, ExitTail, HoldsPid
    <3>3. PidsApart /\ PidsMarked /\ PidsPending
      BY <3>1 DEF Ids, PidInv
    <3>4. ~HasPid(ctx') /\ ~SetsPid(ctx')
      BY <3>1 DEF HasPid, SetsPid, IdSteps
    <3>5. NamedP(m) /\ ~NamedP(m)'
      <4>1. \A u \in Scheduled : u # r => ~(SetsPid(Flow(u)) /\ Flow(u).p = m)
               /\ parent_process[u] # m
        BY <3>2 DEF SetsPid, FlowOK, Stage, Building, Own, IdSteps
      <4>2. \A u \in Scheduled : parent_process'[u] = m => ~HoldsPid(u, Flow(u))'
        BY <3>1, <4>1 DEF HoldsPid
      <4>3. \A u \in Scheduled : ~(SetsPid(Flow(u)') /\ Flow(u)'.p = m)
        BY <3>4, <4>1
      <4>4. ~NamedP(m)'
        BY <4>2, <4>3 DEF NamedP
      <4> QED BY <3>2, <4>4 DEF NamedP
    <3>6. \A p \in Proc : NamedP(p)' => NamedP(p) /\ p # m
      BY <3>2, <3>4, <3>5, MoveNames
    <3>7. PidsApart'
      BY <3>1, <3>3, <3>6 DEF PidsApart, Foreign
    <3>8. PidsMarked'
      BY <2>0, <3>1, <3>2, <3>3, <3>4, <3>5, <3>6 DEF PidsMarked, PidsApart, Foreign
    <3>9. PidsPending'
      BY <2>0, <3>1, <3>2, <3>3, <3>4, <3>5 DEF PidsPending, PidsMarked, Foreign
    <3> QED BY <3>7, <3>8, <3>9
  <2> QED BY <1>3, <2>1, <2>2, <2>3, <2>4, <2>5, <2>6, PidsStill
<1>4. ctx.which \in {"pid", "tid"}
  BY DEF Kind
<1>5. ChildPid => ctx.which = "pid"
  BY DEF ChildPid
<1> QED BY <1>1, <1>2, <1>3, <1>4, <1>5, PidsStill

(* exit_process removes the entries with its pid: by PidInv they are its   *)
(* own, or excused.                                                        *)
LEMMA ListNext ==
  ASSUME IdBase, MoveStep
  PROVE  ListInv'
<1>0. PICK r, m : r = running_thread /\ m = ctx.p
  OBVIOUS
<1> USE <1>0, MoveCore, MoveOthers, CoreType DEF Reached, At
<1>1. CASE ExitSection
  <2>1. /\ ctx.kind = "user" /\ ctx.pc = "exit" /\ ctx'.pc = "closefds" /\ r \notin liveT'
        /\ process_list' = EraseByPid(process_list, pid[m]) /\ UNCHANGED <<pid, overwrote>>
        /\ m = parent_process[r] /\ m \in Proc /\ threads[m] = r
    BY <1>1 DEF ExitSection, InSched, LeaveSched, procvars, ghosts, FlowOK, Stage, Own
  <2>2. NamedP(m)
    BY <2>1 DEF NamedP, HoldsPid, FlowOK, Alive, ExitTail
  <2>3. ASSUME NEW q \in Proc, NamedP(q), q # m, q \in Range(process_list) \/ Excused(q)
        PROVE  q \in Range(process_list') \/ Excused(q)'
    <3>1. pid[q] = pid[m] => Excused(q)
      BY <2>2, <2>3, <2>1 DEF Excused, ForeignPid, Foreign, Ids, PidInv, PidsApart
    <3>2. Excused(q) => Excused(q)'
      BY <2>1 DEF Excused, ForeignPid
    <3>3. q \in Range(process_list) /\ pid[q] # pid[m] => q \in Range(process_list')
      BY <2>1, EraseKeeps DEF TypeOK
    <3> QED BY <2>3, <3>1, <3>2, <3>3
  <2>4. \A u \in Scheduled : ~ListsChild(Flow(u)')
    <3>1. Active(ctx) /\ ~ListsChild(ctx')
      BY <2>1 DEF Active, InSyscall, ListsChild, IdSteps
    <3>2. \A u \in Scheduled : ListsChild(Flow(u)) => Active(Flow(u))
      BY DEF Active, InSyscall, ListsChild, IdSteps
    <3> QED BY <3>1, <3>2 DEF Owners, OneActive
  <2>5. ASSUME NEW u \in Scheduled, NEW q, q = Flow(u)'.p, ListsProgram(Flow(u)')
        PROVE  q \in Range(process_list') \/ Excused(q)'
    <3>1. u # r
      BY <2>1, <2>5 DEF ListsProgram
    <3>2. Flow(u)' = Flow(u) /\ q \in Proc /\ q # m /\ SetsPid(Flow(u))
      BY <2>1, <2>5, <3>1 DEF FlowOK, Stage, Building, Builds, ListsProgram, SetsPid
    <3>3. NamedP(q) /\ (q \in Range(process_list) \/ Excused(q))
      BY <2>5, <3>2 DEF NamedP, Ids, ListInv
    <3> QED BY <2>3, <3>2, <3>3
  <2>6. ASSUME NEW t \in Scheduled, NEW q, q = parent_process[t], t \in liveT'
        PROVE  q \in Range(process_list') \/ Excused(q)'
    <3>1. t # r /\ t \in liveT
      BY <2>1, <2>6
    <3>2. q \in Proc /\ q # m /\ HoldsPid(t, Flow(t))
      BY <2>1, <2>6, <3>1 DEF FlowOK, Own, Alive, ExitTail, HoldsPid
    <3>3. NamedP(q) /\ (q \in Range(process_list) \/ Excused(q))
      BY <2>6, <3>1, <3>2 DEF NamedP, Ids, ListInv
    <3> QED BY <2>3, <3>2, <3>3
  <2> QED BY <2>4, <2>5, <2>6 DEF ListInv
<1> QED BY <1>1, ListsStill, ListMove

-----------------------------------------------------------------------------
(* The state that Sched::init leaves.                                      *)
LEMMA InitIds ==
  ASSUME Init
  PROVE  IdBase
<1>1. Base
  BY InitBase
<1>2. Scheduled = {init_thread} /\ Flow(init_thread) = Context("kernel", "new", init_process)
  BY SlotsAssumption DEF Init, Scheduled, Range, Flow
<1>3. \A u \in Scheduled : Flow(u) = Context("kernel", "new", init_process)
  BY <1>2
<1>4. \A u \in Scheduled : Silent(Flow(u))
  BY <1>3 DEF Silent, Context
<1>5. LockInv
  BY <1>4, SilentHasNothing DEF LockInv
<1>6. \A t \in Thread : NamedT(t) => t = init_thread
  BY <1>2, <1>4, SilentHasNothing DEF NamedT
<1>7. TidInv
  BY <1>4, <1>6, SilentHasNothing, SlotsAssumption DEF TidInv, TidsApart, TidsMarked,
     TidsPending, Init, Kind
<1>8. \A p \in Proc : NamedP(p) => p = init_process
  BY <1>2, <1>4, SilentHasNothing, SlotsAssumption DEF NamedP, Init
<1>9. PidInv
  BY <1>4, <1>8, SilentHasNothing, SlotsAssumption DEF PidInv, PidsApart, PidsMarked,
     PidsPending, Init, Kind
<1>10. ListInv
  <2>1. Range(process_list) = {init_process} /\ parent_process[init_thread] = init_process
    BY SlotsAssumption DEF Init, Range
  <2> QED BY <1>2, <1>4, <2>1, SilentHasNothing DEF ListInv
<1> QED BY <1>1, <1>5, <1>7, <1>9, <1>10 DEF IdBase, Ids

(* Every step keeps the invariant.                                         *)
LEMMA NextIds ==
  ASSUME IdBase, [Next]_vars
  PROVE  IdBase'
<1>1. Base'
  BY NextBase DEF IdBase
<1> SUFFICES ASSUME fault' # "dangling" PROVE Ids'
  BY <1>1 DEF IdBase
<1>2. CASE LocalStep \/ AllocStep
  BY <1>2, LockNext, TidNext, PidNext, ListNext DEF MoveStep, Ids
<1>3. CASE TickKeeps \/ TickSwitches \/ FaultStep
  BY <1>3, TickIds
<1>4. CASE CallStep
  BY <1>4, CallIds
<1>5. CASE QueueStep
  BY <1>5, QueueIds
<1>6. CASE ExitLeave
  BY <1>6, LeaveIds
<1>7. CASE UNCHANGED vars
  <2>1. /\ Scheduled' = Scheduled /\ \A t : Flow(t)' = Flow(t)
        /\ UNCHANGED <<id_lock, bitmap, tid, pid, process_list, overwrote, parent_process,
           liveT, fault>>
    BY <1>7 DEF vars, schedvars, locks, data, threadvars, procvars, ghosts, Scheduled, Flow
  <2>2. Ids /\ Scheduled \subseteq Thread
    BY <2>1, ScheduledType DEF IdBase, Base
  <2>3. \A t \in Scheduled \cap liveT : NamedT(t)
    BY DEF NamedT
  <2>4. \A t \in Scheduled : HoldsPid(t, Flow(t))' => NamedP(parent_process[t])
    BY <2>1 DEF NamedP, HoldsPid
  <2> QED BY <2>1, <2>2, <2>3, <2>4, QuietIds DEF Ids, ListInv
<1> QED BY <1>2, <1>3, <1>4, <1>5, <1>6, <1>7
  DEF Next, UserStep, KernelStep, Tick, LocalStep, FaultStep, CallStep, AllocStep, QueueStep

(* IdBase is an invariant of the scheduler.                                *)
THEOREM SpecIds == Spec => []IdBase
BY InitIds, NextIds, PTL DEF Spec

-----------------------------------------------------------------------------
(* pid_lock and tid_lock are not left taken: a thread is going to release  *)
(* them, unless its stack was overwritten.                                 *)
Held ==
  \A k \in Kind : id_lock[k] =>
    \E t \in Scheduled : HasLock(Flow(t), k) \/ Flow(t).pc = "clobbered"

(* The flow that was c still has the locks it had, or is overwritten.      *)
Keeps(c, d) ==
  \/ d.pc = "clobbered"
  \/ c.pc \in {"load", "store"} /\ d.pc \in {"load", "store"} /\ d.which = c.which

(* A step that takes no lock and leaves each one to its holder keeps Held. *)
LEMMA HeldKept ==
  ASSUME Held, id_lock' = id_lock,
         \A u \in Scheduled : Flow(u).pc \in {"load", "store", "clobbered"} =>
           u \in Scheduled' /\ Keeps(Flow(u), Flow(u)')
  PROVE  Held'
<1> SUFFICES ASSUME NEW k \in Kind, id_lock[k]
             PROVE  \E t \in Scheduled' : HasLock(Flow(t)', k) \/ Flow(t)'.pc = "clobbered"
  BY DEF Held, HasLock
<1>1. PICK t \in Scheduled : HasLock(Flow(t), k) \/ Flow(t).pc = "clobbered"
  BY DEF Held
<1>2. t \in Scheduled' /\ Keeps(Flow(t), Flow(t)')
  BY <1>1 DEF HasLock
<1> QED BY <1>1, <1>2 DEF Keeps, HasLock

(* A flow inside the section of a lock reads the byte or stores it.        *)
LEMMA HolderSteps ==
  ASSUME IdBase, MoveStep, ctx.pc \in {"load", "store", "clobbered"}
  PROVE  LoadId \/ StoreId
BY DEF MoveStep, LocalStep, AllocStep, EnterSched, EnterHeap, FindId, FindNoId, ProgramIds,
   ListProgram, OverrideIds, OtherReturns, ListChild, ChildPid, ChildNoTid, ChildTid,
   ChildTidStep, ChildRegs, ExitSection, CloseFds, ExitLoadPid, ExitStorePid, ExitStoreStep,
   ExitDelete, NewProgram, ForkProcess, ForkThread, InSched, InHeap, At, Reached,
   SchedSection, HeapSection

(* get_new_pid and get_new_tid: who takes a lock is its holder, and who    *)
(* releases it was.                                                        *)
LEMMA HeldNext ==
  ASSUME IdBase, MoveStep, Held
  PROVE  Held'
<1>0. PICK r, w : r = running_thread /\ w = ctx.which
  OBVIOUS
<1> USE <1>0, MoveCore, MoveOthers, CoreType
<1>1. CASE FindId
  <2>1. /\ id_lock' = [id_lock EXCEPT ![w] = TRUE] /\ ctx.pc = "find"
        /\ ctx'.pc = "load" /\ ctx'.which = w
    BY <1>1 DEF FindId, Reached
  <2> SUFFICES ASSUME NEW k \in Kind, id_lock'[k]
               PROVE  \E t \in Scheduled : HasLock(Flow(t)', k) \/ Flow(t)'.pc = "clobbered"
    BY DEF Held, HasLock
  <2>2. CASE k = w
    BY <2>1, <2>2 DEF HasLock
  <2>3. CASE k # w
    <3>1. id_lock[k]
      BY <2>1, <2>3 DEF TypeOK
    <3>2. PICK t \in Scheduled : HasLock(Flow(t), k) \/ Flow(t).pc = "clobbered"
      BY <3>1 DEF Held
    <3>3. t # r
      BY <2>1, <3>2 DEF HasLock
    <3> QED BY <3>2, <3>3
  <2> QED BY <2>2, <2>3
<1>2. CASE StoreId
  <2>1. id_lock' = [id_lock EXCEPT ![w] = FALSE] /\ ctx.pc = "store"
    BY <1>2 DEF StoreId, StoreStep, Reached
  <2> SUFFICES ASSUME NEW k \in Kind, id_lock'[k]
               PROVE  \E t \in Scheduled : HasLock(Flow(t)', k) \/ Flow(t)'.pc = "clobbered"
    BY DEF Held, HasLock
  <2>2. k # w /\ id_lock[k]
    BY <2>1 DEF TypeOK
  <2>3. PICK t \in Scheduled : HasLock(Flow(t), k) \/ Flow(t).pc = "clobbered"
    BY <2>2 DEF Held
  <2>4. t # r
    BY <2>1, <2>2, <2>3 DEF HasLock
  <2> QED BY <2>3, <2>4
<1>3. CASE ~FindId /\ ~StoreId
  <2>1. id_lock' = id_lock
    BY <1>3, LocksStill DEF LockStill
  <2>2. ctx.pc \in {"load", "store", "clobbered"} => Keeps(ctx, ctx')
    BY <1>3, HolderSteps DEF LoadId, Reached, Keeps
  <2>3. \A u \in Scheduled : Flow(u).pc \in {"load", "store", "clobbered"} =>
          u \in Scheduled' /\ Keeps(Flow(u), Flow(u)')
    BY <2>2 DEF Keeps
  <2> QED BY <2>1, <2>3, HeldKept
<1> QED BY <1>1, <1>2, <1>3

(* Every step keeps Held.                                                  *)
LEMMA NextHeld ==
  ASSUME IdBase, fault # "dangling" => Held, [Next]_vars, fault' # "dangling"
  PROVE  Held'
<1>1. CASE LocalStep \/ AllocStep
  <2>1. Held
    BY <1>1, LocalCore, AllocCore DEF IdBase
  <2> QED BY <1>1, <2>1, HeldNext DEF MoveStep
<1>2. CASE TickKeeps \/ TickSwitches \/ FaultStep
  <2>1. Held /\ id_lock' = id_lock
    BY <1>2 DEF TickKeeps, TickSwitches, SchedulerFree, SwitchTo, FaultStep, ProgramNoIds,
       RunClobbered, ExitWildPid, TickSpins, AllocationFails, AllocatesFreed, FlowAllocates,
       TickAllocates, Reached, At, locks
  <2>2. Scheduled' = Scheduled /\ \A t \in Scheduled : Flow(t)' = Flow(t)
    BY <1>2, TickKeepsBase, TickSwitchesBase, FaultBase DEF IdBase
  <2> QED BY <2>1, <2>2, HeldKept DEF Keeps
<1>3. CASE CallStep
  <2>1. /\ fault = "none" /\ ctx.pc = "user"
        /\ UNCHANGED <<running_thread, waiting_queue, id_lock>>
        /\ regs' = [t \in Thread |-> IF InSyscall(regs[t]) THEN [regs[t] EXCEPT !.pc = "clobbered"]
                                                            ELSE regs[t]]
    BY <1>3 DEF CallStep, EnterOther, EnterFork, EnterExit, Enter, At, Reached, schedvars, locks
  <2>2. Held /\ TypeOK /\ Scheduled' = Scheduled /\ Scheduled \subseteq Thread
    BY <2>1, ScheduledType DEF IdBase, Base, Scheduled
  <2>3. ASSUME NEW u \in Scheduled, Flow(u).pc \in {"load", "store", "clobbered"}
        PROVE  Keeps(Flow(u), Flow(u)')
    <3>1. u # running_thread
      BY <2>1, <2>3 DEF Flow
    <3>2. Flow(u) = regs[u] /\ Flow(u)' = regs'[u] /\ regs[u] \in ContextType /\ u \in Thread
      BY <2>1, <2>2, <3>1 DEF Flow, TypeOK
    <3> QED BY <2>1, <2>3, <3>2 DEF Keeps, ContextType
  <2> QED BY <2>1, <2>2, <2>3, HeldKept
<1>4. CASE QueueStep
  <2>1. /\ fault = "none" /\ ctx.pc = "queue" /\ waiting_queue' = Append(waiting_queue, ctx.t)
        /\ UNCHANGED <<running_thread, id_lock, regs>>
    BY <1>4 DEF QueueStep, QueueProgram, QueueChild, InSched, LeaveSched, At, Reached, data,
       threadvars
  <2>2. Held /\ TypeOK /\ FlowOK(running_thread, ctx)
    BY <2>1, OnCore DEF IdBase, Base
  <2>3. ctx.t \in Thread
    BY <2>1, <2>2, CoreType, SlotsAssumption DEF IdBase, FlowOK, Stage, Building, Builds, Kinds
  <2>4. Scheduled \subseteq Scheduled'
    BY <2>1, <2>2, <2>3, RangeAppend DEF Scheduled, TypeOK
  <2>5. \A u \in Scheduled : Flow(u).pc \in {"load", "store", "clobbered"} => Flow(u)' = Flow(u)
    BY <2>1 DEF Flow
  <2> QED BY <2>1, <2>2, <2>4, <2>5, HeldKept DEF Keeps
<1>5. CASE ExitLeave
  <2>1. /\ fault = "none" /\ ctx.pc = "leave" /\ running_thread' = Null
        /\ UNCHANGED <<waiting_queue, id_lock, regs>>
    BY <1>5 DEF ExitLeave, At, Reached, data, threadvars, locks
  <2>2. Held /\ Scheduled \subseteq Thread
    BY <2>1, ScheduledType DEF IdBase, Base
  <2>3. \A u \in Scheduled : Flow(u).pc \in {"load", "store", "clobbered"} =>
          u \in Scheduled' /\ Flow(u)' = Flow(u)
    BY <2>1, <2>2, SlotsAssumption DEF Flow, Scheduled
  <2> QED BY <2>1, <2>2, <2>3, HeldKept DEF Keeps
<1>6. CASE UNCHANGED vars
  <2>1. Scheduled' = Scheduled /\ (\A t : Flow(t)' = Flow(t)) /\ UNCHANGED <<id_lock, fault>>
    BY <1>6 DEF vars, schedvars, locks, data, threadvars, ghosts, Scheduled, Flow
  <2> QED BY <2>1, HeldKept DEF Keeps
<1> QED BY <1>1, <1>2, <1>3, <1>4, <1>5, <1>6
  DEF Next, UserStep, KernelStep, Tick, LocalStep, FaultStep, CallStep, AllocStep, QueueStep

(* Every lock that is taken has one holder: of sched_lock and heap_lock    *)
(* the code that reschedule interrupts, or a kmalloc that failed, of       *)
(* pid_lock and tid_lock a thread that will release them, unless its       *)
(* kernel stack was overwritten.                                           *)
THEOREM SchedLockHolders == Spec => []LockHolders
<1>1. Init => (fault # "dangling" => Held)
  BY DEF Init, Held
<1>2. IdBase /\ (fault # "dangling" => Held) /\ [Next]_vars => (fault # "dangling" => Held)'
  BY NextHeld
<1>3. IdBase /\ (fault # "dangling" => Held) => LockHolders
  BY DEF IdBase, Base, Ids, LockInv, Held, LockHolders, IdLockHolders
<1> QED BY <1>1, <1>2, <1>3, SpecIds, PTL DEF Spec

(* IdBase implies TidsUnique.                                              *)
LEMMA IdsTidsUnique ==
  ASSUME IdBase
  PROVE  TidsUnique
<1>1. Scheduled \subseteq Thread
  BY ScheduledType DEF IdBase, Base
<1> QED BY <1>1 DEF IdBase, Ids, TidInv, TidsApart, TidsUnique, NamedT

(* IdBase implies PidsUnique.                                              *)
LEMMA IdsPidsUnique ==
  ASSUME IdBase
  PROVE  PidsUnique
<1> SUFFICES ASSUME fault # "dangling", "pid" \notin overwrote,
       NEW t \in Scheduled \cap liveT, NEW u \in Scheduled \cap liveT,
                    pid[parent_process[t]] = pid[parent_process[u]]
             PROVE  t = u \/ ForeignPid(parent_process[t])
  BY DEF PidsUnique
<1>1. \A x \in Scheduled : Own(x, Flow(x)) /\ Alive(x, Flow(x))
  BY DEF IdBase, Base, Owners, FlowInv, FlowOK
<1>2. HoldsPid(t, Flow(t)) /\ HoldsPid(u, Flow(u))
  BY <1>1 DEF HoldsPid, Alive, ExitTail
<1>3. NamedP(parent_process[t]) /\ NamedP(parent_process[u])
  BY <1>2 DEF NamedP
<1>4. parent_process[t] = parent_process[u] \/ Foreign(pid[parent_process[t]])
  BY <1>1, <1>3 DEF IdBase, Ids, PidInv, PidsApart, Own
<1> QED BY <1>1, <1>4 DEF Own, Foreign, ForeignPid

(* IdBase implies ListedWhileScheduled.                                    *)
LEMMA IdsListed ==
  ASSUME IdBase
  PROVE  ListedWhileScheduled
BY DEF IdBase, Ids, ListInv, Excused, ListedWhileScheduled

(* Two scheduled threads have different tids, except for the one that      *)
(* init_proc writes: get_new_tid never hands out a tid that a thread still *)
(* has.                                                                    *)
THEOREM SchedTidsUnique == Spec => []TidsUnique
BY SpecIds, IdsTidsUnique, PTL

(* Two scheduled processes have different pids, with the exceptions that   *)
(* PidsUnique names.                                                       *)
THEOREM SchedPidsUnique == Spec => []PidsUnique
BY SpecIds, IdsPidsUnique, PTL

(* A scheduled process is on process_list, with the same exceptions:       *)
(* exit_process removes no entry but its own.                              *)
THEOREM SchedListedWhileScheduled == Spec => []ListedWhileScheduled
BY SpecIds, IdsListed, PTL
=============================================================================
