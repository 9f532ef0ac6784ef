--------------------------- MODULE FrameAllocator ---------------------------
(***************************************************************************)
(* What the physical memory manager promises its callers, without a        *)
(* bitmap, a lock or a scan: a request for n frames is answered in one     *)
(* step, with the lowest run of n free frames or, only when there is no    *)
(* such run, with nullptr.  A frame has at most one owner and comes back   *)
(* to the pool exactly when its owner's free has returned.                 *)
(***************************************************************************)
EXTENDS Integers

CONSTANTS Client,    \* the threads that call PMM::alloc and PMM::free
          NFrames,   \* frames are 0 .. NFrames-1; frame 0 is address nullptr
          InitFree,  \* the frames PMM::init leaves free
          Counts     \* the values of the count argument

VARIABLES owned,     \* owned[c]: the frames c was given and has not passed to free
          req,       \* req[c]: the call c is waiting on
          ret        \* ret[c]: what c's last alloc returned, 0 for nullptr

vars == <<owned, req, ret>>

Frame == 0 .. NFrames - 1
Run(p, n) == p .. p + n - 1
NoReq == [op |-> "none", page |-> 0, count |-> 0]

(* Frames on their way back: passed to free, which has not returned yet.   *)
Returning(c) == IF req[c].op = "free" THEN Run(req[c].page, req[c].count) ELSE {}

Free == {f \in InitFree : \A c \in Client : f \notin owned[c] /\ f \notin Returning(c)}

(* A run of n frames can start at p.  A request for no frames is never     *)
(* satisfied: the code's counter is compared after it was incremented.     *)
Fits(p, n) == n # 0 /\ Run(p, n) \subseteq Free

Init ==
  /\ owned = [c \in Client |-> {}]
  /\ req = [c \in Client |-> NoReq]
  /\ ret = [c \in Client |-> 0]

RequestAlloc(c, n) ==
  /\ req[c] = NoReq
  /\ req' = [req EXCEPT ![c] = [op |-> "alloc", page |-> 0, count |-> n]]
  /\ UNCHANGED <<owned, ret>>

Grant(c, p) ==
  /\ req[c].op = "alloc"
  /\ Fits(p, req[c].count)
  /\ \A q \in Frame : q < p => ~Fits(q, req[c].count)
  /\ owned' = [owned EXCEPT ![c] = @ \cup Run(p, req[c].count)]
  /\ ret' = [ret EXCEPT ![c] = p]
  /\ req' = [req EXCEPT ![c] = NoReq]

Refuse(c) ==
  /\ req[c].op = "alloc"
  /\ \A q \in Frame : ~Fits(q, req[c].count)
  /\ ret' = [ret EXCEPT ![c] = 0]
  /\ req' = [req EXCEPT ![c] = NoReq]
  /\ UNCHANGED owned

RequestFree(c, p, n) ==
  /\ req[c] = NoReq
  /\ Run(p, n) \subseteq owned[c]
  /\ owned' = [owned EXCEPT ![c] = @ \ Run(p, n)]
  /\ req' = [req EXCEPT ![c] = [op |-> "free", page |-> p, count |-> n]]
  /\ UNCHANGED ret

Reclaim(c) ==
  /\ req[c].op = "free"
  /\ req' = [req EXCEPT ![c] = NoReq]
  /\ UNCHANGED <<owned, ret>>

Next ==
  \E c \in Client :
    \/ \E n \in Counts : RequestAlloc(c, n)
    \/ \E p \in Frame : Grant(c, p)
    \/ Refuse(c)
    \/ \E p \in Frame, n \in Counts : RequestFree(c, p, n)
    \/ Reclaim(c)

Spec == Init /\ [][Next]_vars
=============================================================================
