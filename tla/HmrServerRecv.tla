--------------------------- MODULE HmrServerRecv ---------------------------
(***************************************************************************)
(* The receive buffers of the server, where hmr_pre_post_recv runs on main *)
(* while the epoll thread handles what has come and posts again, on one    *)
(* cursor and with no lock.  A thread may be overtaken between the slot it *)
(* takes and the receive it queues, so that slots are no longer queued and *)
(* given back in the order of the circle; and two allocations at once may  *)
(* take one slot twice, or one past the region.                            *)
(***************************************************************************)
EXTENDS HmrRecvRing

VARIABLES
  taking,    \* per thread: where hmr_mempool_alloc_raddr is
  taken,     \* per thread: the slot whose address it has read
  added,     \* per thread: the cursor as read by the addition
  held,      \* per thread: the slot taken and not yet queued, in a set
  passed,    \* per thread: the slots that the other has taken since
  disorder   \* history: both were allocating at once, or one was passed by
             \* more than the spare slots

heldVars == <<taking, taken, added, held, passed, disorder>>

Thread == {"main", "epoll"}

\* The slots, and past the region one for all that two allocations at once may
\* hand out there.
Place == 0 .. Slots + 1

HeldTypeOK ==
  /\ taking \in [Thread -> {"no", "check", "reset", "addr", "load", "store"}]
  /\ taken \in [Thread -> Place] /\ added \in [Thread -> Place]
  /\ held \in [Thread -> SUBSET Place]
  /\ passed \in [Thread -> 0 .. Spare + 1]
  /\ disorder \in BOOLEAN
  /\ used_recv_region \in Place /\ in_use \in Seq(Place) /\ reading \in SUBSET Place
  /\ to_post \in 0 .. Slots /\ filled \in 0 .. Len(in_use)
  /\ handling \in {"none", "SEND", "RECV"}

HeldInit ==
  /\ taking = [t \in Thread |-> "no"]
  /\ taken = [t \in Thread |-> 0]
  /\ added = [t \in Thread |-> 0]
  /\ held = [t \in Thread |-> {}]
  /\ passed = [t \in Thread |-> 0]
  /\ disorder = FALSE

-----------------------------------------------------------------------------
(* hmr_mempool_alloc_raddr, one access to the cursor a step, as the build    *)
(* (gcc -Wall -g, no optimisation) does.                                     *)

Step(t, from, to) == taking[t] = from /\ taking' = [taking EXCEPT ![t] = to]

\* hmr_recv_task_create begins.
RecvCreate(t) ==
  /\ Step(t, "no", "check")
  /\ held[t] = {}
  /\ disorder' = (disorder \/ \E u \in Thread \ {t} : taking[u] # "no")
  /\ UNCHANGED <<used_recv_region, taken, added, held, passed>>

RecvCheck(t) ==
  /\ Step(t, "check",
          IF Wrapped(used_recv_region) = used_recv_region THEN "addr" ELSE "reset")
  /\ UNCHANGED <<used_recv_region, taken, added, held, passed, disorder>>

RecvReset(t) ==
  /\ Step(t, "reset", "addr")
  /\ used_recv_region' = 0
  /\ UNCHANGED <<taken, added, held, passed, disorder>>

RecvAddr(t) ==
  /\ Step(t, "addr", "load")
  /\ taken' = [taken EXCEPT ![t] = used_recv_region]
  /\ UNCHANGED <<used_recv_region, added, held, passed, disorder>>

\* used_recv_region += length, in two accesses.
RecvLoad(t) ==
  /\ Step(t, "load", "store")
  /\ added' = [added EXCEPT ![t] = used_recv_region]
  /\ UNCHANGED <<used_recv_region, taken, held, passed, disorder>>

\* The slot is taken when the cursor has passed it.  (Bound: the cursor is not
\* counted past the region, nor passed past disorder.)
RecvStore(t) ==
  /\ Step(t, "store", "no")
  /\ used_recv_region' = IF added[t] > Slots THEN added[t] ELSE added[t] + 1
  /\ held' = [held EXCEPT ![t] = {taken[t]}]
  /\ passed' = [u \in Thread |-> IF u = t \/ held[u] = {} THEN 0
                                 ELSE IF passed[u] > Spare THEN passed[u]
                                 ELSE passed[u] + 1]
  /\ disorder' = (disorder \/ \E u \in Thread : passed'[u] > Spare)
  /\ taken' = [taken EXCEPT ![t] = 0] /\ added' = [added EXCEPT ![t] = 0]

RecvAlloc(t) ==
  /\ RecvCheck(t) \/ RecvReset(t) \/ RecvAddr(t) \/ RecvLoad(t) \/ RecvStore(t)
  /\ UNCHANGED <<to_post, in_use, filled, handling, reading>>

\* ibv_post_recv.
Queue(t) ==
  /\ \E slot \in held[t] : in_use' = Append(in_use, slot)
  /\ held' = [held EXCEPT ![t] = {}]
  /\ passed' = [passed EXCEPT ![t] = 0]
  /\ UNCHANGED <<used_recv_region, taking, taken, added, disorder>>

-----------------------------------------------------------------------------
\* A turn of the loop of hmr_pre_post_recv, on main.
MainPosts ==
  /\ to_post > 0
  /\ RecvCreate("main")
  /\ UNCHANGED <<to_post, in_use, filled, handling, reading>>

MainQueues ==
  /\ Queue("main")
  /\ to_post' = to_post - 1
  /\ UNCHANGED <<filled, handling, reading>>

\* The end of hmr_wc_success_handler, on the epoll thread: process_resp has
\* returned.
EpollPosts ==
  /\ handling # "none" /\ Reposts(handling)
  /\ RecvCreate("epoll")
  /\ reading' = {}
  /\ UNCHANGED <<to_post, in_use, filled, handling>>

EpollQueues ==
  /\ Queue("epoll")
  /\ handling' = "none"
  /\ UNCHANGED <<to_post, filled, reading>>

ServerRecvNext ==
  \/ MainPosts \/ MainQueues \/ EpollPosts \/ EpollQueues
  \/ \E t \in Thread : RecvAlloc(t)
  \/ (Fill \/ Received \/ Acknowledged) /\ UNCHANGED heldVars
  \/ ~Reposts(handling) /\ Handled /\ UNCHANGED heldVars

-----------------------------------------------------------------------------
(* Properties. *)

\* The two slots for which hmr_pre_post_recv posts nothing ("num-=2") are what
\* lets two threads post: as long as neither is passed by more than these, and
\* they do not allocate at once, every slot is in the region and with only one of
\* the device, the handler and the threads.
PostersExclusive ==
  ~disorder =>
    /\ TypeOK /\ BuffersExclusive
    /\ \A t \in Thread : held[t] \cap (reading \cup {in_use[i] : i \in DOMAIN in_use}) = {}
    /\ held["main"] \cap held["epoll"] = {}
=============================================================================
