---------------------------- MODULE HmrRecvRing ----------------------------
(***************************************************************************)
(* The receive buffers of one transport.  hmr_mempool_alloc_raddr hands    *)
(* out the receive region's slots in a circle and never asks whether a     *)
(* slot is still in use: what keeps a buffer from being written while it   *)
(* waits or is read is only how many receives are posted and when they are *)
(* posted again.  All of it runs on the epoll thread, as on the client;    *)
(* HmrServerRecv has the two threads of the server.                        *)
(***************************************************************************)
EXTENDS Naturals, Sequences

CONSTANTS
  Slots,    \* ALLOC_MEM_SIZE / MAX_RECV_SIZE
  Spare     \* slots for which no receive is posted in advance: 2

ASSUME RingAssumption == Slots \in Nat /\ Spare \in Nat /\ Spare < Slots

VARIABLES
  used_recv_region,  \* the cursor, in slots
  to_post,           \* receives hmr_pre_post_recv has still to post
  in_use,            \* slots of the receives not yet polled, oldest first
  filled,            \* how many of them the device has written to
  handling,          \* opcode of the completion hmr_wc_success_handler is at
  reading            \* the slot whose message it reads, in a set

vars == <<used_recv_region, to_post, in_use, filled, handling, reading>>

Slot == 0 .. Slots - 1

TypeOK ==
  /\ used_recv_region \in 0 .. Slots
  /\ to_post \in 0 .. Slots
  /\ in_use \in Seq(Slot)
  /\ filled \in 0 .. Len(in_use)
  /\ handling \in {"none", "SEND", "RECV"}
  /\ reading \in SUBSET Slot

BugPostsAll == Slots
BugWrapLate(cursor) == IF cursor > Slots THEN 0 ELSE cursor
BugAlwaysReposts(opcode) == TRUE

\* hmr_mempool_alloc_raddr: the cursor goes back to the start when what is left
\* does not hold one more receive.
Wrapped(cursor) == IF cursor + 1 > Slots THEN 0 ELSE cursor

\* The receives of hmr_pre_post_recv.
PrePosted == Slots - Spare

\* The completions after which hmr_wc_success_handler posts a receive.
Reposts(opcode) == opcode = "RECV"

Init ==
  /\ used_recv_region = 0
  /\ to_post = PrePosted
  /\ in_use = << >>
  /\ filled = 0
  /\ handling = "none"
  /\ reading = {}

\* hmr_post_recv: hmr_recv_task_create takes the next slot, ibv_post_recv
\* queues it.
PostRecv ==
  /\ in_use' = Append(in_use, Wrapped(used_recv_region))
  /\ used_recv_region' = Wrapped(used_recv_region) + 1

\* One turn of the loop of hmr_pre_post_recv.
PrePost ==
  /\ to_post > 0
  /\ to_post' = to_post - 1
  /\ PostRecv
  /\ UNCHANGED <<filled, handling, reading>>

\* The device fills the oldest receive that is empty.
Fill ==
  /\ filled < Len(in_use)
  /\ filled' = filled + 1
  /\ UNCHANGED <<used_recv_region, to_post, in_use, handling, reading>>

\* ibv_poll_cq returns the completion of the oldest receive.
Received ==
  /\ handling = "none"
  /\ filled > 0
  /\ filled' = filled - 1
  /\ in_use' = Tail(in_use)
  /\ handling' = "RECV"
  /\ reading' = {Head(in_use)}
  /\ UNCHANGED <<used_recv_region, to_post>>

\* Or the completion of a send, which shares the queue.
Acknowledged ==
  /\ handling = "none"
  /\ handling' = "SEND"
  /\ UNCHANGED <<used_recv_region, to_post, in_use, filled, reading>>

\* The handler that posts the first receives has returned.
PollRecv == to_post = 0 /\ Received
PollSent == to_post = 0 /\ Acknowledged

\* The end of hmr_wc_success_handler: process_resp has returned, and a receive
\* takes the place of the one that is done with.
Handled ==
  /\ handling # "none"
  /\ handling' = "none"
  /\ reading' = {}
  /\ IF Reposts(handling)
     THEN PostRecv
     ELSE UNCHANGED <<used_recv_region, in_use>>
  /\ UNCHANGED <<to_post, filled>>

Next == PrePost \/ Fill \/ PollRecv \/ PollSent \/ Handled

Spec == Init /\ [][Next]_vars

-----------------------------------------------------------------------------
(* Properties. *)

\* No slot is in use twice: the device never writes a message into a buffer
\* whose message waits or is being read, nor two messages into one buffer,
\* although hmr_mempool_alloc_raddr does not ask which slots are free.
BuffersExclusive ==
  /\ \A i, j \in 1..Len(in_use) : i # j => in_use[i] # in_use[j]
  /\ \A i \in 1..Len(in_use) : in_use[i] \notin reading
=============================================================================
