--------------------------- MODULE HmrCompletion ---------------------------
(***************************************************************************)
(* One completion queue of hmr_rpc with its completion channel: the device *)
(* puts completions in and raises an event when the queue is armed; the    *)
(* epoll thread takes the event, arms the queue again and polls it until   *)
(* it is empty.  One CQ serves the sends and the receives of one QP.       *)
(***************************************************************************)
EXTENDS Naturals

CONSTANTS
  CqSize,     \* entries of the CQ: CQE_ALLOC_SIZE
  MaxWr,      \* work requests outstanding on the QP: MAX_SEND_WR
  Total       \* bound: work requests posted in a behaviour

ASSUME SizeAssumption ==
  CqSize \in Nat \ {0} /\ MaxWr \in Nat \ {0} /\ Total \in Nat

VARIABLES
  outstanding,  \* posted and not complete
  made,         \* posted so far
  cqes,         \* completions in the CQ
  overrun,      \* a completion found the CQ full
  armed,        \* ibv_req_notify_cq is in force
  channel,      \* events in the completion channel
  stage,        \* where hmr_cq_comp_channel_handler is
  notify_failed \* history: ibv_req_notify_cq has failed

vars == <<outstanding, made, cqes, overrun, armed, channel, stage, notify_failed>>

TypeOK ==
  /\ outstanding \in 0..MaxWr
  /\ made \in Nat
  /\ cqes \in 0..CqSize
  /\ overrun \in BOOLEAN
  /\ armed \in BOOLEAN
  /\ channel \in Nat
  /\ stage \in {"idle", "got", "poll"}
  /\ notify_failed \in BOOLEAN

\* hmr_cq_get creates the queue and arms it.
Init ==
  /\ outstanding = 0
  /\ made = 0
  /\ cqes = 0
  /\ overrun = FALSE
  /\ armed = TRUE
  /\ channel = 0
  /\ stage = "idle"
  /\ notify_failed = FALSE

\* Work requests are posted by the timer, by the handlers of completions and
\* by hmr_rdma_accept, on the main thread.
Post ==
  /\ made < Total
  /\ outstanding < MaxWr
  /\ made' = made + 1
  /\ outstanding' = outstanding + 1
  /\ UNCHANGED <<cqes, overrun, armed, channel, stage, notify_failed>>

\* The device completes one: an armed queue raises one event.
Complete ==
  /\ outstanding > 0
  /\ ~overrun
  /\ outstanding' = outstanding - 1
  /\ IF cqes < CqSize
     THEN /\ cqes' = cqes + 1
          /\ channel' = IF armed THEN channel + 1 ELSE channel
          /\ armed' = FALSE
          /\ UNCHANGED overrun
     ELSE /\ overrun' = TRUE
          /\ UNCHANGED <<cqes, channel, armed>>
  /\ UNCHANGED <<made, stage, notify_failed>>

BugTakesNone(n) == n
BugTakesTwo(n) == n - 2
BugPollsOnce(n) == "idle"

\* ibv_get_cq_event takes one event of n; the loop goes on after a poll that
\* found n completions.
AfterGet(n) == n - 1
AfterPoll(n) == IF n > 0 THEN "poll" ELSE "idle"

\* ibv_get_cq_event and ibv_ack_cq_events.
GetEvent ==
  /\ stage = "idle"
  /\ channel > 0
  /\ channel' = AfterGet(channel)
  /\ stage' = "got"
  /\ UNCHANGED <<outstanding, made, cqes, overrun, armed, notify_failed>>

\* ibv_req_notify_cq; when it fails the handler returns at once.
ReqNotify ==
  /\ stage = "got"
  /\ \/ /\ armed' = TRUE
        /\ stage' = "poll"
        /\ UNCHANGED notify_failed
     \/ /\ stage' = "idle"
        /\ notify_failed' = TRUE
        /\ UNCHANGED armed
  /\ UNCHANGED <<outstanding, made, cqes, overrun, channel>>

\* The loop of ibv_poll_cq, which ends when there is nothing.
Poll ==
  /\ stage = "poll"
  /\ cqes' = IF cqes > 0 THEN cqes - 1 ELSE 0
  /\ stage' = AfterPoll(cqes)
  /\ UNCHANGED <<outstanding, made, overrun, armed, channel, notify_failed>>

Handler == GetEvent \/ ReqNotify \/ Poll

Next == Post \/ Complete \/ Handler

Spec == Init /\ [][Next]_vars

\* The device completes what is posted; the epoll thread runs, and the channel
\* of a queue with an event stays readable.
FairSpec == Spec /\ WF_vars(Complete) /\ WF_vars(Handler)

-----------------------------------------------------------------------------
(* Properties. *)

\* When the epoll thread goes back to epoll_wait with a completion in the queue
\* there is an event to wake it: arming comes before polling, so a completion
\* that arrives after the last poll raises one.  Only a failed ibv_req_notify_cq,
\* after which the handler does not poll, leaves completions behind.
NoLostWakeup ==
  stage = "idle" /\ cqes > 0 /\ ~notify_failed => channel > 0

\* The handler takes one event and acknowledges one: never more than one waits,
\* so none stays unacknowledged.
OneEvent == channel <= 1

\* Every completion is polled in the end, or arming has failed.
CompletionsPolled == cqes > 0 ~> cqes = 0 \/ notify_failed

\* hmr_rdma_transport.h sets "the max send/recv wr num", and every send is
\* signalled: the completion queue has room for what the QP lets be posted.
CqHoldsWorkRequests == ~overrun
=============================================================================
