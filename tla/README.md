# A verification project for hmr_rpc

hmr_rpc is a small RPC library over RDMA: a client connects to a server, both
exchange the address of a memory region for one-sided writes, the client sends
messages and writes, and it ends with FINISH / DONE.  Each program has two threads
that share one `struct hmr_rdma_transport` without a lock: the *main thread*
(`client.c`, `server.c`) sends, the *epoll thread* (`hmr_context_run`) runs every
handler.  All line numbers below are of `src/hmr_rdma_transport.c` unless a file is named.

The modules of this directory are checked with TLC (`tlc -config X.cfg M`) and
proved with TLAPS (`tlapm M.tla`).

## 1. Inventory

| Component | State | Operations | Hard behaviours | What makes it correct |
|---|---|---|---|---|
| Connection set-up and teardown | `trans_state`, `cm_id`, `qp`, `normal_mempool`, the listener's accept stack | `hmr_rdma_connect`, `hmr_rdma_accept`, the `on_cm_*` handlers | main and epoll thread write `trans_state`; calls fail half way; the handshake of the two ends is not synchronous; pool and QP are destroyed while the transport lives | no use of what is released; an error reaches the program; both programs end |
| Exchange of regions and states | `trans_state`, `peer_info` | `hmr_exchange_mr_info`, the MR branch of `hmr_wc_success_handler` | MR completions in any order, before or after ESTABLISHED | a write has a region to go to; the exchange ends; a state that permits writes stays |
| Sending | `send_task_list`, `used_normal_size` | `hmr_rdma_send`, `hmr_msg_check`, `hmr_send_task_handler` | main adds to the list while the timer posts and unlinks it; a check is stale when the message is queued | every queued message is posted once, in order |
| Send timer | `st_timerfd` | `hmr_send_task_handler` (`hmr_timerfd.c`) | its event may follow its deletion in a batch; a refused post is retried | as above |
| Completions | CQ, completion channel, arming | `hmr_cq_comp_channel_handler`, `hmr_wc_success_handler`, `hmr_handle_close_connection` | arm and poll race with the device; a CQ of fixed size | no completion is left lying; no overrun |
| Receive buffers | `used_recv_region` | `hmr_mempool_alloc_raddr`, `hmr_post_recv`, `hmr_pre_post_recv` | a ring with no record of what is free | no buffer is in use twice |
| Send buffers | `used_send_region` | `hmr_mempool_alloc_saddr`, `hmr_send_task_create` | the same, for messages of any size, on two threads | the same |
| Memory pool | three registered regions | `hmr_mempool_create`, `hmr_mempool_release` | error paths | each region is deregistered once |
| Event context | `ctx->is_stop`, the epoll set | `hmr_context_run` and its add and delete | a handler of a batch deletes what a later one uses | a stopped context ends its thread |
| Programs | where main is | `client.c`, `server.c` | `pthread_join` on an epoll thread that must stop | the client ends after FINISH |
| Device registry | `dev_list` | `hmr_rdma_init`, `hmr_rdma_release`, `hmr_device_lookup` | a device may fail to initialize; each is unlinked twice when it is released | the list holds the devices that live, its pointers agree |
| Opcode helpers | — | `hmr_get_opcode_from_task` | none | a message goes out with the opcode of its type |
| Logging, NVM option | — | `hmr_log_init`, `hmr_sync_nvm_handler`, … | none (output; not compiled) | — |

How they interact: `client.c`/`server.c` call into the transport; the transport registers
descriptors (connection manager channel, completion channel, timer) with the context;
the context calls their handlers back; handlers and main communicate only through
fields of the transport (`trans_state`, the list, the pool, the accept stack) and
`ctx->is_stop`; the two ends communicate by connection manager events and
work completions.

Concurrency, ordering, partial failure and resource bounds are where this code is
hard; each such place is an entry of "hazards" in `PROJECT.json`, at its line, with the
property that watches it, or the reason why none does.

## 2. Modules

How they depend on each other (`A <- B`: B extends or instantiates A):

- HmrConnection <- HmrConnectionRefinement (with an instance of HmrChannel) <- MCHmrConnection; HmrConnection <- HmrConnectionProofs; HmrConnectionProofs, HmrConnectionRefinement <- HmrDeliveryProofs
- HmrCompletion <- HmrCompletionProofs
- HmrRecvRing <- HmrServerRecv <- HmrMempool <- MCHmrMempool, HmrMempoolProofs
- HmrSendQueue <- HmrSendQueueProofs
- HmrServer <- HmrServerProofs
- HmrList <- HmrResources <- MCHmrResources; HmrList <- HmrListProofs; HmrResources, HmrListProofs <- HmrResourcesProofs

### HmrConnection (the core)

One connection: a client, a server, the connection manager and the two reliable
connected QPs between them.  Variables are functions over `End = {"client","server"}`.

| Model | Code |
|---|---|
| `trans_state`, `normal_mempool`, `qp`, `st_timerfd`, `send_task_list`, `peer_mr`, `used_normal_size` | the fields of `struct hmr_rdma_transport`; `normal_mempool` and `qp` say whether the object is live although the pointer stays set |
| `main`, `pos` | where the main thread is: connect / accept, then per message `check` (`hmr_msg_check`) and `enqueue` (the rest of `hmr_rdma_send`), then `join` |
| `stage`, `posted` | where the epoll thread is: between handlers (`idle`), between the two loops of `hmr_send_task_handler` (`unlink`), waiting for ever in `hmr_msg_check` (`spin`), or ended |
| `wire`, `sent`, `recvs`, `recv_posted` | messages given to the QP; completions of sends; completions of receives; receives posted |
| `cm`, `cm_events`, `cm_hangup` | the connection manager: the handshake's phase, events not yet handled, ends still to be told of a disconnection |
| `arrived`, `dropped`, `flushed`, `misuse`, `mr_posts` | history: messages the peer has handled, tasks unlinked unposted, tasks lost with a QP in error, uses of a released pool or QP, MRs posted |
| `torn`, `lost` | history: ends on whose list an insertion and another update have overlapped, messages whose insertion was lost in it |
| `refused`, `twice`, `mr_refused` | history: lists that `ibv_post_send` refused, ends that keep tasks in the list which the QP has taken, ends whose MR was refused |

Actions: `ClientConnect`, `Accept`, `SetConnecting`, `Prepare` and `Main(e)` are the
main threads (`rdma_accept` and the assignment of CONNECTING behind it are two steps:
the epoll thread may handle ESTABLISHED between them); `CmHandler(e)` is one action per connection
manager event; `CqHandler(e)` one per kind of completion, each the whole of
`hmr_wc_success_handler` including the repost; `TimerHandler(e)` is
`hmr_send_task_handler` in its two loops, or ended by a refused post (`TimerRefused`); `LoopExit` is the end of `hmr_context_run`;
`Network(e)`, `CmProgress`, `CmFails`, `RnrExhausted` are the fabric (external).

Abstractions, and why they are safe to make here:
- A step is the code between two points where another actor can interfere.  Of the list, an
  insertion or the whole unlinking loop is a step.  Taken pointer by pointer these overlap, which is the subject of
  HmrSendQueue; here `Races` marks a list as torn when the epoll thread changes it while main is at its insertion, and
  from then on any insertion may be lost (`Insert`): linked behind an entry that the list does not reach (finding 4), or overwritten by the other insertion.
  Those are the ways in which a task gets lost in HmrSendQueue; that none comes twice or out of order there either is what the run and the theorems of HmrSendQueue show.
- A refused `ibv_post_send` of the list may have taken any prefix (`TimerRefused`).  With an empty one the list is posted again at the next tick.  With another the
  tasks in it are posted, completed and freed a second time, and what the program does from there is undefined: the properties say nothing more
  of messages (`NoneTwice`), and the abstract channel is then `broken`.  A refused MR is only logged (`PostMr`), as in the code.
- A message is its type and its index in the script.  An RDMA write has a unit size.
- Handlers of different completions may interleave with other handlers of the same thread.
  The code polls several completions within one handler, but each may also arrive alone, so
  each such interleaving is possible.
- A message is delivered and acknowledged in one step: the sender's completion
  and the receiver's become available together, and are handled in any order.
- `st_timerfd = "stale"` stands for a timer event already in the batch epoll returned
  when another handler of that batch deletes the timer.
- Notifications of the completion queue are not lost; HmrCompletion shows when that is so.
- Memory and verbs objects are always allocated; `MayFail` makes the calls fail that
  the handlers check (`rdma_connect`, `rdma_accept`, QP creation, resolution, the
  handshake), `ibv_post_send` refuse, and RNR retries run out.

### HmrCompletion

One completion queue with its channel.  `Complete` is the device (an armed queue
raises one event and is no longer armed); `GetEvent`, `ReqNotify`, `Poll` are the three parts of
`hmr_cq_comp_channel_handler`, with the early return when `ibv_req_notify_cq` fails.

### HmrSendQueue

`send_task_list` with the `next` and `prev` of every `struct list_head`.  `Add`, `LinkBack`, `LinkFront` are
`list_add_tail` on the main thread (its messages) or the epoll thread (DONE, between two other handlers); `Fire`, `Walk`, `Post` are the
first loop of `hmr_send_task_handler` and `ibv_post_send`, which may be refused; `Save`, `Del`, `DelBack`, `DelFront`, `InitEntry` are the
unlinking loop, `list_for_each_entry_safe` around `list_del_init`; `Complete` frees a task.  Each step makes one access to a
pointer that both threads use, in the order of the source: the Makefile compiles without optimisation.  Stores are visible at once;
weaker memory and the reuse of freed memory are left out.

### HmrChannel and HmrConnectionRefinement

HmrChannel is what a program may rely on, with no state of the transport in it: per end, the next message to
send, the queue of those that are on their way, and those that have arrived.  Main sends its script in order, so a queue is
a set of places in the script, in their order; a message that came out of turn, or a second time, would break `Arrive`.  `Send` accepts or refuses the next message, `Arrive`
takes the first of the queue (or its first RDMA write, which completes at the responder before the program there sees
the messages in front of it), `Lose` drops some of either queue and may close the connection, which it does
only when FINISH has arrived.  `Breaks` is the end of what is promised.

`HmrConnectionRefinement` maps HmrConnection to it: the abstract queue is what the peer has received and not
handled, what is on the wire, and the part of the list that the timer has not posted.  Posting, acknowledging, unlinking of posted tasks and
everything of the handshake are stuttering steps; a task that is unlinked unposted, a flushed QP and a failed one are `Lose`.

### HmrRecvRing, HmrServerRecv, HmrMempool

`HmrRecvRing` holds the receive slots of one transport on one thread, the client's: `PrePost` is `hmr_pre_post_recv`,
`Handled` is the end of `hmr_wc_success_handler`, `Wrapped` is the wrap of
`hmr_mempool_alloc_raddr`.  `HmrServerRecv` adds the server's second thread: main is in `hmr_pre_post_recv` while the epoll thread posts
again.  `RecvCreate`, `RecvCheck`, `RecvReset`, `RecvAddr`, `RecvLoad` and `RecvStore` are `hmr_mempool_alloc_raddr` one access to the cursor at a time, `Queue` is `ibv_post_recv`,
so one thread may be passed by the other in between.  Two allocations at once, or a thread passed by more than the spare slots, set
`disorder`; the model goes on behind it, with slots in use twice and slots past the region (bounds: the cursor is not counted past the region, nor `passed` past `Spare + 1`).
With the invariant `BuffersExclusive` in place of `PostersExclusive` TLC finds the double use on the server, in a trace of 21 states.  `HmrMempool` adds the send
region: `hmr_mempool_alloc_saddr` one access to the cursor at a time, by main and the epoll thread, and the completions that give
a buffer back.  `buffers` is history: the code has no record of what is in use.  A behaviour is the pool of a client (its receives and its sends) or the
receives of a server.

### HmrServer

`server.c` with several clients.  `accept_rdma_trans` is the field of that name of the listener (index `NULL`) and of each
client's transport: a stack with no lock.  Main's `Discover`, `ReadTop`, `Pop`, `Clear` are its accesses in `hmr_rdma_accept`, then
`Accept`, `SetConnecting` and `Greet` (`hmr_rdma_send`, which waits in `hmr_msg_check` for CONNECTED, SCONNECTED or RCONNECTED, `ReadyStates`); the epoll thread's `ConnectRequest` and `Push` are `on_cm_connect_request`,
beside the other handlers as far as they touch `trans_state` or `is_stop`.  A client asks, is accepted, confirms, fails or leaves,
and sends its memory region, which the epoll thread handles (`RecvMr`, RCONNECTED over whatever the state was) or which is lost (`LoseMr`).
`waiting`, `greeted`, `refused` and `raced` are history.

### HmrList and HmrResources

`HmrList` has the circular list of `linux/list.h` on the pointers of every node: each operation as a function of the list, the tests, the splices and the cut,
and the loops as what they visit, the "safe" ones one step at a time with their saved neighbour.  The program uses a few of them (`HmrResources` runs those); the rest is
there because the header is the repository's own copy and its promises are proved together.  `HmrResources` runs both programs from
`hmr_rdma_init` to `hmr_rdma_release` with any call failing.  An object (memory, descriptor, verbs object) of the device, the context or a transport is live or not (`heap.live`), and
is or is not pointed to by a field that is tested or used later (`heap.ptr`).  Each function that builds objects one by one is a sequence of calls with
what each makes and what the labels it goes to on an error release (`MempoolCreate`, `QpCreate`, `EventChannelInit`, ...), and one operator, `Run`, gives what it leaves for each way
it can end.  Using or releasing what is not there goes to `heap.misuse`, after which nothing more is said.
`trans_state` is what `hmr_msg_check` tells of it, so that main's `Send` uses the pool when the code does, also after `on_cm_disconnected` has
released it; `Timer` uses the QP when there is something to post; `Completion` uses what a repost, an MR or a DONE needs.  `Forget` takes away the last
pointer to a transport that a failed connect request (531, 537) or `rdma_accept` leaves to nobody.  `closed` is history: whether `on_cm_disconnected` has run.  `EpollWait` takes any set of ready
descriptors as a batch, whose events are handled in any order although a handler may delete a later one's descriptor.

### MC modules, proofs

`MCHmrConnection`, `MCHmrMempool` and `MCHmrResources` name the scripts, lengths and devices the cfgs choose from.
`Hmr*Proofs` hold the theorems.  Definitions called
`Bug...` are injected faults: put in place of the definition that follows them they make
the property they belong to fail, which shows that it depends on the code.

## 3. What the runs check

| Run | Question | Result |
|---|---|---|
| connection_safety | A whole connection with no failure; client sends a message, a write and FINISH, server sends a message | holds: messages arrive in order (`InOrder`) and in one copy (`OneCopy`); the client disconnects with nothing unhandled but what was dropped before it was posted (`GracefulClose`) and never uses what it released (`ClientResourcesLive`); a write always has the peer's region (`WriteNeedsPeerMr`), its place never moves back (`WritePlaceGrows`); the exchange of MRs ends (`ExchangeEnds`); writes, once permitted, remain so (`WritesStayEnabled`); the program sees the abstract channel (`ImplementsChannel`) |
| connection_faults | The same with failing calls and a failing handshake, a refused MR and a refused list, one receive posted in advance, RNR retries that may run out, a client that sends FINISH and a server that sends a message | the channel is still implemented, and a list that was refused whole goes out once (`OneCopy`); a client never closes with something unhandled nor uses what it released; the epoll thread waits in `hmr_msg_check` for a state only itself can set only after the client's MR was refused (`EpollNeverSpins`); once the server has handled FINISH the client's program ends but for the four ways of `DoneFails` (`FinishCloses`); a client in ERROR gives up and ends (`ErrorStops`) |
| completion_wakeup | Wakeups of the completion channel | none is lost unless arming fails (`NoLostWakeup`, `CompletionsPolled`); at most one event waits (`OneEvent`) |
| send_queue | The list pointer by pointer: main adds three tasks and the epoll thread DONE while the timer walks, posts and unlinks | holds: a task is posted at most once and main's in order (`PostedOnceInOrder`), the timer goes to no freed task (`TimerTouchesLive`), its loops end (`HandlerEnds`) |
| mempool | The receive ring with the sizes of the code on one thread and on two, and the send region on two | no receive buffer is in use twice on the client (`BuffersExclusive`), nor on the server as long as no thread is passed by more than the two spare slots and they do not allocate at once (`PostersExclusive`); no send buffer is either as long as the threads do not allocate at once and what was sent since the oldest message in use leaves room for the longest (`SendBuffersExclusive`) |
| server | Two clients that come, leave and fail at any time, and whose regions may be lost | the accept stack loses and repeats no client unless main pops while the epoll thread pushes (`StackHoldsWaiting`); the loop ends only for a client that went before it was accepted (`LoopEndsOnError`); every client is greeted unless a named trouble of a client blocks the server (`AllGreeted`) |
| resources | Client and server from start to end, two devices, up to two failing calls | `dev_list` holds the devices that live (`DevListHoldsDevices`) with pointers that agree (`DevListLinked`); no handler of a batch runs on freed data (`HandlersLive`); what is not there is used only after a failure of the calls that the code does not check, by a server whose client left before it had a pool, or after the connection was closed, when it is the freed region or the destroyed QP (`UseOnlyLive`); what lives can be reached through the program's pointers but for what each failure is named to leave (`FailuresKeepNothing`); a client that met no failure leaves at most the objects of `NeverReleased` (`ExitReleases`) |
| exchange_completes | `hmr_rdma_transport.h:31`: the exchange takes the state from CONNECTED to S/RCONNECTED | **violated** |
| unlinked_tasks | `hmr_timerfd.c:86`: what is unlinked is freed by its completion | **violated** |
| send_after_close | `hmr_rdma_send` refuses a message after the transport's exit (902) | **violated** |
| list_empty | `linux/list.h:204`: `list_empty` tests whether the list is empty | **violated** |
| cq_overrun | `hmr_rdma_transport.h:10`: 256 work requests | **violated** |

The five findings:

1. *The exchange may stop half way.*  The client's MR may be handled by the server before its own
   ESTABLISHED event.  In that state it does not answer (272) and ESTABLISHED then
   overwrites RCONNECTED with CONNECTED (559).  The client stays SCONNECTED and `client.c` waits in its
   first write for ever.
2. *A task may be lost.*  `hmr_send_task_handler` unlinks in a second loop every task in the list by then,
   also one added since the first loop (`hmr_timerfd.c:84`).  That task is never posted and never freed.
3. *The server may use a released pool.*  `on_cm_disconnected` (594) releases the pool but leaves
   `trans_state`; a later message passes `hmr_msg_check` and is copied into the released memory.
4. *The list may look empty for ever.*  `list_add_tail` reads `head->prev`, the timer removes that entry, and the new task is linked behind the
   removed one: `head->next` is the head, `head->prev` the lost task, and every later task joins behind it.  Nothing is posted
   any more.  Finding 2 loses a task even when list operations are whole; this one is of the pointers.  When the
   task is DONE the client never ends: `FinishCloses` has to except it.
5. *The completion queue is smaller than the work it serves.*  20 entries (a device may round this up) for a QP that takes 256 sends.

What the conditions of the passing properties say of the code.  Some properties hold only under a condition that the code does
not establish itself; the model contains the states outside of it, and there they fail:

- `StackHoldsWaiting` and the race the code itself notes (540, "exist concurrent error").
- `SendBuffersExclusive`: two allocations at once may share bytes, and nothing holds back a program that sends
  faster than its messages complete.
- `PostersExclusive`: with three slots taken by the epoll thread while main is between `hmr_recv_task_create` and `ibv_post_recv`, or the other way round,
  slots come back out of the order of the circle and one is handed out twice.  Two are tolerated: that is what the `num-=2` of `hmr_pre_post_recv` buys.
- `AllGreeted`: `Blocked` lists what stops the server for everyone: a CONNECT_ERROR of any client (626), a client gone before `rdma_accept` (855), the race of the accept stack, and CONNECTING
  written over CONNECTED (858) for a client whose memory region is lost.  Where the region arrives it brings RCONNECTED (274), and the overwritten state does no harm.
- `EpollNeverSpins` excepts a server whose client's MR was refused by `ibv_post_send`, which the code only logs (932): with CONNECTING written over CONNECTED
  nothing then lets DONE pass.
- `FinishCloses`: `DoneFails` lists why DONE does not come back: a failed QP, a DONE lost in a race of insertions, the waiting epoll thread just named, and a task freed twice.  In each of them the client hangs.
- `InOrder`, `OneCopy`, `GracefulClose`, `ClientResourcesLive` and the channel say nothing once a refused post has taken part of a list (`NoneTwice`).
- `UseOnlyLive`: `Unchecked` lists the calls whose failure no caller notices.  `AfterClose` lists what is used after the connection was closed: main writes
  to the freed region with the released key (finding 3), a timer event of the same batch posts on the destroyed QP.
- `FailuresKeepNothing`: `LeftBy` lists the leaks one by one.  The largest is a server's: a connect request whose handler fails, or a failing `rdma_accept`, leaves the whole transport.
- `ExitReleases`: `NeverReleased` lists what no code of a client ever gives back: the context and its epoll set, the transport with its event channel, timer and id, the pool's
  structure, and the completion queue with its channel, which `on_cm_disconnected` does not destroy.

Bounds.  A script has at most three messages, which gives one message of every type and a
message in front of and behind a write; a longer script repeats the same steps.  With failures the client only sends FINISH, which keeps the
messages of the exchange, of the close and the server's own in one list and on one wire each way; what a longer script does with failures is what the theorems say.
`MaxRefused` is 1 with failures: one list may be refused, whole or in part, and is posted again.  An MR may be refused at either end whenever it is sent.  `NumRecv` is 6 in the
code (8 slots less 2); 6 is used for the findings.  With 2 and 1 the receives run out and the sender has to
wait, and where failures are allowed its RNR retries may run out too.
HmrSendQueue has three tasks of main and DONE: enough for a list that is walked, unlinked and added to in front of, at and behind the
race.  `Prefixes = {0}` means that a refused `ibv_post_send` has taken nothing; when it has taken some requests they are posted again
at the next tick (HmrConnection contains that), and `PostedOnceInOrder` and `TimerTouchesLive` do not hold (set `Prefixes = {0, 1}` to see it).
HmrCompletion has a queue of 3 and 7 requests (the overrun run uses the sizes of the code: 20 and 256); `Total`
only bounds TLC.  The receive ring has the sizes of the code; the send region has 8 units of 24 bytes, which the client's messages of 2 and 3
units fill, pass its end and come round again.  After two allocations at once no send buffer is created any more.  Two clients give a stack
in which one is pushed over another, popped, or accepted while the other is in trouble; the two safety properties of the server are proved for any set of clients
(three clients are 1.3 million states, and their liveness takes more than the five minutes a run is kept to).  Two devices give a list with a first and a last entry, either of which
may fail to initialize; two failing calls give a cleanup that itself meets the traces of an earlier failure.  Deadlock checking is off where the
programs legitimately come to rest.

Fairness.  `FairSpec` of HmrConnection says that as long as a thread, the network or the connection manager can take a step of its own (`Progress`), one of
them is taken.  The threads are scheduled by the operating system; epoll is used
level-triggered, so a descriptor that stays ready is served again; the timer is periodic; a reliable connected QP
delivers or fails.  As every behaviour has finitely many steps, none of these can be held up by the others for ever, and one condition for all is enough, and weaker than one for each.  Failures have no fairness:
nothing is assumed to fail.  HmrServer has weak fairness of each of its two threads, and a client that is accepted confirms
or fails to; no client is assumed to ask or to leave.

## 4. What is proved

TLAPS proves, for all values of the constants that satisfy the ASSUMEs
(any scripts of the shape of `client.c` / `server.c`, any number of receives, clients and devices, with and without failures):

- `TypeCorrect`: `Spec => []TypeOK` of HmrConnection.  `TypeOK` is not inductive alone:
  a message's index must lie in the script while main is sending, so `TypeInv` adds `PosOK`.
- `WritesHaveRegion`: `Spec => []WriteNeedsPeerMr`.  The check (`hmr_msg_check`) and the use of the region
  (`hmr_timerfd.c:60`) are steps of different threads, so the invariant `RegionInv` follows the
  knowledge from the state RCONNECTED through main's position behind its check into the list and onto the wire:
  in each of these the peer's region is known, and `peer_mr` is never reset.
- `WakeupNeverLost`, `AtMostOneEvent`, `CompletionTypes` of HmrCompletion, for every size.  The invariant `Token` says that one
  token is always in exactly one place: the queue is armed, or an event waits, or the handler has taken it (or
  arming has failed).
- `ReceivesExclusive`, `PoolReceivesExclusive`, `TwoPostersExclusive`, `SendsExclusive`, `RingTypes`, `PoolTypes` (HmrMempoolProofs), for every number of slots
  and lengths of messages.  On the client the invariant `Circle` says that the slots in use are consecutive around the circle and end at the cursor, so the next slot
  is free as long as no more receives than slots are outstanding.  On the server slots are no longer in that order: `RecvInv` counts for each slot how many were
  handed out since (`Age`), and bounds this by the spare slots, what is queued behind it and what the two threads hold; a slot is handed out again when that count
  is the size of the ring, which no slot in use reaches until one thread has passed the other by more than the spare slots.
  For sends `SendInv` lays the messages in use out on an endless line by what was allocated before each (`Layout`): two of them are apart (`Apart`), whether or
  not the cursor has come round between them, as long as the bytes since the older one leave room for the longest message.
- `QueueTypes`, `PostsOnceInOrder`, `TimerStaysLive` of HmrSendQueue.  The invariant `Chain` says that what is reachable from the head through `next`,
  taken as it is when the deletion under way has ended, is the list of the tasks linked since the last successful post, in the order they were
  linked, whatever hangs off `prev`.  The last two assume `Prefixes \subseteq {0}`, a refused `ibv_post_send` has taken nothing: otherwise they do not hold (section 3, Bounds).
- `StackHolds`, `LoopEnds`, `ServerTypes` of HmrServer, for every set of clients.  `ServerTypes` also proves `HeldInv`: no thread uses a null transport, since each holds one
  wherever it uses one, after a race as well.  The invariant `StackInv`, which holds until a race: a client with a pending request
  has asked once and not been accepted (`AskInv`); who is on the stack, being pushed or popped is there once, and neither pending nor accepted (`WayInv`); a
  transport being pushed points to the head and the one being popped is the head (`TopInv`); the pointers are the stack (`Chain`).  That main leaves its
  loop only for a client that has gone follows from `WayInv` at `rdma_accept`.
- `ExchangeCorrect`, `ExchangeEndsHolds`, `WritesStayEnabledHolds` and `NeverSpins` of HmrConnection (HmrConnectionProofs).  None of the three properties
  is inductive.  `ExchangeInv` says what the connection manager still owes each end at each phase of the handshake; that before ESTABLISHED
  an end is quiet: no receive is completed at the client, nothing of the server's is on the wire but its MR; that the MR an end has been sent is in exactly
  one place (not posted, on the wire, received, handled); that the client's first message is its MR; and that the server sends its own at most once.
  `EpollNeverSpins` then follows because an MR that was not refused precedes every FINISH towards the server, so that the state is one in which DONE passes `hmr_msg_check`.
- `WritePlaceGrowsHolds`, the action property: no step moves the place of the next write back.
- `DeliveryCorrect`, `InOrderHolds`, `OneCopyHolds`, `GracefulCloseHolds` and `ClientResourcesLiveHolds` (HmrDeliveryProofs).  `DeliveryInv` places every message: a
  message that main has queued is in one of the list, the wire, the peer's completions and what has arrived, in the order of the script within each and from each to
  the next, and none is missing as long as both QPs work but what was dropped before it was posted (`Valid`, `Posted`, `Flow`); what is missing after a failure was flushed or unlinked (`Fail`); and FINISH and DONE follow
  everything their senders had to say (`Done`), so that the client's disconnect finds nothing unhandled and nothing of it runs afterwards.
- `ImplementsChannelHolds`: `Spec => ImplementsChannel`, the refinement of HmrChannel, for all scripts and failures.  `QueueEnqueue`, `QueueWrite` and `QueuePoll` show that
  main's insertion is a `Send` and that a write or a handled receive is an `Arrive` (nothing that is still in the channel is before it, by the order that `DeliveryInv`
  keeps), `QueueShrinks` that every other step adds nothing.  `ClosedStep` shows that the client closes only after FINISH and stays closed.  A refused post that takes a part of the list is a `Breaks`, after which all that is shown is that `broken` stays.  Two facts that no property needed
  before are added to `DeliveryInv` for it (`PolledInv`): no write is among the receives to be polled, and a destroyed QP has no completion left, for the handler of a late DONE
  would call `rdma_disconnect` on it.
- `DevicesLinked` of HmrResources, for every number of devices and failures: each operation of HmrList keeps the two directions of
  the list in agreement (`AddLinked`, `DeleteLinked`), also the second unlinking of a device that `list_del_init` has left alone.
- `ResourceTypes`, `DevicesListed`, `HandlersSafe`, `UsesLive`, `FailuresCleanUp` and `ExitsRelease` of HmrResources, for any number of devices and whichever calls
  fail: with `DevicesLinked` all the properties of the run on resources, from one invariant, `ResInv`.  None of them is inductive alone.  Its parts:
  - `Control` says where main, the epoll thread and the connection manager can be at once (no events of a connection before the thread runs, no release before it
    has exited), and `Before` what is not allocated yet at each place, so that a step that allocates never covers an object that is there;
  - `Ties` keeps the data of a descriptor as long as it is registered or an event of it is in the batch, and the completion queue as long as the QP that
    rests on it: `HandlersLive` follows, although the failure paths release in another order than they built;
  - `Held` says that the program has its own transport once it is made, and the connected one until it is closed (a connect request that fails forgets another one), and
    that a timer is in the epoll set only from `on_cm_established` on: with it each step of `FailuresKeepNothing` leaves what was reached reached, or named;
  - `Connection` and `UsedIsThere` say what main and the handlers rely on at each stage.  They hold unless a failure went unnoticed (`Noticed`) or the connection was closed, as the property does;
    a call on what is not there ends the behaviour in the model (`heap.misuse`), so each step may assume that nothing was misused before it;
  - `Domains` and `ClientReleases` tie protection domains to devices and regions to QPs, for the exit;
  - `DevInv` says that `dev_list` is the ring of exactly the live devices.  The steps on it use the theorems of HmrListProofs (`AddPrepends`, `DelInitRemoves`), and the
    property, that a walk from the head finds them all, is `EntriesAreNodes`.  The release unlinks a device whose pointers `LinkInv` keeps in agreement, so that both
    invariants are carried together (`ResAlways`).

  What a sequence of calls leaves is stated once (`RunLeaves`, then one lemma per function of the program that makes such a sequence): what was made before the call
  that failed, less what its error path releases.  Each function's step is then an argument about a few sets of objects.
- The circular list itself (HmrListProofs).  A list "is" a sequence when the head and its elements form the ring of its pointers.  For every list of any length:
  adding, deleting, moving, replacing and rotating give the ring of the sequence one expects (`AddTailAppends`, `DelInitRemoves`, `MoveToAnother`, `ReplaceReplaces`, ...), the
  splices join, the cut cuts (`SplicesJoin`, `CutCuts`), the tests tell (`TestsTell`), the loops visit each element once in their direction (`ForEachVisits`,
  `ForEachReverseVisits`), and the safe loops go on to the element after (before) the current one although the body has deleted it (`SafeLoopGoesOn`, `SafeReverseGoesOn`).
  What `list_for_each` visits is a recursive function of the length; the provers cannot instantiate an induction rule, so `Smallest` takes
  a least counterexample from the well-foundedness of the naturals and the proofs go on from there.

The theorems are about the modules' `Spec`; the fairness of `FairSpec` only removes behaviours.

Only model-checked: the liveness properties (`FinishCloses`, `ErrorStops`, `CompletionsPolled`, `HandlerEnds`, `AllGreeted`), which are out of the prover's reach.

## 5. Not modelled

- The limit of the arrays of work requests on the timer handler's stack (`hmr_timerfd.c:32`): nothing in the code bounds the list, so a model would only show the
  length of its script.
- The window between the first receives and `process_resp` (`server.c:47`): a message handled in it is not given to the program, and nothing promises that it is.
- What a server program does behind `disorder` with the message whose buffer was overwritten: contents of messages are not modelled.
- What a program does after a task is freed twice, and the end of the peer's region, which the cursor of the writes may pass (`hmr_timerfd.c:62`): nothing bounds it.
- RDMA reads (no program sends them), the NVM option (not compiled; its handler only
  reads its timer), logging, `hmr_get_opcode_from_msg` (called nowhere), the hash lists (`hlist`) of `linux/list.h`,
  and the empty C files.
- `infiniband/verbs.h` and `rdma/rdma_cma.h` are headers of rdma-core that declare a library: what the library does is modelled from its use and marked
  external.  These two and the hash lists are more than half of the repository's lines of code, which is why the map,
  which covers most of the program's own functions and of its list, covers a smaller part of the whole.

## 6. Plan

Done: the connection with its runs, refinement and proofs; the completion queue; the send list; the memory pool; the server with several clients; the resources with
their list.  Every safety property and the refinement are proved.
Left, in order of weight:

1. Steps of the liveness arguments that are safety facts, as theorems beside the runs: what each fairness condition needs to make progress (for `FinishCloses`, that the
   pending message, receive or event exists; for `CompletionsPolled`, the chain from a completion to the descriptor).
2. An abstract specification of the send list (a queue from which whole batches are taken), which HmrSendQueue refines.
