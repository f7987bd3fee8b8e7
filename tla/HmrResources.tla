---------------------------- MODULE HmrResources ----------------------------
(***************************************************************************)
(* What client.c and server.c allocate, register and release, over the     *)
(* life of one connection in which any call may fail.  An object is memory *)
(* or a kernel or verbs object of the device, the context or a transport;  *)
(* main sets up, accepts and releases, the epoll thread handles batches of *)
(* events in an order of its own.  Of the state of the connection only     *)
(* what lets main's hmr_rdma_send pass is here, and of a message only what *)
(* it uses: the rest is HmrConnection's.                                   *)
(***************************************************************************)
EXTENDS HmrList, Sequences, FiniteSets

CONSTANTS
  Verbs,       \* the contexts that rdma_get_devices finds, in order
  MaxFailures  \* bound: calls that fail in a behaviour

ASSUME VerbsAssumption ==
  /\ Verbs \in Seq(STRING \ {"dev_list", "poison"})
  /\ \A m, n \in DOMAIN Verbs : Verbs[m] = Verbs[n] => m = n
ASSUME FailuresAssumption == MaxFailures \in Nat

VARIABLES
  role,         \* "client" or "server"
  verbs,        \* the context that the connection manager resolves to
  dev_list,     \* the list of devices
  main,         \* where main is
  trans_state,  \* of the connected transport, as hmr_msg_check tells it
  i, pos,       \* its loops over the devices: to initialize and to release them
  cm,           \* the connection manager's next event, or what it waits for
  is_stop,      \* ctx->is_stop
  epoll,        \* whether hmr_context_run is running
  batch,        \* the events of this epoll_wait not yet handled
  heap,         \* live objects, pointers, and two histories: calls that failed,
                \* objects used or released when they were not there
  closed        \* history: on_cm_disconnected has run, or has run "early",
                \* before main had made its pool

vars == <<role, verbs, dev_list, main, trans_state, i, pos, cm, is_stop, epoll, batch, heap,
          closed>>

ListHead == "dev_list"
Poison == "poison"
Device == {Verbs[n] : n \in DOMAIN Verbs}
Node == Device \cup {ListHead, Poison}

\* The server's own transport is the listener.
Trans == {"own", "accepted"}
Connected == IF role = "client" THEN "own" ELSE "accepted"

MrKind == {"send_mr", "recv_mr", "rdma_mr"}
FdKind == {"event_fd", "comp_fd", "timer_fd"}  \* registered in the epoll set
PoolKind == MrKind \cup {"mempool", "send_region"}
TransKind == {"trans", "event_channel", "timerfd", "cm_id", "hcq", "comp_channel", "cq", "qp"}
               \cup PoolKind \cup FdKind
Object == (Device \X {"device", "pd"}) \cup ({"ctx"} \X {"ctx", "epfd"})
            \cup (Trans \X TransKind)
Ctx == <<"ctx", "ctx">>

CmState == {"none", "listening", "requested", "accepted", "up",
            "ADDR_RESOLVED", "ROUTE_RESOLVED", "CONNECT_REQUEST",
            "ESTABLISHED", "CONNECT_ERROR", "DISCONNECTED"}

TypeOK ==
  /\ role \in {"client", "server"}
  /\ verbs \in Device
  /\ dev_list \in List(Node)
  /\ main \in {"init", "context", "create", "connect", "thread", "run", "pool",
               "send", "join", "release", "exited"}
  /\ trans_state \in {"CONNECTING", "CONNECTED", "ERROR"}
  /\ i \in 1 .. Len(Verbs) + 1
  /\ pos \in Node
  /\ cm \in CmState
  /\ is_stop \in BOOLEAN
  /\ epoll \in {"off", "on", "exited"}
  /\ batch \in SUBSET (Trans \X FdKind)
  /\ heap.live \subseteq Object /\ heap.ptr \subseteq Object
  /\ heap.misuse \subseteq Object
  /\ closed \in {"no", "yes", "early"}

Init ==
  /\ role \in {"client", "server"}
  /\ verbs \in Device
  /\ dev_list = [next |-> [x \in Node |-> x], prev |-> [x \in Node |-> x]]
  /\ main = "init"
  /\ trans_state = "CONNECTING"
  /\ i = 1
  /\ pos = ListHead
  /\ cm = "none"
  /\ is_stop = FALSE
  /\ epoll = "off"
  /\ batch = {}
  /\ heap = [live |-> {}, ptr |-> {}, failed |-> {}, misuse |-> {}]
  /\ closed = "no"

-----------------------------------------------------------------------------
(* Objects. *)

Of(t, kinds) == {t} \X kinds

Use(h, objs) == [h EXCEPT !.misuse = @ \cup (objs \ h.live)]
Free(h, objs) == [Use(h, objs) EXCEPT !.live = @ \ objs]
Point(h, objs) == [h EXCEPT !.ptr = @ \cup objs]
Fail(h, name) == [h EXCEPT !.failed = @ \cup {name}]

\* Nothing the program goes through leads to the transport any more.
Forget(h, t) == [h EXCEPT !.ptr = @ \ Of(t, {"trans"})]

\* A call of a function that builds objects one by one: what it makes, and
\* what the labels it goes to release when it fails.
Call(name, makes, cleans) == [name |-> name, makes |-> makes, cleans |-> cleans]

\* The ways a sequence of calls can end: all succeed, or one fails.
Ends(h, calls) ==
  {Len(calls) + 1} \cup (IF Cardinality(h.failed) < MaxFailures THEN DOMAIN calls ELSE {})
Done(calls, k) == k > Len(calls)

Run(h, t, calls, k) ==
  LET made == UNION {Of(t, calls[n].makes) : n \in 1 .. k - 1}
      g == [h EXCEPT !.live = @ \cup made]
  IN  IF Done(calls, k) THEN g
      ELSE Free([g EXCEPT !.failed = @ \cup {calls[k].name}], Of(t, calls[k].cleans))

BugRegionCleanup == {"mempool"}
BugReleasedMrs == {"send_mr", "rdma_mr"}
BugQpCleanup == {"hcq", "qp"}
BugDisconnectFrees == {"qp", "hcq"}
BugAddsAnyway(ok) == TRUE
BugTwoTimers ==
  << Call("timerfd_create", {"timerfd"}, {}), Call("snb_create", {"snb_timerfd"}, {}) >>

\* hmr_rdma_dev_init.
DevInit ==
  << Call("calloc_device", {"device"}, {}),
     Call("query_device", {}, {"device"}),
     Call("alloc_pd", {"pd"}, {"device"}) >>

\* hmr_context_create.
ContextCreate == << Call("calloc_ctx", {"ctx"}, {}), Call("epoll_create", {"epfd"}, {"ctx"}) >>

\* hmr_mempool_create: what is released from label cleansendregion on, and the
\* registration that fails is the one that is deregistered.
RegionCleanup == {"send_region", "mempool"}
MempoolCreate ==
  << Call("calloc_mempool", {"mempool"}, {}),
     Call("malloc_region", {"send_region"}, {"mempool"}),
     Call("reg_send_mr", {"send_mr"}, RegionCleanup),
     Call("reg_recv_mr", {"recv_mr"}, RegionCleanup \cup {"send_mr"}),
     Call("reg_rdma_mr", {"rdma_mr"}, RegionCleanup \cup {"send_mr", "rdma_mr"}) >>

\* hmr_cq_get and the rest of hmr_qp_create.
QpCleanup == {"hcq"}
QpCreate ==
  << Call("calloc_hcq", {"hcq"}, {}),
     Call("create_comp_channel", {"comp_channel"}, {"hcq"}),
     Call("comp_fcntl", {}, {"comp_channel", "hcq"}),
     Call("add_comp_fd", {"comp_fd"}, {"comp_channel", "hcq"}),
     Call("create_cq", {"cq"}, {"comp_fd", "comp_channel", "hcq"}),
     Call("req_notify_cq", {}, {"comp_fd", "comp_channel", "hcq"}),
     Call("create_qp", {"qp"}, QpCleanup) >>

\* hmr_rdma_event_channel_init, whose failure to register is not checked, and
\* hmr_timerfd_create.
EventChannelInit ==
  << Call("create_event_channel", {"event_channel"}, {}),
     Call("event_fcntl", {}, {"event_channel"}),
     Call("add_event_fd", {"event_fd"}, {}) >>
TimerfdCreate == << Call("timerfd_create", {"timerfd"}, {}), Call("settime", {}, {}) >>

\* hmr_rdma_connect, with the checks of its arguments, and hmr_rdma_listen.
Connect ==
  << Call("peer_address", {}, {}), Call("create_id", {"cm_id"}, {}),
     Call("resolve_addr", {}, {"cm_id"}) >>
Listen ==
  << Call("create_id", {"cm_id"}, {}), Call("bind_addr", {}, {"cm_id"}),
     Call("listen", {}, {"cm_id"}) >>

\* One call.
Single(name, makes) == << Call(name, makes, {}) >>

\* hmr_rdma_create goes on whatever becomes of the event channel and the timer;
\* the pointer to a channel destroyed again stays.
Created(h, t) ==
  {Run(h, t, Single("calloc_trans", {"trans"}), k) :
     k \in Ends(h, Single("calloc_trans", {"trans"})) \ {2}}
  \cup
  LET allocated == Point(Run(h, t, Single("calloc_trans", {"trans"}), 2), Of(t, {"trans"}))
      WithChannel(k) ==
        Point(Use(Run(allocated, t, EventChannelInit, k), IF k > 2 THEN {Ctx} ELSE {}),
              IF k > 1 THEN Of(t, {"event_channel"}) ELSE {})
      WithTimer(g, k) ==
        Point(Run(g, t, TimerfdCreate, k),
              IF Done(TimerfdCreate, k) THEN Of(t, {"timerfd"}) ELSE {})
  IN  UNION {{WithTimer(WithChannel(k), j) : j \in Ends(WithChannel(k), TimerfdCreate)} :
               k \in Ends(allocated, EventChannelInit)}

-----------------------------------------------------------------------------
(* Main. *)

AddsDevice(ok) == ok

\* hmr_rdma_init_handle, one device.
InitDevice ==
  /\ main = "init"
  /\ IF i \in DOMAIN Verbs
     THEN \E k \in Ends(heap, DevInit) :
            /\ heap' = Run(heap, Verbs[i], DevInit, k)
            /\ dev_list' = IF AddsDevice(Done(DevInit, k))
                           THEN ListAdd(InitListHead(dev_list, Verbs[i]), Verbs[i], ListHead)
                           ELSE dev_list
            /\ i' = i + 1
            /\ UNCHANGED main
     ELSE main' = "context" /\ UNCHANGED <<heap, dev_list, i>>
  /\ UNCHANGED <<role, verbs, trans_state, pos, cm, is_stop, epoll, batch, closed>>

CreateContext ==
  /\ main = "context"
  /\ main' = "create"
  /\ \E k \in Ends(heap, ContextCreate) : heap' = Run(heap, "ctx", ContextCreate, k)
  /\ UNCHANGED <<role, verbs, dev_list, trans_state, i, pos, cm, is_stop, epoll, batch, closed>>

\* Both programs use what hmr_rdma_create returns without a check.
CreateTrans ==
  /\ main = "create"
  /\ main' = "connect"
  /\ \E h \in Created(heap, "own") : heap' = Use(h, Of("own", {"trans"}))
  /\ UNCHANGED <<role, verbs, dev_list, trans_state, i, pos, cm, is_stop, epoll, batch, closed>>

\* hmr_rdma_connect or hmr_rdma_listen, whose results are ignored.  Without an
\* event channel (a null pointer) an id is synchronous and raises no event.
ConnectOrListen ==
  /\ main = "connect"
  /\ main' = "thread"
  /\ LET calls == IF role = "client" THEN Connect ELSE Listen
         channel == Of("own", {"event_channel"}) \cap heap.ptr
     IN  \E k \in Ends(heap, calls) :
           /\ heap' = LET h == Use(Run(heap, "own", calls, k), channel)
                      IN  IF Done(calls, k) THEN Point(h, Of("own", {"cm_id"})) ELSE h
           /\ cm' = IF Done(calls, k) /\ channel # {}
                    THEN IF role = "client" THEN "ADDR_RESOLVED" ELSE "listening"
                    ELSE "none"
  /\ UNCHANGED <<role, verbs, dev_list, trans_state, i, pos, is_stop, epoll, batch, closed>>

\* pthread_create; on an error the program returns.
StartThread ==
  /\ main = "thread"
  /\ LET calls == Single("pthread_create", {})
     IN  \E k \in Ends(heap, calls) :
           /\ heap' = Use(Run(heap, "ctx", calls, k), {Ctx})
           /\ main' = IF ~Done(calls, k) THEN "exited"
                      ELSE IF role = "client" THEN "send" ELSE "run"
           /\ epoll' = IF Done(calls, k) THEN "on" ELSE "off"
  /\ UNCHANGED <<role, verbs, dev_list, trans_state, i, pos, cm, is_stop, batch, closed>>

\* hmr_rdma_accept up to rdma_accept: a transport that is not accepted has left
\* the stack.
Accept ==
  /\ main = "run"
  /\ cm = "requested"
  /\ LET calls == Single("accept", {})
     IN  \E k \in Ends(heap, calls) :
           /\ heap' = IF Done(calls, k) THEN heap
                      ELSE Forget(Run(heap, "accepted", calls, k), "accepted")
           /\ main' = IF Done(calls, k) THEN "pool" ELSE "join"
           /\ cm' = IF Done(calls, k) THEN "accepted" ELSE "none"
  /\ UNCHANGED <<role, verbs, dev_list, trans_state, i, pos, is_stop, epoll, batch, closed>>

\* The pool of a transport; hmr_pre_post_recv takes its pointer as it comes.
WithPool(h, t, k) ==
  LET g == Run(Use(h, {<<verbs, "pd">>}), t, MempoolCreate, k)
  IN  IF Done(MempoolCreate, k) THEN Point(g, Of(t, {"mempool"})) ELSE g

\* The rest of it.  The state may have gone further and is set back.
Prepare ==
  /\ main = "pool"
  /\ main' = "send"
  /\ trans_state' = "CONNECTING"
  /\ \E k \in Ends(heap, MempoolCreate) :
       heap' = Use(WithPool(heap, "accepted", k), Of("accepted", {"mempool", "qp"}))
  /\ UNCHANGED <<role, verbs, dev_list, i, pos, cm, is_stop, epoll, batch, closed>>

\* hmr_rdma_send of main, once hmr_msg_check lets it pass: the message is written
\* to the region, with its key, whatever has become of them.  A server sends one
\* message, a client several.
Send ==
  /\ main = "send"
  /\ trans_state # "CONNECTING"
  /\ heap' = IF trans_state = "CONNECTED"
             THEN Use(heap, Of(Connected, {"mempool", "send_region", "send_mr"})) ELSE heap
  /\ main' \in IF role = "server" THEN {"run"} ELSE {"send", "join"}
  /\ UNCHANGED <<role, verbs, dev_list, trans_state, i, pos, cm, is_stop, epoll, batch, closed>>

\* pthread_join; the server's returns and its loop over the devices follow in
\* the same way.
Join ==
  /\ main = "join"
  /\ epoll = "exited"
  /\ main' = "release"
  /\ pos' = dev_list.next[ListHead]
  /\ UNCHANGED <<role, verbs, dev_list, trans_state, i, cm, is_stop, epoll, batch, heap, closed>>

\* hmr_rdma_release_handle, one device: unlinked, and unlinked once more in
\* hmr_rdma_dev_release.  A protection domain in use is not deallocated.
OnPd == IF verbs = pos THEN (Trans \X (MrKind \cup {"qp"})) \cap heap.live ELSE {}

ReleaseDevice ==
  /\ main = "release"
  /\ IF pos # ListHead
     THEN /\ pos' = dev_list.next[pos]
          /\ dev_list' = ListDel(ListDelInit(dev_list, pos), pos, Poison)
          /\ heap' = Free(heap, {<<pos, "device">>} \cup
                                  (IF OnPd = {} THEN {<<pos, "pd">>} ELSE {}))
          /\ UNCHANGED main
     ELSE main' = "exited" /\ UNCHANGED <<pos, dev_list, heap>>
  /\ UNCHANGED <<role, verbs, trans_state, i, cm, is_stop, epoll, batch, closed>>

-----------------------------------------------------------------------------
(* The epoll thread: hmr_context_run. *)

CmPending == cm \in {"ADDR_RESOLVED", "ROUTE_RESOLVED", "CONNECT_REQUEST",
                     "ESTABLISHED", "CONNECT_ERROR", "DISCONNECTED"}

\* All connection manager events come through the own transport's channel; a
\* completion queue raises events once a QP uses it.
Ready ==
  {fd \in heap.live \cap (Trans \X FdKind) :
     CASE fd[2] = "event_fd" -> fd[1] = "own" /\ CmPending
       [] fd[2] = "comp_fd" -> Of(fd[1], {"cq", "qp"}) \subseteq heap.live
       [] fd[2] = "timer_fd" -> TRUE}

\* The data a handler is registered with.
Data(fd) ==
  <<fd[1], CASE fd[2] = "event_fd" -> "event_channel"
             [] fd[2] = "comp_fd" -> "hcq"
             [] fd[2] = "timer_fd" -> "trans">>

EpollWait ==
  /\ epoll = "on"
  /\ batch = {}
  /\ ~is_stop
  /\ batch' \in SUBSET Ready \ {{}}
  /\ UNCHANGED <<role, verbs, dev_list, main, trans_state, i, pos, cm, is_stop, epoll, heap,
                 closed>>

Handle(fd) == fd \in batch /\ batch' = batch \ {fd}

\* The two QPs are connected.
Connects == cm \in {"ESTABLISHED", "up", "DISCONNECTED"}

\* hmr_cq_comp_channel_handler: what it polls may be a message, for which a
\* buffer is posted and to which an MR or a DONE may be the answer, and may be
\* the peer's MR.
Completion(t) ==
  /\ Handle(<<t, "comp_fd">>)
  /\ LET polled == Use(heap, Of(t, {"hcq", "comp_channel", "cq"}))
     IN  \/ heap' = polled /\ UNCHANGED trans_state
         \/ /\ t = Connected /\ Connects /\ Of(t, {"mempool"}) \subseteq heap.ptr
            /\ heap' = Use(polled, Of(t, PoolKind \cup {"qp"}))
            /\ trans_state' \in {trans_state, "CONNECTED"}
  /\ UNCHANGED <<role, verbs, dev_list, main, i, pos, cm, is_stop, epoll, closed>>

\* hmr_send_task_handler: with nothing queued, or with a list that it posts.
Timer(t) ==
  /\ Handle(<<t, "timer_fd">>)
  /\ \E kinds \in {{"trans"}, {"trans", "qp"}} : heap' = Use(heap, Of(t, kinds))
  /\ UNCHANGED <<role, verbs, dev_list, main, trans_state, i, pos, cm, is_stop, epoll, closed>>

\* hmr_rdma_event_channel_handler.
HandleCm(event) ==
  /\ Handle(<<"own", "event_fd">>)
  /\ cm = event

\* hmr_device_lookup.
Found == verbs \in Entries(dev_list, ListHead, Len(Verbs))

\* on_cm_addr_resolved.  A pool that cannot be made is not noticed here.
AddrResolved ==
  /\ HandleCm("ADDR_RESOLVED")
  /\ LET route == Single("resolve_route", {})
     IN  IF Found
         THEN \E k \in Ends(heap, MempoolCreate) :
                \E j \in Ends(WithPool(heap, "own", k), route) :
                  /\ heap' = Run(WithPool(heap, "own", k), "own", route, j)
                  /\ cm' = IF Done(route, j) THEN "ROUTE_RESOLVED" ELSE "none"
         ELSE cm' = "none" /\ heap' = Fail(heap, "lookup")
  /\ UNCHANGED <<role, verbs, dev_list, main, trans_state, i, pos, is_stop, epoll, closed>>

WithQp(h, t, k) ==
  LET g == Run(h, t, QpCreate, k)
  IN  IF Done(QpCreate, k) THEN Point(g, Of(t, {"hcq", "qp"})) ELSE g

\* hmr_qp_release.
WithoutQp(h, t) ==
  [Free(h, Of(t, {"qp", "cq", "comp_fd", "hcq"})) EXCEPT !.ptr = @ \ Of(t, {"hcq"})]

\* on_cm_route_resolved.  The peer answers, or the handshake fails.
RouteResolved ==
  /\ HandleCm("ROUTE_RESOLVED")
  /\ \E k \in Ends(heap, QpCreate) :
       LET h == WithQp(heap, "own", k)
           connect == Single("connect", {})
       IN  IF Done(QpCreate, k)
           THEN \E j \in Ends(h, connect) :
                  IF Done(connect, j)
                  THEN /\ heap' = Use(h, Of("own", {"mempool", "qp"}))
                       /\ cm' \in {"ESTABLISHED", "CONNECT_ERROR"}
                       /\ UNCHANGED <<is_stop, trans_state>>
                  ELSE /\ heap' = WithoutQp(Run(h, "own", connect, j), "own")
                       /\ cm' = "none"
                       /\ is_stop' = TRUE
                       /\ trans_state' = "ERROR"
           ELSE heap' = h /\ cm' = "none" /\ UNCHANGED <<is_stop, trans_state>>
  /\ UNCHANGED <<role, verbs, dev_list, main, i, pos, epoll, closed>>

\* on_cm_connect_request: a transport of the event's id, with its QP, for the
\* accept stack, or for nobody.
ConnectRequest ==
  /\ HandleCm("CONNECT_REQUEST")
  /\ \E h \in Created([heap EXCEPT !.live = @ \cup Of("accepted", {"cm_id"})], "accepted") :
       LET named == Point(h, Of("accepted", {"cm_id"}))
       IN  IF <<"accepted", "trans">> \notin h.live
           THEN heap' = h /\ cm' = "none"
           ELSE IF ~Found
           THEN heap' = Forget(Fail(named, "lookup"), "accepted") /\ cm' = "none"
           ELSE \E k \in Ends(named, QpCreate) :
                  LET g == WithQp(named, "accepted", k)
                  IN  IF Done(QpCreate, k)
                      THEN heap' = g /\ cm' = "requested"
                      ELSE heap' = Forget(g, "accepted") /\ cm' = "none"
  /\ UNCHANGED <<role, verbs, dev_list, main, trans_state, i, pos, is_stop, epoll, closed>>

\* on_cm_established: the client's MR goes out, the timer joins the epoll set.
Established ==
  /\ HandleCm("ESTABLISHED")
  /\ cm' = "up"
  /\ trans_state' = "CONNECTED"
  /\ LET h == IF role = "client" THEN Use(heap, Of("own", PoolKind \cup {"qp"})) ELSE heap
         add == Single("add_timer_fd", {"timer_fd"})
     IN  IF Of(Connected, {"timerfd"}) \subseteq h.ptr
         THEN \E k \in Ends(h, add) : heap' = Run(h, Connected, add, k)
         ELSE heap' = h
  /\ UNCHANGED <<role, verbs, dev_list, main, i, pos, is_stop, epoll, closed>>

ConnectError ==
  /\ HandleCm("CONNECT_ERROR")
  /\ cm' = "none"
  /\ is_stop' = TRUE
  /\ trans_state' = "ERROR"
  /\ UNCHANGED <<role, verbs, dev_list, main, i, pos, epoll, heap, closed>>

\* on_cm_disconnected: what it destroys of the connection, and what
\* hmr_mempool_release releases unless there is no pool.
DisconnectFrees == {"qp"}
ReleasedMrs == {"send_mr", "recv_mr", "rdma_mr"}

Disconnected ==
  /\ HandleCm("DISCONNECTED")
  /\ cm' = "none"
  /\ LET t == Connected
         printed == IF role = "server" THEN Use(heap, Of(t, {"mempool"})) ELSE heap
         pool == IF Of(t, {"mempool"}) \subseteq printed.ptr
                 THEN ReleasedMrs \cup {"send_region"} ELSE {}
         freed == Free(printed, Of(t, DisconnectFrees \cup pool))
     IN  heap' = [Use(freed, Of(t, {"hcq", "comp_channel", "event_channel"}))
                    EXCEPT !.live = @ \ Of(t, FdKind)]
  /\ closed' = IF main = "pool" THEN "early" ELSE "yes"
  /\ is_stop' = (is_stop \/ role = "client")
  /\ UNCHANGED <<role, verbs, dev_list, main, trans_state, i, pos, epoll>>

LoopExit ==
  /\ epoll = "on"
  /\ batch = {}
  /\ is_stop
  /\ epoll' = "exited"
  /\ UNCHANGED <<role, verbs, dev_list, main, trans_state, i, pos, cm, is_stop, batch, heap,
                 closed>>

-----------------------------------------------------------------------------
\* The connection manager: a client asks, confirms or fails to, and leaves.
CmEvents ==
  /\ \/ cm = "listening" /\ cm' = "CONNECT_REQUEST"
     \/ cm = "accepted" /\ cm' \in {"ESTABLISHED", "CONNECT_ERROR"}
     \/ cm = "up" /\ cm' = "DISCONNECTED"
  /\ UNCHANGED <<role, verbs, dev_list, main, trans_state, i, pos, is_stop, epoll, batch,
                 heap, closed>>

Main ==
  \/ InitDevice \/ CreateContext \/ CreateTrans \/ ConnectOrListen \/ StartThread
  \/ Accept \/ Prepare \/ Send \/ Join \/ ReleaseDevice

Epoll ==
  \/ EpollWait \/ LoopExit
  \/ AddrResolved \/ RouteResolved \/ ConnectRequest
  \/ Established \/ ConnectError \/ Disconnected
  \/ \E t \in Trans : Completion(t) \/ Timer(t)

\* Nothing is said of a program that has used an object that was not there.
Next == heap.misuse = {} /\ (Main \/ Epoll \/ CmEvents)

Spec == Init /\ [][Next]_vars

-----------------------------------------------------------------------------
(* Properties. *)

\* The devices in dev_list are the ones that live, whichever of them failed to
\* initialize, and while they are released, each unlinked twice.
DevListHoldsDevices ==
  Entries(dev_list, ListHead, Len(Verbs) + 1) =
    {d \in Device : <<d, "device">> \in heap.live}

\* The pointers of the list agree in both directions wherever the failures and
\* the release have left it, and the release never walks to an unlinked device.
DevListLinked ==
  /\ \A x \in Node :
       /\ dev_list.next[x] # Poison => dev_list.prev[dev_list.next[x]] = x
       /\ dev_list.prev[x] # Poison => dev_list.next[dev_list.prev[x]] = x
  /\ main = "release" => pos # Poison

\* No handler ever runs on data that is gone, neither an event that is ready
\* nor a later one of the same batch: not even after hmr_qp_create has freed an
\* hmr_cq whose channel stays in the epoll set, since no QP uses its queue.
HandlersLive == \A fd \in batch \cup Ready : Data(fd) \in heap.live

\* The calls whose failure no caller notices.
Unchecked ==
  {"calloc_ctx", "epoll_create", "calloc_trans", "create_event_channel", "event_fcntl"}
    \cup {MempoolCreate[n].name : n \in DOMAIN MempoolCreate}

\* Every other failure is handled, nothing else is used or released that is not
\* there, but in a server whose client leaves before it has a pool, and after
\* on_cm_disconnected has run: main may write to the region it has freed, and a
\* timer event of the same batch post on the QP it has destroyed.
AfterClose == Of(Connected, {"send_region", "send_mr", "qp"})

UseOnlyLive ==
  heap.misuse # {} =>
    \/ heap.failed \cap Unchecked # {}
    \/ closed = "early"
    \/ closed = "yes" /\ heap.misuse \subseteq AfterClose

\* What hangs on a pointer of the transport.
Root(kind) ==
  IF kind \in PoolKind THEN "mempool"
  ELSE IF kind \in {"comp_channel", "cq", "comp_fd"} THEN "hcq"
  ELSE IF kind = "event_fd" THEN "event_channel"
  ELSE IF kind = "timer_fd" THEN "timerfd" ELSE kind

\* The program still has the transport and, in it, the pointer.
Reached(t, kind) == Of(t, {"trans", Root(kind)}) \subseteq heap.ptr

\* What an accepted transport has before its QP, and with it.
NewTrans == {"trans", "event_channel", "event_fd", "timerfd", "cm_id"}
QpKind == {"hcq", "comp_channel", "comp_fd", "cq", "qp"}

QpCalls == {QpCreate[n].name : n \in DOMAIN QpCreate}

\* What the failure of a call leaves behind of a transport.
LeftBy(t, call) ==
  {kind \in TransKind :
     \/ call = "reg_rdma_mr" /\ kind = "recv_mr"
     \/ call = "settime" /\ kind = "timerfd"
     \/ call = "req_notify_cq" /\ kind = "cq"
     \/ call = "create_qp" /\ kind \in {"cq", "comp_channel", "comp_fd"}
     \/ call = "connect" /\ kind = "comp_channel"
     \/ /\ t = "accepted"
        /\ \/ call = "calloc_trans" /\ kind = "cm_id"
           \/ call \in QpCalls \cup {"lookup"} /\ kind \in NewTrans
           \/ call = "accept" /\ kind \in NewTrans \cup QpKind}

\* Whatever fails, the program can still reach all that lives, but for these:
\* a server above all loses the whole transport of a client it does not get to
\* accept.
FailuresKeepNothing ==
  \A t \in Trans, kind \in TransKind :
    <<t, kind>> \in heap.live =>
      Reached(t, kind) \/ \E call \in heap.failed : kind \in LeftBy(t, call)

\* What a client never releases: on_cm_disconnected leaves the completion queue
\* and its channel, and the program ends without a hmr_rdma_destroy.
NeverReleased ==
  {Ctx, <<"ctx", "epfd">>}
    \cup Of("own", {"trans", "event_channel", "timerfd", "cm_id", "mempool",
                    "hcq", "comp_channel", "cq"})

\* A client that has met no failure and ends with its connection closed has
\* given back all the rest: its regions, its QP, its descriptors in the epoll
\* set and every device.
ExitReleases ==
  main = "exited" /\ role = "client" /\ heap.failed = {} /\ <<"own", "qp">> \notin heap.live =>
    heap.live \subseteq NeverReleased
=============================================================================
