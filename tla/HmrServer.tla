----------------------------- MODULE HmrServer -----------------------------
(***************************************************************************)
(* server.c with several clients.  The epoll thread handles the connection *)
(* manager's events of all of them, on the listener's channel, and pushes  *)
(* a transport for each request on the listener's accept stack; main pops  *)
(* the stack, accepts and greets one client after the other.  The stack    *)
(* has no lock: a step makes one access to its head.                       *)
(***************************************************************************)
EXTENDS Naturals, Sequences

CONSTANTS
  Client,   \* the clients, each of which connects once
  NULL,
  MayFail   \* whether clients, handshakes and handlers may fail

ASSUME ClientAssumption == NULL \notin Client /\ MayFail \in BOOLEAN

VARIABLES
  accept_rdma_trans,  \* of the listener (NULL as the index) and of each client's transport
  trans_state,        \* of each client's transport
  mr,                 \* what becomes of the memory region each client sends
  main, accepted,     \* where main is, and its accept_rdma_trans while it uses it
  next,               \* the listener's next head, read by main
  epoll, request,     \* where the epoll thread is, and the transport it pushes
  is_stop,            \* ctx->is_stop
  cm, cm_events,      \* the connection manager
  waiting,            \* history: the transports on the stack, top first (until a race)
  greeted,            \* history: the clients that hmr_rdma_send has greeted
  refused,            \* history: the clients whose request's handler failed
  raced               \* history: main was popping while epoll was pushing

stackVars == <<accept_rdma_trans, waiting, raced>>
mainVars == <<main, accepted, next, greeted>>
epollVars == <<epoll, request, is_stop, refused>>
cmVars == <<cm, cm_events>>
vars == <<stackVars, trans_state, mr, mainVars, epollVars, cmVars>>

Trans == Client \cup {NULL}
CmEvent == {"CONNECT_REQUEST", "ESTABLISHED", "CONNECT_ERROR", "DISCONNECTED"}

TypeOK ==
  /\ accept_rdma_trans \in [Trans -> Trans]
  /\ trans_state \in [Client -> {"INIT", "CONNECTING", "CONNECTED", "RCONNECTED", "ERROR"}]
  /\ mr \in [Client -> {"due", "lost", "handled"}]
  /\ main \in {"wait", "top", "pop", "clear", "accept", "connecting", "send", "join", "exited"}
  /\ accepted \in Trans
  /\ next \in Trans
  /\ epoll \in {"idle", "push", "exited"}
  /\ request \in Trans
  /\ is_stop \in BOOLEAN
  /\ cm \in [Client -> {"away", "requested", "gone", "accepted", "up", "failed", "down"}]
  /\ cm_events \in Seq(CmEvent \X Client)
  /\ waiting \in Seq(Client)
  /\ greeted \in SUBSET Client
  /\ refused \in SUBSET Client
  /\ raced \in BOOLEAN

Init ==
  /\ accept_rdma_trans = [t \in Trans |-> NULL]
  /\ trans_state = [c \in Client |-> "INIT"]
  /\ mr = [c \in Client |-> "due"]
  /\ main = "wait" /\ accepted = NULL /\ next = NULL
  /\ epoll = "idle" /\ request = NULL
  /\ is_stop = FALSE
  /\ cm = [c \in Client |-> "away"]
  /\ cm_events = << >>
  /\ waiting = << >>
  /\ greeted = {}
  /\ refused = {}
  /\ raced = FALSE

-----------------------------------------------------------------------------
(* Main: hmr_rdma_accept and the loop of server.c. *)

BugKeepsHead(t, below) == t

\* The listener's head once a transport is popped.
HeadAfterPop(t, below) == below

Goto(from, to) == main = from /\ main' = to

\* while(!rdma_trans->accept_rdma_trans);
Discover ==
  /\ Goto("wait", "top")
  /\ accept_rdma_trans[NULL] # NULL
  /\ UNCHANGED <<stackVars, trans_state, mr, accepted, next, greeted, epollVars, cmVars>>

\* accept_rdma_trans=rdma_trans->accept_rdma_trans, and the read of the entry
\* below, whose own pointer no other thread writes any more.
ReadTop ==
  /\ Goto("top", "pop")
  /\ accepted' = accept_rdma_trans[NULL]
  /\ next' = accept_rdma_trans[accept_rdma_trans[NULL]]
  /\ raced' = (raced \/ epoll = "push")
  /\ UNCHANGED <<accept_rdma_trans, waiting, trans_state, mr, greeted, epollVars, cmVars>>

\* rdma_trans->accept_rdma_trans=accept_rdma_trans->accept_rdma_trans.
Pop ==
  /\ Goto("pop", "clear")
  /\ accept_rdma_trans' =
       [accept_rdma_trans EXCEPT ![NULL] = HeadAfterPop(accepted, next)]
  /\ waiting' = IF waiting = << >> THEN waiting ELSE Tail(waiting)
  /\ next' = NULL
  /\ UNCHANGED <<raced, trans_state, mr, accepted, greeted, epollVars, cmVars>>

\* accept_rdma_trans->accept_rdma_trans=NULL.
Clear ==
  /\ Goto("clear", "accept")
  /\ accept_rdma_trans' = [accept_rdma_trans EXCEPT ![accepted] = NULL]
  /\ UNCHANGED <<waiting, raced, trans_state, mr, accepted, next, greeted, epollVars, cmVars>>

\* rdma_accept: an error, for a client that has gone or one already accepted,
\* ends the server's loop.
Accept ==
  /\ main = "accept"
  /\ IF cm[accepted] = "requested"
     THEN main' = "connecting" /\ cm' = [cm EXCEPT ![accepted] = "accepted"]
     ELSE main' = "join" /\ UNCHANGED cm
  /\ UNCHANGED <<stackVars, trans_state, mr, accepted, next, greeted, epollVars, cm_events>>

\* The state is set after rdma_accept, over what the epoll thread made of it;
\* then the memory pool and the receives.
SetConnecting ==
  /\ Goto("connecting", "send")
  /\ trans_state' = [trans_state EXCEPT ![accepted] = "CONNECTING"]
  /\ UNCHANGED <<stackVars, mr, accepted, next, greeted, epollVars, cmVars>>

\* The states in which hmr_msg_check lets the greeting through; in ERROR
\* hmr_rdma_send gives it up, and the loop goes on in either case.
ReadyStates == {"CONNECTED", "SCONNECTED", "RCONNECTED"}

Greet ==
  /\ Goto("send", "wait")
  /\ \/ /\ trans_state[accepted] \in ReadyStates
        /\ greeted' = greeted \cup {accepted}
     \/ trans_state[accepted] = "ERROR" /\ UNCHANGED greeted
  /\ accepted' = NULL
  /\ UNCHANGED <<stackVars, trans_state, mr, next, epollVars, cmVars>>

\* pthread_join.
Join ==
  /\ Goto("join", "exited")
  /\ epoll = "exited"
  /\ UNCHANGED <<stackVars, trans_state, mr, accepted, next, greeted, epollVars, cmVars>>

-----------------------------------------------------------------------------
(* The epoll thread: hmr_rdma_event_channel_handler. *)

\* rdma_get_cm_event.  When is_stop is set no more events are taken.
TakeEvent(c, event) ==
  /\ epoll = "idle"
  /\ ~is_stop
  /\ cm_events # << >>
  /\ Head(cm_events) = <<event, c>>
  /\ cm_events' = Tail(cm_events)

\* on_cm_connect_request.  A handler that fails ends the batch: the events
\* behind it wait for the next epoll_wait.  It answers the client nothing.
ConnectRequest(c) ==
  /\ TakeEvent(c, "CONNECT_REQUEST")
  /\ \E ok \in (IF MayFail THEN BOOLEAN ELSE {TRUE}) :
       IF ok
       THEN /\ epoll' = "push"
            /\ request' = c
            /\ accept_rdma_trans' =
                 [accept_rdma_trans EXCEPT ![c] = accept_rdma_trans[NULL]]
            /\ raced' = (raced \/ main = "pop")
            /\ UNCHANGED refused
       ELSE /\ refused' = refused \cup {c}
            /\ UNCHANGED <<epoll, request, accept_rdma_trans, raced>>
  /\ UNCHANGED <<waiting, trans_state, mr, mainVars, is_stop, cm>>

\* rdma_trans->accept_rdma_trans=accept_rdma_trans.
Push ==
  /\ epoll = "push"
  /\ epoll' = "idle"
  /\ accept_rdma_trans' = [accept_rdma_trans EXCEPT ![NULL] = request]
  /\ waiting' = <<request>> \o waiting
  /\ request' = NULL
  /\ UNCHANGED <<raced, trans_state, mr, mainVars, is_stop, refused, cmVars>>

\* on_cm_established.
Established(c) ==
  /\ TakeEvent(c, "ESTABLISHED")
  /\ trans_state' = [trans_state EXCEPT ![c] = "CONNECTED"]
  /\ UNCHANGED <<stackVars, mr, mainVars, epollVars, cm>>

BugOtherState == "DISCONNECTED"

\* The context, which serves every client, stops on RDMA_CM_EVENT_CONNECT_ERROR,
\* and on DISCONNECTED only in a client.
Stops(event) == event = "CONNECT_ERROR"
FailedState == "ERROR"

ConnectError(c) ==
  /\ TakeEvent(c, "CONNECT_ERROR")
  /\ is_stop' = (is_stop \/ Stops("CONNECT_ERROR"))
  /\ trans_state' = [trans_state EXCEPT ![c] = FailedState]
  /\ UNCHANGED <<stackVars, mr, mainVars, epoll, request, refused, cm>>

\* on_cm_disconnected, whose release of the transport HmrResources models.  A
\* region that has not been handled goes with the QP.
Disconnected(c) ==
  /\ TakeEvent(c, "DISCONNECTED")
  /\ is_stop' = (is_stop \/ Stops("DISCONNECTED"))
  /\ mr' = [mr EXCEPT ![c] = IF @ = "due" THEN "lost" ELSE @]
  /\ UNCHANGED <<stackVars, trans_state, mainVars, epoll, request, refused, cm>>

BugOnlyFromConnected(state) == IF state = "CONNECTED" THEN "RCONNECTED" ELSE state

\* hmr_wc_success_handler on the MR of an accepted client: RCONNECTED, whatever
\* the state was.  It needs a receive, and main posts them after it has set
\* CONNECTING.  (In CONNECTED the handler sends the server's own region before,
\* so that its completion finds RCONNECTED: a server is never SCONNECTED.)
AfterMrReceived(state) == "RCONNECTED"

RecvMr(c) ==
  /\ epoll = "idle"
  /\ ~is_stop
  /\ mr[c] = "due"
  /\ cm[c] \in {"accepted", "up", "down"}
  /\ main = "connecting" => accepted # c
  /\ mr' = [mr EXCEPT ![c] = "handled"]
  /\ trans_state' = [trans_state EXCEPT ![c] = AfterMrReceived(@)]
  /\ UNCHANGED <<stackVars, mainVars, epollVars, cmVars>>

LoopExit ==
  /\ epoll = "idle"
  /\ is_stop
  /\ epoll' = "exited"
  /\ UNCHANGED <<stackVars, trans_state, mr, mainVars, request, is_stop, refused, cmVars>>

-----------------------------------------------------------------------------
(* The connection manager and the clients. *)

CmStep(c, from, to, events) ==
  /\ cm[c] = from
  /\ cm' = [cm EXCEPT ![c] = to]
  /\ cm_events' = cm_events \o events
  /\ UNCHANGED <<stackVars, trans_state, mr, mainVars, epollVars>>

Request(c) == CmStep(c, "away", "requested", << <<"CONNECT_REQUEST", c>> >>)
Confirm(c) == CmStep(c, "accepted", "up", << <<"ESTABLISHED", c>> >>)
Leave(c) == CmStep(c, "up", "down", << <<"DISCONNECTED", c>> >>)

\* A client goes before it is accepted, or before it confirms.
GoneEarly(c) == MayFail /\ CmStep(c, "requested", "gone", << >>)
ConfirmFails(c) == MayFail /\ CmStep(c, "accepted", "failed", << <<"CONNECT_ERROR", c>> >>)

\* A client's region is lost if its post is refused, or if no receive is posted
\* for as long as the client's QP tries again.
LoseMr(c) ==
  /\ MayFail
  /\ cm[c] \in {"accepted", "up"}
  /\ mr[c] = "due"
  /\ mr' = [mr EXCEPT ![c] = "lost"]
  /\ UNCHANGED <<stackVars, trans_state, mainVars, epollVars, cmVars>>

-----------------------------------------------------------------------------
Main ==
  Discover \/ ReadTop \/ Pop \/ Clear \/ Accept \/ SetConnecting \/ Greet \/ Join

Epoll ==
  \/ Push \/ LoopExit
  \/ \E c \in Client :
       ConnectRequest(c) \/ Established(c) \/ ConnectError(c) \/ Disconnected(c)
         \/ RecvMr(c)

Clients ==
  \E c \in Client :
    \/ Request(c) \/ Confirm(c) \/ Leave(c) \/ GoneEarly(c) \/ ConfirmFails(c)
    \/ LoseMr(c)

Next == Main \/ Epoll \/ Clients

Spec == Init /\ [][Next]_vars

\* Threads are scheduled, and a client that is accepted confirms, or fails to.
FairSpec ==
  /\ Spec
  /\ WF_vars(Main) /\ WF_vars(Epoll)
  /\ \A c \in Client : WF_vars(Confirm(c) \/ ConfirmFails(c))

-----------------------------------------------------------------------------
(* Properties. *)

\* Unless main popped while the epoll thread pushed ("exist concurrent error"),
\* the chain from the listener's accept_rdma_trans is the stack of the clients
\* pushed and not popped: none is lost and none comes back.
StackHoldsWaiting ==
  ~raced =>
    \A i \in 0 .. Len(waiting) :
      accept_rdma_trans[IF i = 0 THEN NULL ELSE waiting[i]] =
        IF i < Len(waiting) THEN waiting[i + 1] ELSE NULL

\* The server's loop ends only when a client has gone before it was accepted,
\* or when a race gave main a client it had accepted.
LoopEndsOnError ==
  main \in {"join", "exited"} => raced \/ \E c \in Client : cm[c] = "gone"

\* Main has set CONNECTING over the CONNECTED of an epoll thread that overtook
\* it, and the client's region, which would bring RCONNECTED, does not come.
Overwritten(c) ==
  /\ cm[c] \in {"up", "down"} /\ trans_state[c] = "CONNECTING"
  /\ \A i \in DOMAIN cm_events : cm_events[i] # <<"ESTABLISHED", c>>
  /\ mr[c] = "lost"

\* One client's trouble that stops the others: main or the epoll thread is gone,
\* main waits for ever for this client, or its race lost another.
Blocked ==
  \/ raced
  \/ \E c \in Client : cm[c] \in {"gone", "failed"} \/ Overwritten(c)

\* Every client that asks is greeted, in spite of the ones that leave, those
\* whose requests' handlers fail, and the one thread that serves them in turn:
\* a CONNECTING written over CONNECTED does no harm where the client's region
\* arrives.
AllGreeted ==
  \A c \in Client :
    cm[c] = "requested" ~> c \in greeted \/ c \in refused \/ Blocked
=============================================================================
