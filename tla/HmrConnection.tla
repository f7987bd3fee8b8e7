--------------------------- MODULE HmrConnection ---------------------------
(***************************************************************************)
(* One connection of hmr_rpc: the client's transport and the transport the *)
(* server accepts for it, each driven by two threads that share it with no *)
(* lock.  The main thread runs client.c / server.c; the epoll thread runs  *)
(* hmr_context_run and, from it, the connection manager's handlers, the    *)
(* completion channel's handler and the send timer's handler.  Between the *)
(* two ends lie the RDMA connection manager and the reliable connected QP. *)
(*                                                                         *)
(* A step is the code between two points where the other thread, the peer  *)
(* or the network can see or change what it works on.  Of the list, which  *)
(* main and the epoll thread change with no lock, a step is an insertion   *)
(* or the whole loop of removals, and an insertion may be lost once two of *)
(* them have overlapped (HmrSendQueue has the pointers).  The CQ's         *)
(* notifications are taken as never lost, and every allocation of memory   *)
(* or of a verbs object succeeds, except where MayFail lets a call fail.   *)
(***************************************************************************)
EXTENDS Naturals, Sequences, FiniteSets

CONSTANTS
  ClientScript,  \* the messages the client's main sends, in order
  ServerScript,  \* the messages the server's main sends after hmr_rdma_accept
  NumRecv,       \* receives posted in advance: ALLOC_MEM_SIZE/MAX_RECV_SIZE - 2
  MayFail,       \* whether calls, the handshake and the QPs may fail
  MaxRefused     \* bound: the lists that ibv_post_send refuses, before it takes them all

AppType == {"NORMAL", "WRITE", "FINISH"}
MsgType == AppType \cup {"MR", "DONE"}

\* client.c sends FINISH last and only there; server.c sends NORMAL messages.
ASSUME ScriptAssumption ==
  /\ ClientScript \in Seq(AppType)
  /\ \A i \in 1..Len(ClientScript) :
       ClientScript[i] = "FINISH" => i = Len(ClientScript)
  /\ ServerScript \in Seq({"NORMAL"})
ASSUME NumRecvAssumption == NumRecv \in Nat \ {0}
ASSUME MayFailAssumption == MayFail \in BOOLEAN
ASSUME MaxRefusedAssumption == MaxRefused \in Nat

End == {"client", "server"}
Peer(e) == IF e = "client" THEN "server" ELSE "client"
Script(e) == IF e = "client" THEN ClientScript ELSE ServerScript
IdsOf(e) == 1..Len(Script(e))

\* A task or a message on its way: its type and its index in the sender's
\* script; MR and DONE, which the epoll thread sends, have index 0.
Msg == [type : MsgType, id : Nat]
Mr == [type |-> "MR", id |-> 0]
Done == [type |-> "DONE", id |-> 0]

VARIABLES
  \* struct hmr_rdma_transport, one per end
  trans_state, normal_mempool, qp, st_timerfd, send_task_list,
  peer_mr,            \* peer_info.normal_mr has been received
  used_normal_size,   \* in units of one RDMA write
  accept_rdma_trans,  \* the listener's stack holds the accepted transport
  \* threads
  is_stop,            \* ctx->is_stop
  main, pos,          \* where main is, and the message it is to send
  stage,              \* where the epoll thread is
  posted,             \* tasks at the front of the list given to the QP
  \* the QPs and their completion queues
  wire, sent, recvs, recv_posted,
  \* the connection manager
  cm, cm_events, cm_hangup,
  \* history
  arrived, dropped, flushed, misuse, mr_posts,
  torn,               \* ends on whose list an insertion and another update overlapped
  lost,               \* messages whose insertion was lost: they count as dropped, too
  refused,            \* lists that ibv_post_send has refused
  twice,              \* ends that keep in the list tasks which the QP has taken
  mr_refused          \* ends whose MR ibv_post_send has refused

transVars == <<trans_state, normal_mempool, qp, st_timerfd, send_task_list,
               peer_mr, used_normal_size, accept_rdma_trans>>
threadVars == <<is_stop, main, pos, stage, posted>>
qpVars == <<wire, sent, recvs, recv_posted>>
cmVars == <<cm, cm_events, cm_hangup>>
history == <<arrived, dropped, flushed, misuse, mr_posts>>
raceVars == <<torn, lost>>
refusalVars == <<refused, twice, mr_refused>>
vars == <<transVars, threadVars, qpVars, cmVars, history, raceVars, refusalVars>>

TransState == {"INIT", "CONNECTING", "CONNECTED", "SCONNECTED",
               "RCONNECTED", "ERROR"}
MainState == {"connect", "accept", "connecting", "prepare", "check",
              "enqueue", "join", "exited"}
CmState == {"idle", "resolving_addr", "addr_resolved", "resolving_route",
            "route_resolved", "connecting", "requested", "accepted",
            "responded", "rtu", "up", "disconnecting", "failed"}
CmEvent == {"ADDR_RESOLVED", "ROUTE_RESOLVED", "CONNECT_REQUEST",
            "ESTABLISHED", "DISCONNECTED", "CONNECT_ERROR", "OTHER_ERROR"}

TransTypeOK ==
  /\ trans_state \in [End -> TransState]
  /\ normal_mempool \in [End -> {"none", "live", "released"}]
  /\ qp \in [End -> {"none", "ready", "error", "destroyed"}]
  /\ st_timerfd \in [End -> {"off", "on", "stale"}]
  /\ send_task_list \in [End -> Seq(Msg)]
  /\ peer_mr \in [End -> BOOLEAN]
  /\ used_normal_size \in [End -> Nat]
  /\ accept_rdma_trans \in BOOLEAN

ThreadTypeOK ==
  /\ is_stop \in [End -> BOOLEAN]
  /\ main \in [End -> MainState]
  /\ pos \in [End -> Nat \ {0}]
  /\ stage \in [End -> {"idle", "unlink", "spin", "exited"}]
  /\ posted \in [End -> Nat]

QpTypeOK ==
  /\ wire \in [End -> Seq(Msg)]
  /\ sent \in [End -> Seq(Msg)]
  /\ recvs \in [End -> Seq(Msg)]
  /\ recv_posted \in [End -> Nat]

CmTypeOK ==
  /\ cm \in CmState
  /\ cm_events \in [End -> Seq(CmEvent)]
  /\ cm_hangup \in SUBSET End

HistoryTypeOK ==
  /\ arrived \in [End -> SUBSET Nat]
  /\ dropped \in [End -> SUBSET Nat]
  /\ flushed \in [End -> SUBSET Nat]
  /\ misuse \in [End -> SUBSET {"send", "post"}]
  /\ mr_posts \in [End -> Nat]

FaultTypeOK ==
  /\ torn \in SUBSET End
  /\ lost \in [End -> SUBSET Nat]
  /\ refused \in 0 .. MaxRefused
  /\ twice \in SUBSET End
  /\ mr_refused \in SUBSET End

TypeOK ==
  /\ TransTypeOK /\ ThreadTypeOK /\ QpTypeOK /\ CmTypeOK
  /\ HistoryTypeOK /\ FaultTypeOK

Init ==
  /\ trans_state = [e \in End |-> "INIT"]
  /\ normal_mempool = [e \in End |-> "none"]
  /\ qp = [e \in End |-> "none"]
  /\ st_timerfd = [e \in End |-> "off"]
  /\ send_task_list = [e \in End |-> << >>]
  /\ peer_mr = [e \in End |-> FALSE]
  /\ used_normal_size = [e \in End |-> 0]
  /\ accept_rdma_trans = FALSE
  /\ is_stop = [e \in End |-> FALSE]
  /\ main = [e \in End |-> IF e = "client" THEN "connect" ELSE "accept"]
  /\ pos = [e \in End |-> 1]
  /\ stage = [e \in End |-> "idle"]
  /\ posted = [e \in End |-> 0]
  /\ wire = [e \in End |-> << >>]
  /\ sent = [e \in End |-> << >>]
  /\ recvs = [e \in End |-> << >>]
  /\ recv_posted = [e \in End |-> 0]
  /\ cm = "idle"
  /\ cm_events = [e \in End |-> << >>]
  /\ cm_hangup = {}
  /\ arrived = [e \in End |-> {}]
  /\ dropped = [e \in End |-> {}]
  /\ flushed = [e \in End |-> {}]
  /\ misuse = [e \in End |-> {}]
  /\ mr_posts = [e \in End |-> 0]
  /\ torn = {}
  /\ lost = [e \in End |-> {}]
  /\ refused = 0
  /\ twice = {}
  /\ mr_refused = {}

-----------------------------------------------------------------------------
(* Operators shared by the actions. *)

Outcomes == IF MayFail THEN {TRUE, FALSE} ELSE {TRUE}

SeqIds(s) == {s[i].id : i \in 1..Len(s)}

\* hmr_get_opcode_from_task.
Opcode(type) ==
  CASE type = "READ" -> "RDMA_READ"
    [] type = "WRITE" -> "RDMA_WRITE"
    [] OTHER -> "SEND"

IsWrite(task) == Opcode(task.type) = "RDMA_WRITE"
Writes(s) == Cardinality({i \in 1..Len(s) : IsWrite(s[i])})

\* The definitions called Bug... are faults put in place of the definition that
\* follows them, to see that a property notices.
BugNoReadyCheck(type) == {"CONNECTED", "SCONNECTED", "RCONNECTED"}

\* The states in which hmr_msg_check lets a message of a type through.
ReadyStates(type) ==
  IF type = "WRITE" THEN {"RCONNECTED"}
  ELSE {"CONNECTED", "SCONNECTED", "RCONNECTED"}

BugListAdd(list, task) == <<task>> \o list
BugUnlinkStopsEarly(list, n) == SubSeq(list, n, Len(list))

\* list_add_tail and the loop of list_del_init.
ListAddTail(list, task) == Append(list, task)
ListAfterUnlink(list, n) == << >>

\* An insertion or a removal by the epoll thread may come between the reads and
\* the writes of one by main.
Races(e) ==
  \/ UNCHANGED torn
  \/ main[e] = "enqueue" /\ torn' = torn \cup {e}

\* A task joins the list; on a torn one it may not: it stays behind an entry that
\* the list does not reach, or another insertion writes over the link to it.
Insert(e, task) ==
  \/ /\ send_task_list' = [send_task_list EXCEPT ![e] = ListAddTail(@, task)]
     /\ UNCHANGED <<dropped, lost>>
  \/ /\ e \in torn'
     /\ dropped' = [dropped EXCEPT ![e] = @ \cup {task.id}]
     /\ lost' = [lost EXCEPT ![e] = @ \cup {task.id}]
     /\ UNCHANGED send_task_list

BugNextState(state) == IF state = "RCONNECTED" THEN "DISCONNECTED" ELSE "SCONNECTED"
BugAlwaysSconnected(state) == "SCONNECTED"

\* The state after the completion of the MR that this end sent.
AfterMrSent(state) == IF state = "CONNECTED" THEN "SCONNECTED" ELSE state

BugAlwaysExchange == TransState

\* The state after the peer's MR has been received.
BugOnlyFromConnected(state) == IF state = "CONNECTED" THEN "RCONNECTED" ELSE state
AfterMrReceived(state) == "RCONNECTED"

\* The states in which a received MR is answered with this end's own.
ExchangeStates == {"CONNECTED"}

BugEverySendCloses(type) == TRUE

\* Which completions of sends hmr_handle_close_connection answers with a disconnect.
SendCloses(type) == type = "DONE"

BugServerStops(e) == e = "server"
BugErrorGoesOn(e) == FALSE

\* Whether the end that has handled DISCONNECTED stops its epoll loop, and
\* whether the end that has handled CONNECT_ERROR does.
DisconnectStops(e) == e = "client"
ConnectErrorStops(e) == TRUE

\* hmr_post_recv: a receive posted on a QP in error is flushed at once.
Repost(e) ==
  recv_posted' = [recv_posted EXCEPT ![e] = IF qp[e] = "ready" THEN @ + 1 ELSE @]

\* ibv_post_send of this end's MR, which skips send_task_list.  A refusal is
\* only logged.
PostMr(e) ==
  /\ \E ok \in Outcomes :
       /\ wire' = [wire EXCEPT ![e] =
                     IF ok /\ qp[e] = "ready" THEN Append(@, Mr) ELSE @]
       /\ mr_refused' = IF ok THEN mr_refused ELSE mr_refused \cup {e}
  /\ mr_posts' = [mr_posts EXCEPT ![e] = @ + 1]

\* A QP that leaves the ready state gives back what it still had to send and
\* its receives, with a status that hmr_wc_error_handler only logs.
QpStops(e, state) ==
  /\ qp' = [qp EXCEPT ![e] = state]
  /\ flushed' = [flushed EXCEPT ![e] = @ \cup SeqIds(wire[e])]
  /\ wire' = [wire EXCEPT ![e] = << >>]
  /\ recv_posted' = [recv_posted EXCEPT ![e] = 0]

\* rdma_disconnect: this end's QP stops; the first call of either end brings
\* each end one DISCONNECTED event.
Disconnect(e) ==
  /\ QpStops(e, "error")
  /\ IF cm \in {"rtu", "up"}
     THEN /\ cm' = "disconnecting"
          /\ cm_hangup' = End
     ELSE UNCHANGED <<cm, cm_hangup>>

-----------------------------------------------------------------------------
(* The main threads. *)

\* hmr_rdma_connect.  client.c ignores its result and goes on to send.
ClientConnect ==
  /\ main["client"] = "connect"
  /\ main' = [main EXCEPT !["client"] = "check"]
  /\ \E ok \in Outcomes :
       IF ok
       THEN /\ trans_state' = [trans_state EXCEPT !["client"] = "CONNECTING"]
            /\ cm' = "resolving_addr"
       ELSE UNCHANGED <<trans_state, cm>>
  /\ UNCHANGED <<normal_mempool, qp, st_timerfd, send_task_list, peer_mr,
                 used_normal_size, accept_rdma_trans, is_stop, pos, stage,
                 posted, qpVars, cm_events, cm_hangup, history,
                 raceVars, refusalVars>>

\* hmr_rdma_accept up to rdma_accept: the transport leaves the stack, and the
\* QP is ready once the connection manager has taken the call.  On an error
\* the server's loop ends.
Accept ==
  /\ main["server"] = "accept"
  /\ accept_rdma_trans
  /\ accept_rdma_trans' = FALSE
  /\ IF cm = "requested"
     THEN /\ main' = [main EXCEPT !["server"] = "connecting"]
          /\ cm' = "accepted"
     ELSE /\ main' = [main EXCEPT !["server"] = "join"]
          /\ UNCHANGED cm
  /\ UNCHANGED <<trans_state, normal_mempool, qp, st_timerfd, send_task_list,
                 peer_mr, used_normal_size, is_stop, pos, stage, posted,
                 qpVars, cm_events, cm_hangup, history, raceVars, refusalVars>>

\* hmr_rdma_accept, the state: it is set after rdma_accept has answered the
\* client, whatever the epoll thread has made of it meanwhile.
SetConnecting ==
  /\ main["server"] = "connecting"
  /\ main' = [main EXCEPT !["server"] = "prepare"]
  /\ trans_state' = [trans_state EXCEPT !["server"] = "CONNECTING"]
  /\ UNCHANGED <<normal_mempool, qp, st_timerfd, send_task_list, peer_mr,
                 used_normal_size, accept_rdma_trans, is_stop, pos, stage,
                 posted, qpVars, cmVars, history, raceVars, refusalVars>>

\* hmr_rdma_accept, the rest: the memory pool and the first receives.
Prepare ==
  /\ main["server"] = "prepare"
  /\ main' = [main EXCEPT !["server"] = "check"]
  /\ normal_mempool' = [normal_mempool EXCEPT !["server"] = "live"]
  /\ recv_posted' = [recv_posted EXCEPT !["server"] =
                       IF qp["server"] = "ready" THEN NumRecv ELSE @]
  /\ UNCHANGED <<trans_state, qp, st_timerfd, send_task_list, peer_mr,
                 used_normal_size, accept_rdma_trans, is_stop, pos, stage,
                 posted, wire, sent, recvs, cmVars, history,
                 raceVars, refusalVars>>

\* hmr_msg_check: main waits for a state that lets the message through; in
\* ERROR hmr_rdma_send gives the message up.
MainCheck(e) ==
  /\ main[e] = "check"
  /\ pos[e] \in IdsOf(e)
  /\ \/ /\ trans_state[e] \in ReadyStates(Script(e)[pos[e]])
        /\ main' = [main EXCEPT ![e] = "enqueue"]
        /\ UNCHANGED pos
     \/ /\ trans_state[e] = "ERROR"
        /\ pos' = [pos EXCEPT ![e] = @ + 1]
        /\ UNCHANGED main
  /\ UNCHANGED <<transVars, is_stop, stage, posted, qpVars, cmVars, history,
                 raceVars, refusalVars>>

\* The rest of hmr_rdma_send: the message is copied to the memory pool, whose
\* pointer is not cleared when it is released, and its task joins the list.
MainEnqueue(e) ==
  /\ main[e] = "enqueue"
  /\ main' = [main EXCEPT ![e] = "check"]
  /\ pos' = [pos EXCEPT ![e] = @ + 1]
  /\ UNCHANGED torn
  /\ Insert(e, [type |-> Script(e)[pos[e]], id |-> pos[e]])
  /\ misuse' = [misuse EXCEPT ![e] =
       IF normal_mempool[e] = "live" THEN @ ELSE @ \cup {"send"}]
  /\ UNCHANGED <<trans_state, normal_mempool, qp, st_timerfd, peer_mr,
                 used_normal_size, accept_rdma_trans, is_stop, stage, posted,
                 qpVars, cmVars, arrived, flushed, mr_posts, refusalVars>>

\* All sent: the client joins its epoll thread, the server accepts again.
MainSent(e) ==
  /\ main[e] = "check"
  /\ pos[e] \notin IdsOf(e)
  /\ main' = [main EXCEPT ![e] = IF e = "client" THEN "join" ELSE "accept"]
  /\ UNCHANGED <<transVars, is_stop, pos, stage, posted, qpVars, cmVars, history,
                 raceVars, refusalVars>>

\* pthread_join.
MainJoin(e) ==
  /\ main[e] = "join"
  /\ stage[e] = "exited"
  /\ main' = [main EXCEPT ![e] = "exited"]
  /\ UNCHANGED <<transVars, is_stop, pos, stage, posted, qpVars, cmVars, history,
                 raceVars, refusalVars>>

-----------------------------------------------------------------------------
(* The epoll threads: connection manager events. *)

\* hmr_rdma_event_channel_handler takes the next event and acknowledges it.
TakeEvent(e, event) ==
  /\ stage[e] = "idle"
  /\ cm_events[e] # << >>
  /\ Head(cm_events[e]) = event
  /\ cm_events' = [cm_events EXCEPT ![e] = Tail(@)]

\* on_cm_addr_resolved.  Its failures are only logged.
AddrResolved ==
  /\ TakeEvent("client", "ADDR_RESOLVED")
  /\ \E found, resolving \in Outcomes :
       /\ normal_mempool' = [normal_mempool EXCEPT !["client"] =
                               IF found THEN "live" ELSE @]
       /\ cm' = IF found /\ resolving THEN "resolving_route" ELSE "failed"
  /\ UNCHANGED <<trans_state, qp, st_timerfd, send_task_list, peer_mr,
                 used_normal_size, accept_rdma_trans, threadVars, qpVars,
                 cm_hangup, history, raceVars, refusalVars>>

\* on_cm_route_resolved.  Without a QP nothing more happens; when rdma_connect
\* fails the QP goes, the context stops and the state says so.
RouteResolved ==
  /\ TakeEvent("client", "ROUTE_RESOLVED")
  /\ \E created, connecting \in Outcomes :
       IF created /\ connecting
       THEN /\ qp' = [qp EXCEPT !["client"] = "ready"]
            /\ cm' = "connecting"
            /\ recv_posted' = [recv_posted EXCEPT !["client"] = NumRecv]
            /\ UNCHANGED <<trans_state, is_stop>>
       ELSE /\ cm' = "failed"
            /\ qp' = [qp EXCEPT !["client"] = IF created THEN "destroyed" ELSE @]
            /\ is_stop' = [is_stop EXCEPT !["client"] = @ \/ created]
            /\ trans_state' = [trans_state EXCEPT !["client"] =
                                 IF created THEN "ERROR" ELSE @]
            /\ UNCHANGED recv_posted
  /\ UNCHANGED <<normal_mempool, st_timerfd, send_task_list, peer_mr,
                 used_normal_size, accept_rdma_trans, main, pos, stage, posted,
                 wire, sent, recvs, cm_hangup, history, raceVars, refusalVars>>

\* on_cm_connect_request: a transport with its QP goes on the listener's
\* stack, or nothing does.
ConnectRequest ==
  /\ TakeEvent("server", "CONNECT_REQUEST")
  /\ \E created \in Outcomes :
       /\ qp' = [qp EXCEPT !["server"] = IF created THEN "ready" ELSE @]
       /\ accept_rdma_trans' = created
  /\ UNCHANGED <<trans_state, normal_mempool, st_timerfd, send_task_list,
                 peer_mr, used_normal_size, threadVars, qpVars, cm, cm_hangup,
                 history, raceVars, refusalVars>>

\* on_cm_established.  Taking the event is what makes the client's side of the
\* connection manager confirm to the server.
Established(e) ==
  /\ TakeEvent(e, "ESTABLISHED")
  /\ trans_state' = [trans_state EXCEPT ![e] = "CONNECTED"]
  /\ st_timerfd' = [st_timerfd EXCEPT ![e] = "on"]
  /\ IF e = "client"
     THEN /\ PostMr(e)
          /\ cm' = IF cm = "responded" THEN "rtu" ELSE cm
     ELSE UNCHANGED <<wire, mr_posts, mr_refused, cm>>
  /\ UNCHANGED <<normal_mempool, qp, send_task_list, peer_mr, used_normal_size,
                 accept_rdma_trans, threadVars, sent, recvs, recv_posted,
                 cm_hangup, arrived, dropped, flushed, misuse, raceVars, refused,
                 twice>>

\* on_cm_disconnected.  The state stays what it was.  A timer that was in the
\* same batch of epoll events still fires once: it is stale.
Disconnected(e) ==
  /\ TakeEvent(e, "DISCONNECTED")
  /\ QpStops(e, "destroyed")
  /\ sent' = [sent EXCEPT ![e] = << >>]
  /\ recvs' = [recvs EXCEPT ![e] = << >>]
  /\ normal_mempool' = [normal_mempool EXCEPT ![e] =
                          IF @ = "live" THEN "released" ELSE @]
  /\ \E fired \in (IF st_timerfd[e] = "on" THEN {"off", "stale"} ELSE {"off"}) :
       st_timerfd' = [st_timerfd EXCEPT ![e] = fired]
  /\ is_stop' = [is_stop EXCEPT ![e] = @ \/ DisconnectStops(e)]
  /\ UNCHANGED <<trans_state, send_task_list, peer_mr, used_normal_size,
                 accept_rdma_trans, main, pos, stage, posted, cm, cm_hangup,
                 arrived, dropped, misuse, mr_posts, raceVars, refusalVars>>

\* hmr_handle_ec_event, RDMA_CM_EVENT_CONNECT_ERROR.
ConnectError(e) ==
  /\ TakeEvent(e, "CONNECT_ERROR")
  /\ is_stop' = [is_stop EXCEPT ![e] = @ \/ ConnectErrorStops(e)]
  /\ trans_state' = [trans_state EXCEPT ![e] = "ERROR"]
  /\ UNCHANGED <<normal_mempool, qp, st_timerfd, send_task_list, peer_mr,
                 used_normal_size, accept_rdma_trans, main, pos, stage, posted,
                 qpVars, cm, cm_hangup, history, raceVars, refusalVars>>

\* hmr_handle_ec_event, default: every other error only ends the batch.
OtherError(e) ==
  /\ TakeEvent(e, "OTHER_ERROR")
  /\ UNCHANGED <<transVars, threadVars, qpVars, cm, cm_hangup, history,
                 raceVars, refusalVars>>

-----------------------------------------------------------------------------
(* The epoll threads: completions. *)

\* hmr_cq_comp_channel_handler polls the completion of one of this end's sends
\* and hmr_wc_success_handler frees its task.
TakeSent(e) ==
  /\ stage[e] = "idle"
  /\ sent[e] # << >>
  /\ sent' = [sent EXCEPT ![e] = Tail(@)]

SentMr(e) ==
  /\ TakeSent(e)
  /\ Head(sent[e]).type = "MR"
  /\ trans_state' = [trans_state EXCEPT ![e] = AfterMrSent(@)]
  /\ UNCHANGED <<normal_mempool, qp, st_timerfd, send_task_list, peer_mr,
                 used_normal_size, accept_rdma_trans, threadVars, wire, recvs,
                 recv_posted, cmVars, history, raceVars, refusalVars>>

\* The completion of DONE closes the connection, that of an application
\* message changes nothing.
SentOther(e) ==
  /\ TakeSent(e)
  /\ Head(sent[e]).type # "MR"
  /\ IF SendCloses(Head(sent[e]).type)
     THEN Disconnect(e)
     ELSE UNCHANGED <<qp, flushed, wire, recv_posted, cm, cm_hangup>>
  /\ UNCHANGED <<trans_state, normal_mempool, st_timerfd, send_task_list,
                 peer_mr, used_normal_size, accept_rdma_trans, threadVars,
                 recvs, cm_events, arrived, dropped, misuse, mr_posts,
                 raceVars, refusalVars>>

\* It polls the completion of a receive.
TakeRecv(e, type) ==
  /\ stage[e] = "idle"
  /\ recvs[e] # << >>
  /\ Head(recvs[e]).type = type
  /\ recvs' = [recvs EXCEPT ![e] = Tail(@)]

Arrives(e) ==
  arrived' = [arrived EXCEPT ![Peer(e)] = @ \cup {Head(recvs[e]).id}]

RecvNormal(e) ==
  /\ TakeRecv(e, "NORMAL")
  /\ Arrives(e)
  /\ Repost(e)
  /\ UNCHANGED <<transVars, threadVars, wire, sent, cmVars, dropped, flushed,
                 misuse, mr_posts, raceVars, refusalVars>>

\* hmr_handle_close_connection answers FINISH with DONE, through hmr_rdma_send:
\* in a state that hmr_msg_check does not let through the epoll thread, which
\* is the one that would change the state, waits for ever.
RecvFinish(e) ==
  /\ TakeRecv(e, "FINISH")
  /\ Arrives(e)
  /\ IF trans_state[e] \in ReadyStates("DONE")
     THEN /\ Races(e)
          /\ Insert(e, Done)
          /\ UNCHANGED stage
          /\ Repost(e)
     ELSE /\ stage' = [stage EXCEPT ![e] =
                         IF trans_state[e] = "ERROR" THEN @ ELSE "spin"]
          /\ IF trans_state[e] = "ERROR" THEN Repost(e) ELSE UNCHANGED recv_posted
          /\ UNCHANGED <<send_task_list, dropped, raceVars>>
  /\ UNCHANGED <<trans_state, normal_mempool, qp, st_timerfd, peer_mr,
                 used_normal_size, accept_rdma_trans, is_stop, main, pos, posted,
                 wire, sent, cmVars, flushed, misuse, mr_posts, refusalVars>>

\* hmr_handle_close_connection on DONE; the repost finds the QP in error.
RecvDone(e) ==
  /\ TakeRecv(e, "DONE")
  /\ Disconnect(e)
  /\ UNCHANGED <<trans_state, normal_mempool, st_timerfd, send_task_list,
                 peer_mr, used_normal_size, accept_rdma_trans, threadVars, sent,
                 cm_events, arrived, dropped, misuse, mr_posts,
                 raceVars, refusalVars>>

\* hmr_wc_success_handler on the peer's MR.  In CONNECTED it answers with its
\* own, which hmr_msg_check lets through.
RecvMr(e) ==
  /\ TakeRecv(e, "MR")
  /\ peer_mr' = [peer_mr EXCEPT ![e] = TRUE]
  /\ used_normal_size' = [used_normal_size EXCEPT ![e] = 0]
  /\ IF trans_state[e] \in ExchangeStates
     THEN PostMr(e)
     ELSE UNCHANGED <<wire, mr_posts, mr_refused>>
  /\ trans_state' = [trans_state EXCEPT ![e] = AfterMrReceived(@)]
  /\ Repost(e)
  /\ UNCHANGED <<normal_mempool, qp, st_timerfd, send_task_list,
                 accept_rdma_trans, threadVars, sent, cmVars, arrived, dropped,
                 flushed, misuse, raceVars, refused, twice>>

-----------------------------------------------------------------------------
(* The epoll threads: the send timer, and the end of the loop. *)

\* hmr_send_task_handler up to ibv_post_send, which takes tasks from the front
\* of the list, a write for the next free place of the peer's region.  On a
\* destroyed QP this is a use after free.
Posts(e, tasks) ==
  /\ stage[e] = "idle"
  /\ st_timerfd[e] # "off"
  /\ send_task_list[e] # << >>
  /\ used_normal_size' = [used_normal_size EXCEPT ![e] = @ + Writes(send_task_list[e])]
  /\ wire' = [wire EXCEPT ![e] = IF qp[e] = "ready" THEN @ \o tasks ELSE @]
  /\ flushed' = [flushed EXCEPT ![e] =
       IF qp[e] = "ready" THEN @ ELSE @ \cup SeqIds(tasks)]
  /\ misuse' = [misuse EXCEPT ![e] =
       IF qp[e] = "destroyed" THEN @ \cup {"post"} ELSE @]
  /\ UNCHANGED <<trans_state, normal_mempool, qp, send_task_list, peer_mr,
                 accept_rdma_trans, is_stop, main, pos, sent, recvs, recv_posted,
                 cmVars, arrived, dropped, mr_posts, raceVars, mr_refused>>

\* The QP takes the whole list.
TimerPost(e) ==
  /\ Posts(e, send_task_list[e])
  /\ stage' = [stage EXCEPT ![e] = "unlink"]
  /\ posted' = [posted EXCEPT ![e] = Len(send_task_list[e])]
  /\ UNCHANGED <<st_timerfd, refused, twice>>

\* The timer fires no more once on_cm_disconnected has deleted it.
Expire(e) ==
  st_timerfd' = [st_timerfd EXCEPT ![e] = IF @ = "stale" THEN "off" ELSE @]

\* ibv_post_send refuses a task, after the first n: the list stays, with those n
\* in it, and the handler ends.
TimerRefused(e) ==
  /\ MayFail
  /\ refused < MaxRefused
  /\ refused' = refused + 1
  /\ \E n \in 0 .. Len(send_task_list[e]) - 1 :
       /\ Posts(e, SubSeq(send_task_list[e], 1, n))
       /\ twice' = IF n = 0 THEN twice ELSE twice \cup {e}
  /\ Expire(e)
  /\ UNCHANGED <<stage, posted>>

\* hmr_send_task_handler from there: every task now in the list is unlinked,
\* the ones that main added after the list was read too.
TimerUnlink(e) ==
  /\ stage[e] = "unlink"
  /\ stage' = [stage EXCEPT ![e] = "idle"]
  /\ send_task_list' = [send_task_list EXCEPT ![e] = ListAfterUnlink(@, posted[e])]
  /\ dropped' = [dropped EXCEPT ![e] = @ \cup
       {send_task_list[e][i].id : i \in posted[e] + 1 .. Len(send_task_list[e])}]
  /\ posted' = [posted EXCEPT ![e] = 0]
  /\ Expire(e)
  /\ Races(e)
  /\ UNCHANGED <<trans_state, normal_mempool, qp, peer_mr, used_normal_size,
                 accept_rdma_trans, is_stop, main, pos, qpVars, cmVars, arrived,
                 flushed, misuse, mr_posts, lost, refusalVars>>

\* A stale timer fires no more after its batch, or finds the list empty.
StaleExpires(e) ==
  /\ stage[e] = "idle"
  /\ st_timerfd[e] = "stale"
  /\ st_timerfd' = [st_timerfd EXCEPT ![e] = "off"]
  /\ UNCHANGED <<trans_state, normal_mempool, qp, send_task_list, peer_mr,
                 used_normal_size, accept_rdma_trans, threadVars, qpVars,
                 cmVars, history, raceVars, refusalVars>>

\* hmr_context_run returns at the end of a batch that set is_stop.
LoopExit(e) ==
  /\ stage[e] = "idle"
  /\ is_stop[e]
  /\ stage' = [stage EXCEPT ![e] = "exited"]
  /\ UNCHANGED <<transVars, is_stop, main, pos, posted, qpVars, cmVars, history,
                 raceVars, refusalVars>>

-----------------------------------------------------------------------------
(* The QPs and the connection manager. *)

Linked(e) ==
  /\ wire[e] # << >>
  /\ qp[e] = "ready"
  /\ qp[Peer(e)] = "ready"

\* A send reaches the peer, into a receive posted there, and is acknowledged.
DeliverSend(e) ==
  /\ Linked(e)
  /\ ~IsWrite(Head(wire[e]))
  /\ recv_posted[Peer(e)] > 0
  /\ wire' = [wire EXCEPT ![e] = Tail(@)]
  /\ sent' = [sent EXCEPT ![e] = Append(@, Head(wire[e]))]
  /\ recvs' = [recvs EXCEPT ![Peer(e)] = Append(@, Head(wire[e]))]
  /\ recv_posted' = [recv_posted EXCEPT ![Peer(e)] = @ - 1]
  /\ UNCHANGED <<transVars, threadVars, cmVars, history, raceVars, refusalVars>>

\* An RDMA write reaches the peer's memory with no receive, and without a completion there.
DeliverWrite(e) ==
  /\ Linked(e)
  /\ IsWrite(Head(wire[e]))
  /\ wire' = [wire EXCEPT ![e] = Tail(@)]
  /\ sent' = [sent EXCEPT ![e] = Append(@, Head(wire[e]))]
  /\ arrived' = [arrived EXCEPT ![e] = @ \cup {Head(wire[e]).id}]
  /\ UNCHANGED <<transVars, threadVars, recvs, recv_posted, cmVars, dropped,
                 flushed, misuse, mr_posts, raceVars, refusalVars>>

\* The peer has had no receive posted for as long as rnr_retry_count allows.
RnrExhausted(e) ==
  /\ MayFail
  /\ Linked(e)
  /\ ~IsWrite(Head(wire[e]))
  /\ recv_posted[Peer(e)] = 0
  /\ QpStops(e, "error")
  /\ UNCHANGED <<trans_state, normal_mempool, st_timerfd, send_task_list,
                 peer_mr, used_normal_size, accept_rdma_trans, threadVars, sent,
                 recvs, cmVars, arrived, dropped, misuse, mr_posts,
                 raceVars, refusalVars>>

\* The handshake, one notification at a time.
CmNotifies(from, to, e, event) ==
  /\ cm = from
  /\ cm' = to
  /\ cm_events' = [cm_events EXCEPT ![e] = Append(@, event)]
  /\ UNCHANGED cm_hangup

CmProgress ==
  /\ \/ CmNotifies("resolving_addr", "addr_resolved", "client", "ADDR_RESOLVED")
     \/ CmNotifies("resolving_route", "route_resolved", "client", "ROUTE_RESOLVED")
     \/ CmNotifies("connecting", "requested", "server", "CONNECT_REQUEST")
     \/ CmNotifies("accepted", "responded", "client", "ESTABLISHED")
     \/ CmNotifies("rtu", "up", "server", "ESTABLISHED")
  /\ UNCHANGED <<transVars, threadVars, qpVars, history, raceVars, refusalVars>>

\* Each end learns of the disconnection once, in either order.
CmHangup(e) ==
  /\ e \in cm_hangup
  /\ cm_hangup' = cm_hangup \ {e}
  /\ cm_events' = [cm_events EXCEPT ![e] = Append(@, "DISCONNECTED")]
  /\ UNCHANGED <<transVars, threadVars, qpVars, cm, history,
                 raceVars, refusalVars>>

\* The handshake fails: the client is told, and so is a server that has
\* already accepted.
CmFails ==
  /\ MayFail
  /\ cm \in {"resolving_addr", "resolving_route", "connecting", "requested", "accepted"}
  /\ cm' = "failed"
  /\ \E event \in (IF cm \in {"connecting", "requested", "accepted"}
                   THEN {"CONNECT_ERROR", "OTHER_ERROR"} ELSE {"OTHER_ERROR"}) :
       cm_events' = [e \in End |->
         IF e = "client" THEN Append(cm_events[e], event)
         ELSE IF cm = "accepted" THEN Append(cm_events[e], "CONNECT_ERROR")
         ELSE cm_events[e]]
  /\ UNCHANGED <<transVars, threadVars, qpVars, cm_hangup, history,
                 raceVars, refusalVars>>

-----------------------------------------------------------------------------
Main(e) == MainCheck(e) \/ MainEnqueue(e) \/ MainSent(e) \/ MainJoin(e)

CmHandler(e) ==
  Established(e) \/ Disconnected(e) \/ ConnectError(e) \/ OtherError(e)

CqHandler(e) ==
  \/ SentMr(e) \/ SentOther(e)
  \/ RecvNormal(e) \/ RecvFinish(e) \/ RecvDone(e) \/ RecvMr(e)

TimerHandler(e) ==
  TimerPost(e) \/ TimerRefused(e) \/ TimerUnlink(e) \/ StaleExpires(e)

Epoll(e) == CmHandler(e) \/ CqHandler(e) \/ TimerHandler(e) \/ LoopExit(e)

Network(e) == DeliverSend(e) \/ DeliverWrite(e) \/ CmHangup(e)

Next ==
  \/ ClientConnect \/ Accept \/ SetConnecting \/ Prepare
  \/ AddrResolved \/ RouteResolved \/ ConnectRequest
  \/ CmProgress \/ CmFails
  \/ \E e \in End : Main(e) \/ Epoll(e) \/ Network(e) \/ RnrExhausted(e)

Spec == Init /\ [][Next]_vars

\* What the threads, the QPs and the connection manager do by themselves.
Progress ==
  \/ ClientConnect \/ Accept \/ SetConnecting \/ Prepare
  \/ AddrResolved \/ RouteResolved \/ ConnectRequest
  \/ CmProgress
  \/ \E e \in End : Main(e) \/ Epoll(e) \/ Network(e)

\* Each thread is scheduled, epoll is level-triggered, and a reliable connection
\* delivers.  A behaviour has finitely many steps (MaxRefused bounds the refusals),
\* so that no thread is held up by the steps of another, and one condition for
\* all is enough; it asks less than one for each.  Nothing is assumed of the failures.
Fairness == WF_vars(Progress)

FairSpec == Spec /\ Fairness

-----------------------------------------------------------------------------
(* Properties. *)

\* No refused ibv_post_send has taken a part of a list.  One that has leaves the
\* part to be posted again, so that two completions free a task: what the program
\* does from there is undefined, and no property speaks of its messages.
NoneTwice == twice = {}

\* The messages of main are handled by the peer in the order main sent them,
\* whatever the timer, the two queues and the lock-free list do: when a message
\* is handled every earlier one has arrived, or was dropped by the unlink loop
\* or a race of insertions.
\* (A write arrives in memory, unhandled, so it may overtake.)
InOrder ==
  NoneTwice =>
    \A e \in End : \A i \in arrived[e] : Script(e)[i] # "WRITE" =>
      \A j \in 1 .. i - 1 : j \in arrived[e] \cup dropped[e]

Copies(e, i) ==
  LET In(s) == {k \in 1..Len(s) : s[k].id = i}
      Listed == {k \in In(send_task_list[e]) : k > posted[e]}
      Received == IF i \in arrived[e] THEN 1 ELSE 0
      Handled == Cardinality(In(recvs[Peer(e)])) + Received
  IN  Cardinality(Listed) + Cardinality(In(wire[e])) + Handled

\* A message of main is in one place only: in the list, on the wire, or at the
\* peer.  In particular the timer never posts a task twice, which would have its
\* completion free the task twice (free(task) in hmr_wc_success_handler), also
\* not when a whole list has been refused.
OneCopy == NoneTwice => \A e \in End : \A i \in IdsOf(e) : Copies(e, i) <= 1

\* The FINISH / DONE handshake ends the client only when all it sent is at the
\* server: no disconnect overtakes a message, except the ones that never came
\* to be posted, dropped by the unlink loop or lost in an insertion.
GracefulClose ==
  NoneTwice /\ qp["client"] = "destroyed" /\ trans_state["client"] # "ERROR" =>
    IdsOf("client") \subseteq arrived["client"] \cup dropped["client"]

\* On the client nothing is sent from a released pool and nothing is posted on
\* a destroyed QP, though neither pointer is cleared and no lock is held: the
\* handshake alone keeps main and the timer away from them.
ClientResourcesLive == NoneTwice => misuse["client"] = {}

\* The epoll thread, which handles FINISH by calling hmr_rdma_send, waits there
\* for a state that only itself can set in one case: the peer's MR, which brings
\* a ready state before any FINISH, was refused by ibv_post_send and only logged.
EpollNeverSpins == \A e \in End : stage[e] = "spin" => Peer(e) \in mr_refused

\* No RDMA write is queued, or given to the QP, before the peer's region is
\* known: its address and key would be zero.
WriteNeedsPeerMr ==
  \A e \in End : \A s \in {send_task_list[e], wire[e]} :
    \A k \in 1..Len(s) : s[k].type = "WRITE" => peer_mr[e]

\* The exchange of regions ends: the answer to an MR is not answered for ever.
ExchangeEnds == mr_posts["client"] <= 2 /\ mr_posts["server"] <= 1

\* The client that knows its peer's region stays in the state that lets writes
\* through, in whatever order the completions of the exchange are polled.
WritesStayEnabled ==
  peer_mr["client"] => trans_state["client"] = "RCONNECTED"

\* The client's writes never go twice to the same place: a second MR from the
\* server would put used_normal_size back to zero.
WritePlaceGrows ==
  [][used_normal_size'["client"] >= used_normal_size["client"]]_vars

\* Why DONE does not come back: a QP that has used up its retries, a DONE that
\* the race with main's insertions keeps out of the list, a server that waits in
\* hmr_msg_check (see EpollNeverSpins), or a task freed twice.
DoneFails ==
  \/ cm \in {"rtu", "up"} /\ \E e \in End : qp[e] = "error"
  \/ Done.id \in lost["server"]
  \/ stage["server"] = "spin"
  \/ ~NoneTwice

\* When the server has handled FINISH the client's program ends: DONE comes
\* back and closes both ends, whatever else is queued and whichever of the two
\* disconnects first, but for the four ways of DoneFails.
FinishCloses ==
  (Len(ClientScript) \in arrived["client"]
     /\ ClientScript[Len(ClientScript)] = "FINISH")
  ~> main["client"] = "exited" \/ DoneFails

\* A client whose handshake ended in ERROR gives up its messages and ends.
ErrorStops == trans_state["client"] = "ERROR" ~> main["client"] = "exited"

\* What hmr_rdma_transport.h says of the states: once CONNECTED, the exchange
\* of regions takes the transport on to SCONNECTED or RCONNECTED.
ExchangeCompletes ==
  \A e \in End : trans_state[e] = "CONNECTED" ~>
                   trans_state[e] \in {"SCONNECTED", "RCONNECTED"}

\* hmr_timerfd.c: a task deleted from the list is freed by the handler of its
\* completion, so it has one.
UnlinkedTasksComplete == \A e \in End : dropped[e] \subseteq lost[e]

\* hmr_rdma_send reports "rdma transport exit error." when the connection is
\* over: nothing is sent from the pool that on_cm_disconnected released.
SendAfterCloseRefused == \A e \in End : "send" \notin misuse[e]
=============================================================================
