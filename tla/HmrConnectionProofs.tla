------------------------ MODULE HmrConnectionProofs ------------------------
(***************************************************************************)
(* Proofs about HmrConnection, for every script, every number of receives, *)
(* with and without failures.  First its types, and that no RDMA write is  *)
(* queued or posted before the peer's region is known.  Then the handshake *)
(* and the exchange of memory regions: one inductive invariant,            *)
(* ExchangeInv, says what the connection manager still owes each end, that *)
(* nothing is sent before the client has taken ESTABLISHED, and where the  *)
(* one MR of the server is; from it follow ExchangeEnds,                   *)
(* WritesStayEnabled, EpollNeverSpins and, with the region of the peer,    *)
(* WritePlaceGrows.                                                        *)
(***************************************************************************)
EXTENDS HmrConnection, FiniteSetTheorems, SequenceTheorems, TLAPS

-----------------------------------------------------------------------------
(* Lemmas about the operators of the model. *)

\* The other end is an end, and the other end's other end is this one.
LEMMA PeerIsEnd ==
  ASSUME NEW e \in End
  PROVE  Peer(e) \in End /\ Peer(e) # e /\ Peer(Peer(e)) = e
BY DEF End, Peer

\* What main sends at a position of its script is an application message, and
\* the two messages of the epoll thread are messages too.
LEMMA MessageTypes ==
  /\ Mr \in Msg /\ Done \in Msg
  /\ \A e \in End : \A i \in IdsOf(e) :
       /\ Script(e)[i] \in AppType
       /\ [type |-> Script(e)[i], id |-> i] \in Msg
<1>1. Mr \in Msg /\ Done \in Msg
  BY DEF Mr, Done, Msg, MsgType
<1>2. ASSUME NEW e \in End, NEW i \in IdsOf(e)
      PROVE  Script(e)[i] \in AppType /\ [type |-> Script(e)[i], id |-> i] \in Msg
  <2>1. ClientScript \in Seq(AppType) /\ ServerScript \in Seq({"NORMAL"})
    BY ScriptAssumption
  <2>2. i \in Nat /\ i \in 1..Len(Script(e))
    BY <2>1, <1>2 DEF IdsOf, Script
  <2>3. Script(e)[i] \in AppType
    BY <2>1, <2>2 DEF Script, AppType
  <2> QED
    BY <2>2, <2>3 DEF Msg, MsgType
<1> QED
  BY <1>1, <1>2

\* Taking from and adding to a sequence of messages gives one.
LEMMA SequenceTypes ==
  ASSUME NEW S, NEW s \in Seq(S)
  PROVE  /\ \A m \in S : Append(s, m) \in Seq(S)
         /\ s # << >> => Head(s) \in S /\ Tail(s) \in Seq(S)
         /\ \A t \in Seq(S) : s \o t \in Seq(S)
         /\ << >> \in Seq(S)
         /\ Len(s) \in Nat
OBVIOUS

\* The indices of messages are numbers, and the number of writes is one.
LEMMA SequenceCounts ==
  ASSUME NEW s \in Seq(Msg)
  PROVE  /\ SeqIds(s) \subseteq Nat
         /\ Writes(s) \in Nat
<1>1. SeqIds(s) \subseteq Nat
  <2>1. \A i \in 1..Len(s) : s[i] \in Msg
    OBVIOUS
  <2>2. \A m \in Msg : m.id \in Nat
    BY DEF Msg
  <2> QED
    BY <2>1, <2>2 DEF SeqIds
<1>2. IsFiniteSet(1..Len(s))
  BY FS_Interval
<1>3. IsFiniteSet({i \in 1..Len(s) : IsWrite(s[i])})
  BY <1>2, FS_Subset
<1> QED
  BY <1>1, <1>3, FS_CardinalityType DEF Writes

\* No helper leaves the states of a transport.
LEMMA StateTypes ==
  \A s \in TransState : AfterMrSent(s) \in TransState /\ AfterMrReceived(s) \in TransState
BY DEF TransState, AfterMrSent, AfterMrReceived

\* The first tasks of a list.
LEMMA FirstTasks ==
  ASSUME NEW s \in Seq(Msg), NEW n \in 0 .. Len(s)
  PROVE  /\ SubSeq(s, 1, n) \in Seq(Msg)
         /\ Len(SubSeq(s, 1, n)) = n
         /\ \A k \in 1 .. n : SubSeq(s, 1, n)[k] = s[k]
<1>1. \A k \in 1 .. n : s[k] \in Msg
  OBVIOUS
<1> QED
  BY <1>1

-----------------------------------------------------------------------------
(* The type invariant needs one more fact: main is to enqueue only a message *)
(* of its script.                                                            *)

PosOK == \A e \in End : main[e] = "enqueue" => pos[e] \in IdsOf(e)

TypeInv == TypeOK /\ PosOK

LEMMA TypeInit == Init => TypeInv
<1> SUFFICES ASSUME Init PROVE TypeInv
  OBVIOUS
<1> USE DEF Init
<1>1. TransTypeOK
  <2>1. /\ trans_state \in [End -> TransState]
        /\ normal_mempool \in [End -> {"none", "live", "released"}]
        /\ qp \in [End -> {"none", "ready", "error", "destroyed"}]
        /\ st_timerfd \in [End -> {"off", "on", "stale"}]
        /\ send_task_list \in [End -> Seq(Msg)]
        /\ used_normal_size \in [End -> Nat]
    BY DEF TransState
  <2>2. peer_mr \in [End -> BOOLEAN] /\ accept_rdma_trans \in BOOLEAN
    BY Zenon
  <2> QED
    BY <2>1, <2>2 DEF TransTypeOK
<1>2. ThreadTypeOK /\ PosOK
  BY DEF ThreadTypeOK, PosOK, MainState, End
<1>3. QpTypeOK
  BY DEF QpTypeOK
<1>4. CmTypeOK
  BY DEF CmTypeOK, CmState
<1>5. HistoryTypeOK
  BY DEF HistoryTypeOK
<1>6. FaultTypeOK
  BY MaxRefusedAssumption DEF FaultTypeOK
<1> QED
  BY <1>1, <1>2, <1>3, <1>4, <1>5, <1>6 DEF TypeInv, TypeOK

\* A group of variables that does not change keeps its types.
LEMMA TypeUnchanged ==
  ASSUME TypeInv
  PROVE  /\ UNCHANGED transVars => TransTypeOK'
         /\ UNCHANGED threadVars => ThreadTypeOK' /\ PosOK'
         /\ UNCHANGED qpVars => QpTypeOK'
         /\ UNCHANGED cmVars => CmTypeOK'
         /\ UNCHANGED history => HistoryTypeOK'
         /\ UNCHANGED <<raceVars, refusalVars>> => FaultTypeOK'
<1>1. UNCHANGED transVars => TransTypeOK'
  BY DEF TypeInv, TypeOK, transVars, TransTypeOK
<1>2. UNCHANGED threadVars => ThreadTypeOK' /\ PosOK'
  BY DEF TypeInv, TypeOK, threadVars, ThreadTypeOK, PosOK
<1>3. UNCHANGED qpVars => QpTypeOK'
  BY DEF TypeInv, TypeOK, qpVars, QpTypeOK
<1>4. UNCHANGED cmVars => CmTypeOK'
  BY DEF TypeInv, TypeOK, cmVars, CmTypeOK
<1>5. UNCHANGED history => HistoryTypeOK'
  BY DEF TypeInv, TypeOK, history, HistoryTypeOK
<1>6. UNCHANGED <<raceVars, refusalVars>> => FaultTypeOK'
  BY DEF TypeInv, TypeOK, raceVars, refusalVars, FaultTypeOK
<1> QED
  BY <1>1, <1>2, <1>3, <1>4, <1>5, <1>6

\* What an insertion makes of the list and of the history.
LEMMA TypeInsert ==
  ASSUME TypeInv, NEW e \in End, NEW task \in Msg, Insert(e, task)
  PROVE  /\ send_task_list' \in [End -> Seq(Msg)]
         /\ dropped' \in [End -> SUBSET Nat]
         /\ lost' \in [End -> SUBSET Nat]
<1> USE DEF TypeInv, TypeOK
<1>1. /\ send_task_list \in [End -> Seq(Msg)]
      /\ dropped \in [End -> SUBSET Nat] /\ lost \in [End -> SUBSET Nat]
      /\ Append(send_task_list[e], task) \in Seq(Msg)
      /\ task.id \in Nat
  BY SequenceTypes DEF TransTypeOK, HistoryTypeOK, FaultTypeOK, Msg
<1>2. CASE send_task_list' = [send_task_list EXCEPT ![e] = ListAddTail(@, task)]
           /\ UNCHANGED <<dropped, lost>>
  BY <1>1, <1>2 DEF ListAddTail
<1>3. CASE /\ dropped' = [dropped EXCEPT ![e] = @ \cup {task.id}]
           /\ lost' = [lost EXCEPT ![e] = @ \cup {task.id}]
           /\ UNCHANGED send_task_list
  BY <1>1, <1>3
<1> QED
  BY <1>2, <1>3 DEF Insert

LEMMA TypeRaces ==
  ASSUME TypeInv, NEW e \in End, Races(e)
  PROVE  torn' \in SUBSET End
BY DEF TypeInv, TypeOK, FaultTypeOK, Races

\* A step of a main thread keeps the types.
LEMMA TypeMain ==
  ASSUME TypeInv
  PROVE  /\ ClientConnect \/ Accept \/ SetConnecting \/ Prepare => TypeInv'
         /\ \A e \in End : Main(e) => TypeInv'
<1> USE DEF TypeInv, TypeOK
<1>1. ASSUME ClientConnect PROVE TypeInv'
  <2>1. TransTypeOK'
    BY <1>1 DEF ClientConnect, TransTypeOK, TransState, End
  <2>2. ThreadTypeOK' /\ PosOK'
    BY <1>1 DEF ClientConnect, ThreadTypeOK, PosOK, MainState, End
  <2>3. CmTypeOK'
    BY <1>1 DEF ClientConnect, CmTypeOK, CmState
  <2> QED
    BY <1>1, <2>1, <2>2, <2>3, TypeUnchanged DEF ClientConnect
<1>2. ASSUME Accept PROVE TypeInv'
  <2>1. TransTypeOK'
    BY <1>2 DEF Accept, TransTypeOK
  <2>2. ThreadTypeOK' /\ PosOK'
    BY <1>2 DEF Accept, ThreadTypeOK, PosOK, MainState, End
  <2>3. CmTypeOK'
    BY <1>2 DEF Accept, CmTypeOK, CmState
  <2> QED
    BY <1>2, <2>1, <2>2, <2>3, TypeUnchanged DEF Accept
<1>3. ASSUME SetConnecting PROVE TypeInv'
  <2>1. TransTypeOK'
    BY <1>3 DEF SetConnecting, TransTypeOK, TransState, End
  <2>2. ThreadTypeOK' /\ PosOK'
    BY <1>3 DEF SetConnecting, ThreadTypeOK, PosOK, MainState, End
  <2> QED
    BY <1>3, <2>1, <2>2, TypeUnchanged DEF SetConnecting
<1>4. ASSUME Prepare PROVE TypeInv'
  <2>1. TransTypeOK'
    BY <1>4 DEF Prepare, TransTypeOK, End
  <2>2. ThreadTypeOK' /\ PosOK'
    BY <1>4 DEF Prepare, ThreadTypeOK, PosOK, MainState, End
  <2>3. QpTypeOK'
    BY <1>4, NumRecvAssumption DEF Prepare, QpTypeOK, End
  <2> QED
    BY <1>4, <2>1, <2>2, <2>3, TypeUnchanged DEF Prepare
<1>5. ASSUME NEW e \in End, MainCheck(e) PROVE TypeInv'
  <2>1. ThreadTypeOK' /\ PosOK'
    BY <1>5 DEF MainCheck, ThreadTypeOK, PosOK, MainState
  <2> QED
    BY <1>5, <2>1, TypeUnchanged DEF MainCheck
<1>6. ASSUME NEW e \in End, MainEnqueue(e) PROVE TypeInv'
  <2>1. [type |-> Script(e)[pos[e]], id |-> pos[e]] \in Msg
    BY <1>6, MessageTypes DEF MainEnqueue, PosOK
  <2>2. /\ send_task_list' \in [End -> Seq(Msg)]
        /\ dropped' \in [End -> SUBSET Nat]
        /\ lost' \in [End -> SUBSET Nat]
    BY <1>6, <2>1, TypeInsert DEF MainEnqueue
  <2>3. TransTypeOK'
    BY <1>6, <2>2 DEF MainEnqueue, TransTypeOK
  <2>4. ThreadTypeOK' /\ PosOK'
    BY <1>6 DEF MainEnqueue, ThreadTypeOK, PosOK, MainState
  <2>5. HistoryTypeOK'
    BY <1>6, <2>2 DEF MainEnqueue, HistoryTypeOK
  <2>6. FaultTypeOK'
    BY <1>6, <2>2 DEF MainEnqueue, refusalVars, FaultTypeOK
  <2> QED
    BY <1>6, <2>3, <2>4, <2>5, <2>6, TypeUnchanged DEF MainEnqueue
<1>7. ASSUME NEW e \in End, MainSent(e) \/ MainJoin(e) PROVE TypeInv'
  <2>1. ThreadTypeOK' /\ PosOK'
    BY <1>7 DEF MainSent, MainJoin, ThreadTypeOK, PosOK, MainState
  <2> QED
    BY <1>7, <2>1, TypeUnchanged DEF MainSent, MainJoin
<1> QED
  BY <1>1, <1>2, <1>3, <1>4, <1>5, <1>6, <1>7 DEF Main

\* So do the operators that several actions share.
LEMMA TypeShared ==
  ASSUME TypeInv, NEW e \in End
  PROVE  /\ Repost(e) => recv_posted' \in [End -> Nat]
         /\ PostMr(e) => /\ wire' \in [End -> Seq(Msg)]
                         /\ mr_posts' \in [End -> Nat]
                         /\ mr_refused' \in SUBSET End
         /\ \A state \in {"error", "destroyed"} : QpStops(e, state) =>
              /\ qp' \in [End -> {"none", "ready", "error", "destroyed"}]
              /\ flushed' \in [End -> SUBSET Nat]
              /\ wire' \in [End -> Seq(Msg)]
              /\ recv_posted' \in [End -> Nat]
         /\ (IF cm \in {"rtu", "up"}
             THEN cm' = "disconnecting" /\ cm_hangup' = End
             ELSE UNCHANGED <<cm, cm_hangup>>)
            => cm' \in CmState /\ cm_hangup' \in SUBSET End
<1> USE DEF TypeInv, TypeOK
<1>1. Repost(e) => recv_posted' \in [End -> Nat]
  BY DEF Repost, QpTypeOK
<1>2. ASSUME PostMr(e)
      PROVE  /\ wire' \in [End -> Seq(Msg)]
             /\ mr_posts' \in [End -> Nat]
             /\ mr_refused' \in SUBSET End
  <2>1. Append(wire[e], Mr) \in Seq(Msg)
    BY MessageTypes, SequenceTypes DEF QpTypeOK
  <2>2. wire' \in [End -> Seq(Msg)]
    BY <1>2, <2>1 DEF PostMr, QpTypeOK
  <2>3. mr_posts' \in [End -> Nat] /\ mr_refused' \in SUBSET End
    BY <1>2 DEF PostMr, HistoryTypeOK, FaultTypeOK
  <2> QED
    BY <2>2, <2>3
<1>3. ASSUME NEW state \in {"error", "destroyed"}, QpStops(e, state)
      PROVE  /\ qp' \in [End -> {"none", "ready", "error", "destroyed"}]
             /\ flushed' \in [End -> SUBSET Nat]
             /\ wire' \in [End -> Seq(Msg)]
             /\ recv_posted' \in [End -> Nat]
  <2>1. SeqIds(wire[e]) \subseteq Nat
    BY SequenceCounts DEF QpTypeOK
  <2>2. flushed' \in [End -> SUBSET Nat]
    BY <1>3, <2>1 DEF QpStops, HistoryTypeOK
  <2>3. wire' \in [End -> Seq(Msg)] /\ recv_posted' \in [End -> Nat]
    BY <1>3, SequenceTypes DEF QpStops, QpTypeOK
  <2>4. qp' \in [End -> {"none", "ready", "error", "destroyed"}]
    BY <1>3 DEF QpStops, TransTypeOK
  <2> QED
    BY <2>2, <2>3, <2>4
<1>4. (IF cm \in {"rtu", "up"}
       THEN cm' = "disconnecting" /\ cm_hangup' = End
       ELSE UNCHANGED <<cm, cm_hangup>>)
      => cm' \in CmState /\ cm_hangup' \in SUBSET End
  BY DEF CmTypeOK, CmState
<1> QED
  BY <1>1, <1>2, <1>3, <1>4

\* Taking an event leaves a sequence of events.
LEMMA TypeTakeEvent ==
  ASSUME TypeInv, NEW e \in End, NEW event, TakeEvent(e, event)
  PROVE  cm_events' \in [End -> Seq(CmEvent)]
BY SequenceTypes DEF TypeInv, TypeOK, CmTypeOK, TakeEvent

\* The handlers of connection manager events keep the types.
LEMMA TypeCm ==
  ASSUME TypeInv
  PROVE  /\ AddrResolved \/ RouteResolved \/ ConnectRequest => TypeInv'
         /\ \A e \in End : CmHandler(e) => TypeInv'
<1> USE DEF TypeInv, TypeOK
<1>0. "client" \in End /\ "server" \in End
  BY DEF End
<1>1. ASSUME AddrResolved PROVE TypeInv'
  <2>1. TransTypeOK'
    BY ZenonT(60), <1>1 DEF AddrResolved, TransTypeOK
  <2>2. CmTypeOK'
    BY <1>0, <1>1, TypeTakeEvent DEF AddrResolved, CmTypeOK, CmState
  <2> QED
    BY <1>1, <2>1, <2>2, TypeUnchanged DEF AddrResolved
<1>2. ASSUME RouteResolved PROVE TypeInv'
  <2>1. \/ UNCHANGED trans_state
        \/ trans_state' = [trans_state EXCEPT !["client"] = "ERROR"]
        \/ trans_state' = [trans_state EXCEPT !["client"] = trans_state["client"]]
    BY <1>2, Zenon DEF RouteResolved
  <2>2. trans_state' \in [End -> TransState]
    BY ZenonT(60), <2>1 DEF TransTypeOK, TransState
  <2>3. qp' \in [End -> {"none", "ready", "error", "destroyed"}]
    BY <1>2 DEF RouteResolved, TransTypeOK
  <2>4. TransTypeOK'
    BY <1>2, <2>2, <2>3 DEF RouteResolved, TransTypeOK
  <2>5. is_stop' \in [End -> BOOLEAN]
    BY <1>2 DEF RouteResolved, ThreadTypeOK
  <2>6. ThreadTypeOK' /\ PosOK'
    BY <1>2, <2>5 DEF RouteResolved, ThreadTypeOK, PosOK
  <2>7. QpTypeOK'
    BY <1>2, NumRecvAssumption DEF RouteResolved, QpTypeOK
  <2>8. CmTypeOK'
    BY <1>0, <1>2, TypeTakeEvent DEF RouteResolved, CmTypeOK, CmState
  <2> QED
    BY <1>2, <2>4, <2>6, <2>7, <2>8, TypeUnchanged DEF RouteResolved
<1>3. ASSUME ConnectRequest PROVE TypeInv'
  <2>1. accept_rdma_trans' \in BOOLEAN
    BY <1>3, Zenon DEF ConnectRequest, Outcomes
  <2>2. qp' \in [End -> {"none", "ready", "error", "destroyed"}]
    BY <1>3 DEF ConnectRequest, TransTypeOK
  <2>3. TransTypeOK'
    BY <1>3, <2>1, <2>2, Zenon DEF ConnectRequest, TransTypeOK
  <2>4. CmTypeOK'
    BY <1>0, <1>3, TypeTakeEvent DEF ConnectRequest, CmTypeOK
  <2> QED
    BY <1>3, <2>3, <2>4, TypeUnchanged DEF ConnectRequest
<1>4. ASSUME NEW e \in End, Established(e) PROVE TypeInv'
  <2>1. TransTypeOK'
    BY <1>4 DEF Established, TransTypeOK, TransState
  <2>2. ThreadTypeOK' /\ PosOK'
    BY <1>4, TypeUnchanged DEF Established
  <2>3. QpTypeOK' /\ mr_posts' \in [End -> Nat]
    BY <1>4, TypeShared DEF Established, QpTypeOK, HistoryTypeOK
  <2>4. CmTypeOK'
    BY <1>4, TypeTakeEvent DEF Established, CmTypeOK, CmState
  <2>5. HistoryTypeOK'
    BY <1>4, <2>3 DEF Established, HistoryTypeOK
  <2>6. mr_refused' \in SUBSET End
    BY <1>4, TypeShared DEF Established, FaultTypeOK
  <2>7. FaultTypeOK'
    BY <1>4, <2>6 DEF Established, raceVars, FaultTypeOK
  <2> QED
    BY <2>1, <2>2, <2>3, <2>4, <2>5, <2>7
<1>5. ASSUME NEW e \in End, Disconnected(e) PROVE TypeInv'
  <2>1. TransTypeOK'
    BY <1>5, TypeShared DEF Disconnected, TransTypeOK
  <2>2. is_stop' \in [End -> BOOLEAN]
    BY <1>5 DEF Disconnected, ThreadTypeOK
  <2>3. ThreadTypeOK' /\ PosOK'
    BY <1>5, <2>2 DEF Disconnected, ThreadTypeOK, PosOK
  <2>4. QpTypeOK'
    BY <1>5, TypeShared, SequenceTypes DEF Disconnected, QpTypeOK
  <2>5. CmTypeOK'
    BY <1>5, TypeTakeEvent DEF Disconnected, CmTypeOK
  <2>6. HistoryTypeOK'
    BY <1>5, TypeShared DEF Disconnected, HistoryTypeOK
  <2> QED
    BY <1>5, <2>1, <2>3, <2>4, <2>5, <2>6, TypeUnchanged DEF Disconnected
<1>6. ASSUME NEW e \in End, ConnectError(e) PROVE TypeInv'
  <2>1. TransTypeOK'
    BY <1>6 DEF ConnectError, TransTypeOK, TransState
  <2>2. is_stop' \in [End -> BOOLEAN]
    BY <1>6 DEF ConnectError, ThreadTypeOK
  <2>3. ThreadTypeOK' /\ PosOK'
    BY <1>6, <2>2 DEF ConnectError, ThreadTypeOK, PosOK
  <2>4. CmTypeOK'
    BY <1>6, TypeTakeEvent DEF ConnectError, CmTypeOK
  <2> QED
    BY <1>6, <2>1, <2>3, <2>4, TypeUnchanged DEF ConnectError
<1>7. ASSUME NEW e \in End, OtherError(e) PROVE TypeInv'
  <2>1. CmTypeOK'
    BY <1>7, TypeTakeEvent DEF OtherError, CmTypeOK
  <2> QED
    BY <1>7, <2>1, TypeUnchanged DEF OtherError
<1> QED
  BY <1>1, <1>2, <1>3, <1>4, <1>5, <1>6, <1>7 DEF CmHandler

\* The handlers of completions keep the types.
LEMMA TypeCq ==
  ASSUME TypeInv, NEW e \in End, CqHandler(e)
  PROVE  TypeInv'
<1> USE DEF TypeInv, TypeOK
<1>1. ASSUME TakeSent(e) PROVE sent' \in [End -> Seq(Msg)]
  BY <1>1, SequenceTypes DEF TakeSent, QpTypeOK
<1>2. ASSUME NEW type, TakeRecv(e, type)
      PROVE  recvs' \in [End -> Seq(Msg)] /\ Head(recvs[e]).id \in Nat
  <2>1. recvs[e] \in Seq(Msg) /\ recvs[e] # << >>
    BY <1>2 DEF TakeRecv, QpTypeOK
  <2>2. Head(recvs[e]) \in Msg /\ Tail(recvs[e]) \in Seq(Msg)
    BY <2>1, SequenceTypes
  <2>3. Head(recvs[e]).id \in Nat
    BY <2>2 DEF Msg
  <2> QED
    BY <1>2, <2>2, <2>3 DEF TakeRecv, QpTypeOK
<1>3. ASSUME NEW type, TakeRecv(e, type), Arrives(e)
      PROVE  arrived' \in [End -> SUBSET Nat]
  BY <1>2, <1>3, PeerIsEnd DEF Arrives, HistoryTypeOK
<1>4. CASE SentMr(e)
  <2>1. TransTypeOK'
    BY <1>4, StateTypes DEF SentMr, TransTypeOK
  <2>2. QpTypeOK'
    BY <1>1, <1>4 DEF SentMr, QpTypeOK
  <2> QED
    BY <1>4, <2>1, <2>2, TypeUnchanged DEF SentMr
<1>5. CASE SentOther(e)
  <2>1. TransTypeOK'
    BY <1>5, TypeShared DEF SentOther, Disconnect, TransTypeOK
  <2>2. QpTypeOK'
    BY <1>1, <1>5, TypeShared DEF SentOther, Disconnect, QpTypeOK
  <2>3. CmTypeOK'
    BY <1>5, TypeShared DEF SentOther, Disconnect, CmTypeOK
  <2>4. HistoryTypeOK'
    BY <1>5, TypeShared DEF SentOther, Disconnect, HistoryTypeOK
  <2> QED
    BY <1>5, <2>1, <2>2, <2>3, <2>4, TypeUnchanged DEF SentOther
<1>6. CASE RecvNormal(e)
  <2>1. QpTypeOK'
    BY <1>2, <1>6, TypeShared DEF RecvNormal, QpTypeOK
  <2>2. HistoryTypeOK'
    BY <1>3, <1>6 DEF RecvNormal, HistoryTypeOK
  <2> QED
    BY <1>6, <2>1, <2>2, TypeUnchanged DEF RecvNormal
<1>7. CASE RecvFinish(e)
  <2>1. \/ Races(e) /\ Insert(e, Done)
        \/ UNCHANGED <<send_task_list, dropped, raceVars>>
    BY <1>7, Zenon DEF RecvFinish
  <2>2. /\ send_task_list' \in [End -> Seq(Msg)]
        /\ dropped' \in [End -> SUBSET Nat]
        /\ lost' \in [End -> SUBSET Nat]
        /\ torn' \in SUBSET End
    BY <2>1, MessageTypes, TypeInsert, TypeRaces
       DEF TransTypeOK, HistoryTypeOK, FaultTypeOK, raceVars
  <2>3. TransTypeOK'
    BY <1>7, <2>2 DEF RecvFinish, TransTypeOK
  <2>4. ThreadTypeOK' /\ PosOK'
    BY <1>7 DEF RecvFinish, ThreadTypeOK, PosOK
  <2>5. QpTypeOK'
    BY <1>2, <1>7, TypeShared DEF RecvFinish, QpTypeOK
  <2>6. HistoryTypeOK'
    BY <1>3, <1>7, <2>2 DEF RecvFinish, HistoryTypeOK
  <2>7. FaultTypeOK'
    BY <1>7, <2>2 DEF RecvFinish, refusalVars, FaultTypeOK
  <2> QED
    BY <1>7, <2>3, <2>4, <2>5, <2>6, <2>7, TypeUnchanged DEF RecvFinish
<1>8. CASE RecvDone(e)
  <2>1. TransTypeOK'
    BY <1>8, TypeShared DEF RecvDone, Disconnect, TransTypeOK
  <2>2. QpTypeOK'
    BY <1>2, <1>8, TypeShared DEF RecvDone, Disconnect, QpTypeOK
  <2>3. CmTypeOK'
    BY <1>8, TypeShared DEF RecvDone, Disconnect, CmTypeOK
  <2>4. HistoryTypeOK'
    BY <1>8, TypeShared DEF RecvDone, Disconnect, HistoryTypeOK
  <2> QED
    BY <1>8, <2>1, <2>2, <2>3, <2>4, TypeUnchanged DEF RecvDone
<1>9. CASE RecvMr(e)
  <2>1. peer_mr' \in [End -> BOOLEAN]
    BY <1>9 DEF RecvMr, TransTypeOK
  <2>2. TransTypeOK'
    BY <1>9, <2>1, StateTypes DEF RecvMr, TransTypeOK
  <2>3. QpTypeOK' /\ mr_posts' \in [End -> Nat]
    BY <1>2, <1>9, TypeShared DEF RecvMr, QpTypeOK, HistoryTypeOK
  <2>4. HistoryTypeOK'
    BY <1>9, <2>3 DEF RecvMr, HistoryTypeOK
  <2>5. mr_refused' \in SUBSET End
    BY <1>9, TypeShared DEF RecvMr, FaultTypeOK
  <2>6. FaultTypeOK'
    BY <1>9, <2>5 DEF RecvMr, raceVars, FaultTypeOK
  <2> QED
    BY <1>9, <2>2, <2>3, <2>4, <2>6, TypeUnchanged DEF RecvMr
<1> QED
  BY <1>4, <1>5, <1>6, <1>7, <1>8, <1>9 DEF CqHandler

\* The timer's steps and the end of the loop keep the types.
LEMMA TypeTimer ==
  ASSUME TypeInv, NEW e \in End, TimerHandler(e) \/ LoopExit(e)
  PROVE  TypeInv'
<1> USE DEF TypeInv, TypeOK
<1>0. /\ send_task_list[e] \in Seq(Msg)
      /\ Len(send_task_list[e]) \in Nat
      /\ Writes(send_task_list[e]) \in Nat
  BY SequenceTypes, SequenceCounts DEF TransTypeOK
<1>1. ASSUME NEW tasks \in Seq(Msg), Posts(e, tasks)
      PROVE  /\ used_normal_size' \in [End -> Nat]
             /\ QpTypeOK' /\ HistoryTypeOK'
  <2>1. SeqIds(tasks) \subseteq Nat
    BY SequenceCounts
  <2>2. used_normal_size' \in [End -> Nat]
    BY <1>0, <1>1 DEF Posts, TransTypeOK
  <2>3. QpTypeOK'
    BY <1>1, SequenceTypes DEF Posts, QpTypeOK
  <2>4. HistoryTypeOK'
    BY <1>1, <2>1 DEF Posts, HistoryTypeOK
  <2> QED
    BY <2>2, <2>3, <2>4
<1>5. CASE TimerPost(e)
  <2>1. Posts(e, send_task_list[e])
    BY <1>5 DEF TimerPost
  <2>2. TransTypeOK'
    BY <1>0, <1>1, <1>5, <2>1 DEF TimerPost, Posts, TransTypeOK
  <2>3. ThreadTypeOK' /\ PosOK'
    BY <1>0, <1>5, <2>1 DEF TimerPost, Posts, ThreadTypeOK, PosOK
  <2>4. FaultTypeOK'
    BY <1>5, <2>1 DEF TimerPost, Posts, raceVars, FaultTypeOK
  <2>5. QpTypeOK' /\ HistoryTypeOK'
    BY <1>0, <1>1, <2>1
  <2>6. CmTypeOK'
    BY <2>1, TypeUnchanged DEF Posts
  <2> QED
    BY <2>2, <2>3, <2>4, <2>5, <2>6
<1>6. CASE TimerRefused(e)
  <2>1. PICK n \in 0 .. Len(send_task_list[e]) - 1 :
          /\ Posts(e, SubSeq(send_task_list[e], 1, n))
          /\ twice' = IF n = 0 THEN twice ELSE twice \cup {e}
    BY <1>6 DEF TimerRefused
  <2>2. SubSeq(send_task_list[e], 1, n) \in Seq(Msg)
    BY <1>0, FirstTasks
  <2>3. QpTypeOK' /\ HistoryTypeOK' /\ used_normal_size' \in [End -> Nat]
    BY <1>1, <2>1, <2>2
  <2>4. TransTypeOK'
    BY <1>6, <2>1, <2>3 DEF TimerRefused, Posts, Expire, TransTypeOK
  <2>5. ThreadTypeOK' /\ PosOK'
    BY <1>6, <2>1 DEF TimerRefused, Posts, ThreadTypeOK, PosOK
  <2>6. FaultTypeOK'
    BY <1>6, <2>1, MaxRefusedAssumption DEF TimerRefused, Posts, raceVars, FaultTypeOK
  <2>7. CmTypeOK'
    BY <2>1, TypeUnchanged DEF Posts
  <2> QED
    BY <2>3, <2>4, <2>5, <2>6, <2>7
<1>2. CASE TimerUnlink(e)
  <2>1. send_task_list' \in [End -> Seq(Msg)]
    BY <1>2 DEF TimerUnlink, TransTypeOK, ListAfterUnlink
  <2>2. TransTypeOK'
    BY <1>2, <2>1 DEF TimerUnlink, Expire, TransTypeOK
  <2>3. ThreadTypeOK' /\ PosOK'
    BY <1>2 DEF TimerUnlink, ThreadTypeOK, PosOK
  <2>4. {send_task_list[e][i].id : i \in posted[e] + 1 .. Len(send_task_list[e])}
          \subseteq Nat
    <3>1. send_task_list[e] \in Seq(Msg) /\ posted[e] \in Nat
      BY DEF TransTypeOK, ThreadTypeOK
    <3>2. \A i \in posted[e] + 1 .. Len(send_task_list[e]) :
            send_task_list[e][i] \in Msg
      BY <3>1
    <3> QED
      BY <3>2 DEF Msg
  <2>5. HistoryTypeOK'
    BY <1>2, <2>4 DEF TimerUnlink, HistoryTypeOK
  <2>6. FaultTypeOK'
    BY <1>2, TypeRaces DEF TimerUnlink, refusalVars, FaultTypeOK
  <2> QED
    BY <1>2, <2>2, <2>3, <2>5, <2>6, TypeUnchanged DEF TimerUnlink
<1>3. CASE StaleExpires(e)
  <2>1. TransTypeOK'
    BY <1>3 DEF StaleExpires, TransTypeOK
  <2> QED
    BY <1>3, <2>1, TypeUnchanged DEF StaleExpires
<1>4. CASE LoopExit(e)
  <2>1. ThreadTypeOK' /\ PosOK'
    BY <1>4 DEF LoopExit, ThreadTypeOK, PosOK
  <2> QED
    BY <1>4, <2>1, TypeUnchanged DEF LoopExit
<1> QED
  BY <1>2, <1>3, <1>4, <1>5, <1>6 DEF TimerHandler

\* The steps of the QPs and of the connection manager keep the types.
LEMMA TypeNetwork ==
  ASSUME TypeInv
  PROVE  /\ CmProgress \/ CmFails => TypeInv'
         /\ \A e \in End : Network(e) \/ RnrExhausted(e) => TypeInv'
<1> USE DEF TypeInv, TypeOK
<1>1. ASSUME CmProgress PROVE TypeInv'
  <2>1. ASSUME NEW from, NEW to \in CmState, NEW e \in End, NEW event \in CmEvent,
               CmNotifies(from, to, e, event)
        PROVE  CmTypeOK'
    <3>1. cm_events[e] \in Seq(CmEvent)
      BY DEF CmTypeOK
    <3>2. Append(cm_events[e], event) \in Seq(CmEvent)
      BY <3>1, SequenceTypes
    <3> QED
      BY <2>1, <3>2 DEF CmNotifies, CmTypeOK
  <2>2. CmTypeOK'
    BY <1>1, <2>1 DEF CmProgress, CmState, CmEvent, End
  <2> QED
    BY <1>1, <2>2, TypeUnchanged DEF CmProgress
<1>2. ASSUME CmFails PROVE TypeInv'
  <2>1. CmTypeOK'
    BY <1>2, SequenceTypes DEF CmFails, CmTypeOK, CmState, CmEvent
  <2> QED
    BY <1>2, <2>1, TypeUnchanged DEF CmFails
<1>3. ASSUME NEW e \in End, wire[e] # << >>
      PROVE  /\ wire[e] \in Seq(Msg) /\ Head(wire[e]) \in Msg
             /\ Tail(wire[e]) \in Seq(Msg)
             /\ Head(wire[e]).id \in Nat
  <2>1. Head(wire[e]) \in Msg /\ Tail(wire[e]) \in Seq(Msg)
    BY <1>3, SequenceTypes DEF QpTypeOK
  <2> QED
    BY <2>1 DEF QpTypeOK, Msg
<1>4. ASSUME NEW e \in End, DeliverSend(e) PROVE TypeInv'
  <2>1. wire[e] # << >> /\ recv_posted[Peer(e)] > 0 /\ Peer(e) \in End
    BY <1>4, PeerIsEnd DEF DeliverSend, Linked
  <2>2. wire' \in [End -> Seq(Msg)]
    BY <1>3, <1>4, <2>1 DEF DeliverSend, QpTypeOK
  <2>3. sent' \in [End -> Seq(Msg)] /\ recvs' \in [End -> Seq(Msg)]
    BY <1>3, <1>4, <2>1, SequenceTypes DEF DeliverSend, QpTypeOK
  <2>4. recv_posted' \in [End -> Nat]
    BY <1>4, <2>1 DEF DeliverSend, QpTypeOK
  <2>5. QpTypeOK'
    BY <2>2, <2>3, <2>4 DEF QpTypeOK
  <2> QED
    BY <1>4, <2>5, TypeUnchanged DEF DeliverSend
<1>5. ASSUME NEW e \in End, DeliverWrite(e) PROVE TypeInv'
  <2>1. wire[e] # << >>
    BY <1>5 DEF DeliverWrite, Linked
  <2>2. QpTypeOK'
    BY <1>3, <1>5, <2>1, SequenceTypes DEF DeliverWrite, QpTypeOK
  <2>3. HistoryTypeOK'
    BY <1>3, <1>5, <2>1 DEF DeliverWrite, HistoryTypeOK
  <2> QED
    BY <1>5, <2>2, <2>3, TypeUnchanged DEF DeliverWrite
<1>6. ASSUME NEW e \in End, CmHangup(e) PROVE TypeInv'
  <2>1. CmTypeOK'
    BY <1>6, SequenceTypes DEF CmHangup, CmTypeOK, CmEvent
  <2> QED
    BY <1>6, <2>1, TypeUnchanged DEF CmHangup
<1>7. ASSUME NEW e \in End, RnrExhausted(e) PROVE TypeInv'
  <2>1. TransTypeOK'
    BY <1>7, TypeShared DEF RnrExhausted, TransTypeOK
  <2>2. QpTypeOK'
    BY <1>7, TypeShared DEF RnrExhausted, QpTypeOK
  <2>3. HistoryTypeOK'
    BY <1>7, TypeShared DEF RnrExhausted, HistoryTypeOK
  <2> QED
    BY <1>7, <2>1, <2>2, <2>3, TypeUnchanged DEF RnrExhausted
<1> QED
  BY <1>1, <1>2, <1>4, <1>5, <1>6, <1>7 DEF Network

\* So does every step.
LEMMA TypeStep == TypeInv /\ [Next]_vars => TypeInv'
<1> SUFFICES ASSUME TypeInv, [Next]_vars PROVE TypeInv'
  OBVIOUS
<1>1. CASE UNCHANGED vars
  BY <1>1, TypeUnchanged DEF vars, TypeInv, TypeOK
<1>2. CASE ClientConnect \/ Accept \/ SetConnecting \/ Prepare
  BY <1>2, TypeMain
<1>3. CASE AddrResolved \/ RouteResolved \/ ConnectRequest
  BY <1>3, TypeCm
<1>4. CASE CmProgress \/ CmFails
  BY <1>4, TypeNetwork
<1>5. ASSUME NEW e \in End, Main(e) PROVE TypeInv'
  BY <1>5, TypeMain
<1>6. ASSUME NEW e \in End, Epoll(e) PROVE TypeInv'
  BY <1>6, TypeCm, TypeCq, TypeTimer DEF Epoll
<1>7. ASSUME NEW e \in End, Network(e) \/ RnrExhausted(e) PROVE TypeInv'
  BY <1>7, TypeNetwork
<1> QED
  BY <1>1, <1>2, <1>3, <1>4, <1>5, <1>6, <1>7 DEF Next

\* The state of the two ends, of their threads, of the QPs and of the
\* connection manager always has its type.
THEOREM TypeCorrect == Spec => []TypeOK
<1>1. TypeInv => TypeOK
  BY DEF TypeInv
<1> QED
  BY <1>1, TypeInit, TypeStep, PTL DEF Spec

-----------------------------------------------------------------------------
(* WriteNeedsPeerMr is not inductive: a WRITE is queued on the word of        *)
(* trans_state, which main read a step earlier, and posted on the word of the *)
(* list.  RegionInv carries the fact from where it is established (RecvMr) to *)
(* the state, to the message main is about to queue, to the list and to the   *)
(* wire.                                                                      *)

RegionInv ==
  /\ \A e \in End : trans_state[e] = "RCONNECTED" => peer_mr[e]
  /\ \A e \in End : main[e] = "enqueue" /\ Script(e)[pos[e]] = "WRITE" => peer_mr[e]
  /\ WriteNeedsPeerMr

NoWrite(s) == \A k \in 1..Len(s) : s[k].type # "WRITE"

\* Without the region there is no write, and adding a message that is not one,
\* taking a message away or joining two sequences brings none.
LEMMA NoWriteSequences ==
  ASSUME NEW s \in Seq(Msg), NoWrite(s)
  PROVE  /\ \A m \in Msg : m.type # "WRITE" => NoWrite(Append(s, m))
         /\ s # << >> => NoWrite(Tail(s))
         /\ \A t \in Seq(Msg) : NoWrite(t) => NoWrite(s \o t)
         /\ NoWrite(<< >>)
<1>1. ASSUME NEW m \in Msg, m.type # "WRITE" PROVE NoWrite(Append(s, m))
  BY <1>1 DEF NoWrite
<1>2. ASSUME s # << >> PROVE NoWrite(Tail(s))
  BY <1>2 DEF NoWrite
<1>3. ASSUME NEW t \in Seq(Msg), NoWrite(t) PROVE NoWrite(s \o t)
  <2>1. SUFFICES ASSUME NEW k \in 1..Len(s \o t) PROVE (s \o t)[k].type # "WRITE"
    BY DEF NoWrite
  <2>2. CASE k <= Len(s)
    <3>1. (s \o t)[k] = s[k] /\ k \in 1..Len(s)
      BY <2>2
    <3> QED
      BY <3>1 DEF NoWrite
  <2>3. CASE k > Len(s)
    <3>1. (s \o t)[k] = t[k - Len(s)] /\ k - Len(s) \in 1..Len(t)
      BY <2>3
    <3> QED
      BY <1>3, <3>1 DEF NoWrite
  <2> QED
    BY <2>2, <2>3
<1>4. NoWrite(<< >>)
  BY DEF NoWrite
<1> QED
  BY <1>1, <1>2, <1>3, <1>4

LEMMA RegionAsNoWrite ==
  WriteNeedsPeerMr <=>
    \A e \in End : ~peer_mr[e] => NoWrite(send_task_list[e]) /\ NoWrite(wire[e])
BY DEF WriteNeedsPeerMr, NoWrite

LEMMA RegionAsNoWritePrimed ==
  WriteNeedsPeerMr' <=>
    \A e \in End : ~peer_mr'[e] => NoWrite(send_task_list'[e]) /\ NoWrite(wire'[e])
BY DEF WriteNeedsPeerMr, NoWrite

LEMMA RegionInit == Init => RegionInv
<1> SUFFICES ASSUME Init PROVE RegionInv
  OBVIOUS
<1>1. \A e \in End : NoWrite(send_task_list[e]) /\ NoWrite(wire[e])
  BY DEF Init, NoWrite
<1>2. \A e \in End : trans_state[e] # "RCONNECTED" /\ main[e] # "enqueue"
  BY DEF Init
<1> QED
  BY <1>1, <1>2, RegionAsNoWrite DEF RegionInv

\* A step keeps RegionInv if it does not move to RCONNECTED, does not bring main
\* to the point of queueing, and puts no write where there was none.
LEMMA RegionQuiet ==
  ASSUME RegionInv,
         UNCHANGED peer_mr,
         \A e \in End : trans_state'[e] = "RCONNECTED" => trans_state[e] = "RCONNECTED",
         \A e \in End : main'[e] = "enqueue" => main[e] = "enqueue" /\ pos'[e] = pos[e],
         \A e \in End : /\ ~peer_mr[e]
                        /\ NoWrite(send_task_list[e])
                        /\ NoWrite(wire[e])
                        => NoWrite(send_task_list'[e]) /\ NoWrite(wire'[e])
  PROVE  RegionInv'
<1>1. \A e \in End : trans_state'[e] = "RCONNECTED" => peer_mr'[e]
  BY DEF RegionInv
<1>2. \A e \in End : main'[e] = "enqueue" /\ Script(e)[pos'[e]] = "WRITE" => peer_mr'[e]
  BY DEF RegionInv
<1>3. WriteNeedsPeerMr'
  BY RegionAsNoWrite, RegionAsNoWritePrimed DEF RegionInv
<1> QED
  BY <1>1, <1>2, <1>3 DEF RegionInv

LEMMA RegionUnchanged ==
  ASSUME RegionInv, UNCHANGED <<trans_state, peer_mr, main, pos, send_task_list, wire>>
  PROVE  RegionInv'
BY RegionQuiet

\* The operators that change a wire put no write on it.
LEMMA RegionShared ==
  ASSUME TypeInv, NEW e \in End
  PROVE  /\ PostMr(e) => \A f \in End : NoWrite(wire[f]) => NoWrite(wire'[f])
         /\ \A state : QpStops(e, state) =>
              \A f \in End : NoWrite(wire[f]) => NoWrite(wire'[f])
<1>1. \A f \in End : wire[f] \in Seq(Msg)
  BY DEF TypeInv, TypeOK, QpTypeOK
<1>2. Mr \in Msg /\ Mr.type # "WRITE"
  BY MessageTypes DEF Mr
<1>3. ASSUME PostMr(e), NEW f \in End, NoWrite(wire[f]) PROVE NoWrite(wire'[f])
  <2>1. wire'[f] = wire[f] \/ wire'[f] = Append(wire[f], Mr)
    BY <1>3 DEF PostMr, TypeInv, TypeOK, QpTypeOK
  <2> QED
    BY <1>1, <1>2, <1>3, <2>1, NoWriteSequences
<1>4. ASSUME NEW state, QpStops(e, state), NEW f \in End, NoWrite(wire[f])
      PROVE  NoWrite(wire'[f])
  <2>1. wire'[f] = wire[f] \/ wire'[f] = << >>
    BY <1>4 DEF QpStops, TypeInv, TypeOK, QpTypeOK
  <2> QED
    BY <1>1, <1>4, <2>1, NoWriteSequences
<1> QED
  BY <1>3, <1>4

LEMMA RegionMain ==
  ASSUME TypeInv, RegionInv
  PROVE  /\ ClientConnect \/ Accept \/ SetConnecting \/ Prepare => RegionInv'
         /\ \A e \in End : Main(e) => RegionInv'
<1> USE DEF TypeInv, TypeOK
<1>1. ASSUME ClientConnect PROVE RegionInv'
  BY <1>1, RegionQuiet DEF ClientConnect, qpVars, TransTypeOK, ThreadTypeOK
<1>2. ASSUME Accept PROVE RegionInv'
  BY <1>2, RegionQuiet DEF Accept, qpVars, ThreadTypeOK
<1>3. ASSUME SetConnecting PROVE RegionInv'
  BY <1>3, RegionQuiet DEF SetConnecting, qpVars, TransTypeOK, ThreadTypeOK
<1>4. ASSUME Prepare PROVE RegionInv'
  BY <1>4, RegionQuiet DEF Prepare, ThreadTypeOK
<1>5. ASSUME NEW e \in End, MainCheck(e) PROVE RegionInv'
  <2>1. WriteNeedsPeerMr' /\ \A f \in End : trans_state'[f] = "RCONNECTED" => peer_mr'[f]
    BY <1>5, RegionAsNoWrite, RegionAsNoWritePrimed
       DEF RegionInv, MainCheck, transVars, qpVars
  <2>2. ASSUME NEW f \in End, main'[f] = "enqueue", Script(f)[pos'[f]] = "WRITE"
        PROVE  peer_mr'[f]
    <3>1. UNCHANGED <<peer_mr, trans_state>>
      BY <1>5 DEF MainCheck, transVars
    <3>2. CASE f = e
      BY <1>5, <2>2, <3>1, <3>2 DEF MainCheck, ReadyStates, RegionInv, ThreadTypeOK
    <3>3. CASE f # e
      BY <1>5, <2>2, <3>1, <3>3 DEF MainCheck, RegionInv, ThreadTypeOK
    <3> QED
      BY <3>2, <3>3
  <2> QED
    BY <2>1, <2>2 DEF RegionInv
<1>6. ASSUME NEW e \in End, MainEnqueue(e) PROVE RegionInv'
  <2>1. UNCHANGED <<trans_state, peer_mr, wire>>
    BY <1>6 DEF MainEnqueue, qpVars
  <2>2. \A f \in End : main'[f] = "enqueue" => main[f] = "enqueue" /\ pos'[f] = pos[f]
    BY <1>6 DEF MainEnqueue, ThreadTypeOK
  <2>3. ASSUME NEW f \in End, ~peer_mr[f], NoWrite(send_task_list[f])
        PROVE  NoWrite(send_task_list'[f])
    <3>1. CASE f = e
      <4> DEFINE task == [type |-> Script(e)[pos[e]], id |-> pos[e]]
      <4>1. task \in Msg
        BY <1>6, MessageTypes DEF MainEnqueue, PosOK
      <4>2. task.type # "WRITE"
        BY <1>6, <2>3, <3>1 DEF MainEnqueue, RegionInv
      <4>3. \/ send_task_list'[f] = Append(send_task_list[f], task)
            \/ send_task_list'[f] = send_task_list[f]
        BY <1>6, <3>1 DEF MainEnqueue, Insert, ListAddTail, TransTypeOK
      <4>4. send_task_list[f] \in Seq(Msg)
        BY DEF TransTypeOK
      <4> HIDE DEF task
      <4> QED
        BY <2>3, <4>1, <4>2, <4>3, <4>4, NoWriteSequences
    <3>2. CASE f # e
      BY <1>6, <2>3, <3>2 DEF MainEnqueue, Insert, TransTypeOK
    <3> QED
      BY <3>1, <3>2
  <2> QED
    BY <2>1, <2>2, <2>3, RegionQuiet
<1>7. ASSUME NEW e \in End, MainSent(e) \/ MainJoin(e) PROVE RegionInv'
  BY <1>7, RegionQuiet DEF MainSent, MainJoin, transVars, qpVars, ThreadTypeOK
<1> QED
  BY <1>1, <1>2, <1>3, <1>4, <1>5, <1>6, <1>7 DEF Main

LEMMA RegionCm ==
  ASSUME TypeInv, RegionInv
  PROVE  /\ AddrResolved \/ RouteResolved \/ ConnectRequest => RegionInv'
         /\ \A e \in End : CmHandler(e) => RegionInv'
<1> USE DEF TypeInv, TypeOK
<1>1. ASSUME AddrResolved PROVE RegionInv'
  BY <1>1, RegionUnchanged DEF AddrResolved, threadVars, qpVars
<1>2. ASSUME RouteResolved PROVE RegionInv'
  <2>1. \/ UNCHANGED trans_state
        \/ trans_state' = [trans_state EXCEPT !["client"] = "ERROR"]
        \/ trans_state' = [trans_state EXCEPT !["client"] = trans_state["client"]]
    BY <1>2, Zenon DEF RouteResolved
  <2>2. \A e \in End : trans_state'[e] = "RCONNECTED" => trans_state[e] = "RCONNECTED"
    BY <2>1 DEF TransTypeOK
  <2>3. UNCHANGED <<peer_mr, main, pos, send_task_list, wire>>
    BY <1>2 DEF RouteResolved
  <2> QED
    BY <2>2, <2>3, RegionQuiet
<1>3. ASSUME ConnectRequest PROVE RegionInv'
  BY <1>3, RegionUnchanged DEF ConnectRequest, threadVars, qpVars
<1>4. ASSUME NEW e \in End, Established(e) PROVE RegionInv'
  <2>1. \A f \in End : NoWrite(wire[f]) => NoWrite(wire'[f])
    BY <1>4, RegionShared DEF Established
  <2>2. \A f \in End : trans_state'[f] = "RCONNECTED" => trans_state[f] = "RCONNECTED"
    BY <1>4 DEF Established, TransTypeOK
  <2> QED
    BY <1>4, <2>1, <2>2, RegionQuiet DEF Established, threadVars
<1>5. ASSUME NEW e \in End, Disconnected(e) PROVE RegionInv'
  <2>1. \A f \in End : NoWrite(wire[f]) => NoWrite(wire'[f])
    BY <1>5, RegionShared DEF Disconnected
  <2> QED
    BY <1>5, <2>1, RegionQuiet DEF Disconnected
<1>6. ASSUME NEW e \in End, ConnectError(e) PROVE RegionInv'
  <2>1. \A f \in End : trans_state'[f] = "RCONNECTED" => trans_state[f] = "RCONNECTED"
    BY <1>6 DEF ConnectError, TransTypeOK
  <2> QED
    BY <1>6, <2>1, RegionQuiet DEF ConnectError, qpVars
<1>7. ASSUME NEW e \in End, OtherError(e) PROVE RegionInv'
  BY <1>7, RegionUnchanged DEF OtherError, transVars, threadVars, qpVars
<1> QED
  BY <1>1, <1>2, <1>3, <1>4, <1>5, <1>6, <1>7 DEF CmHandler

LEMMA RegionCq ==
  ASSUME TypeInv, RegionInv, NEW e \in End, CqHandler(e)
  PROVE  RegionInv'
<1> USE DEF TypeInv, TypeOK
<1>1. CASE SentMr(e)
  <2>1. \A f \in End : trans_state'[f] = "RCONNECTED" => trans_state[f] = "RCONNECTED"
    BY <1>1 DEF SentMr, AfterMrSent, TransTypeOK
  <2> QED
    BY <1>1, <2>1, RegionQuiet DEF SentMr, threadVars
<1>2. CASE SentOther(e)
  <2>1. \A f \in End : NoWrite(wire[f]) => NoWrite(wire'[f])
    BY <1>2, RegionShared DEF SentOther, Disconnect
  <2> QED
    BY <1>2, <2>1, RegionQuiet DEF SentOther, threadVars
<1>3. CASE RecvNormal(e)
  BY <1>3, RegionUnchanged DEF RecvNormal, transVars, threadVars
<1>4. CASE RecvFinish(e)
  <2>1. Done \in Msg /\ Done.type # "WRITE"
    BY MessageTypes DEF Done
  <2>2. ASSUME NEW f \in End, NoWrite(send_task_list[f])
        PROVE  NoWrite(send_task_list'[f])
    <3>1. \/ send_task_list'[f] = send_task_list[f]
          \/ send_task_list'[f] = Append(send_task_list[f], Done)
      BY <1>4 DEF RecvFinish, Insert, ListAddTail, TransTypeOK
    <3>2. send_task_list[f] \in Seq(Msg)
      BY DEF TransTypeOK
    <3> QED
      BY <2>1, <2>2, <3>1, <3>2, NoWriteSequences
  <2> QED
    BY <1>4, <2>2, RegionQuiet DEF RecvFinish
<1>5. CASE RecvDone(e)
  <2>1. \A f \in End : NoWrite(wire[f]) => NoWrite(wire'[f])
    BY <1>5, RegionShared DEF RecvDone, Disconnect
  <2> QED
    BY <1>5, <2>1, RegionQuiet DEF RecvDone, threadVars
<1>6. CASE RecvMr(e)
  <2>1. \A f \in End : NoWrite(wire[f]) => NoWrite(wire'[f])
    BY <1>6, RegionShared DEF RecvMr
  <2>2. peer_mr'[e] /\ \A f \in End : peer_mr[f] => peer_mr'[f]
    BY <1>6 DEF RecvMr, TransTypeOK
  <2>3. \A f \in End : trans_state'[f] = "RCONNECTED" =>
          f = e \/ trans_state[f] = "RCONNECTED"
    BY <1>6 DEF RecvMr, TransTypeOK
  <2>4. UNCHANGED <<main, pos, send_task_list>>
    BY <1>6 DEF RecvMr, threadVars
  <2>5. \A f \in End : trans_state'[f] = "RCONNECTED" => peer_mr'[f]
    BY <2>2, <2>3 DEF RegionInv
  <2>6. \A f \in End : main'[f] = "enqueue" /\ Script(f)[pos'[f]] = "WRITE" => peer_mr'[f]
    BY <2>2, <2>4 DEF RegionInv
  <2>7. WriteNeedsPeerMr'
    BY <2>1, <2>2, <2>4, RegionAsNoWrite, RegionAsNoWritePrimed DEF RegionInv
  <2> QED
    BY <2>5, <2>6, <2>7 DEF RegionInv
<1> QED
  BY <1>1, <1>2, <1>3, <1>4, <1>5, <1>6 DEF CqHandler

LEMMA RegionTimer ==
  ASSUME TypeInv, RegionInv, NEW e \in End, TimerHandler(e) \/ LoopExit(e)
  PROVE  RegionInv'
<1> USE DEF TypeInv, TypeOK
<1>0. send_task_list[e] \in Seq(Msg)
  BY DEF TransTypeOK
<1>1. ASSUME NEW n \in 0 .. Len(send_task_list[e]), UNCHANGED st_timerfd \/ Expire(e),
             Posts(e, SubSeq(send_task_list[e], 1, n))
      PROVE  RegionInv'
  <2>1. ASSUME NEW f \in End, NoWrite(send_task_list[f]), NoWrite(wire[f])
        PROVE  NoWrite(wire'[f])
    <3> DEFINE tasks == SubSeq(send_task_list[e], 1, n)
    <3>1. \/ wire'[f] = wire[f]
          \/ f = e /\ wire'[f] = wire[f] \o tasks
      BY <1>1 DEF Posts, QpTypeOK
    <3>2. wire[f] \in Seq(Msg) /\ tasks \in Seq(Msg)
      BY <1>0, FirstTasks DEF QpTypeOK
    <3>3. f = e => NoWrite(tasks)
      BY <1>0, <2>1, FirstTasks DEF NoWrite
    <3> HIDE DEF tasks
    <3> QED
      BY <2>1, <3>1, <3>2, <3>3, NoWriteSequences
  <2> QED
    BY <1>1, <2>1, RegionQuiet DEF Posts
<1>5. CASE TimerPost(e)
  <2>1. /\ Len(send_task_list[e]) \in 0 .. Len(send_task_list[e])
        /\ SubSeq(send_task_list[e], 1, Len(send_task_list[e])) = send_task_list[e]
    BY <1>0
  <2> QED
    BY <1>1, <1>5, <2>1 DEF TimerPost
<1>6. CASE TimerRefused(e)
  <2>1. Len(send_task_list[e]) \in Nat
    BY <1>0
  <2> QED
    BY <1>1, <1>6, <2>1 DEF TimerRefused
<1>2. CASE TimerUnlink(e)
  <2>1. ASSUME NEW f \in End, NoWrite(send_task_list[f])
        PROVE  NoWrite(send_task_list'[f])
    <3>1. send_task_list'[f] = send_task_list[f] \/ send_task_list'[f] = << >>
      BY <1>2 DEF TimerUnlink, ListAfterUnlink, TransTypeOK
    <3> QED
      BY <2>1, <3>1 DEF NoWrite
  <2> QED
    BY <1>2, <2>1, RegionQuiet DEF TimerUnlink, qpVars
<1>3. CASE StaleExpires(e)
  BY <1>3, RegionUnchanged DEF StaleExpires, threadVars, qpVars
<1>4. CASE LoopExit(e)
  BY <1>4, RegionUnchanged DEF LoopExit, transVars, qpVars
<1> QED
  BY <1>2, <1>3, <1>4, <1>5, <1>6 DEF TimerHandler

LEMMA RegionNetwork ==
  ASSUME TypeInv, RegionInv
  PROVE  /\ CmProgress \/ CmFails => RegionInv'
         /\ \A e \in End : Network(e) \/ RnrExhausted(e) => RegionInv'
<1> USE DEF TypeInv, TypeOK
<1>1. ASSUME CmProgress \/ CmFails PROVE RegionInv'
  BY <1>1, RegionUnchanged DEF CmProgress, CmFails, transVars, threadVars, qpVars
<1>2. ASSUME NEW e \in End, DeliverSend(e) \/ DeliverWrite(e) PROVE RegionInv'
  <2>1. UNCHANGED <<transVars, threadVars>>
    BY <1>2 DEF DeliverSend, DeliverWrite
  <2>2. ASSUME NEW f \in End, NoWrite(wire[f]) PROVE NoWrite(wire'[f])
    <3>1. wire[f] \in Seq(Msg)
      BY DEF QpTypeOK
    <3>2. \/ wire'[f] = wire[f]
          \/ (wire[f] # << >> /\ wire'[f] = Tail(wire[f]))
      BY <1>2 DEF DeliverSend, DeliverWrite, Linked, QpTypeOK
    <3> QED
      BY <2>2, <3>1, <3>2, NoWriteSequences
  <2> QED
    BY <2>1, <2>2, RegionQuiet DEF transVars, threadVars
<1>3. ASSUME NEW e \in End, CmHangup(e) PROVE RegionInv'
  BY <1>3, RegionUnchanged DEF CmHangup, transVars, threadVars, qpVars
<1>4. ASSUME NEW e \in End, RnrExhausted(e) PROVE RegionInv'
  <2>1. \A f \in End : NoWrite(wire[f]) => NoWrite(wire'[f])
    BY <1>4, RegionShared DEF RnrExhausted
  <2> QED
    BY <1>4, <2>1, RegionQuiet DEF RnrExhausted, threadVars
<1> QED
  BY <1>1, <1>2, <1>3, <1>4 DEF Network

LEMMA RegionStep == TypeInv /\ RegionInv /\ [Next]_vars => RegionInv'
<1> SUFFICES ASSUME TypeInv, RegionInv, [Next]_vars PROVE RegionInv'
  OBVIOUS
<1>1. CASE UNCHANGED vars
  BY <1>1, RegionUnchanged DEF vars, transVars, threadVars, qpVars
<1>2. CASE ClientConnect \/ Accept \/ SetConnecting \/ Prepare
  BY <1>2, RegionMain
<1>3. CASE AddrResolved \/ RouteResolved \/ ConnectRequest
  BY <1>3, RegionCm
<1>4. CASE CmProgress \/ CmFails
  BY <1>4, RegionNetwork
<1>5. ASSUME NEW e \in End, Main(e) PROVE RegionInv'
  BY <1>5, RegionMain
<1>6. ASSUME NEW e \in End, Epoll(e) PROVE RegionInv'
  BY <1>6, RegionCm, RegionCq, RegionTimer DEF Epoll
<1>7. ASSUME NEW e \in End, Network(e) \/ RnrExhausted(e) PROVE RegionInv'
  BY <1>7, RegionNetwork
<1> QED
  BY <1>1, <1>2, <1>3, <1>4, <1>5, <1>6, <1>7 DEF Next

\* No RDMA write is in the list or on the wire of an end that does not know its
\* peer's region, although main decides to write on a state it has read before
\* (hmr_msg_check) and the timer posts what main has queued.
THEOREM WritesHaveRegion == Spec => []WriteNeedsPeerMr
<1>1. Init => TypeInv /\ RegionInv
  BY TypeInit, RegionInit
<1>2. TypeInv /\ RegionInv /\ [Next]_vars => TypeInv' /\ RegionInv'
  BY TypeStep, RegionStep
<1>3. RegionInv => WriteNeedsPeerMr
  BY DEF RegionInv
<1> QED
  BY <1>1, <1>2, <1>3, PTL DEF Spec

-----------------------------------------------------------------------------
(* Where the handshake is, and what each end still has to hear of it. *)

\* The client has taken ESTABLISHED: from here on messages can be on their way.
Answered == {"rtu", "up", "disconnecting"}

\* The server has not yet answered the client.
Unaccepted == {"idle", "resolving_addr", "addr_resolved", "resolving_route",
               "route_resolved", "connecting", "requested"}

\* The client's events, by the phase of the handshake: the connection manager waits
\* for the handler before it goes on.
ClientEventsInv ==
  /\ cm \in {"idle", "resolving_addr", "resolving_route", "connecting",
             "requested", "accepted", "rtu", "up"} => cm_events["client"] = << >>
  /\ cm = "addr_resolved" => cm_events["client"] = <<"ADDR_RESOLVED">>
  /\ cm = "route_resolved" => cm_events["client"] = <<"ROUTE_RESOLVED">>
  /\ cm = "responded" => cm_events["client"] = <<"ESTABLISHED">>
  /\ cm = "disconnecting" => cm_events["client"] \in {<< >>, <<"DISCONNECTED">>}
  /\ cm = "failed" =>
       cm_events["client"] \in {<< >>, <<"CONNECT_ERROR">>, <<"OTHER_ERROR">>}

\* The server's, of which ESTABLISHED may be followed by DISCONNECTED.
ServerEventsInv ==
  /\ cm \in (Unaccepted \ {"requested"}) \cup {"accepted", "responded", "rtu"} =>
       cm_events["server"] = << >>
  /\ cm = "requested" => cm_events["server"] \in {<< >>, <<"CONNECT_REQUEST">>}
  /\ cm = "up" => cm_events["server"] \in {<< >>, <<"ESTABLISHED">>}
  /\ cm = "disconnecting" => cm_events["server"] \in
       {<< >>, <<"ESTABLISHED">>, <<"DISCONNECTED">>, <<"ESTABLISHED", "DISCONNECTED">>}
  /\ cm = "failed" =>
       cm_events["server"] \in {<< >>, <<"CONNECT_REQUEST">>, <<"CONNECT_ERROR">>}

\* DISCONNECTED comes once to each end, after everything else.
HangupInv ==
  /\ cm_hangup # {} => cm = "disconnecting"
  /\ "client" \in cm_hangup => cm_events["client"] = << >>
  /\ "server" \in cm_hangup => cm_events["server"] \in {<< >>, <<"ESTABLISHED">>}

\* The client connects once, and the server accepts once: its main thread is
\* before rdma_accept as long as the connection manager is, and a request waits
\* only there.
MainInv ==
  /\ main["client"] = "connect" => cm = "idle"
  /\ cm \in Unaccepted => main["server"] = "accept"
  /\ accept_rdma_trans => cm \in {"requested", "failed"}
  /\ cm = "requested" /\ accept_rdma_trans => cm_events["server"] = << >>

EventsInv == ClientEventsInv /\ ServerEventsInv /\ HangupInv /\ MainInv

\* Before the client has taken ESTABLISHED neither end sends or receives.
Quiet(e) ==
  /\ trans_state[e] \in {"INIT", "CONNECTING", "ERROR"}
  /\ main[e] # "enqueue"
  /\ st_timerfd[e] = "off"
  /\ stage[e] \in {"idle", "exited"}
  /\ posted[e] = 0
  /\ send_task_list[e] = << >>
  /\ wire[e] = << >> /\ sent[e] = << >> /\ recvs[e] = << >>
  /\ ~peer_mr[e]
  /\ mr_posts[e] = 0

QuietInv == cm \notin Answered => \A e \in End : Quiet(e)

\* The server posts its first receives after its state has become CONNECTING.
UnpreparedInv ==
  /\ cm \in Unaccepted \/ main["server"] \in {"connecting", "prepare"} =>
       recv_posted["server"] = 0
  /\ main["server"] \in {"connecting", "prepare"} =>
       recvs["server"] = << >> /\ ~peer_mr["server"]

-----------------------------------------------------------------------------
(* Where the server's MR is. *)

\* A sequence of messages has none of a type, or at most one.
NoType(s, type) == \A k \in 1..Len(s) : s[k].type # type
OneOf(s, type) ==
  \A j, k \in 1..Len(s) : s[j].type = type /\ s[k].type = type => j = k

\* The server has not yet handled ESTABLISHED, which sets its state.
Pending ==
  cm = "rtu" \/ (cm_events["server"] # << >> /\ Head(cm_events["server"]) = "ESTABLISHED")

\* The server answers one MR.  It does in CONNECTED, which it is in only before,
\* and its answer is in one place.
AnswerInv ==
  /\ trans_state["server"] = "CONNECTED" => mr_posts["server"] = 0
  /\ Pending => /\ mr_posts["server"] = 0
                /\ trans_state["server"] \notin {"CONNECTED", "SCONNECTED"}
  /\ mr_posts["server"] \in {0, 1}
  /\ mr_posts["server"] = 0 =>
       NoType(wire["server"], "MR") /\ NoType(recvs["client"], "MR") /\ ~peer_mr["client"]
  /\ OneOf(wire["server"], "MR") /\ OneOf(recvs["client"], "MR")
  /\ ~NoType(wire["server"], "MR") => NoType(recvs["client"], "MR") /\ ~peer_mr["client"]
  /\ ~NoType(recvs["client"], "MR") => ~peer_mr["client"]

\* The client posts an MR when it is established, and one more if the server's
\* comes before the completion of the first.
ClientMrInv ==
  /\ mr_posts["client"] \in {0, 1, 2}
  /\ mr_posts["client"] = 2 => peer_mr["client"]
  /\ WritesStayEnabled

\* The server sends neither FINISH nor, through its list, an MR.
ServerListInv ==
  /\ \A type \in {"MR", "FINISH"} : NoType(send_task_list["server"], type)
  /\ NoType(wire["server"], "FINISH")
  /\ NoType(recvs["client"], "FINISH")

\* The client's first message is its MR, and until the server has handled it the
\* server handles nothing else.
FirstInv ==
  /\ peer_mr["server"] =>
       trans_state["server"] \in {"CONNECTED", "SCONNECTED", "RCONNECTED"}
  /\ "client" \notin mr_refused /\ ~peer_mr["server"] /\ recvs["server"] # << >> =>
       Head(recvs["server"]).type = "MR"
  /\ /\ cm \in Answered /\ "client" \notin mr_refused
     /\ ~peer_mr["server"] /\ recvs["server"] = << >>
     /\ qp["client"] = "ready" /\ qp["server"] = "ready"
     => wire["client"] # << >> /\ Head(wire["client"]).type = "MR"

\* The inductive invariant of this module.
ExchangeInv ==
  /\ EventsInv /\ QuietInv /\ UnpreparedInv
  /\ AnswerInv /\ ClientMrInv /\ ServerListInv /\ FirstInv /\ EpollNeverSpins

-----------------------------------------------------------------------------
(* EventsInv. *)

\* The sequences of at most two events, taken from and added to.
LEMMA ShortSequences ==
  ASSUME NEW x, NEW y
  PROVE  /\ << >> # <<x>> /\ << >> # <<x, y>> /\ <<x>> # <<x, y>>
         /\ Head(<<x>>) = x /\ Tail(<<x>>) = << >>
         /\ Head(<<x, y>>) = x /\ Tail(<<x, y>>) = <<y>>
         /\ Append(<< >>, x) = <<x>> /\ Append(<<x>>, y) = <<x, y>>
         /\ x # y => <<x>> # <<y>>
<1>1. /\ << >> # <<x>> /\ << >> # <<x, y>> /\ <<x>> # <<x, y>>
      /\ x # y => <<x>> # <<y>>
  OBVIOUS
<1>2. Head(<<x>>) = x /\ Tail(<<x>>) = << >> /\ Append(<< >>, x) = <<x>>
  OBVIOUS
<1>3. Head(<<x, y>>) = x /\ Tail(<<x, y>>) = <<y>>
  OBVIOUS
<1>4. Append(<<x>>, y) = <<x, y>>
  <2>1. Append(<<x>>, y) \in Seq({x, y}) /\ Len(Append(<<x>>, y)) = 2
    OBVIOUS
  <2>2. <<x, y>> \in Seq({x, y}) /\ Len(<<x, y>>) = 2
    OBVIOUS
  <2>3. ASSUME NEW i \in 1..2 PROVE Append(<<x>>, y)[i] = <<x, y>>[i]
    <3>1. i = 1 \/ i = 2
      OBVIOUS
    <3> QED
      BY <3>1
  <2> QED
    BY <2>1, <2>2, <2>3, SeqEqual
<1> QED
  BY <1>1, <1>2, <1>3, <1>4

\* What an event taken says of the connection manager.
LEMMA EventTaken ==
  ASSUME TypeInv, EventsInv, NEW e \in End, NEW event, TakeEvent(e, event)
  PROVE  /\ event = "ADDR_RESOLVED" => cm = "addr_resolved"
         /\ event = "ROUTE_RESOLVED" => cm = "route_resolved"
         /\ event = "CONNECT_REQUEST" => cm \in {"requested", "failed"}
         /\ event = "ESTABLISHED" =>
              \/ e = "client" /\ cm = "responded"
              \/ e = "server" /\ cm \in {"up", "disconnecting"}
         /\ event = "DISCONNECTED" => cm = "disconnecting"
         /\ event \in {"CONNECT_ERROR", "OTHER_ERROR"} => cm = "failed"
<1> cm_events[e] # << >> /\ Head(cm_events[e]) = event
  BY DEF TakeEvent
<1> cm \in CmState
  BY DEF TypeInv, TypeOK, CmTypeOK
<1>1. CASE e = "client"
  BY <1>1, ShortSequences DEF EventsInv, ClientEventsInv, CmState
<1>2. CASE e = "server"
  BY <1>2, ShortSequences DEF EventsInv, ServerEventsInv, CmState, Unaccepted
<1> QED
  BY <1>1, <1>2 DEF End

\* EventsInv holds before the client connects.
LEMMA EventsInit == Init => EventsInv
BY DEF Init, EventsInv, ClientEventsInv, ServerEventsInv, HangupInv, MainInv,
       Unaccepted, End

\* A step that leaves the connection manager and the accept stack alone keeps it,
\* unless the client goes back to before rdma_connect or the server to rdma_accept.
LEMMA EventsUnchanged ==
  ASSUME EventsInv, UNCHANGED <<cmVars, accept_rdma_trans>>,
         main'["client"] = "connect" => main["client"] = "connect",
         cm \in Unaccepted => main'["server"] = main["server"]
  PROVE  EventsInv'
BY DEF cmVars, EventsInv, ClientEventsInv, ServerEventsInv, HangupInv, MainInv

\* The main threads keep it.
LEMMA EventsMain ==
  ASSUME TypeInv, EventsInv
  PROVE  /\ ClientConnect \/ Accept \/ SetConnecting \/ Prepare => EventsInv'
         /\ \A e \in End : Main(e) => EventsInv'
<1> USE DEF TypeInv, TypeOK
<1>0. "client" \in End /\ "server" \in End /\ "client" # "server"
  BY DEF End
<1>1. ASSUME ClientConnect PROVE EventsInv'
  <2>1. cm = "idle"
    BY <1>1 DEF ClientConnect, EventsInv, MainInv
  <2>2. cm' = "idle" \/ cm' = "resolving_addr"
    BY <1>1, <2>1 DEF ClientConnect
  <2>3. main'["client"] = "check" /\ main'["server"] = main["server"]
    BY <1>0, <1>1 DEF ClientConnect, ThreadTypeOK
  <2> QED
    BY <1>1, <2>1, <2>2, <2>3
       DEF ClientConnect, EventsInv, ClientEventsInv, ServerEventsInv, HangupInv,
           MainInv, Unaccepted
<1>2. ASSUME Accept PROVE EventsInv'
  <2>1. /\ UNCHANGED <<cm_events, cm_hangup>> /\ accept_rdma_trans' = FALSE
        /\ main'["client"] = main["client"] /\ main["server"] = "accept"
        /\ cm \in {"requested", "failed"}
    BY <1>0, <1>2 DEF Accept, EventsInv, MainInv, ThreadTypeOK
  <2>2. CASE cm = "requested"
    <3>1. cm' = "accepted" /\ cm_events["server"] = << >>
      BY <1>2, <2>2 DEF Accept, EventsInv, MainInv
    <3> QED
      BY <2>1, <2>2, <3>1
         DEF EventsInv, ClientEventsInv, ServerEventsInv, HangupInv, MainInv, Unaccepted
  <2>3. CASE cm = "failed"
    <3>1. cm' = "failed"
      BY <1>2, <2>3 DEF Accept
    <3> QED
      BY <2>1, <2>3, <3>1
         DEF EventsInv, ClientEventsInv, ServerEventsInv, HangupInv, MainInv, Unaccepted
  <2> QED
    BY <2>1, <2>2, <2>3
<1>3. ASSUME SetConnecting \/ Prepare PROVE EventsInv'
  <2>1. UNCHANGED <<cmVars, accept_rdma_trans>>
    BY <1>3 DEF SetConnecting, Prepare
  <2>2. main'["client"] = main["client"] /\ main["server"] # "accept"
    BY <1>0, <1>3 DEF SetConnecting, Prepare, ThreadTypeOK
  <2> QED
    BY <2>1, <2>2, EventsUnchanged DEF EventsInv, MainInv
<1>4. ASSUME NEW e \in End, Main(e) PROVE EventsInv'
  <2>1. UNCHANGED <<cmVars, accept_rdma_trans>>
    BY <1>4 DEF Main, MainCheck, MainEnqueue, MainSent, MainJoin, transVars
  <2>2. main[e] \in {"check", "enqueue", "join"}
    BY <1>4 DEF Main, MainCheck, MainEnqueue, MainSent, MainJoin
  <2>3. \E m \in {"check", "enqueue", "join", "accept", "exited"} :
           \/ main' = [main EXCEPT ![e] = m] /\ (m = "accept" => e = "server")
           \/ main' = main
    BY <1>4 DEF Main, MainCheck, MainEnqueue, MainSent, MainJoin, End
  <2>4. main'["client"] = "connect" => main["client"] = "connect"
    BY <1>0, <2>3 DEF ThreadTypeOK
  <2>5. cm \in Unaccepted => main'["server"] = main["server"]
    BY <1>0, <2>2, <2>3 DEF EventsInv, MainInv, ThreadTypeOK
  <2> QED
    BY <2>1, <2>4, <2>5, EventsUnchanged
<1> QED
  BY <1>1, <1>2, <1>3, <1>4

\* The handlers of connection manager events keep it.
LEMMA EventsCm ==
  ASSUME TypeInv, EventsInv
  PROVE  /\ AddrResolved \/ RouteResolved \/ ConnectRequest => EventsInv'
         /\ \A e \in End : CmHandler(e) => EventsInv'
<1> USE DEF TypeInv, TypeOK
<1>0. "client" \in End /\ "server" \in End /\ "client" # "server"
  BY DEF End
<1>1. ASSUME AddrResolved PROVE EventsInv'
  <2>1. cm = "addr_resolved" /\ cm' \in {"resolving_route", "failed"}
    BY <1>0, <1>1, EventTaken DEF AddrResolved
  <2>2. cm_events'["client"] = << >> /\ cm_events'["server"] = << >>
    BY <1>0, <1>1, <2>1, ShortSequences
       DEF AddrResolved, TakeEvent, EventsInv, ClientEventsInv, ServerEventsInv, Unaccepted,
           CmTypeOK
  <2>3. UNCHANGED <<cm_hangup, main, accept_rdma_trans>>
    BY <1>1 DEF AddrResolved, threadVars
  <2> QED
    BY <2>1, <2>2, <2>3
       DEF EventsInv, ClientEventsInv, ServerEventsInv, HangupInv, MainInv, Unaccepted
<1>2. ASSUME RouteResolved PROVE EventsInv'
  <2>1. cm = "route_resolved" /\ cm' \in {"connecting", "failed"}
    BY <1>0, <1>2, EventTaken DEF RouteResolved
  <2>2. cm_events'["client"] = << >> /\ cm_events'["server"] = << >>
    BY <1>0, <1>2, <2>1, ShortSequences
       DEF RouteResolved, TakeEvent, EventsInv, ClientEventsInv, ServerEventsInv, Unaccepted,
           CmTypeOK
  <2>3. UNCHANGED <<cm_hangup, main, accept_rdma_trans>>
    BY <1>2 DEF RouteResolved
  <2> QED
    BY <2>1, <2>2, <2>3
       DEF EventsInv, ClientEventsInv, ServerEventsInv, HangupInv, MainInv, Unaccepted
<1>3. ASSUME ConnectRequest PROVE EventsInv'
  <2>1. cm \in {"requested", "failed"}
    BY <1>0, <1>3, EventTaken DEF ConnectRequest
  <2>2. cm_events'["client"] = cm_events["client"] /\ cm_events'["server"] = << >>
    BY <1>0, <1>3, <2>1, ShortSequences
       DEF ConnectRequest, TakeEvent, EventsInv, ClientEventsInv, ServerEventsInv,
           CmTypeOK
  <2>3. UNCHANGED <<cm, cm_hangup, main>>
    BY <1>3 DEF ConnectRequest, threadVars
  <2> QED
    BY <2>1, <2>2, <2>3
       DEF EventsInv, ClientEventsInv, ServerEventsInv, HangupInv, MainInv, Unaccepted
<1>4. ASSUME NEW e \in End, Established(e) PROVE EventsInv'
  <2>1. UNCHANGED <<cm_hangup, main, accept_rdma_trans>>
    BY <1>4 DEF Established, threadVars
  <2>2. CASE e = "client"
    <3>1. cm = "responded" /\ cm' = "rtu"
      BY <1>4, <2>2, EventTaken DEF Established
    <3>2. cm_events'["client"] = << >> /\ cm_events'["server"] = << >>
      BY <1>0, <1>4, <2>2, <3>1, ShortSequences
         DEF Established, TakeEvent, EventsInv, ClientEventsInv, ServerEventsInv, CmTypeOK
    <3> QED
      BY <2>1, <3>1, <3>2
         DEF EventsInv, ClientEventsInv, ServerEventsInv, HangupInv, MainInv, Unaccepted
  <2>3. CASE e = "server"
    <3>1. cm \in {"up", "disconnecting"} /\ cm' = cm
      BY <1>0, <1>4, <2>3, EventTaken DEF Established
    <3>2. /\ cm_events'["client"] = cm_events["client"]
          /\ cm_events'["server"] = Tail(cm_events["server"])
          /\ Head(cm_events["server"]) = "ESTABLISHED"
          /\ cm_events["server"] # << >>
      BY <1>0, <1>4, <2>3 DEF Established, TakeEvent, CmTypeOK
    <3>3. \/ cm_events["server"] = <<"ESTABLISHED">> /\ cm_events'["server"] = << >>
          \/ /\ cm_events["server"] = <<"ESTABLISHED", "DISCONNECTED">>
             /\ cm_events'["server"] = <<"DISCONNECTED">>
      <4>1. cm_events["server"] \in {<<"ESTABLISHED">>, <<"DISCONNECTED">>,
                                      <<"ESTABLISHED", "DISCONNECTED">>}
        BY <3>1, <3>2 DEF EventsInv, ServerEventsInv
      <4>2. cm_events["server"] # <<"DISCONNECTED">>
        BY <3>2, ShortSequences
      <4>3. CASE cm_events["server"] = <<"ESTABLISHED">>
        BY <3>2, <4>3, ShortSequences
      <4>4. CASE cm_events["server"] = <<"ESTABLISHED", "DISCONNECTED">>
        BY <3>2, <4>4, ShortSequences
      <4> QED
        BY <4>1, <4>2, <4>3, <4>4
    <3> QED
      BY <2>1, <3>1, <3>2, <3>3, ShortSequences
         DEF EventsInv, ClientEventsInv, ServerEventsInv, HangupInv, MainInv, Unaccepted
  <2> QED
    BY <2>2, <2>3 DEF End
<1>5. ASSUME NEW e \in End, Disconnected(e) PROVE EventsInv'
  <2>1. cm = "disconnecting" /\ UNCHANGED <<cm, cm_hangup, main, accept_rdma_trans>>
    BY <1>5, EventTaken DEF Disconnected
  <2>2. /\ \A f \in End : f # e => cm_events'[f] = cm_events[f]
        /\ cm_events'[e] = Tail(cm_events[e])
        /\ Head(cm_events[e]) = "DISCONNECTED"
        /\ cm_events[e] # << >>
    BY <1>5 DEF Disconnected, TakeEvent, CmTypeOK
  <2>3. cm_events[e] \in {<<"ESTABLISHED">>, <<"DISCONNECTED">>,
                          <<"ESTABLISHED", "DISCONNECTED">>}
    BY <2>1, <2>2 DEF EventsInv, ClientEventsInv, ServerEventsInv, End
  <2>4. cm_events[e] = <<"DISCONNECTED">> /\ cm_events'[e] = << >>
    <3>1. cm_events[e] # <<"ESTABLISHED">>
      BY <2>2, ShortSequences
    <3>2. cm_events[e] # <<"ESTABLISHED", "DISCONNECTED">>
      BY <2>2, ShortSequences
    <3>3. cm_events[e] = <<"DISCONNECTED">>
      BY <2>3, <3>1, <3>2, Zenon
    <3>4. Tail(<<"DISCONNECTED">>) = << >>
      BY ShortSequences
    <3> QED
      BY <2>2, <3>3, <3>4, Zenon
  <2> QED
    BY <1>0, <2>1, <2>2, <2>4
       DEF EventsInv, ClientEventsInv, ServerEventsInv, HangupInv, MainInv, Unaccepted, End
<1>6. ASSUME NEW e \in End, ConnectError(e) \/ OtherError(e) PROVE EventsInv'
  <2>1. cm = "failed" /\ UNCHANGED <<cm, cm_hangup, main, accept_rdma_trans>>
    BY <1>6, EventTaken DEF ConnectError, OtherError, transVars, threadVars
  <2>2. /\ \A f \in End : f # e => cm_events'[f] = cm_events[f]
        /\ cm_events'[e] = Tail(cm_events[e])
        /\ cm_events[e] # << >>
    BY <1>6 DEF ConnectError, OtherError, TakeEvent, CmTypeOK
  <2>3. cm_events[e] \in {<<"CONNECT_REQUEST">>, <<"CONNECT_ERROR">>, <<"OTHER_ERROR">>}
    BY <2>1, <2>2 DEF EventsInv, ClientEventsInv, ServerEventsInv, End
  <2>4. cm_events'[e] = << >>
    BY <2>2, <2>3, ShortSequences
  <2> QED
    BY <1>0, <2>1, <2>2, <2>4
       DEF EventsInv, ClientEventsInv, ServerEventsInv, HangupInv, MainInv, Unaccepted, End
<1> QED
  BY <1>1, <1>2, <1>3, <1>4, <1>5, <1>6 DEF CmHandler

\* Disconnecting adds no event yet.
LEMMA EventsDisconnect ==
  ASSUME TypeInv, EventsInv, NEW e \in End, Disconnect(e),
         UNCHANGED <<cm_events, main, accept_rdma_trans>>
  PROVE  EventsInv'
<1>1. CASE cm \in {"rtu", "up"}
  <2>1. cm' = "disconnecting" /\ cm_hangup' = End
    BY <1>1 DEF Disconnect
  <2> QED
    BY <1>1, <2>1
       DEF EventsInv, ClientEventsInv, ServerEventsInv, HangupInv, MainInv, Unaccepted, End
<1>2. CASE cm \notin {"rtu", "up"}
  BY <1>2, EventsUnchanged DEF Disconnect, cmVars
<1> QED
  BY <1>1, <1>2

\* The other handlers of the epoll thread keep it.
LEMMA EventsEpoll ==
  ASSUME TypeInv, EventsInv, NEW e \in End,
         CqHandler(e) \/ TimerHandler(e) \/ LoopExit(e)
  PROVE  EventsInv'
<1>1. CASE SentMr(e) \/ RecvNormal(e) \/ RecvFinish(e) \/ RecvMr(e)
  BY <1>1, EventsUnchanged
     DEF SentMr, RecvNormal, RecvFinish, RecvMr, cmVars, transVars, threadVars
<1>2. CASE SentOther(e)
  BY <1>2, EventsUnchanged, EventsDisconnect DEF SentOther, cmVars, threadVars
<1>3. CASE RecvDone(e)
  BY <1>3, EventsDisconnect DEF RecvDone, threadVars
<1>4. CASE TimerHandler(e) \/ LoopExit(e)
  BY <1>4, EventsUnchanged
     DEF TimerHandler, TimerPost, TimerRefused, Posts, TimerUnlink, StaleExpires, LoopExit, cmVars, transVars,
         threadVars
<1> QED
  BY <1>1, <1>2, <1>3, <1>4 DEF CqHandler

\* The connection manager and the fabric keep it.
LEMMA EventsNetwork ==
  ASSUME TypeInv, EventsInv
  PROVE  /\ CmProgress \/ CmFails => EventsInv'
         /\ \A e \in End : Network(e) \/ RnrExhausted(e) => EventsInv'
<1> USE DEF TypeInv, TypeOK
<1>0. "client" \in End /\ "server" \in End /\ "client" # "server"
  BY DEF End
<1>1. ASSUME CmProgress PROVE EventsInv'
  <2>1. UNCHANGED <<cm_hangup, main, accept_rdma_trans>>
    BY <1>1 DEF CmProgress, CmNotifies, transVars, threadVars
  <2>2. ASSUME NEW from, NEW to, NEW e \in End, NEW event, CmNotifies(from, to, e, event)
        PROVE  /\ cm = from /\ cm' = to
               /\ cm_events'[e] = Append(cm_events[e], event)
               /\ \A f \in End : f # e => cm_events'[f] = cm_events[f]
    BY <2>2 DEF CmNotifies, CmTypeOK
  <2>3. ASSUME CmNotifies("resolving_addr", "addr_resolved", "client", "ADDR_RESOLVED")
        PROVE  EventsInv'
    <3>1. /\ cm = "resolving_addr" /\ cm' = "addr_resolved"
          /\ cm_events'["client"] = Append(cm_events["client"], "ADDR_RESOLVED")
          /\ cm_events'["server"] = cm_events["server"]
      BY <1>0, <2>2, <2>3
    <3> QED
      BY <2>1, <3>1, ShortSequences
         DEF EventsInv, ClientEventsInv, ServerEventsInv, HangupInv, MainInv, Unaccepted
  <2>4. ASSUME CmNotifies("resolving_route", "route_resolved", "client", "ROUTE_RESOLVED")
        PROVE  EventsInv'
    <3>1. /\ cm = "resolving_route" /\ cm' = "route_resolved"
          /\ cm_events'["client"] = Append(cm_events["client"], "ROUTE_RESOLVED")
          /\ cm_events'["server"] = cm_events["server"]
      BY <1>0, <2>2, <2>4
    <3> QED
      BY <2>1, <3>1, ShortSequences
         DEF EventsInv, ClientEventsInv, ServerEventsInv, HangupInv, MainInv, Unaccepted
  <2>5. ASSUME CmNotifies("connecting", "requested", "server", "CONNECT_REQUEST")
        PROVE  EventsInv'
    <3>1. /\ cm = "connecting" /\ cm' = "requested"
          /\ cm_events'["server"] = Append(cm_events["server"], "CONNECT_REQUEST")
          /\ cm_events'["client"] = cm_events["client"]
      BY <1>0, <2>2, <2>5
    <3> QED
      BY <2>1, <3>1, ShortSequences
         DEF EventsInv, ClientEventsInv, ServerEventsInv, HangupInv, MainInv, Unaccepted
  <2>6. ASSUME CmNotifies("accepted", "responded", "client", "ESTABLISHED")
        PROVE  EventsInv'
    <3>1. /\ cm = "accepted" /\ cm' = "responded"
          /\ cm_events'["client"] = Append(cm_events["client"], "ESTABLISHED")
          /\ cm_events'["server"] = cm_events["server"]
      BY <1>0, <2>2, <2>6
    <3> QED
      BY <2>1, <3>1, ShortSequences
         DEF EventsInv, ClientEventsInv, ServerEventsInv, HangupInv, MainInv, Unaccepted
  <2>7. ASSUME CmNotifies("rtu", "up", "server", "ESTABLISHED")
        PROVE  EventsInv'
    <3>1. /\ cm = "rtu" /\ cm' = "up"
          /\ cm_events'["server"] = Append(cm_events["server"], "ESTABLISHED")
          /\ cm_events'["client"] = cm_events["client"]
      BY <1>0, <2>2, <2>7
    <3> QED
      BY <2>1, <3>1, ShortSequences
         DEF EventsInv, ClientEventsInv, ServerEventsInv, HangupInv, MainInv, Unaccepted
  <2> QED
    BY <1>1, <2>3, <2>4, <2>5, <2>6, <2>7 DEF CmProgress
<1>2. ASSUME CmFails PROVE EventsInv'
  <2>1. /\ UNCHANGED <<cm_hangup, main, accept_rdma_trans>>
        /\ cm' = "failed"
        /\ cm \in {"resolving_addr", "resolving_route", "connecting", "requested", "accepted"}
    BY <1>2 DEF CmFails, transVars, threadVars
  <2>2. PICK event \in {"CONNECT_ERROR", "OTHER_ERROR"} :
          cm_events' = [e \in End |->
            IF e = "client" THEN Append(cm_events[e], event)
            ELSE IF cm = "accepted" THEN Append(cm_events[e], "CONNECT_ERROR")
            ELSE cm_events[e]]
    BY <1>2 DEF CmFails
  <2>3. cm_events'["client"] \in {<<"CONNECT_ERROR">>, <<"OTHER_ERROR">>}
    <3>1. cm_events["client"] = << >>
      BY <2>1 DEF EventsInv, ClientEventsInv
    <3>2. cm_events'["client"] = Append(cm_events["client"], event)
      BY <1>0, <2>2
    <3> QED
      BY <3>1, <3>2, ShortSequences
  <2>4. cm_events'["server"] \in {<< >>, <<"CONNECT_REQUEST">>, <<"CONNECT_ERROR">>}
    <3>1. CASE cm = "accepted"
      <4>1. cm_events'["server"] = Append(cm_events["server"], "CONNECT_ERROR")
        BY <1>0, <2>2, <3>1
      <4>2. cm_events["server"] = << >>
        BY <3>1 DEF EventsInv, ServerEventsInv
      <4> QED
        BY <4>1, <4>2, ShortSequences
    <3>2. CASE cm # "accepted"
      <4>1. cm_events'["server"] = cm_events["server"]
        BY <1>0, <2>2, <3>2
      <4> QED
        BY <2>1, <3>2, <4>1 DEF EventsInv, ServerEventsInv, Unaccepted
    <3> QED
      BY <3>1, <3>2
  <2> QED
    BY <2>1, <2>3, <2>4
       DEF EventsInv, ClientEventsInv, ServerEventsInv, HangupInv, MainInv, Unaccepted
<1>3. ASSUME NEW e \in End, CmHangup(e) PROVE EventsInv'
  <2>1. /\ UNCHANGED <<cm, main, accept_rdma_trans>>
        /\ cm = "disconnecting" /\ e \in cm_hangup /\ cm_hangup' = cm_hangup \ {e}
    BY <1>3 DEF CmHangup, transVars, threadVars, EventsInv, HangupInv
  <2>2. /\ \A f \in End : f # e => cm_events'[f] = cm_events[f]
        /\ cm_events'[e] = Append(cm_events[e], "DISCONNECTED")
    BY <1>3 DEF CmHangup, CmTypeOK
  <2>3. CASE e = "client"
    BY <1>0, <2>1, <2>2, <2>3, ShortSequences
       DEF EventsInv, ClientEventsInv, ServerEventsInv, HangupInv, MainInv, Unaccepted
  <2>4. CASE e = "server"
    <3>1. cm_events["server"] \in {<< >>, <<"ESTABLISHED">>}
      BY <2>1, <2>4 DEF EventsInv, HangupInv
    <3>2. cm_events'["server"] \in {<<"DISCONNECTED">>, <<"ESTABLISHED", "DISCONNECTED">>}
      <4>1. CASE cm_events["server"] = << >>
        BY <2>2, <2>4, <4>1, ShortSequences
      <4>2. CASE cm_events["server"] = <<"ESTABLISHED">>
        BY <2>2, <2>4, <4>2, ShortSequences
      <4> QED
        BY <3>1, <4>1, <4>2
    <3> QED
      BY <1>0, <2>1, <2>2, <2>4, <3>2
         DEF EventsInv, ClientEventsInv, ServerEventsInv, HangupInv, MainInv, Unaccepted
  <2> QED
    BY <2>3, <2>4 DEF End
<1>4. ASSUME NEW e \in End, DeliverSend(e) \/ DeliverWrite(e) \/ RnrExhausted(e)
      PROVE  EventsInv'
  BY <1>4, EventsUnchanged
     DEF DeliverSend, DeliverWrite, RnrExhausted, transVars, threadVars
<1> QED
  BY <1>1, <1>2, <1>3, <1>4 DEF Network

\* Every step keeps EventsInv.
LEMMA EventsStep == TypeInv /\ EventsInv /\ [Next]_vars => EventsInv'
<1> SUFFICES ASSUME TypeInv, EventsInv, [Next]_vars PROVE EventsInv'
  OBVIOUS
<1>1. CASE UNCHANGED vars
  BY <1>1, EventsUnchanged DEF vars, transVars, threadVars
<1>2. CASE ClientConnect \/ Accept \/ SetConnecting \/ Prepare
  BY <1>2, EventsMain
<1>3. CASE AddrResolved \/ RouteResolved \/ ConnectRequest
  BY <1>3, EventsCm
<1>4. CASE CmProgress \/ CmFails
  BY <1>4, EventsNetwork
<1>5. ASSUME NEW e \in End, Main(e) \/ Epoll(e) \/ Network(e) \/ RnrExhausted(e)
      PROVE  EventsInv'
  BY <1>5, EventsMain, EventsCm, EventsEpoll, EventsNetwork DEF Epoll
<1> QED
  BY <1>1, <1>2, <1>3, <1>4, <1>5 DEF Next

-----------------------------------------------------------------------------
(* QuietInv. *)

\* The steps that are possible once the client has taken ESTABLISHED.
AnsweredNext ==
  \/ UNCHANGED vars
  \/ SetConnecting \/ Prepare \/ Established("server")
  \/ cm = "rtu" /\ CmProgress
  \/ \E e \in End : \/ Main(e) \/ Disconnected(e) \/ CqHandler(e) \/ TimerHandler(e)
                    \/ LoopExit(e) \/ Network(e) \/ RnrExhausted(e)

\* After it only they are, and the client takes ESTABLISHED once.
LEMMA AnsweredSteps ==
  ASSUME TypeInv, EventsInv, [Next]_vars
  PROVE  /\ cm \in Answered => AnsweredNext /\ cm' \in Answered
         /\ cm \notin Answered /\ cm' \in Answered =>
              Established("client") /\ cm = "responded"
<1> USE DEF Answered
<1>0. "client" \in End /\ "server" \in End
  BY DEF End
<1>1. CASE UNCHANGED vars
  BY <1>1 DEF AnsweredNext, vars, cmVars
<1>2. CASE ClientConnect
  BY <1>2 DEF ClientConnect, EventsInv, MainInv
<1>3. CASE Accept
  BY <1>3 DEF Accept, EventsInv, MainInv
<1>4. CASE SetConnecting \/ Prepare
  BY <1>4 DEF SetConnecting, Prepare, cmVars, AnsweredNext
<1>5. CASE AddrResolved \/ RouteResolved
  BY <1>0, <1>5, EventTaken DEF AddrResolved, RouteResolved
<1>6. CASE ConnectRequest
  BY <1>0, <1>6, EventTaken DEF ConnectRequest
<1>7. CASE CmProgress
  BY <1>7 DEF CmProgress, CmNotifies, AnsweredNext
<1>8. CASE CmFails
  BY <1>8 DEF CmFails
<1>9. ASSUME NEW e \in End, Main(e) \/ TimerHandler(e) \/ LoopExit(e)
      PROVE  AnsweredNext /\ UNCHANGED cm
  BY <1>9 DEF Main, MainCheck, MainEnqueue, MainSent, MainJoin, TimerHandler, TimerPost,
              TimerRefused, Posts, TimerUnlink, StaleExpires, LoopExit, cmVars, AnsweredNext
<1>10. ASSUME NEW e \in End, Network(e) \/ RnrExhausted(e)
       PROVE  AnsweredNext /\ UNCHANGED cm
  BY <1>10 DEF Network, DeliverSend, DeliverWrite, CmHangup, RnrExhausted, cmVars, AnsweredNext
<1>11. ASSUME NEW e \in End, CqHandler(e)
       PROVE  /\ AnsweredNext
              /\ cm' = cm \/ (cm \in {"rtu", "up"} /\ cm' = "disconnecting")
  <2>1. AnsweredNext
    BY <1>11 DEF AnsweredNext
  <2>2. Disconnect(e) => cm' = cm \/ (cm \in {"rtu", "up"} /\ cm' = "disconnecting")
    BY DEF Disconnect
  <2> QED
    BY <1>11, <2>1, <2>2
       DEF CqHandler, SentMr, SentOther, RecvNormal, RecvFinish, RecvDone, RecvMr, cmVars
<1>12. ASSUME NEW e \in End, Disconnected(e)
       PROVE  AnsweredNext /\ UNCHANGED cm
  BY <1>12 DEF Disconnected, AnsweredNext
<1>13. ASSUME NEW e \in End, ConnectError(e) \/ OtherError(e)
       PROVE  cm = "failed" /\ UNCHANGED cm
  BY <1>13, EventTaken DEF ConnectError, OtherError
<1>14. ASSUME NEW e \in End, Established(e)
       PROVE  \/ e = "client" /\ cm = "responded"
              \/ AnsweredNext /\ cm \in Answered /\ UNCHANGED cm
  <2>1. \/ e = "client" /\ cm = "responded"
        \/ e = "server" /\ cm \in {"up", "disconnecting"}
    BY <1>14, EventTaken DEF Established
  <2> QED
    BY <1>14, <2>1 DEF Established, AnsweredNext
<1> QED
  BY <1>1, <1>2, <1>3, <1>4, <1>5, <1>6, <1>7, <1>8, <1>9, <1>10, <1>11, <1>12, <1>13, <1>14
     DEF Next, Epoll, CmHandler

\* Nothing is sent at the start.
LEMMA QuietInit == Init => QuietInv
BY DEF Init, QuietInv, Quiet, Answered

\* Nothing is sent or received until the client has taken ESTABLISHED.
LEMMA QuietStep == TypeInv /\ EventsInv /\ QuietInv /\ [Next]_vars => QuietInv'
<1> SUFFICES ASSUME TypeInv, EventsInv, QuietInv, [Next]_vars, cm' \notin Answered
             PROVE  \A f \in End : Quiet(f)'
  BY DEF QuietInv
<1>0. "client" \in End /\ "server" \in End
  BY DEF End
<1>1. cm \notin Answered /\ \A f \in End : Quiet(f)
  BY AnsweredSteps DEF QuietInv
<1> USE DEF TypeInv, TypeOK
<1>2. CASE UNCHANGED vars
  BY <1>1, <1>2 DEF Quiet, vars, transVars, threadVars, qpVars, history
<1>3. CASE ClientConnect \/ SetConnecting
  BY <1>1, <1>3 DEF Quiet, ClientConnect, SetConnecting, qpVars, history, TransTypeOK,
                    ThreadTypeOK
<1>4. CASE Accept \/ Prepare
  BY <1>1, <1>4 DEF Quiet, Accept, Prepare, qpVars, history, ThreadTypeOK
<1>5. CASE AddrResolved \/ ConnectRequest
  BY <1>1, <1>5 DEF Quiet, AddrResolved, ConnectRequest, threadVars, qpVars, history
<1>6. CASE RouteResolved
  <2>1. \A f \in End : trans_state'[f] \in {trans_state[f], "ERROR"}
    BY <1>6 DEF RouteResolved, TransTypeOK
  <2> QED
    BY <1>1, <1>6, <2>1 DEF Quiet, RouteResolved, history
<1>7. CASE CmProgress \/ CmFails
  BY <1>1, <1>7 DEF Quiet, CmProgress, CmFails, transVars, threadVars, qpVars, history
<1>8. ASSUME NEW e \in End, Main(e) PROVE \A f \in End : Quiet(f)'
  <2>1. trans_state[e] \notin ReadyStates(Script(e)[pos[e]])
    BY <1>1 DEF Quiet, ReadyStates
  <2>2. main'[e] # "enqueue" /\ \A f \in End : f # e => main'[f] = main[f]
    BY <1>1, <1>8, <2>1
       DEF Quiet, Main, MainCheck, MainEnqueue, MainSent, MainJoin, ThreadTypeOK
  <2>3. ~MainEnqueue(e)
    BY <1>1 DEF Quiet, MainEnqueue
  <2> QED
    BY <1>1, <1>8, <2>2, <2>3
       DEF Quiet, Main, MainCheck, MainSent, MainJoin, transVars, qpVars, history
<1>9. ASSUME NEW e \in End, Established(e) PROVE FALSE
  BY <1>1, <1>9, EventTaken DEF Established, Answered
<1>10. ASSUME NEW e \in End, Disconnected(e) PROVE FALSE
  BY <1>1, <1>10, EventTaken DEF Disconnected, Answered
<1>11. ASSUME NEW e \in End, ConnectError(e) \/ OtherError(e)
       PROVE  \A f \in End : Quiet(f)'
  BY <1>1, <1>11 DEF Quiet, ConnectError, OtherError, transVars, threadVars, qpVars, history,
                     TransTypeOK
<1>12. ASSUME NEW e \in End, CqHandler(e) PROVE FALSE
  BY <1>1, <1>12 DEF Quiet, CqHandler, SentMr, SentOther, TakeSent, RecvNormal, RecvFinish,
                     RecvDone, RecvMr, TakeRecv
<1>13. ASSUME NEW e \in End, TimerHandler(e) PROVE FALSE
  BY <1>1, <1>13 DEF Quiet, TimerHandler, TimerPost, TimerRefused, Posts, TimerUnlink, StaleExpires
<1>14. ASSUME NEW e \in End, LoopExit(e) PROVE \A f \in End : Quiet(f)'
  BY <1>1, <1>14 DEF Quiet, LoopExit, transVars, qpVars, history, ThreadTypeOK
<1>15. ASSUME NEW e \in End, DeliverSend(e) \/ DeliverWrite(e) \/ RnrExhausted(e) PROVE FALSE
  BY <1>1, <1>15 DEF Quiet, DeliverSend, DeliverWrite, RnrExhausted, Linked
<1>16. ASSUME NEW e \in End, CmHangup(e) PROVE \A f \in End : Quiet(f)'
  BY <1>1, <1>16 DEF Quiet, CmHangup, transVars, threadVars, qpVars, history
<1> QED
  BY <1>2, <1>3, <1>4, <1>5, <1>6, <1>7, <1>8, <1>9, <1>10, <1>11, <1>12, <1>13, <1>14,
     <1>15, <1>16 DEF Next, Epoll, CmHandler, Network

\* The steps that are possible before.
LEMMA UnansweredSteps ==
  ASSUME TypeInv, EventsInv, QuietInv, [Next]_vars, cm \notin Answered
  PROVE  \/ UNCHANGED vars
         \/ ClientConnect \/ Accept \/ SetConnecting \/ Prepare
         \/ AddrResolved \/ RouteResolved \/ ConnectRequest
         \/ CmProgress \/ CmFails
         \/ cm = "responded" /\ Established("client")
         \/ \E f \in End : \/ MainCheck(f) \/ MainSent(f) \/ MainJoin(f)
                           \/ LoopExit(f)
                           \/ cm = "failed" /\ (ConnectError(f) \/ OtherError(f))
<1>1. \A f \in End : Quiet(f)
  BY DEF QuietInv
<1>2. ASSUME NEW f \in End
      PROVE  /\ ~MainEnqueue(f) /\ ~CqHandler(f) /\ ~TimerHandler(f)
             /\ ~DeliverSend(f) /\ ~DeliverWrite(f) /\ ~RnrExhausted(f)
  <2>1. ~MainEnqueue(f) /\ ~TimerHandler(f)
    BY <1>1 DEF Quiet, MainEnqueue, TimerHandler, TimerPost, TimerRefused, Posts, TimerUnlink, StaleExpires
  <2>2. ~CqHandler(f)
    BY <1>1 DEF Quiet, CqHandler, SentMr, SentOther, TakeSent, RecvNormal, RecvFinish,
                RecvDone, RecvMr, TakeRecv
  <2>3. ~DeliverSend(f) /\ ~DeliverWrite(f) /\ ~RnrExhausted(f)
    BY <1>1 DEF Quiet, DeliverSend, DeliverWrite, RnrExhausted, Linked
  <2> QED
    BY <2>1, <2>2, <2>3
<1>3. ASSUME NEW f \in End
      PROVE  /\ ~Disconnected(f) /\ ~CmHangup(f)
             /\ Established(f) => f = "client" /\ cm = "responded"
             /\ ConnectError(f) \/ OtherError(f) => cm = "failed"
  <2>1. ~Disconnected(f)
    BY EventTaken DEF Disconnected, Answered
  <2>2. ~CmHangup(f)
    BY DEF CmHangup, EventsInv, HangupInv, Answered
  <2>3. Established(f) => f = "client" /\ cm = "responded"
    BY EventTaken DEF Established, Answered
  <2>4. ConnectError(f) \/ OtherError(f) => cm = "failed"
    BY EventTaken DEF ConnectError, OtherError
  <2> QED
    BY <2>1, <2>2, <2>3, <2>4
<1> QED
  BY <1>2, <1>3 DEF Next, Main, Epoll, CmHandler, Network

-----------------------------------------------------------------------------
(* UnpreparedInv. *)

\* The server has posted no receive at the start.
LEMMA UnpreparedInit == Init => UnpreparedInv
BY DEF Init, UnpreparedInv, End

\* A QP that stops keeps nothing, and the other end's keeps what it has.
LEMMA Stopped ==
  ASSUME TypeInv, NEW e \in End, NEW state, QpStops(e, state)
  PROVE  /\ wire'[e] = << >> /\ recv_posted'[e] = 0 /\ qp'[e] = state
         /\ \A f \in End \ {e} : /\ wire'[f] = wire[f] /\ qp'[f] = qp[f]
                                /\ recv_posted'[f] = recv_posted[f]
         /\ \A f \in End : recv_posted[f] = 0 => recv_posted'[f] = 0
<1> USE DEF TypeInv, TypeOK
<1>1. wire'[e] = << >> /\ \A f \in End \ {e} : wire'[f] = wire[f]
  BY DEF QpStops, QpTypeOK
<1>2. recv_posted'[e] = 0 /\ \A f \in End \ {e} : recv_posted'[f] = recv_posted[f]
  BY DEF QpStops, QpTypeOK
<1>3. qp'[e] = state /\ \A f \in End \ {e} : qp'[f] = qp[f]
  BY DEF QpStops, TransTypeOK
<1> QED
  BY <1>1, <1>2, <1>3

\* A step that takes the server no further back, and posts and receives nothing
\* there, keeps UnpreparedInv.
LEMMA UnpreparedUnchanged ==
  ASSUME UnpreparedInv,
         cm' \in Unaccepted => cm \in Unaccepted,
         main'["server"] \in {"connecting", "prepare"} =>
           main["server"] \in {"connecting", "prepare"},
         recv_posted["server"] = 0 => recv_posted'["server"] = 0,
         recvs["server"] = << >> => recvs'["server"] = << >>,
         peer_mr["server"] = FALSE => peer_mr'["server"] = FALSE,
         peer_mr["server"] \in BOOLEAN
  PROVE  UnpreparedInv'
BY DEF UnpreparedInv

\* Every step keeps UnpreparedInv: no message can arrive before the first receive.
LEMMA UnpreparedStep ==
  TypeInv /\ EventsInv /\ QuietInv /\ UnpreparedInv /\ [Next]_vars => UnpreparedInv'
<1> SUFFICES ASSUME TypeInv, EventsInv, QuietInv, UnpreparedInv, [Next]_vars
             PROVE  UnpreparedInv'
  OBVIOUS
<1> USE DEF TypeInv, TypeOK
<1>0. "client" \in End /\ "server" \in End /\ "client" # "server"
  BY DEF End
<1>1. peer_mr["server"] \in BOOLEAN
  BY <1>0 DEF TransTypeOK
<1>2. CASE UNCHANGED vars
  BY <1>1, <1>2, UnpreparedUnchanged DEF vars, transVars, threadVars, qpVars, cmVars
<1>3. CASE ClientConnect \/ AddrResolved \/ ConnectRequest
  <2>1. UNCHANGED <<main["server"], qpVars, peer_mr>>
    BY <1>0, <1>3 DEF ClientConnect, AddrResolved, ConnectRequest, threadVars, ThreadTypeOK
  <2>2. cm' \in Unaccepted => cm \in Unaccepted
    BY <1>0, <1>3, EventTaken
       DEF ClientConnect, AddrResolved, ConnectRequest, EventsInv, MainInv, Unaccepted
  <2> QED
    BY <1>1, <2>1, <2>2, UnpreparedUnchanged DEF qpVars
<1>4. CASE RouteResolved
  <2>1. UNCHANGED <<main["server"], recvs, recv_posted["server"], peer_mr>>
    BY <1>0, <1>4 DEF RouteResolved, QpTypeOK
  <2>2. cm' \in Unaccepted => cm \in Unaccepted
    BY <1>0, <1>4, EventTaken DEF RouteResolved, Unaccepted
  <2> QED
    BY <1>1, <2>1, <2>2, UnpreparedUnchanged
<1>5. CASE Accept
  <2>1. UNCHANGED <<qpVars, peer_mr>> /\ cm' \notin Unaccepted
    BY <1>5 DEF Accept, EventsInv, MainInv, Unaccepted
  <2>2. CASE cm = "requested"
    BY <1>0, <2>1, <2>2 DEF UnpreparedInv, QuietInv, Quiet, Answered, Unaccepted, qpVars
  <2>3. CASE cm # "requested"
    <3>1. main'["server"] = "join"
      BY <1>0, <1>5, <2>3 DEF Accept, ThreadTypeOK
    <3> QED
      BY <2>1, <3>1 DEF UnpreparedInv
  <2> QED
    BY <2>2, <2>3
<1>6. CASE SetConnecting
  BY <1>1, <1>6, UnpreparedUnchanged DEF SetConnecting, qpVars, cmVars
<1>7. CASE Prepare
  <2>1. main["server"] = "prepare" /\ main'["server"] = "check" /\ cm' = cm
    BY <1>0, <1>7 DEF Prepare, ThreadTypeOK, cmVars
  <2>2. cm \notin Unaccepted
    BY <2>1 DEF EventsInv, MainInv
  <2> QED
    BY <2>1, <2>2 DEF UnpreparedInv
<1>8. CASE CmProgress \/ CmFails
  <2>1. UNCHANGED <<main, qpVars, peer_mr>>
    BY <1>8 DEF CmProgress, CmFails, threadVars, transVars
  <2>2. cm' \in Unaccepted => cm \in Unaccepted
    BY <1>8 DEF CmProgress, CmNotifies, CmFails, Unaccepted
  <2> QED
    BY <1>1, <2>1, <2>2, UnpreparedUnchanged DEF qpVars
<1>9. ASSUME NEW e \in End, Main(e) PROVE UnpreparedInv'
  <2>1. UNCHANGED <<qpVars, cmVars, peer_mr>>
    BY <1>9 DEF Main, MainCheck, MainEnqueue, MainSent, MainJoin, transVars
  <2>2. main'["server"] \in {"connecting", "prepare"} => main["server"] = main'["server"]
    BY <1>0, <1>9 DEF Main, MainCheck, MainEnqueue, MainSent, MainJoin, ThreadTypeOK
  <2> QED
    BY <1>1, <2>1, <2>2, UnpreparedUnchanged DEF qpVars, cmVars
<1>10. ASSUME NEW e \in End, Established(e) \/ ConnectError(e) \/ OtherError(e)
       PROVE  UnpreparedInv'
  <2>1. UNCHANGED <<main, recvs, recv_posted, peer_mr>>
    BY <1>10 DEF Established, ConnectError, OtherError, threadVars, transVars, qpVars
  <2>2. cm' \in Unaccepted => cm \in Unaccepted
    BY <1>10 DEF Established, ConnectError, OtherError, Unaccepted
  <2> QED
    BY <1>1, <2>1, <2>2, UnpreparedUnchanged
<1>11. ASSUME NEW e \in End, Disconnected(e) PROVE UnpreparedInv'
  <2>1. UNCHANGED <<cm, main, peer_mr>>
    BY <1>11 DEF Disconnected
  <2>2. recv_posted["server"] = 0 => recv_posted'["server"] = 0
    BY <1>0, <1>11, Stopped DEF Disconnected
  <2>3. recvs["server"] = << >> => recvs'["server"] = << >>
    BY <1>0, <1>11 DEF Disconnected, QpTypeOK
  <2> QED
    BY <1>1, <2>1, <2>2, <2>3, UnpreparedUnchanged
<1>12. ASSUME NEW e \in End, CqHandler(e) PROVE UnpreparedInv'
  <2>1. cm' \in Unaccepted => cm \in Unaccepted
    BY <1>12 DEF CqHandler, SentMr, SentOther, RecvNormal, RecvFinish, RecvDone, RecvMr,
                 Disconnect, cmVars, Unaccepted
  <2>2. UNCHANGED main
    BY <1>12 DEF CqHandler, SentMr, SentOther, RecvNormal, RecvFinish, RecvDone, RecvMr,
                 threadVars
  <2>3. CASE SentMr(e) \/ SentOther(e)
    <3>1. UNCHANGED <<recvs, peer_mr>>
      BY <2>3 DEF SentMr, SentOther
    <3>2. recv_posted["server"] = 0 => recv_posted'["server"] = 0
      BY <1>0, <2>3, Stopped DEF SentMr, SentOther, Disconnect
    <3> QED
      BY <1>1, <2>1, <2>2, <3>1, <3>2, UnpreparedUnchanged
  <2>4. ASSUME NEW type, TakeRecv(e, type), e = "server" PROVE UnpreparedInv'
    <3>1. recvs["server"] # << >>
      BY <2>4 DEF TakeRecv
    <3>2. cm \notin Unaccepted /\ main["server"] \notin {"connecting", "prepare"}
      BY <1>0, <3>1 DEF UnpreparedInv, QuietInv, Quiet, Unaccepted, Answered
    <3> QED
      BY <2>1, <2>2, <3>2 DEF UnpreparedInv
  <2>5. ASSUME RecvNormal(e) \/ RecvFinish(e) \/ RecvDone(e) \/ RecvMr(e), e = "client"
        PROVE  UnpreparedInv'
    <3>1. UNCHANGED <<recvs["server"], recv_posted["server"], peer_mr["server"]>>
      BY SMTT(30), <1>0, <2>5 DEF RecvNormal, RecvFinish, RecvDone, RecvMr, TakeRecv, Repost,
                        Disconnect, QpStops, QpTypeOK, TransTypeOK, transVars
    <3> QED
      BY <1>1, <2>1, <2>2, <3>1, UnpreparedUnchanged
  <2> QED
    BY <1>12, <2>3, <2>4, <2>5
       DEF CqHandler, RecvNormal, RecvFinish, RecvDone, RecvMr, End
<1>13. ASSUME NEW e \in End, TimerHandler(e) \/ LoopExit(e) PROVE UnpreparedInv'
  BY <1>1, <1>13, UnpreparedUnchanged
     DEF TimerHandler, TimerPost, TimerRefused, Posts, TimerUnlink, StaleExpires, LoopExit, cmVars, transVars,
         threadVars, qpVars
<1>14. ASSUME NEW e \in End, DeliverSend(e) PROVE UnpreparedInv'
  <2>1. UNCHANGED <<main, cm, peer_mr>> /\ recv_posted[Peer(e)] > 0
    BY <1>14 DEF DeliverSend, cmVars, transVars, threadVars
  <2>2. CASE Peer(e) = "server"
    BY <2>1, <2>2 DEF UnpreparedInv
  <2>3. CASE Peer(e) # "server"
    <3>1. UNCHANGED <<recvs["server"], recv_posted["server"]>>
      BY <1>0, <1>14, <2>3, PeerIsEnd DEF DeliverSend, QpTypeOK
    <3> QED
      BY <1>1, <2>1, <3>1, UnpreparedUnchanged
  <2> QED
    BY <2>2, <2>3
<1>15. ASSUME NEW e \in End, DeliverWrite(e) \/ CmHangup(e) PROVE UnpreparedInv'
  BY <1>1, <1>15, UnpreparedUnchanged
     DEF DeliverWrite, CmHangup, cmVars, transVars, threadVars, qpVars
<1>16. ASSUME NEW e \in End, RnrExhausted(e) PROVE UnpreparedInv'
  <2>1. UNCHANGED <<cm, main, peer_mr, recvs>>
    BY <1>16 DEF RnrExhausted, cmVars, threadVars
  <2>2. recv_posted["server"] = 0 => recv_posted'["server"] = 0
    BY <1>0, <1>16, Stopped DEF RnrExhausted
  <2> QED
    BY <1>1, <2>1, <2>2, UnpreparedUnchanged
<1> QED
  BY <1>2, <1>3, <1>4, <1>5, <1>6, <1>7, <1>8, <1>9, <1>10, <1>11, <1>12, <1>13, <1>14,
     <1>15, <1>16 DEF Next, Epoll, CmHandler, Network

-----------------------------------------------------------------------------
(* What a step can do to the sequences messages are in and to the facts the  *)
(* exchange is about, whatever step it is.                                   *)

\* What happens to the list of an end.
LEMMA ListEffects ==
  ASSUME TypeInv, [Next]_vars, NEW e \in End
  PROVE  \/ send_task_list'[e] = send_task_list[e] /\ ~TimerUnlink(e)
         \/ TimerUnlink(e) /\ send_task_list'[e] = << >>
         \/ /\ MainEnqueue(e)
            /\ send_task_list'[e] =
                 Append(send_task_list[e], [type |-> Script(e)[pos[e]], id |-> pos[e]])
         \/ /\ RecvFinish(e)
            /\ send_task_list'[e] = Append(send_task_list[e], Done)
<1> DEFINE Goal ==
         \/ send_task_list'[e] = send_task_list[e] /\ ~TimerUnlink(e)
         \/ TimerUnlink(e) /\ send_task_list'[e] = << >>
         \/ /\ MainEnqueue(e)
            /\ send_task_list'[e] =
                 Append(send_task_list[e], [type |-> Script(e)[pos[e]], id |-> pos[e]])
         \/ /\ RecvFinish(e)
            /\ send_task_list'[e] = Append(send_task_list[e], Done)
<1>0. \/ UNCHANGED send_task_list
      \/ \E f \in End : MainEnqueue(f) \/ TimerUnlink(f) \/ RecvFinish(f)
  <2>1. ASSUME NEW f \in End, Main(f) \/ Network(f) \/ RnrExhausted(f)
        PROVE  \/ UNCHANGED send_task_list
               \/ MainEnqueue(f) \/ TimerUnlink(f) \/ RecvFinish(f)
    BY <2>1 DEF Main, MainCheck, MainSent, MainJoin, Network, DeliverSend, DeliverWrite,
                CmHangup, RnrExhausted, transVars
  <2>2. ASSUME NEW f \in End, CmHandler(f) \/ LoopExit(f)
        PROVE  \/ UNCHANGED send_task_list
               \/ MainEnqueue(f) \/ TimerUnlink(f) \/ RecvFinish(f)
    BY <2>2 DEF CmHandler, Established, Disconnected, ConnectError, OtherError, LoopExit,
                transVars
  <2>3. ASSUME NEW f \in End, CqHandler(f)
        PROVE  \/ UNCHANGED send_task_list
               \/ MainEnqueue(f) \/ TimerUnlink(f) \/ RecvFinish(f)
    BY <2>3 DEF CqHandler, SentMr, SentOther, RecvNormal, RecvDone, RecvMr, transVars
  <2>4. ASSUME NEW f \in End, TimerHandler(f)
        PROVE  \/ UNCHANGED send_task_list
               \/ MainEnqueue(f) \/ TimerUnlink(f) \/ RecvFinish(f)
    BY <2>4 DEF TimerHandler, TimerPost, TimerRefused, Posts, StaleExpires, transVars
  <2> QED
    BY <2>1, <2>2, <2>3, <2>4 DEF Next, vars, transVars, ClientConnect, Accept,
                                  SetConnecting, Prepare, AddrResolved, RouteResolved,
                                  ConnectRequest, CmProgress, CmFails, Epoll
<1> USE DEF TypeInv, TypeOK
<1>1. CASE TimerUnlink(e)
  BY <1>1 DEF TimerUnlink, ListAfterUnlink, TransTypeOK
<1>2. CASE UNCHANGED send_task_list /\ ~TimerUnlink(e)
  BY <1>2
<1>3. ASSUME NEW f \in End, MainEnqueue(f), ~TimerUnlink(e) PROVE Goal
  BY <1>3 DEF MainEnqueue, Insert, ListAddTail, TransTypeOK
<1>4. ASSUME NEW f \in End, TimerUnlink(f), ~TimerUnlink(e) PROVE Goal
  <2>1. f # e
    BY <1>4
  <2>2. send_task_list' = [send_task_list EXCEPT ![f] = ListAfterUnlink(@, posted[f])]
    BY <1>4 DEF TimerUnlink
  <2> QED
    BY <1>4, <2>1, <2>2 DEF TransTypeOK
<1>5. ASSUME NEW f \in End, RecvFinish(f), ~TimerUnlink(e) PROVE Goal
  BY <1>5 DEF RecvFinish, Insert, ListAddTail, TransTypeOK
<1> QED
  BY <1>0, <1>1, <1>2, <1>3, <1>4, <1>5

\* What happens to the wire of an end.
LEMMA WireEffects ==
  ASSUME TypeInv, [Next]_vars, NEW e \in End
  PROVE  \/ wire'[e] = wire[e]
         \/ wire'[e] = << >> /\ qp'[e] # "ready"
         \/ /\ qp[e] = "ready" /\ wire'[e] = Append(wire[e], Mr)
            /\ \/ Established(e) /\ e = "client"
               \/ RecvMr(e) /\ trans_state[e] = "CONNECTED"
         \/ TimerPost(e) /\ qp[e] = "ready" /\ wire'[e] = wire[e] \o send_task_list[e]
         \/ /\ TimerRefused(e) /\ qp[e] = "ready" /\ e \in twice'
            /\ \E n \in 0 .. Len(send_task_list[e]) :
                 wire'[e] = wire[e] \o SubSeq(send_task_list[e], 1, n)
         \/ /\ DeliverSend(e) \/ DeliverWrite(e)
            /\ wire[e] # << >> /\ wire'[e] = Tail(wire[e])
<1> DEFINE Goal ==
         \/ wire'[e] = wire[e]
         \/ wire'[e] = << >> /\ qp'[e] # "ready"
         \/ /\ qp[e] = "ready" /\ wire'[e] = Append(wire[e], Mr)
            /\ \/ Established(e) /\ e = "client"
               \/ RecvMr(e) /\ trans_state[e] = "CONNECTED"
         \/ TimerPost(e) /\ qp[e] = "ready" /\ wire'[e] = wire[e] \o send_task_list[e]
         \/ /\ TimerRefused(e) /\ qp[e] = "ready" /\ e \in twice'
            /\ \E n \in 0 .. Len(send_task_list[e]) :
                 wire'[e] = wire[e] \o SubSeq(send_task_list[e], 1, n)
         \/ /\ DeliverSend(e) \/ DeliverWrite(e)
            /\ wire[e] # << >> /\ wire'[e] = Tail(wire[e])
<1>0. \/ UNCHANGED wire
      \/ \E f \in End :
           \/ Established(f) \/ RecvMr(f) \/ TimerPost(f) \/ TimerRefused(f)
           \/ DeliverSend(f) \/ DeliverWrite(f)
           \/ Disconnected(f) \/ SentOther(f) \/ RecvDone(f) \/ RnrExhausted(f)
  <2>1. ASSUME NEW f \in End, Main(f) \/ Network(f) \/ RnrExhausted(f)
        PROVE  \/ UNCHANGED wire
               \/ Established(f) \/ RecvMr(f) \/ TimerPost(f) \/ TimerRefused(f)
               \/ DeliverSend(f) \/ DeliverWrite(f)
               \/ Disconnected(f) \/ SentOther(f) \/ RecvDone(f) \/ RnrExhausted(f)
    BY <2>1 DEF Main, MainCheck, MainEnqueue, MainSent, MainJoin, Network, CmHangup, qpVars
  <2>2. ASSUME NEW f \in End, CmHandler(f) \/ LoopExit(f)
        PROVE  \/ UNCHANGED wire
               \/ Established(f) \/ RecvMr(f) \/ TimerPost(f) \/ TimerRefused(f)
               \/ DeliverSend(f) \/ DeliverWrite(f)
               \/ Disconnected(f) \/ SentOther(f) \/ RecvDone(f) \/ RnrExhausted(f)
    BY <2>2 DEF CmHandler, ConnectError, OtherError, LoopExit, qpVars
  <2>3. ASSUME NEW f \in End, CqHandler(f)
        PROVE  \/ UNCHANGED wire
               \/ Established(f) \/ RecvMr(f) \/ TimerPost(f) \/ TimerRefused(f)
               \/ DeliverSend(f) \/ DeliverWrite(f)
               \/ Disconnected(f) \/ SentOther(f) \/ RecvDone(f) \/ RnrExhausted(f)
    BY <2>3 DEF CqHandler, SentMr, RecvNormal, RecvFinish, qpVars
  <2>4. ASSUME NEW f \in End, TimerHandler(f)
        PROVE  \/ UNCHANGED wire
               \/ Established(f) \/ RecvMr(f) \/ TimerPost(f) \/ TimerRefused(f)
               \/ DeliverSend(f) \/ DeliverWrite(f)
               \/ Disconnected(f) \/ SentOther(f) \/ RecvDone(f) \/ RnrExhausted(f)
    BY <2>4 DEF TimerHandler, TimerUnlink, StaleExpires, qpVars
  <2> QED
    BY <2>1, <2>2, <2>3, <2>4 DEF Next, vars, qpVars, ClientConnect, Accept, SetConnecting,
                                  Prepare, AddrResolved, RouteResolved, ConnectRequest,
                                  CmProgress, CmFails, Epoll
<1> USE DEF TypeInv, TypeOK
<1>1. ASSUME NEW f \in End, f # e, Established(f) \/ RecvMr(f) PROVE Goal
  BY <1>1 DEF Established, RecvMr, PostMr, QpTypeOK
<1>2. CASE Established(e)
  <2>1. \/ wire'[e] = wire[e]
        \/ e = "client" /\ PostMr(e)
    BY <1>2 DEF Established
  <2>2. ASSUME PostMr(e)
        PROVE  \/ wire'[e] = wire[e]
               \/ qp[e] = "ready" /\ wire'[e] = Append(wire[e], Mr)
    <3>1. PICK ok \in BOOLEAN : wire' = [wire EXCEPT ![e] =
            IF ok /\ qp[e] = "ready" THEN Append(@, Mr) ELSE @]
      BY <2>2 DEF PostMr, Outcomes
    <3>2. wire'[e] = IF ok /\ qp[e] = "ready" THEN Append(wire[e], Mr) ELSE wire[e]
      BY <3>1, Zenon DEF QpTypeOK
    <3> QED
      BY <3>2
  <2>3. CASE wire'[e] = wire[e]
    BY <2>3
  <2>4. CASE e = "client" /\ qp[e] = "ready" /\ wire'[e] = Append(wire[e], Mr)
    BY <1>2, <2>4
  <2> QED
    BY <2>1, <2>2, <2>3, <2>4
<1>3. CASE RecvMr(e)
  BY <1>3 DEF RecvMr, PostMr, QpTypeOK, ExchangeStates
<1>4. ASSUME NEW f \in End, TimerPost(f) PROVE Goal
  BY <1>4 DEF TimerPost, Posts, QpTypeOK
<1>8. ASSUME NEW f \in End, TimerRefused(f) PROVE Goal
  <2>1. PICK n \in 0 .. Len(send_task_list[f]) - 1 :
          /\ Posts(f, SubSeq(send_task_list[f], 1, n))
          /\ twice' = IF n = 0 THEN twice ELSE twice \cup {f}
    BY <1>8 DEF TimerRefused
  <2>2. wire' = [wire EXCEPT ![f] =
          IF qp[f] = "ready" THEN @ \o SubSeq(send_task_list[f], 1, n) ELSE @]
    BY <2>1 DEF Posts
  <2>3. CASE f # e \/ qp[e] # "ready"
    BY <2>2, <2>3 DEF QpTypeOK
  <2>4. CASE f = e /\ qp[e] = "ready" /\ n = 0
    <3>1. SubSeq(send_task_list[e], 1, n) = << >>
      BY <2>4
    <3>2. wire[e] \in Seq(Msg)
      BY DEF QpTypeOK
    <3>3. wire[e] \o << >> = wire[e]
      BY <3>2
    <3>4. wire'[e] = wire[e] \o SubSeq(send_task_list[e], 1, n)
      BY <2>2, <2>4 DEF QpTypeOK
    <3> QED
      BY <3>1, <3>3, <3>4
  <2>5. CASE f = e /\ qp[e] = "ready" /\ n # 0
    <3>1. e \in twice' /\ wire'[e] = wire[e] \o SubSeq(send_task_list[e], 1, n)
      BY <2>1, <2>2, <2>5 DEF QpTypeOK
    <3>2. n \in 0 .. Len(send_task_list[e])
      <4>1. Len(send_task_list[e]) \in Nat
        BY SequenceTypes DEF TransTypeOK
      <4> QED
        BY <2>5, <4>1
    <3> QED
      BY <1>8, <2>5, <3>1, <3>2
  <2> QED
    BY <2>3, <2>4, <2>5
<1>5. ASSUME NEW f \in End, DeliverSend(f) \/ DeliverWrite(f) PROVE Goal
  BY <1>5 DEF DeliverSend, DeliverWrite, Linked, QpTypeOK
<1>6. ASSUME NEW f \in End, NEW state \in {"error", "destroyed"}, QpStops(f, state) PROVE Goal
  <2>1. CASE f = e
    BY <1>6, <2>1, Stopped
  <2>2. CASE f # e
    BY <1>6, <2>2, Stopped
  <2> QED
    BY <2>1, <2>2
<1>7. ASSUME NEW f \in End, Disconnected(f) \/ SentOther(f) \/ RecvDone(f) \/ RnrExhausted(f)
      PROVE  Goal
  BY <1>6, <1>7 DEF Disconnected, SentOther, RecvDone, RnrExhausted, Disconnect
<1> QED
  BY <1>0, <1>1, <1>2, <1>3, <1>4, <1>5, <1>7, <1>8

\* What happens to the receives that an end has not yet polled.
LEMMA RecvsEffects ==
  ASSUME TypeInv, [Next]_vars, NEW e \in End
  PROVE  \/ recvs'[e] = recvs[e]
         \/ Disconnected(e) /\ recvs'[e] = << >>
         \/ /\ RecvNormal(e) \/ RecvFinish(e) \/ RecvDone(e) \/ RecvMr(e)
            /\ recvs[e] # << >> /\ recvs'[e] = Tail(recvs[e])
         \/ /\ DeliverSend(Peer(e)) /\ wire[Peer(e)] # << >>
            /\ wire'[Peer(e)] = Tail(wire[Peer(e)])
            /\ recvs'[e] = Append(recvs[e], Head(wire[Peer(e)]))
<1> DEFINE Goal ==
         \/ recvs'[e] = recvs[e]
         \/ Disconnected(e) /\ recvs'[e] = << >>
         \/ /\ RecvNormal(e) \/ RecvFinish(e) \/ RecvDone(e) \/ RecvMr(e)
            /\ recvs[e] # << >> /\ recvs'[e] = Tail(recvs[e])
         \/ /\ DeliverSend(Peer(e)) /\ wire[Peer(e)] # << >>
            /\ wire'[Peer(e)] = Tail(wire[Peer(e)])
            /\ recvs'[e] = Append(recvs[e], Head(wire[Peer(e)]))
<1>0. \/ UNCHANGED recvs
      \/ \E f \in End :
           \/ RecvNormal(f) \/ RecvFinish(f) \/ RecvDone(f) \/ RecvMr(f)
           \/ DeliverSend(f) \/ Disconnected(f)
  <2>1. ASSUME NEW f \in End, Main(f) \/ Network(f) \/ RnrExhausted(f)
        PROVE  \/ UNCHANGED recvs
               \/ RecvNormal(f) \/ RecvFinish(f) \/ RecvDone(f) \/ RecvMr(f)
               \/ DeliverSend(f) \/ Disconnected(f)
    BY <2>1 DEF Main, MainCheck, MainEnqueue, MainSent, MainJoin, Network, DeliverWrite,
                CmHangup, RnrExhausted, qpVars
  <2>2. ASSUME NEW f \in End, CmHandler(f) \/ LoopExit(f)
        PROVE  \/ UNCHANGED recvs
               \/ RecvNormal(f) \/ RecvFinish(f) \/ RecvDone(f) \/ RecvMr(f)
               \/ DeliverSend(f) \/ Disconnected(f)
    BY <2>2 DEF CmHandler, Established, ConnectError, OtherError, LoopExit, qpVars
  <2>3. ASSUME NEW f \in End, CqHandler(f)
        PROVE  \/ UNCHANGED recvs
               \/ RecvNormal(f) \/ RecvFinish(f) \/ RecvDone(f) \/ RecvMr(f)
               \/ DeliverSend(f) \/ Disconnected(f)
    BY <2>3 DEF CqHandler, SentMr, SentOther, qpVars
  <2>4. ASSUME NEW f \in End, TimerHandler(f)
        PROVE  \/ UNCHANGED recvs
               \/ RecvNormal(f) \/ RecvFinish(f) \/ RecvDone(f) \/ RecvMr(f)
               \/ DeliverSend(f) \/ Disconnected(f)
    BY <2>4 DEF TimerHandler, TimerPost, TimerRefused, Posts, TimerUnlink, StaleExpires, qpVars
  <2> QED
    BY <2>1, <2>2, <2>3, <2>4 DEF Next, vars, qpVars, ClientConnect, Accept, SetConnecting,
                                  Prepare, AddrResolved, RouteResolved, ConnectRequest,
                                  CmProgress, CmFails, Epoll
<1> USE DEF TypeInv, TypeOK
<1>1. ASSUME NEW f \in End, RecvNormal(f) \/ RecvFinish(f) \/ RecvDone(f) \/ RecvMr(f)
      PROVE  Goal
  <2>1. recvs[f] # << >> /\ recvs' = [recvs EXCEPT ![f] = Tail(@)]
    BY <1>1 DEF RecvNormal, RecvFinish, RecvDone, RecvMr, TakeRecv
  <2> QED
    BY <1>1, <2>1 DEF QpTypeOK
<1>2. ASSUME NEW f \in End, DeliverSend(f) PROVE Goal
  <2>1. CASE f = Peer(e)
    BY <1>2, <2>1, PeerIsEnd DEF DeliverSend, Linked, QpTypeOK
  <2>2. CASE f # Peer(e)
    <3>1. Peer(f) # e
      BY <2>2, PeerIsEnd
    <3> QED
      BY <1>2, <3>1 DEF DeliverSend, QpTypeOK
  <2> QED
    BY <2>1, <2>2
<1>3. ASSUME NEW f \in End, Disconnected(f) PROVE Goal
  BY <1>3 DEF Disconnected, QpTypeOK
<1> QED
  BY <1>0, <1>1, <1>2, <1>3

\* Only the peer's MR changes what an end knows of its peer, and only it and
\* ESTABLISHED have the end post its own.
LEMMA MrEffects ==
  ASSUME TypeInv, [Next]_vars, NEW e \in End
  PROVE  /\ \/ peer_mr'[e] = peer_mr[e] /\ ~RecvMr(e)
            \/ RecvMr(e) /\ peer_mr'[e] = TRUE
         /\ \/ mr_posts'[e] = mr_posts[e]
            \/ Established(e) /\ e = "client" /\ mr_posts'[e] = mr_posts[e] + 1
            \/ /\ RecvMr(e) /\ trans_state[e] = "CONNECTED"
               /\ mr_posts'[e] = mr_posts[e] + 1
<1> USE DEF TypeInv, TypeOK
<1>1. \/ UNCHANGED peer_mr /\ UNCHANGED mr_posts
      \/ \E f \in End : Established(f) \/ RecvMr(f)
  <2>1. ASSUME NEW f \in End, Main(f) \/ Epoll(f) \/ Network(f) \/ RnrExhausted(f)
        PROVE  UNCHANGED peer_mr \/ RecvMr(f)
    <3>1. CASE Main(f) \/ Network(f) \/ RnrExhausted(f)
      BY <3>1 DEF Main, MainCheck, MainEnqueue, MainSent, MainJoin, Network, DeliverSend,
                  DeliverWrite, CmHangup, RnrExhausted, transVars
    <3>2. CASE Epoll(f)
      BY <3>2 DEF Epoll, CmHandler, Established, Disconnected, ConnectError, OtherError,
                  CqHandler, SentMr, SentOther, RecvNormal, RecvFinish, RecvDone,
                  TimerHandler, TimerPost, TimerRefused, Posts, TimerUnlink, StaleExpires, LoopExit, transVars
    <3> QED
      BY <2>1, <3>1, <3>2
  <2>3. UNCHANGED peer_mr \/ \E f \in End : RecvMr(f)
    BY <2>1 DEF Next, vars, transVars, ClientConnect, Accept, SetConnecting, Prepare,
                AddrResolved, RouteResolved, ConnectRequest, CmProgress, CmFails
  <2>4. ASSUME NEW f \in End, Main(f) \/ Epoll(f) \/ Network(f) \/ RnrExhausted(f)
        PROVE  UNCHANGED mr_posts \/ Established(f) \/ RecvMr(f)
    <3>1. CASE Main(f) \/ Network(f) \/ RnrExhausted(f)
      BY <3>1 DEF Main, MainCheck, MainEnqueue, MainSent, MainJoin, Network, DeliverSend,
                  DeliverWrite, CmHangup, RnrExhausted, history
    <3>2. CASE CmHandler(f) \/ LoopExit(f)
      BY <3>2 DEF CmHandler, Disconnected, ConnectError, OtherError, LoopExit, history
    <3>3. CASE CqHandler(f)
      BY <3>3 DEF CqHandler, SentMr, SentOther, RecvNormal, RecvFinish, RecvDone, history
    <3>4. CASE TimerHandler(f)
      BY <3>4 DEF TimerHandler, TimerPost, TimerRefused, Posts, TimerUnlink, StaleExpires, history
    <3> QED
      BY <2>4, <3>1, <3>2, <3>3, <3>4 DEF Epoll
  <2>2. UNCHANGED mr_posts \/ \E f \in End : Established(f) \/ RecvMr(f)
    BY <2>4 DEF Next, vars, history, ClientConnect, Accept, SetConnecting, Prepare,
                AddrResolved, RouteResolved, ConnectRequest, CmProgress, CmFails
  <2> QED
    BY <2>2, <2>3
<1>2. CASE RecvMr(e)
  <2>1. peer_mr'[e] = TRUE
    BY <1>2, Zenon DEF RecvMr, TransTypeOK
  <2>2. mr_posts'[e] = mr_posts[e] \/
          (trans_state[e] = "CONNECTED" /\ mr_posts'[e] = mr_posts[e] + 1)
    BY <1>2 DEF RecvMr, PostMr, ExchangeStates, HistoryTypeOK
  <2> QED
    BY <1>2, <2>1, <2>2
<1>3. ASSUME ~RecvMr(e) PROVE peer_mr'[e] = peer_mr[e]
  BY <1>1, <1>3 DEF Established, RecvMr, TransTypeOK
<1>4. ASSUME ~RecvMr(e)
      PROVE  \/ mr_posts'[e] = mr_posts[e]
             \/ Established(e) /\ e = "client" /\ mr_posts'[e] = mr_posts[e] + 1
  <2>1. ASSUME NEW f \in End, f # e, Established(f) \/ RecvMr(f)
        PROVE  mr_posts'[e] = mr_posts[e]
    BY <2>1 DEF Established, RecvMr, PostMr, HistoryTypeOK
  <2>2. CASE Established(e)
    BY <2>2 DEF Established, PostMr, HistoryTypeOK
  <2> QED
    BY <1>1, <1>4, <2>1, <2>2
<1> QED
  BY <1>2, <1>3, <1>4

\* What happens to the state of an end once the client has taken ESTABLISHED.
LEMMA StateEffects ==
  ASSUME TypeInv, EventsInv, [Next]_vars, cm \in Answered, NEW e \in End
  PROVE  /\ RecvMr(e) => trans_state'[e] = "RCONNECTED"
         /\ ~RecvMr(e) =>
              \/ trans_state'[e] = trans_state[e]
              \/ SetConnecting /\ e = "server" /\ trans_state'[e] = "CONNECTING"
              \/ Established("server") /\ e = "server" /\ trans_state'[e] = "CONNECTED"
              \/ trans_state[e] = "CONNECTED" /\ trans_state'[e] = "SCONNECTED"
<1> DEFINE Goal ==
              \/ trans_state'[e] = trans_state[e]
              \/ SetConnecting /\ e = "server" /\ trans_state'[e] = "CONNECTING"
              \/ Established("server") /\ e = "server" /\ trans_state'[e] = "CONNECTED"
              \/ trans_state[e] = "CONNECTED" /\ trans_state'[e] = "SCONNECTED"
<1> USE DEF TypeInv, TypeOK
<1>1. RecvMr(e) => trans_state'[e] = "RCONNECTED"
  BY DEF RecvMr, AfterMrReceived, TransTypeOK
<1>2. AnsweredNext
  BY AnsweredSteps
<1>3. \/ UNCHANGED trans_state
      \/ SetConnecting \/ Established("server")
      \/ \E f \in End : SentMr(f) \/ RecvMr(f)
  <2>1. ASSUME NEW f \in End, CqHandler(f) \/ TimerHandler(f) \/ LoopExit(f)
        PROVE  UNCHANGED trans_state \/ SentMr(f) \/ RecvMr(f)
    BY <2>1 DEF CqHandler, SentOther, RecvNormal, RecvFinish, RecvDone, TimerHandler,
                TimerPost, TimerRefused, Posts, TimerUnlink, StaleExpires, LoopExit, transVars
  <2>2. ASSUME NEW f \in End, Main(f) \/ Disconnected(f) \/ Network(f) \/ RnrExhausted(f)
        PROVE  UNCHANGED trans_state
    BY <2>2 DEF Main, MainCheck, MainEnqueue, MainSent, MainJoin, Disconnected, Network,
                DeliverSend, DeliverWrite, CmHangup, RnrExhausted, transVars
  <2>3. CASE UNCHANGED vars \/ Prepare \/ CmProgress
    BY <2>3 DEF vars, transVars, Prepare, CmProgress
  <2> QED
    BY <1>2, <2>1, <2>2, <2>3 DEF AnsweredNext
<1>4. CASE SetConnecting
  BY <1>1, <1>4 DEF SetConnecting, TransTypeOK
<1>5. CASE Established("server")
  BY <1>1, <1>5 DEF Established, TransTypeOK
<1>6. ASSUME NEW f \in End, SentMr(f) PROVE Goal
  BY <1>6 DEF SentMr, AfterMrSent, TransTypeOK
<1>7. ASSUME NEW f \in End, RecvMr(f), f # e PROVE Goal
  BY <1>7 DEF RecvMr, TransTypeOK
<1> QED
  BY <1>1, <1>3, <1>4, <1>5, <1>6, <1>7

\* The server takes ESTABLISHED once.
LEMMA PendingEffects ==
  ASSUME TypeInv, EventsInv, [Next]_vars, cm \in Answered
  PROVE  /\ Pending' => Pending
         /\ Established("server") => Pending /\ ~Pending'
<1> USE DEF TypeInv, TypeOK
<1>0. "client" \in End /\ "server" \in End /\ "client" # "server"
  BY DEF End
<1>1. AnsweredNext
  BY AnsweredSteps
<1>2. CASE Established("server")
  <2>1. Pending
    BY <1>2 DEF Established, TakeEvent, Pending
  <2>2. cm \in {"up", "disconnecting"} /\ cm' = cm
    BY <1>0, <1>2, EventTaken DEF Established
  <2>3. cm_events'["server"] = Tail(cm_events["server"])
        /\ cm_events["server"] # << >> /\ Head(cm_events["server"]) = "ESTABLISHED"
    BY <1>0, <1>2 DEF Established, TakeEvent, CmTypeOK
  <2>4. cm_events["server"] \in {<<"ESTABLISHED">>, <<"DISCONNECTED">>,
                                  <<"ESTABLISHED", "DISCONNECTED">>}
    BY <2>2, <2>3 DEF EventsInv, ServerEventsInv
  <2>5. CASE cm_events["server"] = <<"ESTABLISHED">>
    BY <2>1, <2>2, <2>3, <2>5, ShortSequences DEF Pending
  <2>6. CASE cm_events["server"] = <<"DISCONNECTED">>
    BY <2>3, <2>6, ShortSequences
  <2>7. CASE cm_events["server"] = <<"ESTABLISHED", "DISCONNECTED">>
    <3>1. cm_events'["server"] = <<"DISCONNECTED">>
      BY <2>3, <2>7, ShortSequences
    <3>2. Head(cm_events'["server"]) = "DISCONNECTED"
      BY <3>1, ShortSequences
    <3> QED
      BY <2>1, <2>2, <3>2 DEF Pending
  <2> QED
    BY <2>4, <2>5, <2>6, <2>7
<1>3. CASE cm = "rtu" /\ CmProgress
  BY <1>2, <1>3 DEF Pending
<1>4. ASSUME NEW e \in End, CmHangup(e) PROVE Pending' => Pending
  <2>1. cm' = cm /\ cm_events' = [cm_events EXCEPT ![e] = Append(@, "DISCONNECTED")]
    BY <1>4 DEF CmHangup
  <2>2. CASE e = "client"
    BY <1>0, <2>1, <2>2 DEF Pending, CmTypeOK
  <2>3. CASE e = "server"
    <3>1. cm_events["server"] \in {<< >>, <<"ESTABLISHED">>}
      BY <1>4, <2>3 DEF CmHangup, EventsInv, HangupInv
    <3>2. cm_events'["server"] = Append(cm_events["server"], "DISCONNECTED")
      BY <1>0, <2>1, <2>3 DEF CmTypeOK
    <3>3. CASE cm_events["server"] = << >>
      <4>1. cm_events'["server"] = <<"DISCONNECTED">>
        BY <3>2, <3>3, ShortSequences
      <4>2. Head(cm_events'["server"]) = "DISCONNECTED"
        BY <4>1, ShortSequences
      <4> QED
        BY <2>1, <4>2 DEF Pending
    <3>4. CASE cm_events["server"] = <<"ESTABLISHED">>
      BY <3>4, ShortSequences DEF Pending
    <3> QED
      BY <3>1, <3>3, <3>4
  <2> QED
    BY <2>2, <2>3 DEF End
<1>5. ASSUME NEW e \in End, Disconnected(e) PROVE Pending' => Pending
  <2>1. cm = "disconnecting" /\ cm' = cm
    BY <1>5, EventTaken DEF Disconnected
  <2>2. CASE e = "client"
    BY <1>0, <1>5, <2>1, <2>2 DEF Disconnected, TakeEvent, Pending, CmTypeOK
  <2>3. CASE e = "server"
    <3>1. /\ cm_events'["server"] = Tail(cm_events["server"])
          /\ cm_events["server"] # << >> /\ Head(cm_events["server"]) = "DISCONNECTED"
      BY <1>0, <1>5, <2>3 DEF Disconnected, TakeEvent, CmTypeOK
    <3>2. cm_events["server"] \in {<<"ESTABLISHED">>, <<"DISCONNECTED">>,
                                    <<"ESTABLISHED", "DISCONNECTED">>}
      BY <2>1, <3>1 DEF EventsInv, ServerEventsInv
    <3>3. cm_events["server"] = <<"DISCONNECTED">>
      BY <3>1, <3>2, ShortSequences
    <3>4. cm_events'["server"] = << >>
      BY <3>1, <3>3, ShortSequences
    <3> QED
      BY <2>1, <3>4 DEF Pending
  <2> QED
    BY <2>2, <2>3 DEF End
<1>6. ASSUME UNCHANGED cm_events, cm' = cm \/ cm' = "disconnecting"
      PROVE  Pending' => Pending
  BY <1>6 DEF Pending
<1>7. ASSUME NEW e \in End, CqHandler(e) PROVE Pending' => Pending
  <2>1. UNCHANGED cm_events
    BY <1>7 DEF CqHandler, SentMr, SentOther, RecvNormal, RecvFinish, RecvDone, RecvMr, cmVars
  <2>2. cm' = cm \/ cm' = "disconnecting"
    BY <1>7 DEF CqHandler, SentMr, SentOther, RecvNormal, RecvFinish, RecvDone, RecvMr, cmVars,
                Disconnect
  <2> QED
    BY <1>6, <2>1, <2>2
<1>8. ASSUME NEW e \in End,
             Main(e) \/ TimerHandler(e) \/ LoopExit(e) \/ DeliverSend(e) \/ DeliverWrite(e)
               \/ RnrExhausted(e)
      PROVE  Pending' => Pending
  <2>1. UNCHANGED cmVars
    BY <1>8 DEF Main, MainCheck, MainEnqueue, MainSent, MainJoin, TimerHandler, TimerPost,
                TimerRefused, Posts, TimerUnlink, StaleExpires, LoopExit, DeliverSend, DeliverWrite, RnrExhausted
  <2> QED
    BY <1>6, <2>1 DEF cmVars
<1>9. ASSUME UNCHANGED vars \/ SetConnecting \/ Prepare PROVE Pending' => Pending
  <2>1. UNCHANGED cmVars
    BY <1>9 DEF vars, SetConnecting, Prepare
  <2> QED
    BY <1>6, <2>1 DEF cmVars
<1>10. Pending' => Pending
  BY <1>1, <1>2, <1>3, <1>4, <1>5, <1>7, <1>8, <1>9 DEF AnsweredNext, Network
<1> QED
  BY <1>2, <1>10

-----------------------------------------------------------------------------
(* AnswerInv. *)

\* Messages of a type in a sequence that one is added to, taken from, or that
\* is joined to another.
LEMMA TypeSequences ==
  ASSUME NEW s \in Seq(Msg), NEW type
  PROVE  /\ NoType(<< >>, type) /\ OneOf(<< >>, type)
         /\ NoType(s, type) => OneOf(s, type)
         /\ \A m \in Msg : m.type # type =>
              /\ NoType(s, type) => NoType(Append(s, m), type)
              /\ OneOf(s, type) => OneOf(Append(s, m), type)
         /\ \A m \in Msg : NoType(s, type) => OneOf(Append(s, m), type)
         /\ s # << >> =>
              /\ NoType(s, type) => NoType(Tail(s), type) /\ Head(s).type # type
              /\ OneOf(s, type) => OneOf(Tail(s), type)
              /\ OneOf(s, type) /\ Head(s).type = type => NoType(Tail(s), type)
         /\ \A t \in Seq(Msg) : NoType(t, type) =>
              /\ NoType(s, type) => NoType(s \o t, type)
              /\ OneOf(s, type) => OneOf(s \o t, type)
<1>1. NoType(<< >>, type) /\ OneOf(<< >>, type) /\ (NoType(s, type) => OneOf(s, type))
  BY DEF NoType, OneOf
<1>2. ASSUME NEW m \in Msg
      PROVE  /\ Len(Append(s, m)) = Len(s) + 1
             /\ Append(s, m)[Len(s) + 1] = m
             /\ \A k \in 1..Len(s) : Append(s, m)[k] = s[k]
             /\ \A k \in 1..Len(s) + 1 : k \in 1..Len(s) \/ k = Len(s) + 1
  OBVIOUS
<1>3. ASSUME NEW m \in Msg, m.type # type, NoType(s, type)
      PROVE  NoType(Append(s, m), type)
  BY <1>2, <1>3 DEF NoType
<1>4. ASSUME NEW m \in Msg, m.type # type, OneOf(s, type)
      PROVE  OneOf(Append(s, m), type)
  <2> SUFFICES ASSUME NEW j \in 1..Len(s) + 1, NEW k \in 1..Len(s) + 1,
                      Append(s, m)[j].type = type, Append(s, m)[k].type = type
               PROVE  j = k
    BY <1>2 DEF OneOf
  <2>1. j \in 1..Len(s) /\ k \in 1..Len(s)
    BY <1>2, <1>4
  <2> QED
    BY <1>2, <1>4, <2>1 DEF OneOf
<1>5. ASSUME NEW m \in Msg, NoType(s, type)
      PROVE  OneOf(Append(s, m), type)
  <2> SUFFICES ASSUME NEW j \in 1..Len(s) + 1, NEW k \in 1..Len(s) + 1,
                      Append(s, m)[j].type = type, Append(s, m)[k].type = type
               PROVE  j = k
    BY <1>2 DEF OneOf
  <2>1. j \notin 1..Len(s) /\ k \notin 1..Len(s)
    BY <1>2, <1>5 DEF NoType
  <2> QED
    BY <1>2, <2>1
<1>6. ASSUME s # << >>
      PROVE  /\ Len(s) \in Nat \ {0} /\ Len(Tail(s)) = Len(s) - 1 /\ Head(s) = s[1]
             /\ \A k \in 1..Len(Tail(s)) : Tail(s)[k] = s[k + 1] /\ k + 1 \in 1..Len(s)
             /\ 1 \in 1..Len(s)
  BY <1>6
<1>7. ASSUME s # << >>, NoType(s, type)
      PROVE  NoType(Tail(s), type) /\ Head(s).type # type
  BY <1>6, <1>7 DEF NoType
<1>8. ASSUME s # << >>, OneOf(s, type)
      PROVE  /\ OneOf(Tail(s), type)
             /\ Head(s).type = type => NoType(Tail(s), type)
  <2>1. OneOf(Tail(s), type)
    <3> SUFFICES ASSUME NEW j \in 1..Len(Tail(s)), NEW k \in 1..Len(Tail(s)),
                        Tail(s)[j].type = type, Tail(s)[k].type = type
                 PROVE  j = k
      BY DEF OneOf
    <3>1. j + 1 = k + 1
      BY <1>6, <1>8 DEF OneOf
    <3> QED
      BY <1>6, <1>8, <3>1
  <2>2. ASSUME Head(s).type = type, NEW k \in 1..Len(Tail(s)), Tail(s)[k].type = type
        PROVE  FALSE
    <3>1. k + 1 = 1
      BY <1>6, <1>8, <2>2 DEF OneOf
    <3> QED
      BY <1>6, <1>8, <3>1
  <2> QED
    BY <2>1, <2>2 DEF NoType
<1>9. ASSUME NEW t \in Seq(Msg)
      PROVE  /\ Len(s \o t) = Len(s) + Len(t)
             /\ \A k \in 1..Len(s) : (s \o t)[k] = s[k]
             /\ \A k \in 1..Len(s \o t) :
                  \/ k \in 1..Len(s)
                  \/ k - Len(s) \in 1..Len(t) /\ (s \o t)[k] = t[k - Len(s)]
  OBVIOUS
<1>10. ASSUME NEW t \in Seq(Msg), NoType(t, type), NoType(s, type)
       PROVE  NoType(s \o t, type)
  BY <1>9, <1>10 DEF NoType
<1>11. ASSUME NEW t \in Seq(Msg), NoType(t, type), OneOf(s, type)
       PROVE  OneOf(s \o t, type)
  <2> SUFFICES ASSUME NEW j \in 1..Len(s \o t), NEW k \in 1..Len(s \o t),
                      (s \o t)[j].type = type, (s \o t)[k].type = type
               PROVE  j = k
    BY DEF OneOf
  <2>1. j \in 1..Len(s) /\ k \in 1..Len(s)
    BY <1>9, <1>11 DEF NoType
  <2> QED
    BY <1>9, <1>11, <2>1 DEF OneOf
<1> QED
  BY <1>1, <1>3, <1>4, <1>5, <1>7, <1>8, <1>10, <1>11

\* The first messages of a sequence are of its types.
LEMMA FirstOfType ==
  ASSUME NEW s \in Seq(Msg), NEW n \in 0 .. Len(s), NEW type
  PROVE  SubSeq(s, 1, n) \in Seq(Msg) /\ (NoType(s, type) => NoType(SubSeq(s, 1, n), type))
BY FirstTasks DEF NoType

\* A sequence with no more messages of a type than another.
Fewer(t, s, type) ==
  /\ NoType(s, type) => NoType(t, type)
  /\ OneOf(s, type) => OneOf(t, type)

\* Taking from a sequence, and adding what is of another type, leaves no more of a
\* type than there was.
LEMMA FewerSequences ==
  ASSUME NEW s \in Seq(Msg), NEW type
  PROVE  /\ Fewer(s, s, type) /\ Fewer(<< >>, s, type)
         /\ s # << >> => Fewer(Tail(s), s, type)
         /\ \A t \in Seq(Msg) : NoType(t, type) => Fewer(s \o t, s, type)
BY TypeSequences DEF Fewer

\* The server has answered no MR at the start.
LEMMA AnswerInit == Init => AnswerInv
<1> SUFFICES ASSUME Init PROVE AnswerInv
  OBVIOUS
<1>1. ~Pending
  BY DEF Init, Pending, End
<1>2. NoType(<< >>, "MR") /\ OneOf(<< >>, "MR")
  BY DEF NoType, OneOf
<1> QED
  BY <1>1, <1>2 DEF Init, AnswerInv, End

\* A step that posts no MR at the server, moves its state no further back and adds
\* no MR to what is on its way to the client keeps AnswerInv.
LEMMA AnswerQuiet ==
  ASSUME AnswerInv,
         mr_posts'["server"] = mr_posts["server"],
         peer_mr'["client"] = peer_mr["client"],
         trans_state'["server"] = "CONNECTED" => trans_state["server"] = "CONNECTED",
         trans_state'["server"] = "SCONNECTED" =>
           trans_state["server"] \in {"CONNECTED", "SCONNECTED"},
         Pending' => Pending,
         Fewer(wire'["server"], wire["server"], "MR"),
         Fewer(recvs'["client"], recvs["client"], "MR")
  PROVE  AnswerInv'
<1>1. /\ trans_state'["server"] = "CONNECTED" => mr_posts'["server"] = 0
      /\ mr_posts'["server"] \in {0, 1}
  BY DEF AnswerInv
<1>2. Pending' => /\ mr_posts'["server"] = 0
                  /\ trans_state'["server"] \notin {"CONNECTED", "SCONNECTED"}
  BY DEF AnswerInv
<1>3. /\ mr_posts'["server"] = 0 =>
           /\ NoType(wire'["server"], "MR") /\ NoType(recvs'["client"], "MR")
           /\ ~peer_mr'["client"]
      /\ OneOf(wire'["server"], "MR") /\ OneOf(recvs'["client"], "MR")
      /\ ~NoType(wire'["server"], "MR") =>
           NoType(recvs'["client"], "MR") /\ ~peer_mr'["client"]
      /\ ~NoType(recvs'["client"], "MR") => ~peer_mr'["client"]
  BY DEF AnswerInv, Fewer
<1> QED
  BY <1>1, <1>2, <1>3 DEF AnswerInv

\* Every step keeps AnswerInv: the server answers one MR.
LEMMA AnswerStep ==
  ASSUME TypeInv, EventsInv, QuietInv, QuietInv', ServerListInv, AnswerInv, [Next]_vars
  PROVE  AnswerInv'
<1>0. /\ "client" \in End /\ "server" \in End /\ "client" # "server"
      /\ Peer("client") = "server" /\ Peer("server") = "client"
  BY DEF End, Peer
<1>1. /\ wire["server"] \in Seq(Msg) /\ recvs["client"] \in Seq(Msg)
      /\ send_task_list["server"] \in Seq(Msg) /\ Mr \in Msg
  BY <1>0, MessageTypes DEF TypeInv, TypeOK, TransTypeOK, QpTypeOK
<1>2. NoType(send_task_list["server"], "MR") /\ NoType(<< >>, "MR") /\ OneOf(<< >>, "MR")
  BY DEF ServerListInv, NoType, OneOf
<1>3. CASE cm' \notin Answered
  <2>1. /\ wire'["server"] = << >> /\ recvs'["client"] = << >> /\ ~peer_mr'["client"]
        /\ mr_posts'["server"] = 0
        /\ trans_state'["server"] \in {"INIT", "CONNECTING", "ERROR"}
    BY <1>0, <1>3 DEF QuietInv, Quiet
  <2> QED
    BY <1>2, <2>1 DEF AnswerInv
<1>4. CASE cm \notin Answered /\ cm' \in Answered
  <2>1. Established("client")
    BY <1>4, AnsweredSteps
  <2>2. Quiet("server") /\ Quiet("client")
    BY <1>0, <1>4 DEF QuietInv
  <2>3. /\ wire'["server"] = << >> /\ mr_posts'["server"] = 0
        /\ trans_state'["server"] \in {"INIT", "CONNECTING", "ERROR"}
    BY <1>0, <2>1, <2>2
       DEF Established, PostMr, Quiet, TypeInv, TypeOK, TransTypeOK, QpTypeOK, HistoryTypeOK
  <2>4. recvs'["client"] = << >> /\ ~peer_mr'["client"]
    BY <2>1, <2>2 DEF Established, Quiet
  <2> QED
    BY <1>2, <2>3, <2>4 DEF AnswerInv
<1>5. CASE cm \in Answered
  <2>1. Pending' => Pending
    BY <1>5, PendingEffects
  <2>2. ASSUME ~(RecvMr("server")) PROVE Fewer(wire'["server"], wire["server"], "MR")
    <3>1. \/ wire'["server"] = wire["server"] \/ wire'["server"] = << >>
          \/ \E t \in Seq(Msg) : NoType(t, "MR") /\ wire'["server"] = wire["server"] \o t
          \/ wire["server"] # << >> /\ wire'["server"] = Tail(wire["server"])
      BY <1>0, <1>1, <1>2, <2>2, WireEffects, FirstOfType
    <3> QED
      BY <1>1, <1>2, <3>1, FewerSequences
  <2>3. ASSUME ~DeliverSend("server") PROVE Fewer(recvs'["client"], recvs["client"], "MR")
    <3>1. \/ recvs'["client"] = recvs["client"] \/ recvs'["client"] = << >>
          \/ recvs["client"] # << >> /\ recvs'["client"] = Tail(recvs["client"])
      BY <1>0, <2>3, RecvsEffects
    <3> QED
      BY <1>1, <3>1, FewerSequences
  <2>4. CASE RecvMr("server")
    <3>1. /\ recvs'["client"] = recvs["client"] /\ peer_mr'["client"] = peer_mr["client"]
          /\ trans_state'["server"] = "RCONNECTED"
      BY <1>0, <2>4
         DEF RecvMr, TakeRecv, AfterMrReceived, TypeInv, TypeOK, TransTypeOK, QpTypeOK
    <3>2. CASE trans_state["server"] = "CONNECTED"
      <4>1. mr_posts'["server"] = 1 /\ mr_posts["server"] = 0
        BY <1>0, <2>4, <3>2
           DEF RecvMr, PostMr, ExchangeStates, AnswerInv, TypeInv, TypeOK, HistoryTypeOK
      <4>2. \/ wire'["server"] = wire["server"] \/ wire'["server"] = Append(wire["server"], Mr)
        BY <1>0, <2>4, <3>2 DEF RecvMr, PostMr, ExchangeStates, TypeInv, TypeOK, QpTypeOK
      <4>3. NoType(wire["server"], "MR") /\ NoType(recvs["client"], "MR") /\ ~peer_mr["client"]
        BY <4>1 DEF AnswerInv
      <4>4. OneOf(wire'["server"], "MR") /\ OneOf(recvs'["client"], "MR")
        <5>1. OneOf(wire["server"], "MR") /\ OneOf(Append(wire["server"], Mr), "MR")
          BY <1>1, <4>3, TypeSequences
        <5>2. OneOf(recvs["client"], "MR")
          BY <1>1, <4>3, TypeSequences
        <5> QED
          BY <3>1, <4>2, <5>1, <5>2
      <4>5. ~Pending'
        BY <2>1, <3>2 DEF AnswerInv
      <4> QED
        BY <3>1, <4>1, <4>3, <4>4, <4>5 DEF AnswerInv
    <3>3. CASE trans_state["server"] # "CONNECTED"
      <4>1. mr_posts'["server"] = mr_posts["server"] /\ wire'["server"] = wire["server"]
        BY <2>4, <3>3 DEF RecvMr, ExchangeStates
      <4> QED
        BY <2>1, <3>1, <4>1 DEF AnswerInv
    <3> QED
      BY <3>2, <3>3
  <2>5. CASE DeliverSend("server")
    <3>1. /\ wire["server"] # << >> /\ wire'["server"] = Tail(wire["server"])
          /\ recvs'["client"] = Append(recvs["client"], Head(wire["server"]))
          /\ UNCHANGED <<transVars, cmVars, history>>
      BY <1>0, <2>5 DEF DeliverSend, Linked, TypeInv, TypeOK, QpTypeOK
    <3>2. Head(wire["server"]) \in Msg
      BY <1>1, <3>1
    <3>3. CASE Head(wire["server"]).type = "MR"
      <4>1. ~NoType(wire["server"], "MR") /\ OneOf(wire["server"], "MR")
        BY <1>1, <3>1, <3>3, TypeSequences DEF AnswerInv
      <4>2. NoType(recvs["client"], "MR") /\ ~peer_mr["client"] /\ mr_posts["server"] # 0
        BY <4>1 DEF AnswerInv
      <4>3. NoType(wire'["server"], "MR") /\ OneOf(wire'["server"], "MR")
        BY <1>1, <3>1, <3>3, <4>1, TypeSequences
      <4>4. OneOf(recvs'["client"], "MR")
        BY <1>1, <3>1, <3>2, <4>2, TypeSequences
      <4> QED
        BY <2>1, <3>1, <4>2, <4>3, <4>4 DEF AnswerInv, transVars, history
    <3>4. CASE Head(wire["server"]).type # "MR"
      <4>1. Fewer(wire'["server"], wire["server"], "MR")
        BY <1>1, <3>1, FewerSequences
      <4>2. Fewer(recvs'["client"], recvs["client"], "MR")
        BY <1>1, <3>1, <3>2, <3>4, TypeSequences DEF Fewer
      <4> QED
        BY <2>1, <3>1, <4>1, <4>2, AnswerQuiet DEF transVars, history
    <3> QED
      BY <3>3, <3>4
  <2>6. CASE RecvMr("client")
    <3>1. /\ recvs["client"] # << >> /\ recvs'["client"] = Tail(recvs["client"])
          /\ Head(recvs["client"]).type = "MR" /\ peer_mr'["client"] = TRUE
          /\ trans_state'["server"] = trans_state["server"]
      BY <1>0, <2>6 DEF RecvMr, TakeRecv, TypeInv, TypeOK, TransTypeOK, QpTypeOK
    <3>2. wire'["server"] = wire["server"] /\ mr_posts'["server"] = mr_posts["server"]
      BY <1>0, <2>6 DEF RecvMr, PostMr, TypeInv, TypeOK, QpTypeOK, HistoryTypeOK
    <3>3. ~NoType(recvs["client"], "MR") /\ NoType(recvs'["client"], "MR")
          /\ OneOf(recvs'["client"], "MR")
      BY <1>1, <3>1, TypeSequences DEF AnswerInv
    <3>4. mr_posts["server"] # 0 /\ NoType(wire["server"], "MR")
      BY <3>3 DEF AnswerInv
    <3> QED
      BY <2>1, <3>1, <3>2, <3>3, <3>4 DEF AnswerInv
  <2>7. CASE ~RecvMr("server") /\ ~DeliverSend("server") /\ ~RecvMr("client")
    <3>1. mr_posts'["server"] = mr_posts["server"] /\ peer_mr'["client"] = peer_mr["client"]
      BY <1>0, <2>7, MrEffects
    <3>2. CASE Established("server")
      <4>1. Pending /\ ~Pending'
        BY <1>5, <3>2, PendingEffects
      <4> QED
        BY <2>2, <2>3, <2>7, <3>1, <4>1 DEF AnswerInv, Fewer
    <3>3. CASE ~Established("server")
      <4>1. /\ trans_state'["server"] = "CONNECTED" => trans_state["server"] = "CONNECTED"
            /\ trans_state'["server"] = "SCONNECTED" =>
                 trans_state["server"] \in {"CONNECTED", "SCONNECTED"}
        BY <1>0, <1>5, <2>7, <3>3, StateEffects
      <4> QED
        BY <2>1, <2>2, <2>3, <2>7, <3>1, <4>1, AnswerQuiet
    <3> QED
      BY <3>2, <3>3
  <2> QED
    BY <2>4, <2>5, <2>6, <2>7
<1> QED
  BY <1>3, <1>4, <1>5

-----------------------------------------------------------------------------
(* ServerListInv. *)

\* The list of the server is empty at the start.
LEMMA ServerListInit == Init => ServerListInv
BY DEF Init, ServerListInv, NoType, End

\* What the main threads enqueue.
LEMMA Enqueued ==
  ASSUME TypeInv, NEW e \in End, MainEnqueue(e)
  PROVE  /\ Script(e)[pos[e]] \in AppType
         /\ e = "server" => Script(e)[pos[e]] = "NORMAL"
         /\ [type |-> Script(e)[pos[e]], id |-> pos[e]] \in Msg
<1>1. pos[e] \in 1..Len(Script(e)) /\ pos[e] \in Nat
  BY DEF MainEnqueue, TypeInv, PosOK, IdsOf, TypeOK, ThreadTypeOK
<1>2. Script(e) \in Seq(AppType) /\ (e = "server" => Script(e) \in Seq({"NORMAL"}))
  BY ScriptAssumption DEF Script, End, AppType
<1> QED
  BY <1>1, <1>2 DEF Msg, MsgType

\* The server never sends FINISH, nor an MR through its list.
LEMMA ServerListStep ==
  ASSUME TypeInv, ServerListInv, [Next]_vars
  PROVE  ServerListInv'
<1>0. /\ "client" \in End /\ "server" \in End
      /\ Peer("client") = "server" /\ Peer("server") = "client"
  BY DEF End, Peer
<1>1. /\ wire["server"] \in Seq(Msg) /\ recvs["client"] \in Seq(Msg)
      /\ send_task_list["server"] \in Seq(Msg) /\ Mr \in Msg /\ Done \in Msg
  BY <1>0, MessageTypes DEF TypeInv, TypeOK, TransTypeOK, QpTypeOK
<1>2. ASSUME NEW type \in {"MR", "FINISH"}
      PROVE  NoType(send_task_list'["server"], type)
  <2>1. NoType(send_task_list["server"], type)
    BY DEF ServerListInv
  <2>2. ASSUME MainEnqueue("server"),
               send_task_list'["server"] =
                 Append(send_task_list["server"],
                        [type |-> Script("server")[pos["server"]], id |-> pos["server"]])
        PROVE  NoType(send_task_list'["server"], type)
    BY <1>0, <1>1, <2>1, <2>2, Enqueued, TypeSequences
  <2>3. ASSUME send_task_list'["server"] = Append(send_task_list["server"], Done)
        PROVE  NoType(send_task_list'["server"], type)
    BY <1>1, <2>1, <2>3, TypeSequences DEF Done
  <2>4. NoType(<< >>, type)
    BY DEF NoType
  <2> QED
    BY <1>0, <2>1, <2>2, <2>3, <2>4, ListEffects
<1>3. NoType(wire'["server"], "FINISH")
  <2>1. NoType(wire["server"], "FINISH") /\ NoType(send_task_list["server"], "FINISH")
    BY DEF ServerListInv
  <2>2. /\ NoType(<< >>, "FINISH")
        /\ NoType(Append(wire["server"], Mr), "FINISH")
        /\ \A t \in Seq(Msg) : NoType(t, "FINISH") => NoType(wire["server"] \o t, "FINISH")
        /\ wire["server"] # << >> => NoType(Tail(wire["server"]), "FINISH")
    BY <1>1, <2>1, TypeSequences DEF Mr
  <2>3. \/ wire'["server"] = wire["server"] \/ wire'["server"] = << >>
        \/ wire'["server"] = Append(wire["server"], Mr)
        \/ \E t \in Seq(Msg) : NoType(t, "FINISH") /\ wire'["server"] = wire["server"] \o t
        \/ wire["server"] # << >> /\ wire'["server"] = Tail(wire["server"])
    BY <1>0, <1>1, <2>1, WireEffects, FirstOfType
  <2> QED
    BY <2>1, <2>2, <2>3
<1>4. NoType(recvs'["client"], "FINISH")
  <2>1. NoType(recvs["client"], "FINISH") /\ NoType(wire["server"], "FINISH")
    BY DEF ServerListInv
  <2>2. NoType(<< >>, "FINISH")
        /\ (recvs["client"] # << >> => NoType(Tail(recvs["client"]), "FINISH"))
    BY <1>1, <2>1, TypeSequences
  <2>3. wire["server"] # << >> =>
          NoType(Append(recvs["client"], Head(wire["server"])), "FINISH")
    <3> SUFFICES ASSUME wire["server"] # << >>
                 PROVE  NoType(Append(recvs["client"], Head(wire["server"])), "FINISH")
      OBVIOUS
    <3>1. Head(wire["server"]) \in Msg
      BY <1>1
    <3>2. Head(wire["server"]).type # "FINISH"
      BY <1>1, <2>1, TypeSequences
    <3> QED
      BY <1>1, <2>1, <3>1, <3>2, TypeSequences
  <2>4. \/ recvs'["client"] = recvs["client"] \/ recvs'["client"] = << >>
        \/ recvs["client"] # << >> /\ recvs'["client"] = Tail(recvs["client"])
        \/ /\ wire["server"] # << >>
           /\ recvs'["client"] = Append(recvs["client"], Head(wire["server"]))
    BY <1>0, RecvsEffects
  <2> QED
    BY <2>1, <2>2, <2>3, <2>4
<1> QED
  BY <1>2, <1>3, <1>4 DEF ServerListInv

-----------------------------------------------------------------------------
(* ClientMrInv. *)

\* The client has posted no MR at the start.
LEMMA ClientMrInit == Init => ClientMrInv
BY DEF Init, ClientMrInv, WritesStayEnabled, End

\* Every step keeps ClientMrInv, and with it that writes stay enabled.
LEMMA ClientMrStep ==
  ASSUME TypeInv, EventsInv, QuietInv, QuietInv', AnswerInv, ClientMrInv, [Next]_vars
  PROVE  ClientMrInv'
<1>0. "client" \in End /\ "server" \in End
  BY DEF End
<1>1. CASE cm' \notin Answered
  <2>1. ~peer_mr'["client"] /\ mr_posts'["client"] = 0
    BY <1>0, <1>1 DEF QuietInv, Quiet
  <2> QED
    BY <2>1 DEF ClientMrInv, WritesStayEnabled
<1>2. CASE cm \notin Answered /\ cm' \in Answered
  <2>1. Established("client") /\ ~peer_mr["client"] /\ mr_posts["client"] = 0
    BY <1>0, <1>2, AnsweredSteps DEF QuietInv, Quiet
  <2>2. peer_mr'["client"] = peer_mr["client"] /\ mr_posts'["client"] = 1
    BY <1>0, <2>1 DEF Established, PostMr, TypeInv, TypeOK, HistoryTypeOK
  <2> QED
    BY <2>1, <2>2 DEF ClientMrInv, WritesStayEnabled
<1>3. CASE cm \in Answered
  <2>1. CASE RecvMr("client")
    <3>1. peer_mr'["client"] = TRUE /\ trans_state'["client"] = "RCONNECTED"
      BY <1>0, <2>1, MrEffects DEF RecvMr, AfterMrReceived, TypeInv, TypeOK, TransTypeOK
    <3>2. mr_posts'["client"] \in {mr_posts["client"], mr_posts["client"] + 1}
      BY <1>0, <2>1 DEF RecvMr, PostMr, TypeInv, TypeOK, HistoryTypeOK
    <3>3. ~peer_mr["client"]
      <4>1. recvs["client"] # << >> /\ Head(recvs["client"]).type = "MR"
            /\ recvs["client"] \in Seq(Msg)
        BY <1>0, <2>1 DEF RecvMr, TakeRecv, TypeInv, TypeOK, QpTypeOK
      <4>2. ~NoType(recvs["client"], "MR")
        BY <4>1, TypeSequences
      <4> QED
        BY <4>2 DEF AnswerInv
    <3> QED
      BY <3>1, <3>2, <3>3 DEF ClientMrInv, WritesStayEnabled
  <2>2. CASE ~RecvMr("client")
    <3>1. ~Established("client")
      BY <1>0, <1>3, EventTaken DEF Established, Answered
    <3>2. peer_mr'["client"] = peer_mr["client"] /\ mr_posts'["client"] = mr_posts["client"]
      BY <1>0, <2>2, <3>1, MrEffects
    <3>3. trans_state["client"] = "RCONNECTED" => trans_state'["client"] = "RCONNECTED"
      BY <1>0, <1>3, <2>2, StateEffects
    <3> QED
      BY <3>2, <3>3 DEF ClientMrInv, WritesStayEnabled
  <2> QED
    BY <2>1, <2>2
<1> QED
  BY <1>1, <1>2, <1>3

-----------------------------------------------------------------------------
(* FirstInv and EpollNeverSpins. *)

\* No message has arrived at the start, and no thread spins.
LEMMA FirstInit == Init => FirstInv /\ EpollNeverSpins
BY DEF Init, FirstInv, EpollNeverSpins, End, Answered

\* No QP becomes ready once the client has taken ESTABLISHED, and one that stops
\* keeps nothing.
LEMMA QpEffects ==
  ASSUME TypeInv, EventsInv, [Next]_vars, cm \in Answered, NEW e \in End
  PROVE  \/ qp'[e] = qp[e]
         \/ qp'[e] = "error" /\ wire'[e] = << >>
         \/ Disconnected(e) /\ qp'[e] = "destroyed" /\ wire'[e] = << >>
<1>1. AnsweredNext
  BY AnsweredSteps
<1>2. \/ UNCHANGED qp
      \/ \E f \in End : \/ QpStops(f, "error")
                        \/ Disconnected(f) /\ QpStops(f, "destroyed")
  <2>1. ASSUME NEW f \in End, CqHandler(f) \/ TimerHandler(f) \/ LoopExit(f)
        PROVE  UNCHANGED qp \/ QpStops(f, "error")
    BY <2>1 DEF CqHandler, SentMr, SentOther, RecvNormal, RecvFinish, RecvDone, RecvMr,
                TimerHandler, TimerPost, TimerRefused, Posts, TimerUnlink, StaleExpires, LoopExit, Disconnect,
                transVars
  <2>2. ASSUME NEW f \in End, Main(f) \/ Network(f) \/ RnrExhausted(f)
        PROVE  UNCHANGED qp \/ QpStops(f, "error")
    BY <2>2 DEF Main, MainCheck, MainEnqueue, MainSent, MainJoin, Network, DeliverSend,
                DeliverWrite, CmHangup, RnrExhausted, transVars
  <2>3. CASE UNCHANGED vars \/ Prepare \/ CmProgress \/ SetConnecting \/ Established("server")
    BY <2>3 DEF vars, transVars, Prepare, CmProgress, SetConnecting, Established
  <2>4. ASSUME NEW f \in End, Disconnected(f) PROVE QpStops(f, "destroyed")
    BY <2>4 DEF Disconnected
  <2> QED
    BY <1>1, <2>1, <2>2, <2>3, <2>4 DEF AnsweredNext
<1>3. ASSUME NEW f \in End, NEW state, QpStops(f, state)
      PROVE  qp'[e] = qp[e] \/ (f = e /\ qp'[e] = state /\ wire'[e] = << >>)
  BY <1>3, Stopped
<1> QED
  BY <1>2, <1>3

\* A sequence that is added to keeps its first element.
LEMMA KeepsHead ==
  ASSUME NEW S, NEW s \in Seq(S), s # << >>
  PROVE  /\ \A m \in S : Append(s, m) # << >> /\ Head(Append(s, m)) = Head(s)
         /\ \A t \in Seq(S) : s \o t # << >> /\ Head(s \o t) = Head(s)
<1>1. Len(s) \in Nat \ {0} /\ 1 \in 1..Len(s)
  OBVIOUS
<1>2. ASSUME NEW m \in S PROVE Append(s, m) # << >> /\ Head(Append(s, m)) = Head(s)
  <2>1. Len(Append(s, m)) = Len(s) + 1 /\ Append(s, m)[1] = s[1] /\ Append(s, m) \in Seq(S)
    BY <1>1
  <2> QED
    BY <1>1, <2>1
<1>3. ASSUME NEW t \in Seq(S) PROVE s \o t # << >> /\ Head(s \o t) = Head(s)
  <2>1. /\ Len(s \o t) = Len(s) + Len(t) /\ Len(t) \in Nat
        /\ (s \o t)[1] = s[1] /\ s \o t \in Seq(S)
    BY <1>1
  <2>2. s \o t # << >>
    BY <1>1, <2>1, EmptySeq
  <2> QED
    BY <1>1, <2>1, <2>2
<1> QED
  BY <1>2, <1>3

\* An end whose MR has been refused stays marked.
LEMMA RefusedStays == ASSUME [Next]_vars PROVE mr_refused \subseteq mr_refused'
<1>1. ASSUME NEW e, PostMr(e) PROVE mr_refused \subseteq mr_refused'
  BY <1>1 DEF PostMr
<1>2. ASSUME NEW e, Main(e) \/ Network(e) \/ RnrExhausted(e) \/ LoopExit(e)
      PROVE  UNCHANGED mr_refused
  BY <1>2 DEF Main, MainCheck, MainEnqueue, MainSent, MainJoin, Network, DeliverSend,
              DeliverWrite, CmHangup, RnrExhausted, LoopExit, refusalVars
<1>3. ASSUME NEW e, CmHandler(e) PROVE mr_refused \subseteq mr_refused'
  BY <1>1, <1>3 DEF CmHandler, Established, Disconnected, ConnectError, OtherError, refusalVars
<1>4. ASSUME NEW e, CqHandler(e) PROVE mr_refused \subseteq mr_refused'
  BY <1>1, <1>4 DEF CqHandler, SentMr, SentOther, RecvNormal, RecvFinish, RecvDone, RecvMr,
                    refusalVars
<1>5. ASSUME NEW e, TimerHandler(e) PROVE UNCHANGED mr_refused
  BY <1>5 DEF TimerHandler, TimerPost, TimerRefused, Posts, TimerUnlink, StaleExpires,
              refusalVars
<1>6. CASE \/ UNCHANGED vars \/ ClientConnect \/ Accept \/ SetConnecting \/ Prepare
           \/ AddrResolved \/ RouteResolved \/ ConnectRequest \/ CmProgress \/ CmFails
  BY <1>6 DEF vars, ClientConnect, Accept, SetConnecting, Prepare, AddrResolved,
              RouteResolved, ConnectRequest, CmProgress, CmFails, refusalVars
<1> QED
  BY <1>2, <1>3, <1>4, <1>5, <1>6 DEF Next, Epoll

\* Every step keeps FirstInv: the client's first message is its MR, unless that
\* has been refused.
LEMMA FirstStep ==
  ASSUME TypeInv, EventsInv, QuietInv, QuietInv', UnpreparedInv, FirstInv, [Next]_vars
  PROVE  FirstInv'
<1>0. /\ "client" \in End /\ "server" \in End /\ "client" # "server"
      /\ Peer("client") = "server" /\ Peer("server") = "client"
  BY DEF End, Peer
<1>1. /\ wire["client"] \in Seq(Msg) /\ recvs["server"] \in Seq(Msg)
      /\ send_task_list["client"] \in Seq(Msg) /\ Mr \in Msg
      /\ peer_mr["server"] \in BOOLEAN
  BY <1>0, MessageTypes DEF TypeInv, TypeOK, TransTypeOK, QpTypeOK
<1>2. CASE cm' \notin Answered
  <2>1. ~peer_mr'["server"] /\ recvs'["server"] = << >>
    BY <1>0, <1>2 DEF QuietInv, Quiet
  <2> QED
    BY <1>2, <2>1 DEF FirstInv
<1>3. CASE cm \notin Answered /\ cm' \in Answered
  <2>1. Established("client") /\ Quiet("client") /\ Quiet("server")
    BY <1>0, <1>3, AnsweredSteps DEF QuietInv
  <2>2. ~peer_mr'["server"] /\ recvs'["server"] = << >> /\ qp' = qp
    BY <2>1 DEF Established, Quiet
  <2>3. qp["client"] = "ready" /\ "client" \notin mr_refused' =>
          wire'["client"] = Append(<< >>, Mr)
    <3>1. PICK ok \in BOOLEAN :
            /\ wire' = [wire EXCEPT !["client"] =
                 IF ok /\ qp["client"] = "ready" THEN Append(@, Mr) ELSE @]
            /\ mr_refused' = IF ok THEN mr_refused ELSE mr_refused \cup {"client"}
      BY <2>1 DEF Established, PostMr, Outcomes
    <3> QED
      BY <1>0, <2>1, <3>1 DEF Quiet, TypeInv, TypeOK, QpTypeOK
  <2>4. Append(<< >>, Mr) # << >> /\ Head(Append(<< >>, Mr)) = Mr /\ Mr.type = "MR"
    BY ShortSequences DEF Mr
  <2> QED
    BY <2>2, <2>3, <2>4 DEF FirstInv
<1>4. CASE cm \in Answered
  <2>1. peer_mr'["server"] =>
          trans_state'["server"] \in {"CONNECTED", "SCONNECTED", "RCONNECTED"}
    <3>1. CASE RecvMr("server")
      BY <1>0, <1>4, <3>1, StateEffects
    <3>2. CASE ~RecvMr("server")
      <4>1. peer_mr'["server"] = peer_mr["server"]
        BY <1>0, <3>2, MrEffects
      <4>2. SetConnecting => ~peer_mr["server"]
        BY DEF SetConnecting, UnpreparedInv
      <4> QED
        BY <1>0, <1>4, <3>2, <4>1, <4>2, StateEffects DEF FirstInv
    <3> QED
      BY <3>1, <3>2
  <2>2. ASSUME ~peer_mr'["server"] PROVE ~peer_mr["server"] /\ ~RecvMr("server")
    BY <1>0, <2>2, MrEffects
  <2>6. "client" \notin mr_refused' => "client" \notin mr_refused
    BY RefusedStays
  <2>3. ASSUME ~peer_mr'["server"], "client" \notin mr_refused'
        PROVE  \/ recvs'["server"] = recvs["server"] /\ ~DeliverSend("client")
               \/ Disconnected("server") /\ recvs'["server"] = << >>
               \/ /\ DeliverSend("client") /\ wire["client"] # << >>
                  /\ recvs'["server"] = Append(recvs["server"], Head(wire["client"]))
    <3>1. ~(RecvNormal("server") \/ RecvFinish("server") \/ RecvDone("server"))
      BY <2>2, <2>3, <2>6 DEF FirstInv, RecvNormal, RecvFinish, RecvDone, TakeRecv
    <3>2. DeliverSend("client") =>
            /\ wire["client"] # << >>
            /\ recvs'["server"] = Append(recvs["server"], Head(wire["client"]))
      BY <1>0 DEF DeliverSend, Linked, TypeInv, TypeOK, QpTypeOK
    <3> QED
      BY <1>0, <2>2, <2>3, <3>1, <3>2, RecvsEffects
  <2>4. ASSUME ~peer_mr'["server"], recvs'["server"] # << >>, "client" \notin mr_refused'
        PROVE  Head(recvs'["server"]).type = "MR"
    <3>1. CASE recvs'["server"] = recvs["server"]
      BY <2>2, <2>4, <2>6, <3>1 DEF FirstInv
    <3>2. CASE /\ DeliverSend("client") /\ wire["client"] # << >>
               /\ recvs'["server"] = Append(recvs["server"], Head(wire["client"]))
      <4>1. Head(wire["client"]) \in Msg
        BY <1>1, <3>2
      <4>2. CASE recvs["server"] = << >>
        <5>1. Head(wire["client"]).type = "MR"
          BY <1>0, <1>4, <2>2, <2>4, <2>6, <3>2, <4>2 DEF FirstInv, DeliverSend, Linked
        <5>2. Head(recvs'["server"]) = Head(wire["client"])
          BY <3>2, <4>1, <4>2
        <5> QED
          BY <5>1, <5>2
      <4>3. CASE recvs["server"] # << >>
        <5>1. Head(recvs'["server"]) = Head(recvs["server"])
          BY <1>1, <3>2, <4>1, <4>3
        <5> QED
          BY <2>2, <2>4, <2>6, <4>3, <5>1 DEF FirstInv
      <4> QED
        BY <4>2, <4>3
    <3> QED
      BY <2>3, <2>4, <3>1, <3>2
  <2>5. ASSUME ~peer_mr'["server"], recvs'["server"] = << >>,
               qp'["client"] = "ready", qp'["server"] = "ready", "client" \notin mr_refused'
        PROVE  wire'["client"] # << >> /\ Head(wire'["client"]).type = "MR"
    <3>1. qp["client"] = "ready" /\ qp["server"] = "ready"
      BY <1>0, <1>4, <2>5, QpEffects
    <3>2. ~Disconnected("server")
      BY <1>0, <2>5, Stopped DEF Disconnected
    <3>3. ~DeliverSend("client") /\ recvs["server"] = << >>
      <4>1. wire["client"] # << >> =>
              Append(recvs["server"], Head(wire["client"])) # << >>
        <5>1. wire["client"] # << >> => Head(wire["client"]) \in Msg
          BY <1>1
        <5> QED
          BY <1>1, <5>1, AppendProperties
      <4> QED
        BY <2>3, <2>5, <3>2, <4>1
    <3>4. wire["client"] # << >> /\ Head(wire["client"]).type = "MR"
      BY <1>4, <2>2, <2>5, <2>6, <3>1, <3>3 DEF FirstInv
    <3>5. ~DeliverWrite("client")
      BY <3>4 DEF DeliverWrite, IsWrite, Opcode
    <3>6. \/ wire'["client"] = wire["client"]
          \/ wire'["client"] = Append(wire["client"], Mr)
          \/ \E t \in Seq(Msg) : wire'["client"] = wire["client"] \o t
      BY <1>0, <1>1, <2>5, <3>3, <3>5, WireEffects, FirstTasks
    <3>7. /\ Append(wire["client"], Mr) # << >>
          /\ Head(Append(wire["client"], Mr)) = Head(wire["client"])
          /\ \A t \in Seq(Msg) : /\ wire["client"] \o t # << >>
                               /\ Head(wire["client"] \o t) = Head(wire["client"])
      BY <1>1, <3>4, KeepsHead
    <3> QED
      BY <3>4, <3>6, <3>7
  <2> QED
    BY <2>1, <2>4, <2>5 DEF FirstInv
<1> QED
  BY <1>2, <1>3, <1>4

\* Only FINISH can make the epoll thread wait for a state, and the server's only:
\* when its first message is no MR.
LEMMA SpinStep ==
  ASSUME TypeInv, ServerListInv, FirstInv, EpollNeverSpins, [Next]_vars
  PROVE  EpollNeverSpins'
<1>0. /\ "client" \in End /\ "server" \in End
  BY DEF End
<1> SUFFICES ASSUME NEW e \in End, stage'[e] = "spin" PROVE Peer(e) \in mr_refused'
  BY DEF EpollNeverSpins
<1>1. CASE stage[e] = "spin"
  BY <1>1, RefusedStays DEF EpollNeverSpins
<1>2. \/ UNCHANGED stage
      \/ \E f \in End : TimerPost(f) \/ TimerUnlink(f) \/ LoopExit(f) \/ RecvFinish(f)
  <2>1. ASSUME NEW f \in End, Epoll(f)
        PROVE  \/ UNCHANGED stage
               \/ TimerPost(f) \/ TimerUnlink(f) \/ LoopExit(f) \/ RecvFinish(f)
    BY <2>1 DEF Epoll, CmHandler, Established, Disconnected, ConnectError, OtherError,
                CqHandler, SentMr, SentOther, RecvNormal, RecvDone, RecvMr, TimerHandler,
                TimerRefused, StaleExpires, threadVars
  <2>2. ASSUME NEW f \in End, Main(f) \/ Network(f) \/ RnrExhausted(f)
        PROVE  UNCHANGED stage
    BY <2>2 DEF Main, MainCheck, MainEnqueue, MainSent, MainJoin, Network, DeliverSend,
                DeliverWrite, CmHangup, RnrExhausted, threadVars
  <2> QED
    BY <2>1, <2>2 DEF Next, vars, threadVars, ClientConnect, Accept, SetConnecting, Prepare,
                      AddrResolved, RouteResolved, ConnectRequest, CmProgress, CmFails
<1>3. ASSUME NEW f \in End, TimerPost(f) \/ TimerUnlink(f) \/ LoopExit(f)
      PROVE  stage[e] = "spin"
  <2>1. /\ TimerPost(f) => stage' = [stage EXCEPT ![f] = "unlink"]
        /\ TimerUnlink(f) => stage' = [stage EXCEPT ![f] = "idle"]
        /\ LoopExit(f) => stage' = [stage EXCEPT ![f] = "exited"]
    BY DEF TimerPost, TimerUnlink, LoopExit
  <2> QED
    BY <1>3, <2>1 DEF TypeInv, TypeOK, ThreadTypeOK
<1>4. ASSUME NEW f \in End, RecvFinish(f), stage[e] # "spin"
      PROVE  Peer(e) \in mr_refused'
  <2>1. /\ recvs[f] # << >> /\ recvs[f] \in Seq(Msg) /\ Head(recvs[f]).type = "FINISH"
    BY <1>4 DEF RecvFinish, TakeRecv, TypeInv, TypeOK, QpTypeOK
  <2>2. f = "server"
    <3>1. f = "client" => NoType(recvs[f], "FINISH")
      BY DEF ServerListInv
    <3>2. ~NoType(recvs[f], "FINISH")
      BY <2>1, TypeSequences
    <3> QED
      BY <3>1, <3>2 DEF End
  <2>3. \/ UNCHANGED stage
        \/ /\ trans_state[f] \notin ReadyStates("DONE")
           /\ stage' = [stage EXCEPT ![f] = IF trans_state[f] = "ERROR" THEN @ ELSE "spin"]
    BY <1>4 DEF RecvFinish
  <2>4. e = f /\ trans_state[f] \notin ReadyStates("DONE")
    BY <1>4, <2>3 DEF TypeInv, TypeOK, ThreadTypeOK
  <2>5. ~peer_mr["server"]
    BY <1>0, <2>2, <2>4 DEF FirstInv, ReadyStates
  <2>6. "client" \in mr_refused
    BY <2>1, <2>2, <2>5 DEF FirstInv
  <2> QED
    BY <2>2, <2>4, <2>6, RefusedStays DEF Peer
<1> QED
  BY <1>1, <1>2, <1>3, <1>4

-----------------------------------------------------------------------------
(* The theorems. *)

\* ExchangeInv holds at the start.
LEMMA ExchangeInit == Init => TypeInv /\ ExchangeInv
BY TypeInit, EventsInit, QuietInit, UnpreparedInit, AnswerInit, ClientMrInit, ServerListInit,
   FirstInit DEF ExchangeInv

\* Every step keeps ExchangeInv.
LEMMA ExchangeStep == TypeInv /\ ExchangeInv /\ [Next]_vars => TypeInv' /\ ExchangeInv'
<1> SUFFICES ASSUME TypeInv, ExchangeInv, [Next]_vars PROVE TypeInv' /\ ExchangeInv'
  OBVIOUS
<1> USE DEF ExchangeInv
<1>1. TypeInv'
  BY TypeStep
<1>2. EventsInv'
  BY EventsStep
<1>3. QuietInv'
  BY QuietStep
<1>4. UnpreparedInv'
  BY UnpreparedStep
<1>5. AnswerInv'
  BY <1>3, AnswerStep
<1>6. ClientMrInv'
  BY <1>3, ClientMrStep
<1>7. ServerListInv'
  BY ServerListStep
<1>8. FirstInv'
  BY <1>3, FirstStep
<1>9. EpollNeverSpins'
  BY SpinStep
<1> QED
  BY <1>1, <1>2, <1>3, <1>4, <1>5, <1>6, <1>7, <1>8, <1>9

\* The invariant of the exchange of memory regions.
THEOREM ExchangeCorrect == Spec => [](TypeInv /\ ExchangeInv)
BY ExchangeInit, ExchangeStep, PTL DEF Spec

\* hmr_wc_success_handler answers an MR with an MR only in CONNECTED: whatever
\* the scripts and the failures, the client posts its region at most twice and
\* the server at most once.
THEOREM ExchangeEndsHolds == Spec => []ExchangeEnds
<1>1. TypeInv /\ ExchangeInv => ExchangeEnds
  BY DEF ExchangeInv, AnswerInv, ClientMrInv, ExchangeEnds
<1> QED
  BY <1>1, ExchangeCorrect, PTL

\* Once the client knows its peer's region no completion takes its transport
\* out of the state in which hmr_msg_check lets writes through.
THEOREM WritesStayEnabledHolds == Spec => []WritesStayEnabled
<1>1. TypeInv /\ ExchangeInv => WritesStayEnabled
  BY DEF ExchangeInv, ClientMrInv
<1> QED
  BY <1>1, ExchangeCorrect, PTL

\* hmr_rdma_send, called by the epoll thread for the answer to FINISH, waits in
\* hmr_msg_check for a state that only the epoll thread can set when the client's
\* MR was refused by ibv_post_send, and only then: else that MR, handled before,
\* has put the server in a state that lets the answer through.
THEOREM NeverSpins == Spec => []EpollNeverSpins
<1>1. TypeInv /\ ExchangeInv => EpollNeverSpins
  BY DEF ExchangeInv
<1> QED
  BY <1>1, ExchangeCorrect, PTL

-----------------------------------------------------------------------------
(* WritePlaceGrows: the client's place in the server's region is put back to *)
(* zero only by the server's MR, which comes before any write is posted.     *)

PlaceInv == ~peer_mr["client"] => used_normal_size["client"] = 0

\* A sequence without writes counts none.
LEMMA NoWritesCounted ==
  ASSUME NEW s \in Seq(Msg), NoWrite(s)
  PROVE  Writes(s) = 0
<1>1. \A k \in 1..Len(s) : s[k].type # "READ" => ~IsWrite(s[k])
  BY DEF NoWrite, IsWrite, Opcode
<1>2. \A k \in 1..Len(s) : s[k].type # "READ"
  <2>1. \A k \in 1..Len(s) : s[k] \in Msg
    OBVIOUS
  <2> QED
    BY <2>1 DEF Msg, MsgType, AppType
<1>3. {k \in 1..Len(s) : IsWrite(s[k])} = {}
  BY <1>1, <1>2
<1> QED
  BY <1>3, FS_EmptySet DEF Writes

\* What happens to the client's place.
LEMMA PlaceEffects ==
  ASSUME TypeInv, [Next]_vars
  PROVE  \/ used_normal_size'["client"] = used_normal_size["client"]
         \/ RecvMr("client") /\ used_normal_size'["client"] = 0
         \/ used_normal_size'["client"] =
              used_normal_size["client"] + Writes(send_task_list["client"])
<1> DEFINE Goal ==
         \/ used_normal_size'["client"] = used_normal_size["client"]
         \/ RecvMr("client") /\ used_normal_size'["client"] = 0
         \/ used_normal_size'["client"] =
              used_normal_size["client"] + Writes(send_task_list["client"])
<1> USE DEF TypeInv, TypeOK
<1>0. "client" \in End
  BY DEF End
<1>1. \/ UNCHANGED used_normal_size
      \/ \E f \in End : RecvMr(f) \/ TimerPost(f) \/ TimerRefused(f)
  <2>1. ASSUME NEW f \in End, Epoll(f)
        PROVE  UNCHANGED used_normal_size \/ RecvMr(f) \/ TimerPost(f) \/ TimerRefused(f)
    BY <2>1 DEF Epoll, CmHandler, Established, Disconnected, ConnectError, OtherError,
                CqHandler, SentMr, SentOther, RecvNormal, RecvFinish, RecvDone, TimerHandler,
                TimerUnlink, StaleExpires, LoopExit, transVars
  <2>2. ASSUME NEW f \in End, Main(f) \/ Network(f) \/ RnrExhausted(f)
        PROVE  UNCHANGED used_normal_size
    BY <2>2 DEF Main, MainCheck, MainEnqueue, MainSent, MainJoin, Network, DeliverSend,
                DeliverWrite, CmHangup, RnrExhausted, transVars
  <2> QED
    BY <2>1, <2>2 DEF Next, vars, transVars, ClientConnect, Accept, SetConnecting, Prepare,
                      AddrResolved, RouteResolved, ConnectRequest, CmProgress, CmFails
<1>2. ASSUME NEW f \in End, RecvMr(f) PROVE Goal
  BY <1>0, <1>2 DEF RecvMr, TransTypeOK
<1>3. ASSUME NEW f \in End, TimerPost(f) \/ TimerRefused(f) PROVE Goal
  BY <1>0, <1>3 DEF TimerPost, TimerRefused, Posts, TransTypeOK
<1> QED
  BY <1>1, <1>2, <1>3

\* The server's MR finds the client without its region.
LEMMA MrComesOnce ==
  ASSUME TypeInv, AnswerInv, RecvMr("client")
  PROVE  ~peer_mr["client"]
<1>1. recvs["client"] # << >> /\ Head(recvs["client"]).type = "MR"
      /\ recvs["client"] \in Seq(Msg)
  BY DEF RecvMr, TakeRecv, TypeInv, TypeOK, QpTypeOK, End
<1>2. ~NoType(recvs["client"], "MR")
  BY <1>1, TypeSequences
<1> QED
  BY <1>2 DEF AnswerInv

\* The place of the next write is not zero before the region of the peer is known,
\* and never moves back.
LEMMA PlaceStep ==
  ASSUME TypeInv, ExchangeInv, RegionInv, PlaceInv, [Next]_vars
  PROVE  PlaceInv' /\ used_normal_size'["client"] >= used_normal_size["client"]
<1>0. /\ "client" \in End /\ used_normal_size["client"] \in Nat
      /\ send_task_list["client"] \in Seq(Msg) /\ peer_mr["client"] \in BOOLEAN
  BY DEF End, TypeInv, TypeOK, TransTypeOK
<1>1. peer_mr["client"] => peer_mr'["client"]
  BY <1>0, MrEffects
<1>2. CASE used_normal_size'["client"] = used_normal_size["client"]
  BY <1>0, <1>1, <1>2 DEF PlaceInv
<1>3. CASE RecvMr("client") /\ used_normal_size'["client"] = 0
  BY <1>0, <1>3, MrComesOnce DEF PlaceInv, ExchangeInv
<1>4. CASE used_normal_size'["client"] =
             used_normal_size["client"] + Writes(send_task_list["client"])
  <2>1. Writes(send_task_list["client"]) \in Nat
    BY <1>0, SequenceCounts
  <2>2. ~peer_mr["client"] => Writes(send_task_list["client"]) = 0
    BY <1>0, NoWritesCounted, RegionAsNoWrite DEF RegionInv
  <2>3. used_normal_size'["client"] >= used_normal_size["client"]
    BY <1>0, <1>4, <2>1
  <2>4. PlaceInv'
    BY <1>0, <1>1, <1>4, <2>2 DEF PlaceInv
  <2> QED
    BY <2>3, <2>4
<1> QED
  BY <1>2, <1>3, <1>4, PlaceEffects

\* hmr_wc_success_handler sets used_normal_size to zero when the server's MR comes:
\* it comes once, before any write has been given a place, so that no two of the
\* client's writes go to the same one.
THEOREM WritePlaceGrowsHolds == Spec => WritePlaceGrows
<1>1. Init => PlaceInv
  BY DEF Init, PlaceInv, End
<1>2. TypeInv /\ ExchangeInv /\ RegionInv /\ PlaceInv /\ [Next]_vars =>
        TypeInv' /\ ExchangeInv' /\ RegionInv' /\ PlaceInv'
  BY ExchangeStep, RegionStep, PlaceStep
<1>3. TypeInv /\ ExchangeInv /\ RegionInv /\ PlaceInv /\ [Next]_vars =>
        [used_normal_size'["client"] >= used_normal_size["client"]]_vars
  BY PlaceStep
<1> QED
  BY <1>1, <1>2, <1>3, ExchangeInit, RegionInit, PTL DEF Spec, WritePlaceGrows
=============================================================================
