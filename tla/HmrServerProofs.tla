-------------------------- MODULE HmrServerProofs --------------------------
(***************************************************************************)
(* The accept stack for every set of clients, with and without failures:   *)
(* as long as main has not popped while the epoll thread pushed, the chain *)
(* holds who waits, and the server's loop ends only for who has gone.      *)
(***************************************************************************)
EXTENDS HmrServer, TLAPS

\* What the threads hold, also after a race.
HeldInv ==
  /\ epoll = "push" => request \in Client
  /\ main = "top" => accept_rdma_trans[NULL] # NULL
  /\ main \in {"pop", "clear", "accept", "connecting", "send"} => accepted \in Client

TypeInv == TypeOK /\ HeldInv

\* The transports between their request and rdma_accept.
Waits(c) == \E i \in 1 .. Len(waiting) : waiting[i] = c
Pushed(c) == epoll = "push" /\ request = c
Popped(c) == main \in {"clear", "accept"} /\ accepted = c

\* A client whose request is pending, and has no second one.
Unanswered(c) == cm[c] \in {"requested", "gone"}
Asks(i, c) == cm_events[i] = <<"CONNECT_REQUEST", c>>

AskInv ==
  \A c \in Client : \A i \in 1 .. Len(cm_events) :
    Asks(i, c) => /\ Unanswered(c)
                  /\ \A j \in 1 .. Len(cm_events) : Asks(j, c) => j = i

\* Who has asked is on one way to the stack or from it.
WayInv ==
  /\ \A c \in Client : Waits(c) \/ Pushed(c) \/ Popped(c) =>
       Unanswered(c) /\ \A i \in 1 .. Len(cm_events) : ~Asks(i, c)
  /\ \A c \in Client : /\ ~(Waits(c) /\ Pushed(c))
                       /\ ~(Waits(c) /\ Popped(c))
                       /\ ~(Pushed(c) /\ Popped(c))
  /\ \A i, j \in 1 .. Len(waiting) : waiting[i] = waiting[j] => i = j

\* Main holds the top, and the epoll thread has read it.
TopInv ==
  /\ epoll = "push" => accept_rdma_trans[request] = accept_rdma_trans[NULL]
  /\ main = "pop" => /\ epoll # "push"
                     /\ accepted = accept_rdma_trans[NULL]
                     /\ next = accept_rdma_trans[accepted]

Chain ==
  \A i \in 0 .. Len(waiting) :
    accept_rdma_trans[IF i = 0 THEN NULL ELSE waiting[i]] =
      IF i < Len(waiting) THEN waiting[i + 1] ELSE NULL

EndInv == main \in {"join", "exited"} => \E c \in Client : cm[c] = "gone"

StackInv == AskInv /\ WayInv /\ TopInv /\ Chain /\ EndInv

ServerInv == TypeInv /\ (~raced => StackInv)

-----------------------------------------------------------------------------
(* Sequences. *)

LEMMA TailOf ==
  ASSUME NEW S, NEW s \in Seq(S), s # << >>
  PROVE  /\ Len(s) \in Nat /\ Len(s) > 0
         /\ Head(s) = s[1] /\ Head(s) \in S
         /\ Tail(s) \in Seq(S)
         /\ Len(Tail(s)) = Len(s) - 1
         /\ \A i \in 1 .. Len(s) - 1 : Tail(s)[i] = s[i + 1]
OBVIOUS

LEMMA PushOn ==
  ASSUME NEW S, NEW s \in Seq(S), NEW x \in S
  PROVE  /\ Len(s) \in Nat
         /\ <<x>> \o s \in Seq(S)
         /\ Len(<<x>> \o s) = Len(s) + 1
         /\ (<<x>> \o s)[1] = x
         /\ \A i \in 2 .. Len(s) + 1 : (<<x>> \o s)[i] = s[i - 1]
OBVIOUS

LEMMA AppendTo ==
  ASSUME NEW S, NEW s \in Seq(S), NEW x \in S
  PROVE  /\ Len(s) \in Nat
         /\ s \o <<x>> \in Seq(S)
         /\ Len(s \o <<x>>) = Len(s) + 1
         /\ (s \o <<x>>)[Len(s) + 1] = x
         /\ \A i \in 1 .. Len(s) : (s \o <<x>>)[i] = s[i]
OBVIOUS

LEMMA AppendNone ==
  ASSUME NEW S, NEW s \in Seq(S)
  PROVE  s \o << >> = s
OBVIOUS

-----------------------------------------------------------------------------
(* Types. *)

LEMMA TypeInit == Init => TypeInv
<1> SUFFICES ASSUME Init PROVE TypeInv
  OBVIOUS
<1> USE DEF Init
<1>1. /\ accept_rdma_trans \in [Trans -> Trans]
      /\ accepted \in Trans /\ next \in Trans /\ request \in Trans
  BY DEF Trans
<1>2. trans_state \in [Client -> {"INIT", "CONNECTING", "CONNECTED", "RCONNECTED", "ERROR"}]
  OBVIOUS
<1>3. cm \in [Client -> {"away", "requested", "gone", "accepted", "up", "failed", "down"}]
  OBVIOUS
<1>4. cm_events \in Seq(CmEvent \X Client) /\ waiting \in Seq(Client)
  OBVIOUS
<1>5. TypeOK
  BY <1>1, <1>2, <1>3, <1>4 DEF TypeOK
<1> QED
  BY <1>5 DEF TypeInv, HeldInv

LEMMA TypeMain ==
  ASSUME TypeInv, Main
  PROVE  TypeInv'
<1> USE ClientAssumption DEF TypeInv, TypeOK, HeldInv, Goto, stackVars, epollVars, cmVars
<1>1. CASE Discover
  BY <1>1 DEF Discover
<1>2. CASE ReadTop
  BY <1>2 DEF ReadTop, Trans
<1>3. CASE Pop
  <2>1. waiting' \in Seq(Client)
    BY <1>3, TailOf DEF Pop
  <2>2. accept_rdma_trans' \in [Trans -> Trans]
    BY <1>3 DEF Pop, HeadAfterPop
  <2> QED
    BY <1>3, <2>1, <2>2 DEF Pop, Trans
<1>4. CASE Clear
  BY <1>4 DEF Clear, Trans
<1>5. CASE Accept
  <2>1. cm' \in [Client -> {"away", "requested", "gone", "accepted", "up", "failed", "down"}]
    BY <1>5 DEF Accept
  <2> QED
    BY <1>5, <2>1 DEF Accept
<1>6. CASE SetConnecting
  BY <1>6 DEF SetConnecting
<1>7. CASE Greet
  BY <1>7 DEF Greet, Trans
<1>8. CASE Join
  BY <1>8 DEF Join
<1> QED
  BY <1>1, <1>2, <1>3, <1>4, <1>5, <1>6, <1>7, <1>8 DEF Main

LEMMA TypeEpoll ==
  ASSUME TypeInv, Epoll
  PROVE  TypeInv'
<1> USE ClientAssumption DEF TypeInv, TypeOK, HeldInv, stackVars, mainVars, epollVars, cmVars
<1>1. CASE Push
  <2>1. waiting' \in Seq(Client)
    BY <1>1, PushOn DEF Push
  <2>2. /\ accept_rdma_trans' \in [Trans -> Trans]
        /\ accept_rdma_trans'[NULL] # NULL
    BY <1>1 DEF Push, Trans
  <2> QED
    BY <1>1, <2>1, <2>2 DEF Push, Trans
<1>2. CASE LoopExit
  BY <1>2 DEF LoopExit
<1>3. ASSUME NEW c \in Client, NEW event, TakeEvent(c, event)
      PROVE  cm_events' \in Seq(CmEvent \X Client)
  BY <1>3, TailOf DEF TakeEvent
<1>4. ASSUME NEW c \in Client, ConnectRequest(c)
      PROVE  TypeInv'
  <2>1. cm_events' \in Seq(CmEvent \X Client) /\ epoll = "idle"
    BY <1>3, <1>4 DEF ConnectRequest, TakeEvent
  <2>2. CASE /\ epoll' = "push"
             /\ request' = c
             /\ accept_rdma_trans' =
                  [accept_rdma_trans EXCEPT ![c] = accept_rdma_trans[NULL]]
             /\ raced' = (raced \/ main = "pop")
             /\ UNCHANGED refused
    <3>1. /\ accept_rdma_trans' \in [Trans -> Trans]
          /\ accept_rdma_trans'[NULL] = accept_rdma_trans[NULL]
          /\ request' \in Trans
      BY <2>2 DEF Trans
    <3> QED
      BY <1>4, <2>1, <2>2, <3>1 DEF ConnectRequest
  <2>3. CASE /\ refused' = refused \cup {c}
             /\ UNCHANGED <<epoll, request, accept_rdma_trans, raced>>
    BY <1>4, <2>1, <2>3 DEF ConnectRequest
  <2> QED
    BY <1>4, <2>2, <2>3 DEF ConnectRequest
<1>5. ASSUME NEW c \in Client, Established(c)
      PROVE  TypeInv'
  BY <1>3, <1>5 DEF Established, TakeEvent
<1>6. ASSUME NEW c \in Client, ConnectError(c)
      PROVE  TypeInv'
  <2>1. is_stop' \in BOOLEAN
    BY <1>6 DEF ConnectError, Stops
  <2>2. cm_events' \in Seq(CmEvent \X Client)
    BY <1>3, <1>6 DEF ConnectError
  <2>3. trans_state' \in [Client -> {"INIT", "CONNECTING", "CONNECTED", "RCONNECTED", "ERROR"}]
    BY <1>6 DEF ConnectError, FailedState
  <2> QED
    BY <1>6, <2>1, <2>2, <2>3 DEF ConnectError
<1>7. ASSUME NEW c \in Client, Disconnected(c)
      PROVE  TypeInv'
  <2>1. is_stop' \in BOOLEAN
    BY <1>7 DEF Disconnected, Stops
  <2>2. cm_events' \in Seq(CmEvent \X Client)
    BY <1>3, <1>7 DEF Disconnected
  <2>3. mr' \in [Client -> {"due", "lost", "handled"}]
    BY <1>7 DEF Disconnected
  <2> QED
    BY <1>7, <2>1, <2>2, <2>3 DEF Disconnected
<1>8. ASSUME NEW c \in Client, RecvMr(c)
      PROVE  TypeInv'
  <2>1. /\ mr' \in [Client -> {"due", "lost", "handled"}]
        /\ trans_state' \in [Client -> {"INIT", "CONNECTING", "CONNECTED", "RCONNECTED", "ERROR"}]
    BY <1>8 DEF RecvMr, AfterMrReceived
  <2> QED
    BY <1>8, <2>1 DEF RecvMr
<1> QED
  BY <1>1, <1>2, <1>4, <1>5, <1>6, <1>7, <1>8 DEF Epoll

\* A step of the connection manager: one event or none.
CmEvents(c) ==
  {<< >>, << <<"CONNECT_REQUEST", c>> >>, << <<"ESTABLISHED", c>> >>,
   << <<"DISCONNECTED", c>> >>, << <<"CONNECT_ERROR", c>> >>}

LEMMA TypeClients ==
  ASSUME TypeInv, Clients
  PROVE  TypeInv'
<1>1. ASSUME NEW c \in Client, NEW from,
             NEW to \in {"requested", "gone", "accepted", "up", "failed", "down"},
             NEW events \in CmEvents(c), CmStep(c, from, to, events)
      PROVE  TypeInv'
  <2>1. cm_events' \in Seq(CmEvent \X Client)
    <3>1. cm_events \in Seq(CmEvent \X Client) /\ cm_events' = cm_events \o events
      BY <1>1 DEF TypeInv, TypeOK, CmStep
    <3>2. CASE events = << >>
      BY <3>1, <3>2, AppendNone
    <3>3. ASSUME NEW e \in CmEvent, events = << <<e, c>> >>
          PROVE  cm_events' \in Seq(CmEvent \X Client)
      <4>1. <<e, c>> \in CmEvent \X Client
        OBVIOUS
      <4> QED
        BY <3>1, <3>3, <4>1, AppendTo
    <3> QED
      BY <3>2, <3>3 DEF CmEvents, CmEvent
  <2>2. cm' \in [Client -> {"away", "requested", "gone", "accepted", "up", "failed", "down"}]
    BY <1>1 DEF CmStep, TypeInv, TypeOK
  <2> QED
    BY <1>1, <2>1, <2>2 DEF CmStep, TypeInv, TypeOK, HeldInv, stackVars, mainVars, epollVars
<1>2. ASSUME NEW c \in Client, LoseMr(c)
      PROVE  TypeInv'
  <2>1. mr' \in [Client -> {"due", "lost", "handled"}]
    BY <1>2 DEF LoseMr, TypeInv, TypeOK
  <2> QED
    BY <1>2, <2>1
    DEF LoseMr, TypeInv, TypeOK, HeldInv, stackVars, mainVars, epollVars, cmVars
<1> QED
  BY <1>1, <1>2 DEF Clients, Request, Confirm, Leave, GoneEarly, ConfirmFails, CmEvents

LEMMA TypeNext == TypeInv /\ [Next]_vars => TypeInv'
<1> SUFFICES ASSUME TypeInv, [Next]_vars PROVE TypeInv'
  OBVIOUS
<1>1. CASE UNCHANGED vars
  BY <1>1 DEF TypeInv, TypeOK, HeldInv, vars, stackVars, mainVars, epollVars, cmVars
<1> QED
  BY <1>1, TypeMain, TypeEpoll, TypeClients DEF Next

\* What each variable of server.c and of the listener's stack may hold, whoever
\* writes it; and that no thread uses a NULL transport: main has one from its
\* read of a head that is not NULL to the greeting, the epoll thread while it
\* pushes, after a race of the two as well.
THEOREM ServerTypes == Spec => [](TypeOK /\ HeldInv)
<1>1. TypeInv => TypeOK /\ HeldInv
  BY DEF TypeInv
<1> QED
  BY <1>1, TypeInit, TypeNext, PTL DEF Spec

-----------------------------------------------------------------------------
(* The stack. *)

LEMMA StackInit == Init => StackInv
<1> SUFFICES ASSUME Init PROVE StackInv
  OBVIOUS
<1>1. Len(waiting) = 0 /\ Len(cm_events) = 0
  BY DEF Init
<1>2. AskInv /\ WayInv /\ TopInv /\ EndInv
  BY <1>1 DEF Init, AskInv, WayInv, TopInv, EndInv, Waits, Pushed, Popped
<1>3. Chain
  BY <1>1 DEF Init, Chain, Trans
<1> QED
  BY <1>2, <1>3 DEF StackInv

\* The steps that leave the stack and the threads that use it alone.
LEMMA StackStays ==
  ASSUME TypeInv, StackInv, UNCHANGED <<accept_rdma_trans, waiting, request>>,
         epoll = "push" <=> epoll' = "push",
         UNCHANGED cm \/ \E c \in Client : cm' = [cm EXCEPT ![c] = "gone"] /\ cm[c] = "requested",
         UNCHANGED cm_events,
         UNCHANGED <<main, accepted, next>>
         \/ /\ main \notin {"pop", "clear", "accept"} /\ main' \notin {"pop", "clear", "accept"}
            /\ main' \in {"join", "exited"} => main \in {"join", "exited"}
  PROVE  StackInv'
<1>1. /\ \A c \in Client : Unanswered(c) => Unanswered(c)'
      /\ \A c \in Client : cm[c] = "gone" => cm'[c] = "gone"
  BY DEF Unanswered, TypeInv, TypeOK
<1>2. /\ \A c \in Client : Waits(c)' = Waits(c) /\ Pushed(c)' = Pushed(c) /\ (Popped(c)' => Popped(c))
      /\ \A c \in Client : \A i : Asks(i, c)' = Asks(i, c)
  BY DEF Waits, Pushed, Popped, Asks
<1>3. AskInv'
  BY <1>1, <1>2 DEF StackInv, AskInv
<1>4. WayInv'
  BY <1>1, <1>2 DEF StackInv, WayInv
<1>5. TopInv'
  BY DEF StackInv, TopInv
<1>6. Chain'
  BY DEF StackInv, Chain
<1>7. EndInv'
  BY <1>1 DEF StackInv, EndInv
<1> QED
  BY <1>3, <1>4, <1>5, <1>6, <1>7 DEF StackInv

\* Main takes the top: the first of those that wait.
LEMMA StackReadTop ==
  ASSUME TypeInv, StackInv, ReadTop, epoll # "push"
  PROVE  StackInv'
<1>1. /\ \A c \in Client : Waits(c)' = Waits(c) /\ Pushed(c)' = Pushed(c) /\ ~Popped(c)'
      /\ \A c \in Client : Unanswered(c)' = Unanswered(c)
      /\ \A c \in Client : \A i : Asks(i, c)' = Asks(i, c)
  BY DEF Waits, Pushed, Popped, Unanswered, Asks, ReadTop, Goto, epollVars, cmVars
<1>2. AskInv'
  BY <1>1 DEF StackInv, AskInv, ReadTop, cmVars
<1>3. WayInv'
  BY <1>1 DEF StackInv, WayInv, ReadTop, cmVars
<1>4. TopInv'
  BY DEF TopInv, ReadTop, Goto, epollVars
<1>5. Chain' /\ EndInv'
  BY DEF StackInv, Chain, EndInv, ReadTop, Goto
<1> QED
  BY <1>2, <1>3, <1>4, <1>5 DEF StackInv

\* What main pops is no longer on the stack, and the entry below is its head.
LEMMA StackPop ==
  ASSUME TypeInv, StackInv, Pop
  PROVE  StackInv'
<1> USE ClientAssumption
<1>1. /\ waiting \in Seq(Client) /\ accept_rdma_trans \in [Trans -> Trans]
      /\ main = "pop" /\ main' = "clear" /\ epoll # "push"
      /\ accepted \in Client /\ accepted = accept_rdma_trans[NULL]
      /\ next = accept_rdma_trans[accepted]
      /\ accept_rdma_trans' = [accept_rdma_trans EXCEPT ![NULL] = next]
      /\ UNCHANGED <<accepted, epoll, request, cm, cm_events>>
  BY DEF TypeInv, TypeOK, HeldInv, StackInv, TopInv, Pop, Goto, HeadAfterPop, epollVars, cmVars
<1>2. waiting # << >> /\ waiting[1] = accepted
  <2>1. Len(waiting) \in Nat
    BY <1>1
  <2>2. accept_rdma_trans[NULL] = IF 0 < Len(waiting) THEN waiting[1] ELSE NULL
    BY <2>1 DEF StackInv, Chain
  <2> QED
    BY <1>1, <2>1, <2>2
<1>3. /\ waiting' = Tail(waiting)
      /\ Len(waiting) \in Nat /\ Len(waiting) > 0
      /\ Len(waiting') = Len(waiting) - 1
      /\ \A i \in 1 .. Len(waiting) - 1 : waiting'[i] = waiting[i + 1]
      /\ \A i \in 1 .. Len(waiting) : waiting[i] \in Client
  BY <1>1, <1>2, TailOf DEF Pop
<1>4. /\ \A c \in Client : Unanswered(c)' = Unanswered(c)
      /\ \A c \in Client : \A i : Asks(i, c)' = Asks(i, c)
  BY <1>1 DEF Unanswered, Asks
<1>5. ASSUME NEW c \in Client
      PROVE  /\ Waits(c)' => Waits(c) /\ c # accepted
             /\ ~Pushed(c)'
             /\ Popped(c)' => c = accepted /\ Waits(c)
  <2>1. Waits(c)' => Waits(c) /\ c # accepted
    <3> SUFFICES ASSUME NEW i \in 1 .. Len(waiting'), waiting'[i] = c
                 PROVE  Waits(c) /\ c # accepted
      BY DEF Waits
    <3>1. i + 1 \in 1 .. Len(waiting) /\ waiting[i + 1] = c /\ i + 1 # 1 /\ 1 \in 1 .. Len(waiting)
      BY <1>3
    <3>2. waiting[i + 1] # waiting[1]
      BY <3>1 DEF StackInv, WayInv
    <3> QED
      BY <1>2, <3>1, <3>2 DEF Waits
  <2>2. Waits(accepted)
    BY <1>2, <1>3 DEF Waits
  <2> QED
    BY <1>1, <2>1, <2>2 DEF Pushed, Popped
<1>6. AskInv'
  BY <1>1, <1>4 DEF StackInv, AskInv
<1>7. WayInv'
  <2>1. \A i, j \in 1 .. Len(waiting') : waiting'[i] = waiting'[j] => i = j
    <3> SUFFICES ASSUME NEW i \in 1 .. Len(waiting'), NEW j \in 1 .. Len(waiting'),
                        waiting'[i] = waiting'[j]
                 PROVE  i = j
      OBVIOUS
    <3>1. /\ i + 1 \in 1 .. Len(waiting) /\ j + 1 \in 1 .. Len(waiting)
          /\ waiting[i + 1] = waiting[j + 1]
      BY <1>3
    <3>2. i + 1 = j + 1
      BY <3>1 DEF StackInv, WayInv
    <3> QED
      BY <3>2
  <2>2. ASSUME NEW c \in Client
        PROVE  /\ Waits(c)' \/ Pushed(c)' \/ Popped(c)' =>
                    Unanswered(c)' /\ \A i \in 1 .. Len(cm_events') : ~Asks(i, c)'
               /\ ~(Waits(c)' /\ Pushed(c)')
               /\ ~(Waits(c)' /\ Popped(c)')
               /\ ~(Pushed(c)' /\ Popped(c)')
    BY <1>1, <1>4, <1>5 DEF StackInv, WayInv
  <2> QED
    BY <2>1, <2>2 DEF WayInv
<1>8. TopInv'
  BY <1>1 DEF TopInv
<1>9. Chain'
  <2> SUFFICES ASSUME NEW i \in 0 .. Len(waiting')
               PROVE  accept_rdma_trans'[IF i = 0 THEN NULL ELSE waiting'[i]] =
                        IF i < Len(waiting') THEN waiting'[i + 1] ELSE NULL
    BY DEF Chain
  <2>1. /\ i + 1 \in 1 .. Len(waiting)
        /\ accept_rdma_trans[waiting[i + 1]] =
             IF i + 1 < Len(waiting) THEN waiting[i + 2] ELSE NULL
    <3>1. i + 1 \in 1 .. Len(waiting) /\ i + 1 \in 0 .. Len(waiting) /\ i + 1 # 0 /\ (i + 1) + 1 = i + 2
      BY <1>3
    <3> QED
      BY <3>1 DEF StackInv, Chain
  <2>2. (IF i < Len(waiting') THEN waiting'[i + 1] ELSE NULL)
          = (IF i + 1 < Len(waiting) THEN waiting[i + 2] ELSE NULL)
    BY <1>3
  <2>3. CASE i = 0
    BY <1>1, <1>2, <2>1, <2>2, <2>3 DEF Trans
  <2>4. CASE i # 0
    <3>1. waiting'[i] = waiting[i + 1] /\ waiting[i + 1] \in Client
      BY <1>3, <2>1, <2>4
    <3> QED
      BY <1>1, <2>1, <2>2, <2>4, <3>1 DEF Trans
  <2> QED
    BY <2>3, <2>4
<1>10. EndInv'
  BY <1>1 DEF EndInv
<1> QED
  BY <1>6, <1>7, <1>8, <1>9, <1>10 DEF StackInv

LEMMA StackClear ==
  ASSUME TypeInv, StackInv, Clear
  PROVE  StackInv'
<1> USE ClientAssumption
<1>1. /\ waiting \in Seq(Client) /\ accept_rdma_trans \in [Trans -> Trans]
      /\ main = "clear" /\ main' = "accept" /\ accepted \in Client
      /\ accept_rdma_trans' = [accept_rdma_trans EXCEPT ![accepted] = NULL]
      /\ UNCHANGED <<waiting, accepted, epoll, request, cm, cm_events>>
      /\ epoll = "push" => request \in Client
  BY DEF TypeInv, TypeOK, HeldInv, Clear, Goto, epollVars, cmVars
<1>2. Popped(accepted)
  BY <1>1 DEF Popped
<1>3. /\ \A c \in Client : Waits(c)' = Waits(c) /\ Pushed(c)' = Pushed(c) /\ (Popped(c)' => Popped(c))
      /\ \A c \in Client : Unanswered(c)' = Unanswered(c)
      /\ \A c \in Client : \A i : Asks(i, c)' = Asks(i, c)
  BY <1>1 DEF Waits, Pushed, Popped, Unanswered, Asks
<1>4. AskInv'
  BY <1>1, <1>3 DEF StackInv, AskInv
<1>5. WayInv'
  BY <1>1, <1>3 DEF StackInv, WayInv
<1>6. TopInv'
  <2>1. epoll = "push" => request # accepted
    BY <1>1, <1>2 DEF StackInv, WayInv, Pushed
  <2> QED
    BY <1>1, <2>1 DEF StackInv, TopInv, Trans
<1>7. Chain'
  <2>1. \A i \in 1 .. Len(waiting) : waiting[i] \in Client /\ waiting[i] # accepted
    BY <1>1, <1>2 DEF StackInv, WayInv, Waits
  <2> SUFFICES ASSUME NEW i \in 0 .. Len(waiting)
               PROVE  accept_rdma_trans'[IF i = 0 THEN NULL ELSE waiting[i]] =
                        IF i < Len(waiting) THEN waiting[i + 1] ELSE NULL
    BY <1>1 DEF Chain
  <2>2. (IF i = 0 THEN NULL ELSE waiting[i]) # accepted
    BY <1>1, <2>1
  <2>3. (IF i = 0 THEN NULL ELSE waiting[i]) \in Trans
    BY <1>1, <2>1 DEF Trans
  <2> QED
    BY <1>1, <2>2, <2>3 DEF StackInv, Chain
<1>8. EndInv'
  BY <1>1 DEF EndInv
<1> QED
  BY <1>4, <1>5, <1>6, <1>7, <1>8 DEF StackInv

LEMMA StackAccept ==
  ASSUME TypeInv, StackInv, Accept
  PROVE  StackInv'
<1>1. /\ main = "accept" /\ accepted \in Client
      /\ main' \in {"connecting", "join"}
      /\ main' = "join" => UNCHANGED cm /\ cm[accepted] # "requested"
      /\ cm \in [Client -> {"away", "requested", "gone", "accepted", "up", "failed", "down"}]
      /\ \A c \in Client \ {accepted} : cm'[c] = cm[c]
      /\ UNCHANGED <<accept_rdma_trans, waiting, accepted, epoll, request, cm_events>>
  BY DEF TypeInv, TypeOK, HeldInv, Accept, stackVars, epollVars
<1>2. Popped(accepted)
  BY <1>1 DEF Popped
<1>3. /\ \A c \in Client : Waits(c)' = Waits(c) /\ Pushed(c)' = Pushed(c) /\ ~Popped(c)'
      /\ \A c \in Client : c # accepted => Unanswered(c)' = Unanswered(c)
      /\ \A c \in Client : \A i : Asks(i, c)' = Asks(i, c)
  BY <1>1 DEF Waits, Pushed, Popped, Unanswered, Asks
<1>4. /\ \A i \in 1 .. Len(cm_events) : ~Asks(i, accepted)
      /\ ~Waits(accepted) /\ ~Pushed(accepted) /\ Unanswered(accepted)
  BY <1>1, <1>2 DEF StackInv, WayInv
<1>5. AskInv'
  BY <1>1, <1>3, <1>4 DEF StackInv, AskInv
<1>6. WayInv'
  BY <1>1, <1>3, <1>4 DEF StackInv, WayInv
<1>7. TopInv' /\ Chain'
  BY <1>1 DEF StackInv, TopInv, Chain
<1>8. EndInv'
  BY <1>1, <1>4 DEF EndInv, Unanswered
<1> QED
  BY <1>5, <1>6, <1>7, <1>8 DEF StackInv

\* Who handles an event takes it from the front.
LEMMA TakeFront ==
  ASSUME TypeInv, AskInv, NEW c \in Client, NEW event, TakeEvent(c, event), UNCHANGED cm
  PROVE  /\ AskInv'
         /\ \A d \in Client : (\A i \in 1 .. Len(cm_events) : ~Asks(i, d)) =>
              \A i \in 1 .. Len(cm_events') : ~Asks(i, d)'
         /\ event = "CONNECT_REQUEST" =>
              /\ Asks(1, c) /\ 1 \in 1 .. Len(cm_events)
              /\ Unanswered(c)
              /\ \A i \in 1 .. Len(cm_events') : ~Asks(i, c)'
<1>1. /\ cm_events \in Seq(CmEvent \X Client) /\ cm_events # << >>
      /\ cm_events' = Tail(cm_events) /\ Head(cm_events) = <<event, c>>
  BY DEF TypeInv, TypeOK, TakeEvent
<1>2. /\ Len(cm_events) \in Nat /\ Len(cm_events) > 0
      /\ cm_events[1] = <<event, c>>
      /\ Len(cm_events') = Len(cm_events) - 1
      /\ \A i \in 1 .. Len(cm_events) - 1 : cm_events'[i] = cm_events[i + 1]
  BY <1>1, TailOf
<1>3. \A d \in Client : \A i \in 1 .. Len(cm_events') :
        /\ i + 1 \in 1 .. Len(cm_events) /\ i + 1 # 1
        /\ Asks(i, d)' <=> Asks(i + 1, d)
  BY <1>2 DEF Asks
<1>4. \A d \in Client : Unanswered(d)' = Unanswered(d)
  BY DEF Unanswered
<1>5. AskInv'
  <2> SUFFICES ASSUME NEW d \in Client, NEW i \in 1 .. Len(cm_events'), Asks(i, d)'
               PROVE  Unanswered(d)' /\ \A j \in 1 .. Len(cm_events') : Asks(j, d)' => j = i
    BY DEF AskInv
  <2>1. Asks(i + 1, d) /\ i + 1 \in 1 .. Len(cm_events)
    BY <1>3
  <2>2. Unanswered(d)
    BY <2>1 DEF AskInv
  <2>3. ASSUME NEW j \in 1 .. Len(cm_events'), Asks(j, d)'
        PROVE  j = i
    <3>1. Asks(j + 1, d) /\ j + 1 \in 1 .. Len(cm_events)
      BY <1>3, <2>3
    <3>2. j + 1 = i + 1
      BY <2>1, <3>1 DEF AskInv
    <3> QED
      BY <3>2
  <2> QED
    BY <1>4, <2>2, <2>3
<1>6. ASSUME event = "CONNECT_REQUEST"
      PROVE  /\ Asks(1, c) /\ 1 \in 1 .. Len(cm_events)
             /\ Unanswered(c)
             /\ \A i \in 1 .. Len(cm_events') : ~Asks(i, c)'
  <2>1. Asks(1, c) /\ 1 \in 1 .. Len(cm_events)
    BY <1>2, <1>6 DEF Asks
  <2>2. Unanswered(c) /\ \A j \in 1 .. Len(cm_events) : Asks(j, c) => j = 1
    BY <2>1 DEF AskInv
  <2> QED
    BY <1>3, <2>1, <2>2
<1> QED
  BY <1>3, <1>5, <1>6

\* The events that are not requests, and a request whose handler fails.
LEMMA StackTakes ==
  ASSUME TypeInv, StackInv, NEW c \in Client, NEW event, TakeEvent(c, event),
         UNCHANGED <<accept_rdma_trans, waiting, epoll, request, main, accepted, next, cm>>
  PROVE  StackInv'
<1>1. /\ \A d \in Client : Waits(d)' = Waits(d) /\ Pushed(d)' = Pushed(d) /\ Popped(d)' = Popped(d)
      /\ \A d \in Client : Unanswered(d)' = Unanswered(d)
  BY DEF Waits, Pushed, Popped, Unanswered
<1>2. AskInv
  BY DEF StackInv
<1>3. AskInv'
  BY <1>2, TakeFront
<1>4. \A d \in Client : (\A i \in 1 .. Len(cm_events) : ~Asks(i, d)) =>
        \A i \in 1 .. Len(cm_events') : ~Asks(i, d)'
  BY <1>2, TakeFront
<1>5. WayInv'
  BY <1>1, <1>4 DEF StackInv, WayInv
<1>6. TopInv' /\ Chain' /\ EndInv'
  BY DEF StackInv, TopInv, Chain, EndInv
<1> QED
  BY <1>3, <1>5, <1>6 DEF StackInv

\* The transport of a request that was pending until now is on no way yet.
LEMMA StackRequest ==
  ASSUME TypeInv, StackInv, NEW c \in Client, TakeEvent(c, "CONNECT_REQUEST"),
         main # "pop", epoll' = "push", request' = c,
         accept_rdma_trans' = [accept_rdma_trans EXCEPT ![c] = accept_rdma_trans[NULL]],
         UNCHANGED <<waiting, main, accepted, next, cm>>
  PROVE  StackInv'
<1> USE ClientAssumption
<1>1. /\ waiting \in Seq(Client) /\ accept_rdma_trans \in [Trans -> Trans]
      /\ epoll = "idle"
      /\ AskInv
  BY DEF TypeInv, TypeOK, StackInv, TakeEvent
<1>2. /\ Unanswered(c) /\ Asks(1, c) /\ 1 \in 1 .. Len(cm_events)
      /\ \A i \in 1 .. Len(cm_events') : ~Asks(i, c)'
      /\ AskInv'
      /\ \A d \in Client : (\A i \in 1 .. Len(cm_events) : ~Asks(i, d)) =>
           \A i \in 1 .. Len(cm_events') : ~Asks(i, d)'
  BY <1>1, TakeFront
<1>3. /\ \A d \in Client : Waits(d)' = Waits(d) /\ Popped(d)' = Popped(d)
      /\ \A d \in Client : Pushed(d)' <=> d = c
      /\ \A d \in Client : Unanswered(d)' = Unanswered(d)
  BY DEF Waits, Pushed, Popped, Unanswered
<1>4. ~Waits(c) /\ ~Popped(c)
  BY <1>2 DEF StackInv, WayInv
<1>5. WayInv'
  BY <1>2, <1>3, <1>4 DEF StackInv, WayInv
<1>6. TopInv' /\ EndInv'
  BY <1>1 DEF StackInv, TopInv, EndInv, Trans
<1>7. Chain'
  <2>1. \A i \in 1 .. Len(waiting) : waiting[i] \in Client /\ waiting[i] # c
    BY <1>1, <1>4 DEF Waits
  <2> SUFFICES ASSUME NEW i \in 0 .. Len(waiting)
               PROVE  accept_rdma_trans'[IF i = 0 THEN NULL ELSE waiting[i]] =
                        IF i < Len(waiting) THEN waiting[i + 1] ELSE NULL
    BY DEF Chain
  <2>2. (IF i = 0 THEN NULL ELSE waiting[i]) # c
    BY <2>1
  <2>3. (IF i = 0 THEN NULL ELSE waiting[i]) \in Trans
    BY <1>1, <2>1 DEF Trans
  <2> QED
    BY <1>1, <2>2, <2>3 DEF StackInv, Chain
<1> QED
  BY <1>2, <1>5, <1>6, <1>7 DEF StackInv

\* The pushed transport becomes the head, over the one it has read there.
LEMMA StackPush ==
  ASSUME TypeInv, StackInv, Push
  PROVE  StackInv'
<1> USE ClientAssumption
<1>1. /\ waiting \in Seq(Client) /\ accept_rdma_trans \in [Trans -> Trans]
      /\ request \in Client /\ epoll = "push" /\ epoll' = "idle" /\ main # "pop"
      /\ accept_rdma_trans' = [accept_rdma_trans EXCEPT ![NULL] = request]
      /\ accept_rdma_trans[request] = accept_rdma_trans[NULL]
      /\ waiting' = <<request>> \o waiting
      /\ UNCHANGED <<main, accepted, next, cm, cm_events>>
  BY DEF TypeInv, TypeOK, HeldInv, StackInv, TopInv, Push, mainVars, cmVars
<1>2. /\ Len(waiting) \in Nat
      /\ Len(waiting') = Len(waiting) + 1
      /\ waiting'[1] = request
      /\ \A i \in 2 .. Len(waiting) + 1 : waiting'[i] = waiting[i - 1]
      /\ \A i \in 1 .. Len(waiting) : waiting[i] \in Client
  BY <1>1, PushOn
<1>3. /\ \A d \in Client : ~Pushed(d)' /\ Popped(d)' = Popped(d)
      /\ \A d \in Client : Unanswered(d)' = Unanswered(d)
      /\ \A d \in Client : \A i : Asks(i, d)' = Asks(i, d)
      /\ Pushed(request)
  BY <1>1 DEF Pushed, Popped, Unanswered, Asks
<1>4. ~Waits(request) /\ ~Popped(request)
  BY <1>1, <1>3 DEF StackInv, WayInv
<1>5. ASSUME NEW d \in Client, Waits(d)'
      PROVE  Waits(d) \/ d = request
  <2>1. PICK i \in 1 .. Len(waiting') : waiting'[i] = d
    BY <1>5 DEF Waits
  <2>2. CASE i = 1
    BY <1>2, <2>1, <2>2
  <2>3. CASE i # 1
    <3>1. i - 1 \in 1 .. Len(waiting) /\ waiting[i - 1] = d
      BY <1>2, <2>1, <2>3
    <3> QED
      BY <3>1 DEF Waits
  <2> QED
    BY <2>2, <2>3
<1>6. AskInv'
  BY <1>1, <1>3 DEF StackInv, AskInv
<1>7. WayInv'
  <2>1. ASSUME NEW i \in 1 .. Len(waiting'), NEW j \in 1 .. Len(waiting'),
               waiting'[i] = waiting'[j]
        PROVE  i = j
    <3>1. \A k \in 2 .. Len(waiting') : k - 1 \in 1 .. Len(waiting) /\ waiting'[k] # request
      BY <1>2, <1>4 DEF Waits
    <3>2. CASE i = 1 \/ j = 1
      BY <1>2, <2>1, <3>1, <3>2
    <3>3. CASE i # 1 /\ j # 1
      <4>1. /\ i - 1 \in 1 .. Len(waiting) /\ j - 1 \in 1 .. Len(waiting)
            /\ waiting[i - 1] = waiting[j - 1]
        BY <1>2, <2>1, <3>3
      <4>2. i - 1 = j - 1
        BY <4>1 DEF StackInv, WayInv
      <4> QED
        BY <4>2
    <3> QED
      BY <3>2, <3>3
  <2>2. ASSUME NEW d \in Client
        PROVE  /\ Waits(d)' \/ Pushed(d)' \/ Popped(d)' =>
                    Unanswered(d)' /\ \A i \in 1 .. Len(cm_events') : ~Asks(i, d)'
               /\ ~(Waits(d)' /\ Pushed(d)')
               /\ ~(Waits(d)' /\ Popped(d)')
               /\ ~(Pushed(d)' /\ Popped(d)')
    BY <1>1, <1>3, <1>4, <1>5 DEF StackInv, WayInv
  <2> QED
    BY <2>1, <2>2 DEF WayInv
<1>8. TopInv' /\ EndInv'
  BY <1>1 DEF StackInv, TopInv, EndInv
<1>9. Chain'
  <2> SUFFICES ASSUME NEW i \in 0 .. Len(waiting')
               PROVE  accept_rdma_trans'[IF i = 0 THEN NULL ELSE waiting'[i]] =
                        IF i < Len(waiting') THEN waiting'[i + 1] ELSE NULL
    BY DEF Chain
  <2>1. CASE i = 0
    BY <1>1, <1>2, <2>1 DEF Trans
  <2>2. CASE i # 0
    <3> DEFINE k == i - 1
    <3>1. k \in 0 .. Len(waiting) /\ i = k + 1
      BY <1>2, <2>2
    <3>2. accept_rdma_trans[IF k = 0 THEN NULL ELSE waiting[k]] =
            IF k < Len(waiting) THEN waiting[k + 1] ELSE NULL
      BY <3>1 DEF StackInv, Chain
    <3>3. (IF i < Len(waiting') THEN waiting'[i + 1] ELSE NULL)
            = (IF k < Len(waiting) THEN waiting[k + 1] ELSE NULL)
      BY <1>2, <3>1
    <3>4. /\ waiting'[i] = IF k = 0 THEN request ELSE waiting[k]
          /\ waiting'[i] \in Client
      BY <1>1, <1>2, <3>1
    <3>5. accept_rdma_trans'[waiting'[i]] = accept_rdma_trans[waiting'[i]]
      BY <1>1, <3>4 DEF Trans
    <3> QED
      BY <1>1, <2>2, <3>1, <3>2, <3>3, <3>4, <3>5
  <2> QED
    BY <2>1, <2>2
<1> QED
  BY <1>6, <1>7, <1>8, <1>9 DEF StackInv

\* What the connection manager adds asks for nobody who has asked before.
LEMMA StackCmStep ==
  ASSUME TypeInv, StackInv, NEW c \in Client, NEW from,
         NEW to, NEW event \in CmEvent, CmStep(c, from, to, << <<event, c>> >>),
         event = "CONNECT_REQUEST" => from = "away" /\ to = "requested",
         event # "CONNECT_REQUEST" => from \in {"accepted", "up"}
  PROVE  StackInv'
<1>1. /\ cm[c] = from
      /\ cm \in [Client -> {"away", "requested", "gone", "accepted", "up", "failed", "down"}]
      /\ cm' = [cm EXCEPT ![c] = to]
      /\ cm_events \in Seq(CmEvent \X Client)
      /\ cm_events' = cm_events \o << <<event, c>> >>
      /\ UNCHANGED <<accept_rdma_trans, waiting, epoll, request, main, accepted, next>>
  BY DEF TypeInv, TypeOK, CmStep, stackVars, mainVars, epollVars
<1>2. /\ Len(cm_events) \in Nat
      /\ Len(cm_events') = Len(cm_events) + 1
      /\ cm_events'[Len(cm_events) + 1] = <<event, c>>
      /\ \A i \in 1 .. Len(cm_events) : cm_events'[i] = cm_events[i]
  <2>1. <<event, c>> \in CmEvent \X Client
    OBVIOUS
  <2> QED
    BY <1>1, <2>1, AppendTo
<1>3. /\ \A d \in Client : Waits(d)' = Waits(d) /\ Pushed(d)' = Pushed(d) /\ Popped(d)' = Popped(d)
      /\ \A d \in Client : d # c => Unanswered(d)' = Unanswered(d)
      /\ \A d \in Client : \A i \in 1 .. Len(cm_events) : Asks(i, d)' <=> Asks(i, d)
      /\ \A d \in Client : \A i : i = Len(cm_events) + 1 /\ Asks(i, d)' =>
           d = c /\ event = "CONNECT_REQUEST"
  <2>1. \A d \in Client : Waits(d)' = Waits(d) /\ Pushed(d)' = Pushed(d) /\ Popped(d)' = Popped(d)
    BY <1>1 DEF Waits, Pushed, Popped
  <2>2. \A d \in Client : d # c => Unanswered(d)' = Unanswered(d)
    BY <1>1 DEF Unanswered
  <2>3. \A d \in Client : \A i \in 1 .. Len(cm_events) : Asks(i, d)' <=> Asks(i, d)
    BY <1>2 DEF Asks
  <2>4. ASSUME NEW d \in Client, NEW n, n = Len(cm_events) + 1, cm_events'[n] = <<"CONNECT_REQUEST", d>>
        PROVE  d = c /\ event = "CONNECT_REQUEST"
    BY <1>2, <2>4
  <2> QED
    BY <1>2, <2>1, <2>2, <2>3, <2>4 DEF Asks
\* The client that steps has no request pending and is not on the way.
<1>4. /\ ~Unanswered(c)
      /\ event = "CONNECT_REQUEST" => Unanswered(c)'
  BY <1>1 DEF Unanswered
<1>5. /\ \A i \in 1 .. Len(cm_events) : ~Asks(i, c)
      /\ ~Waits(c) /\ ~Pushed(c) /\ ~Popped(c)
  BY <1>4 DEF StackInv, AskInv, WayInv
<1>6. \A i : i \in 1 .. Len(cm_events') <=> i \in 1 .. Len(cm_events) \/ i = Len(cm_events) + 1
  BY <1>2
<1>7. AskInv'
  <2> SUFFICES ASSUME NEW d \in Client, NEW i \in 1 .. Len(cm_events'), Asks(i, d)'
               PROVE  Unanswered(d)' /\ \A j \in 1 .. Len(cm_events') : Asks(j, d)' => j = i
    BY DEF AskInv
  <2>1. CASE d = c
    <3>1. \A j \in 1 .. Len(cm_events') : Asks(j, d)' => j = Len(cm_events) + 1
      BY <1>3, <1>5, <1>6, <2>1
    <3>2. event = "CONNECT_REQUEST"
      BY <1>3, <3>1
    <3> QED
      BY <1>4, <2>1, <3>1, <3>2
  <2>2. CASE d # c
    <3>1. \A j \in 1 .. Len(cm_events') : Asks(j, d)' => j \in 1 .. Len(cm_events) /\ Asks(j, d)
      BY <1>3, <1>6, <2>2
    <3>2. AskInv
      BY DEF StackInv
    <3> QED
      BY <1>3, <2>2, <3>1, <3>2 DEF AskInv
  <2> QED
    BY <2>1, <2>2
<1>8. WayInv'
  <2>1. \A d \in Client : Waits(d)' \/ Pushed(d)' \/ Popped(d)' =>
          Unanswered(d)' /\ \A i \in 1 .. Len(cm_events') : ~Asks(i, d)'
    <3> SUFFICES ASSUME NEW d \in Client, Waits(d) \/ Pushed(d) \/ Popped(d)
                 PROVE  Unanswered(d)' /\ \A i \in 1 .. Len(cm_events') : ~Asks(i, d)'
      BY <1>3
    <3>1. d # c
      BY <1>5
    <3>2. Unanswered(d) /\ \A i \in 1 .. Len(cm_events) : ~Asks(i, d)
      BY DEF StackInv, WayInv
    <3>3. \A i \in 1 .. Len(cm_events') : ~Asks(i, d)'
      BY <1>3, <1>6, <3>1, <3>2
    <3> QED
      BY <1>3, <3>1, <3>2, <3>3
  <2>2. \A i, j \in 1 .. Len(waiting') : waiting'[i] = waiting'[j] => i = j
    BY <1>1 DEF StackInv, WayInv
  <2>3. \A d \in Client : /\ ~(Waits(d)' /\ Pushed(d)')
                          /\ ~(Waits(d)' /\ Popped(d)')
                          /\ ~(Pushed(d)' /\ Popped(d)')
    BY <1>3 DEF StackInv, WayInv
  <2> QED
    BY <2>1, <2>2, <2>3 DEF WayInv
<1>9. TopInv' /\ Chain'
  BY <1>1 DEF StackInv, TopInv, Chain
<1>10. EndInv'
  <2>1. cm[c] # "gone"
    BY <1>4 DEF Unanswered
  <2> QED
    BY <1>1, <2>1 DEF StackInv, EndInv
<1> QED
  BY <1>7, <1>8, <1>9, <1>10 DEF StackInv

-----------------------------------------------------------------------------
(* The steps. *)

LEMMA StackMain ==
  ASSUME TypeInv, StackInv, Main, ~raced'
  PROVE  StackInv'
<1> USE DEF Goto, stackVars, epollVars, cmVars
<1>1. CASE Discover
  BY <1>1, StackStays DEF Discover
<1>2. CASE ReadTop
  <2>1. epoll # "push"
    BY <1>2 DEF ReadTop
  <2> QED
    BY <1>2, <2>1, StackReadTop
<1>3. CASE Pop
  BY <1>3, StackPop
<1>4. CASE Clear
  BY <1>4, StackClear
<1>5. CASE Accept
  BY <1>5, StackAccept
<1>6. CASE SetConnecting
  BY <1>6, StackStays DEF SetConnecting
<1>7. CASE Greet
  BY <1>7, StackStays DEF Greet
<1>8. CASE Join
  BY <1>8, StackStays DEF Join
<1> QED
  BY <1>1, <1>2, <1>3, <1>4, <1>5, <1>6, <1>7, <1>8 DEF Main

LEMMA StackEpoll ==
  ASSUME TypeInv, StackInv, Epoll, ~raced'
  PROVE  StackInv'
<1> USE DEF stackVars, mainVars, epollVars, cmVars
<1>1. CASE Push
  BY <1>1, StackPush
<1>2. CASE LoopExit
  BY <1>2, StackStays DEF LoopExit
<1>3. ASSUME NEW c \in Client, ConnectRequest(c)
      PROVE  StackInv'
  <2>1. TakeEvent(c, "CONNECT_REQUEST") /\ UNCHANGED <<waiting, main, accepted, next, cm>>
    BY <1>3 DEF ConnectRequest
  <2>2. CASE UNCHANGED <<epoll, request, accept_rdma_trans, raced>>
    BY <2>1, <2>2, StackTakes
  <2>3. CASE /\ epoll' = "push" /\ request' = c /\ main # "pop"
             /\ accept_rdma_trans' =
                  [accept_rdma_trans EXCEPT ![c] = accept_rdma_trans[NULL]]
    BY <2>1, <2>3, StackRequest
  <2> QED
    BY <1>3, <2>2, <2>3 DEF ConnectRequest
<1>4. ASSUME NEW c \in Client, Established(c)
      PROVE  StackInv'
  BY <1>4, StackTakes DEF Established
<1>5. ASSUME NEW c \in Client, ConnectError(c)
      PROVE  StackInv'
  <2>1. TakeEvent(c, "CONNECT_ERROR")
    BY <1>5 DEF ConnectError
  <2>2. UNCHANGED <<accept_rdma_trans, waiting, epoll, request, main, accepted, next, cm>>
    BY <1>5 DEF ConnectError
  <2> QED
    BY <2>1, <2>2, StackTakes
<1>6. ASSUME NEW c \in Client, Disconnected(c)
      PROVE  StackInv'
  <2>1. TakeEvent(c, "DISCONNECTED")
    BY <1>6 DEF Disconnected
  <2>2. UNCHANGED <<accept_rdma_trans, waiting, epoll, request, main, accepted, next, cm>>
    BY <1>6 DEF Disconnected
  <2> QED
    BY <2>1, <2>2, StackTakes
<1>7. ASSUME NEW c \in Client, RecvMr(c)
      PROVE  StackInv'
  <2>1. UNCHANGED <<accept_rdma_trans, waiting, epoll, request, main, accepted, next, cm, cm_events>>
    BY <1>7 DEF RecvMr
  <2> QED
    BY <2>1, StackStays
<1> QED
  BY <1>1, <1>2, <1>3, <1>4, <1>5, <1>6, <1>7 DEF Epoll

LEMMA StackClients ==
  ASSUME TypeInv, StackInv, Clients
  PROVE  StackInv'
<1>1. ASSUME NEW c \in Client, Request(c)
      PROVE  StackInv'
  BY <1>1, StackCmStep DEF Request, CmEvent
<1>2. ASSUME NEW c \in Client, Confirm(c)
      PROVE  StackInv'
  BY <1>2, StackCmStep DEF Confirm, CmEvent
<1>3. ASSUME NEW c \in Client, Leave(c)
      PROVE  StackInv'
  BY <1>3, StackCmStep DEF Leave, CmEvent
<1>4. ASSUME NEW c \in Client, ConfirmFails(c)
      PROVE  StackInv'
  BY <1>4, StackCmStep DEF ConfirmFails, CmEvent
<1>5. ASSUME NEW c \in Client, GoneEarly(c)
      PROVE  StackInv'
  <2>1. cm_events' = cm_events
    BY <1>5, AppendNone DEF GoneEarly, CmStep, TypeInv, TypeOK
  <2>2. /\ cm[c] = "requested" /\ cm' = [cm EXCEPT ![c] = "gone"]
        /\ UNCHANGED <<accept_rdma_trans, waiting, epoll, request, main, accepted, next>>
    BY <1>5 DEF GoneEarly, CmStep, stackVars, mainVars, epollVars
  <2> QED
    BY <2>1, <2>2, StackStays
<1>6. ASSUME NEW c \in Client, LoseMr(c)
      PROVE  StackInv'
  <2>1. UNCHANGED <<accept_rdma_trans, waiting, epoll, request, main, accepted, next, cm, cm_events>>
    BY <1>6 DEF LoseMr, stackVars, mainVars, epollVars, cmVars
  <2> QED
    BY <2>1, StackStays
<1> QED
  BY <1>1, <1>2, <1>3, <1>4, <1>5, <1>6 DEF Clients

LEMMA ServerInit == Init => ServerInv
BY TypeInit, StackInit DEF ServerInv

LEMMA ServerNext == ServerInv /\ [Next]_vars => ServerInv'
<1> SUFFICES ASSUME ServerInv, [Next]_vars PROVE ServerInv'
  OBVIOUS
<1>1. TypeInv /\ TypeInv'
  BY TypeNext DEF ServerInv
\* A race is not forgotten.
<1>2. ~raced' => ~raced
  BY DEF Next, Main, Epoll, Clients, vars, Discover, ReadTop, Pop, Clear, Accept,
         SetConnecting, Greet, Join, Push, LoopExit, ConnectRequest, Established,
         ConnectError, Disconnected, RecvMr, Request, Confirm, Leave, GoneEarly,
         ConfirmFails, LoseMr, CmStep, stackVars
<1>3. ASSUME ~raced'
      PROVE  StackInv'
  <2>1. StackInv
    BY <1>2, <1>3 DEF ServerInv
  <2>2. CASE UNCHANGED vars
    BY <1>1, <2>1, <2>2, StackStays DEF vars, stackVars, mainVars, epollVars, cmVars
  <2> QED
    BY <1>1, <1>3, <2>1, <2>2, StackMain, StackEpoll, StackClients DEF Next
<1> QED
  BY <1>1, <1>3 DEF ServerInv

\* The accept stack, which has no lock, loses and repeats no client as long as
\* main does not pop while on_cm_connect_request pushes, however many clients
\* ask and whatever fails.
THEOREM StackHolds == Spec => []StackHoldsWaiting
<1>1. ServerInv => StackHoldsWaiting
  BY DEF ServerInv, StackInv, Chain, StackHoldsWaiting
<1> QED
  BY <1>1, ServerInit, ServerNext, PTL DEF Spec

\* Main leaves the loop of server.c only for a client that has gone before
\* rdma_accept, or after that race: the transport it pops has always asked and
\* never been accepted.
THEOREM LoopEnds == Spec => []LoopEndsOnError
<1>1. ServerInv => LoopEndsOnError
  BY DEF ServerInv, StackInv, EndInv, LoopEndsOnError
<1> QED
  BY <1>1, ServerInit, ServerNext, PTL DEF Spec
=============================================================================
