------------------------ MODULE HmrCompletionProofs ------------------------
(***************************************************************************)
(* The completion queue of HmrCompletion loses no wakeup and has at most   *)
(* one event waiting, whatever its size and the number of work requests.   *)
(***************************************************************************)
EXTENDS HmrCompletion, TLAPS

\* The event and the armed queue are one token: the queue is armed, or its
\* event waits, or the handler has just taken it, or arming has failed.  The
\* token is in the queue when the thread sleeps only if nothing is in there.
Token ==
  /\ armed => channel = 0
  /\ channel <= 1
  /\ stage = "got" => ~armed /\ channel = 0
  /\ stage = "poll" => armed \/ channel = 1
  /\ stage = "idle" /\ ~notify_failed =>
       (armed /\ cqes = 0) \/ (~armed /\ channel = 1)

Inv == TypeOK /\ Token

LEMMA InvInit == Init => Inv
<1> SUFFICES ASSUME Init PROVE Inv
  OBVIOUS
<1>1. TypeOK
  <2>1. overrun \in BOOLEAN /\ armed \in BOOLEAN /\ notify_failed \in BOOLEAN
    BY Zenon DEF Init
  <2>2. outstanding \in 0..MaxWr /\ made \in Nat /\ cqes \in 0..CqSize /\ channel \in Nat
    BY SizeAssumption DEF Init
  <2> QED
    BY <2>1, <2>2, Zenon DEF Init, TypeOK
<1>2. Token
  BY DEF Init, Token
<1> QED
  BY <1>1, <1>2 DEF Inv

\* Every step passes the token on.
LEMMA InvStep == Inv /\ [Next]_vars => Inv'
<1> SUFFICES ASSUME Inv, [Next]_vars PROVE Inv'
  OBVIOUS
<1>1. CASE Post
  <2>1. TypeOK'
    BY <1>1, SizeAssumption DEF Post, Inv, TypeOK
  <2>2. Token'
    BY <1>1, SizeAssumption DEF Post, Inv, TypeOK, Token
  <2> QED
    BY <2>1, <2>2 DEF Inv
<1>2. CASE Complete
  <2>1. TypeOK'
    <3>1. overrun' \in BOOLEAN /\ armed' \in BOOLEAN
      BY <1>2, Zenon DEF Complete, Inv, TypeOK
    <3>2. outstanding' \in 0..MaxWr /\ cqes' \in 0..CqSize /\ channel' \in Nat
      BY <1>2, SizeAssumption DEF Complete, Inv, TypeOK
    <3> QED
      BY <1>2, <3>1, <3>2, Zenon DEF Complete, Inv, TypeOK
  <2>2. Token'
    BY <1>2, SizeAssumption DEF Complete, Inv, TypeOK, Token
  <2> QED
    BY <2>1, <2>2 DEF Inv
<1>3. CASE GetEvent
  <2>1. TypeOK'
    BY <1>3, SizeAssumption DEF GetEvent, AfterGet, Inv, TypeOK
  <2>2. Token'
    BY <1>3, SizeAssumption DEF GetEvent, AfterGet, Inv, TypeOK, Token
  <2> QED
    BY <2>1, <2>2 DEF Inv
<1>4. CASE ReqNotify
  <2>1. TypeOK'
    BY <1>4, Zenon DEF ReqNotify, Inv, TypeOK
  <2>2. Token'
    BY <1>4, SizeAssumption DEF ReqNotify, Inv, TypeOK, Token
  <2> QED
    BY <2>1, <2>2 DEF Inv
<1>5. CASE Poll
  <2>1. TypeOK'
    BY <1>5, SizeAssumption DEF Poll, AfterPoll, Inv, TypeOK
  <2>2. Token'
    BY <1>5, SizeAssumption DEF Poll, AfterPoll, Inv, TypeOK, Token
  <2> QED
    BY <2>1, <2>2 DEF Inv
<1>6. CASE UNCHANGED vars
  <2>1. TypeOK'
    BY <1>6, SizeAssumption DEF vars, Inv, TypeOK
  <2>2. Token'
    BY <1>6, SizeAssumption DEF vars, Inv, TypeOK, Token
  <2> QED
    BY <2>1, <2>2 DEF Inv
<1> QED
  BY <1>1, <1>2, <1>3, <1>4, <1>5, <1>6 DEF Next, Handler

\* The queue, the channel and the handler always have their types.
THEOREM CompletionTypes == Spec => []TypeOK
<1>1. Inv => TypeOK
  BY DEF Inv
<1> QED
  BY <1>1, InvInit, InvStep, PTL DEF Spec

\* The epoll thread never sleeps on a completion without an event to wake it,
\* unless ibv_req_notify_cq has failed.
THEOREM WakeupNeverLost == Spec => []NoLostWakeup
<1>1. Inv => NoLostWakeup
  BY DEF Inv, TypeOK, Token, NoLostWakeup
<1> QED
  BY <1>1, InvInit, InvStep, PTL DEF Spec

\* The completion channel never holds a second event, so that acknowledging one
\* per handler call acknowledges all.
THEOREM AtMostOneEvent == Spec => []OneEvent
<1>1. Inv => OneEvent
  BY DEF Inv, Token, OneEvent
<1> QED
  BY <1>1, InvInit, InvStep, PTL DEF Spec
=============================================================================
