-------------------------- MODULE HmrMempoolProofs --------------------------
(***************************************************************************)
(* Proofs about the memory pool.  The receive buffers of one thread        *)
(* (HmrRecvRing) are never in use twice, for every number of slots and     *)
(* however few of them are kept spare; nor are those of a server's two     *)
(* threads (HmrServerRecv), nor the send buffers (HmrMempool), under the   *)
(* conditions that PostersExclusive and SendBuffersExclusive name.         *)
(***************************************************************************)
EXTENDS HmrMempool, SequenceTheorems, WellFoundedInduction, TLAPS

-----------------------------------------------------------------------------
(* The receive buffers of one thread. *)

\* The slot handed out d receives before a cursor, going back round the circle.
Behind(cursor, d) == IF cursor >= d THEN cursor - d ELSE cursor - d + Slots

\* What is in use, with what is read, are the slots right behind the cursor, no
\* more of them than were posted in advance.
Circle ==
  /\ Len(in_use) > 0 \/ reading # {} => used_recv_region > 0
  /\ \A i \in 1..Len(in_use) :
       in_use[i] = Behind(used_recv_region, Len(in_use) + 1 - i)
  /\ reading # {} => /\ reading = {Behind(used_recv_region, Len(in_use) + 1)}
                     /\ Len(in_use) + 1 <= Slots - Spare
                     /\ handling = "RECV"
  /\ handling = "RECV" => reading # {} /\ to_post = 0
  /\ handling # "RECV" => Len(in_use) + to_post <= Slots - Spare

Inv == TypeOK /\ Circle

\* Slots at different distances behind the cursor are different slots.
LEMMA BehindDistinct ==
  ASSUME NEW cursor \in 1..Slots, NEW c \in 1..Slots, NEW d \in 1..Slots, c # d
  PROVE  Behind(cursor, c) # Behind(cursor, d) /\ Behind(cursor, d) \in Slot
BY RingAssumption DEF Behind, Slot

\* One more receive is one step further round: every slot is one more behind.
LEMMA BehindNext ==
  ASSUME NEW cursor \in 0..Slots
  PROVE  /\ Wrapped(cursor) \in Slot
         /\ Wrapped(cursor) + 1 \in 1..Slots
         /\ Wrapped(cursor) = Behind(Wrapped(cursor) + 1, 1)
         /\ cursor > 0 => \A d \in 1 .. Slots - 1 :
              Behind(Wrapped(cursor) + 1, d + 1) = Behind(cursor, d)
BY RingAssumption DEF Behind, Wrapped, Slot

LEMMA InvInit == Init => Inv
<1> SUFFICES ASSUME Init PROVE Inv
  OBVIOUS
<1>1. TypeOK
  BY RingAssumption DEF Init, PrePosted, TypeOK, Slot
<1>2. Circle
  BY RingAssumption DEF Init, PrePosted, Circle
<1> QED
  BY <1>1, <1>2 DEF Inv

\* Posting a receive puts one more slot at the head of the circle.
LEMMA PostKeepsCircle ==
  ASSUME Inv, PostRecv, Len(in_use) < Slots
  PROVE  /\ in_use' \in Seq(Slot) /\ used_recv_region' \in 1..Slots
         /\ Len(in_use') = Len(in_use) + 1
         /\ \A i \in 1..Len(in_use') :
              in_use'[i] = Behind(used_recv_region', Len(in_use') + 1 - i)
<1> DEFINE n == Len(in_use)
<1>1. /\ used_recv_region \in 0..Slots /\ in_use \in Seq(Slot) /\ n \in Nat
  BY DEF Inv, TypeOK
<1>2. /\ in_use' = Append(in_use, Wrapped(used_recv_region))
      /\ used_recv_region' = Wrapped(used_recv_region) + 1
  BY DEF PostRecv
<1>3. /\ in_use' \in Seq(Slot) /\ used_recv_region' \in 1..Slots
      /\ Len(in_use') = n + 1
  BY <1>1, <1>2, BehindNext
<1>4. ASSUME NEW i \in 1..Len(in_use')
      PROVE  in_use'[i] = Behind(used_recv_region', Len(in_use') + 1 - i)
  <2>1. CASE i = n + 1
    <3>1. in_use'[i] = Wrapped(used_recv_region)
      BY <1>1, <1>2, <2>1
    <3>2. Len(in_use') + 1 - i = 1
      BY <1>1, <1>3, <2>1
    <3> QED
      BY <1>1, <1>2, <3>1, <3>2, BehindNext
  <2>2. CASE i <= n
    <3>1. i \in 1..n /\ in_use'[i] = in_use[i]
      BY <1>1, <1>2, <1>3, <2>2
    <3>2. used_recv_region > 0 /\ in_use[i] = Behind(used_recv_region, n + 1 - i)
      BY <1>1, <3>1 DEF Inv, Circle
    <3>3. n + 1 - i \in 1 .. Slots - 1 /\ Len(in_use') + 1 - i = (n + 1 - i) + 1
      BY <1>1, <1>3, <3>1, RingAssumption
    <3> QED
      BY <1>1, <1>2, <3>1, <3>2, <3>3, BehindNext
  <2> QED
    BY <1>1, <1>3, <2>1, <2>2
<1> QED
  BY <1>3, <1>4

LEMMA InvStep == Inv /\ [Next]_vars => Inv'
<1> SUFFICES ASSUME Inv, [Next]_vars PROVE Inv'
  OBVIOUS
<1> USE RingAssumption
<1>1. CASE PrePost
  <2>1. handling # "RECV" /\ reading = {} /\ Len(in_use) < Slots
    BY <1>1 DEF PrePost, Inv, TypeOK, Circle
  <2>2. /\ in_use' \in Seq(Slot) /\ used_recv_region' \in 1..Slots
        /\ Len(in_use') = Len(in_use) + 1
        /\ \A i \in 1..Len(in_use') :
             in_use'[i] = Behind(used_recv_region', Len(in_use') + 1 - i)
    BY <1>1, <2>1, PostKeepsCircle DEF PrePost
  <2>3. TypeOK'
    BY <1>1, <2>2 DEF PrePost, Inv, TypeOK
  <2>4. Circle'
    BY <1>1, <2>1, <2>2 DEF PrePost, Inv, TypeOK, Circle
  <2> QED
    BY <2>3, <2>4 DEF Inv
<1>2. CASE Fill
  BY <1>2 DEF Fill, Inv, TypeOK, Circle
<1>3. CASE PollRecv
  <2>1. /\ in_use # << >> /\ in_use \in Seq(Slot) /\ reading = {}
        /\ used_recv_region \in 1..Slots
    BY <1>3 DEF PollRecv, Received, Inv, TypeOK, Circle
  <2>2. /\ in_use' \in Seq(Slot) /\ Len(in_use') = Len(in_use) - 1
        /\ \A i \in 1..Len(in_use') : in_use'[i] = in_use[i + 1]
        /\ Head(in_use) \in Slot /\ Head(in_use) = in_use[1]
    BY <1>3, <2>1 DEF PollRecv, Received
  <2>3. TypeOK'
    BY <1>3, <2>1, <2>2 DEF PollRecv, Received, Inv, TypeOK
  <2>4. \A i \in 1..Len(in_use') :
          in_use'[i] = Behind(used_recv_region', Len(in_use') + 1 - i)
    <3>1. SUFFICES ASSUME NEW i \in 1..Len(in_use')
          PROVE in_use'[i] = Behind(used_recv_region', Len(in_use') + 1 - i)
      OBVIOUS
    <3>2. i + 1 \in 1..Len(in_use) /\ Len(in_use) + 1 - (i + 1) = Len(in_use') + 1 - i
      <4>1. PICK n \in Nat : n = Len(in_use)
        BY <2>1
      <4>2. Len(in_use') = n - 1
        BY <2>2, <4>1
      <4>3. i \in 1 .. n - 1
        BY <4>2
      <4>4. i + 1 \in 1..n /\ n + 1 - (i + 1) = (n - 1) + 1 - i
        BY <4>3
      <4> QED
        BY <4>1, <4>2, <4>4
    <3>3. in_use[i + 1] = Behind(used_recv_region, Len(in_use) + 1 - (i + 1))
      BY <3>2 DEF Inv, Circle
    <3> QED
      BY <1>3, <2>2, <3>2, <3>3 DEF PollRecv, Received
  <2>5. reading' = {Behind(used_recv_region', Len(in_use') + 1)}
    <3>1. in_use[1] = Behind(used_recv_region, Len(in_use) + 1 - 1)
      BY <2>1 DEF Inv, Circle
    <3>2. Len(in_use) + 1 - 1 = Len(in_use') + 1
      BY <2>1, <2>2
    <3> QED
      BY <1>3, <2>2, <3>1, <3>2 DEF PollRecv, Received
  <2>6. Circle'
    BY <1>3, <2>1, <2>2, <2>4, <2>5 DEF PollRecv, Received, Inv, TypeOK, Circle
  <2> QED
    BY <2>3, <2>6 DEF Inv
<1>4. CASE PollSent
  BY <1>4 DEF PollSent, Acknowledged, Inv, TypeOK, Circle
<1>5. CASE Handled
  <2>1. CASE handling = "RECV"
    <3>1. PostRecv /\ Len(in_use) < Slots /\ to_post = 0
      BY <1>5, <2>1 DEF Handled, Reposts, Inv, TypeOK, Circle
    <3>2. /\ in_use' \in Seq(Slot) /\ used_recv_region' \in 1..Slots
          /\ Len(in_use') = Len(in_use) + 1
          /\ \A i \in 1..Len(in_use') :
               in_use'[i] = Behind(used_recv_region', Len(in_use') + 1 - i)
      BY <3>1, PostKeepsCircle
    <3>3. TypeOK'
      BY <1>5, <3>2 DEF Handled, Inv, TypeOK
    <3>4. Circle'
      BY <1>5, <2>1, <3>1, <3>2 DEF Handled, Inv, TypeOK, Circle
    <3> QED
      BY <3>3, <3>4 DEF Inv
  <2>2. CASE handling # "RECV"
    BY <1>5, <2>2 DEF Handled, Reposts, Inv, TypeOK, Circle
  <2> QED
    BY <2>1, <2>2
<1>6. CASE UNCHANGED vars
  BY <1>6 DEF vars, Inv, TypeOK, Circle
<1> QED
  BY <1>1, <1>2, <1>3, <1>4, <1>5, <1>6 DEF Next

LEMMA RingExclusive == Inv => BuffersExclusive
<1> SUFFICES ASSUME Inv PROVE BuffersExclusive
  OBVIOUS
<1>1. Len(in_use) \in Nat /\ Len(in_use) <= Slots /\ Slots \in Nat
  BY RingAssumption DEF Inv, TypeOK, Circle
<1>2. ASSUME NEW i \in 1..Len(in_use), NEW j \in 1..Len(in_use), i # j
      PROVE  in_use[i] # in_use[j]
  <2>1. used_recv_region \in 1..Slots
    BY <1>2 DEF Inv, TypeOK, Circle
  <2>2. Len(in_use) + 1 - i \in 1..Slots /\ Len(in_use) + 1 - j \in 1..Slots
    BY <1>1, <1>2
  <2> QED
    BY <1>1, <1>2, <2>1, <2>2, BehindDistinct DEF Inv, Circle
<1>3. ASSUME NEW i \in 1..Len(in_use), reading # {}
      PROVE  in_use[i] \notin reading
  <2>1. used_recv_region \in 1..Slots /\ Len(in_use) + 1 <= Slots
    BY <1>3, RingAssumption DEF Inv, TypeOK, Circle
  <2>2. Len(in_use) + 1 - i \in 1..Slots /\ Len(in_use) + 1 \in 1..Slots
    BY <1>1, <1>3, <2>1
  <2> QED
    BY <1>1, <1>3, <2>1, <2>2, BehindDistinct DEF Inv, Circle
<1> QED
  BY <1>2, <1>3 DEF BuffersExclusive

\* However many slots there are, no receive buffer is handed to the device
\* while it is in use, even when a receive is posted for every slot.
THEOREM ReceivesExclusive == Spec => []BuffersExclusive
<1> QED
  BY RingExclusive, InvInit, InvStep, PTL DEF Spec

\* The cursor, the slots and the handler always have their types: in particular
\* a receive lies inside the region.
THEOREM RingTypes == Spec => []TypeOK
<1>1. Inv => TypeOK
  BY DEF Inv
<1> QED
  BY <1>1, InvInit, InvStep, PTL DEF Spec
-----------------------------------------------------------------------------
(* The receive buffers of both threads. *)

\* How many slots ago a slot was handed out, at the latest.
Age(slot) == IF slot < used_recv_region THEN used_recv_region - slot
             ELSE used_recv_region + Slots - slot

Holds(t) == IF held[t] = {} THEN 0 ELSE 1
HeldNow == Holds("main") + Holds("epoll")

\* Who allocates or holds a slot: main in the loop of hmr_pre_post_recv, the epoll
\* thread at the end of the handler of a receive.
Turns ==
  /\ held["main"] # {} \/ taking["main"] # "no" => to_post > 0
  /\ held["epoll"] # {} \/ taking["epoll"] # "no" => handling = "RECV"
  /\ \A t \in Thread : taking[t] # "no" => held[t] = {}

\* An allocation that no other one overlaps moves the cursor as one step would.
Alone ==
  /\ taking["main"] = "no" \/ taking["epoll"] = "no"
  /\ \A t \in Thread :
       /\ taking[t] = "reset" => used_recv_region = Slots
       /\ taking[t] \in {"addr", "load", "store"} => used_recv_region < Slots
       /\ taking[t] \in {"load", "store"} => taken[t] = used_recv_region
       /\ taking[t] = "store" => added[t] = used_recv_region

\* The receives that are posted, or will be, when the loop and the handler end.
Counts ==
  /\ Len(in_use) + to_post + (IF handling = "RECV" THEN 1 ELSE 0) <= Slots - Spare
  /\ IF handling = "RECV" /\ held["epoll"] = {} /\ taking["epoll"] = "no"
     THEN \E slot \in Slot : reading = {slot} ELSE reading = {}
  /\ \A t \in Thread : held[t] = {} \/ \E slot \in Slot : held[t] = {slot}
  /\ \A t \in Thread : held[t] = {} => passed[t] = 0

\* A slot is older than those handed out after it: the receives queued behind it,
\* those in the hands of a thread, and as many as have passed it on the way.
Ages ==
  /\ \A i \in 1 .. Len(in_use) :
       Age(in_use[i]) <= 1 + Spare + (Len(in_use) - i) + HeldNow
  /\ \A slot \in reading : Age(slot) <= 1 + Spare + Len(in_use) + HeldNow
  /\ \A t \in Thread : \A slot \in held[t] :
       Age(slot) = 1 + passed[t] /\ passed[t] <= Spare

\* Nobody else has what a thread holds.
HeldExclusive ==
  /\ \A t \in Thread : \A slot \in held[t] :
       slot \notin reading /\ \A i \in 1 .. Len(in_use) : in_use[i] # slot
  /\ held["main"] \cap held["epoll"] = {}

RecvTypeOK == TypeOK /\ HeldTypeOK /\ held \in [Thread -> SUBSET Slot]

Orderly ==
  /\ RecvTypeOK
  /\ BuffersExclusive
  /\ Alone /\ Counts /\ Ages /\ HeldExclusive

RecvInv ==
  /\ HeldTypeOK /\ Turns
  /\ ~disorder => Orderly

\* The client's pool is one thread's.
OneThread == ~disorder /\ \A t \in Thread : held[t] = {} /\ taking[t] = "no"

\* Handing out a slot makes every other one a slot older; the one that is handed
\* out was the oldest of the circle.
LEMMA AgeFacts ==
  ASSUME NEW cursor \in 0 .. Slots, NEW next \in Slot, next = Wrapped(cursor),
         cursor = used_recv_region, used_recv_region' = next + 1
  PROVE  /\ next + 1 \in 0 .. Slots
         /\ \A slot \in Slot : /\ Age(slot) \in 1 .. Slots
                               /\ Age(slot) < Slots => slot # next
                               /\ slot # next => Age(slot)' = Age(slot) + 1
                               /\ slot = next => Age(slot)' = 1
BY RingAssumption DEF Age, Wrapped, Slot

LEMMA WrappedInRegion ==
  ASSUME NEW cursor \in 0 .. Slots
  PROVE  Wrapped(cursor) \in Slot
BY RingAssumption DEF Wrapped, Slot

LEMMA RecvInit == Init /\ HeldInit => RecvInv /\ OneThread
<1> SUFFICES ASSUME Init, HeldInit PROVE RecvInv /\ OneThread
  OBVIOUS
<1> USE RingAssumption
<1>1. TypeOK
  BY DEF Init, PrePosted, TypeOK, Slot
<1>2. held \in [Thread -> SUBSET Slot] /\ HeldTypeOK
  <2>1. /\ held \in [Thread -> SUBSET Slot] /\ held \in [Thread -> SUBSET Place]
        /\ passed \in [Thread -> 0 .. Spare + 1]
        /\ taken \in [Thread -> Place] /\ added \in [Thread -> Place]
    BY DEF HeldInit, Place
  <2>2. /\ taking \in [Thread -> {"no", "check", "reset", "addr", "load", "store"}]
        /\ disorder \in BOOLEAN
    BY Zenon DEF HeldInit
  <2>3. /\ used_recv_region \in Place /\ in_use \in Seq(Place)
        /\ reading \in SUBSET Place /\ to_post \in 0 .. Slots
        /\ filled \in 0 .. Len(in_use) /\ handling \in {"none", "SEND", "RECV"}
    BY DEF Init, PrePosted, Place
  <2> QED
    BY <2>1, <2>2, <2>3 DEF HeldTypeOK
<1>3. Len(in_use) = 0 /\ BuffersExclusive
  BY DEF Init, BuffersExclusive
<1>4. Counts /\ Ages /\ HeldExclusive /\ Turns /\ Alone
  BY <1>3 DEF Init, HeldInit, PrePosted, Counts, Ages, HeldExclusive, Thread, Turns, Alone
<1> QED
  BY <1>1, <1>2, <1>3, <1>4 DEF RecvInv, Orderly, RecvTypeOK, OneThread, HeldInit

\* Types, and whose turn it is, hold also when allocations overlap.
LEMMA RecvTypesStep ==
  ASSUME HeldTypeOK, Turns, ServerRecvNext
  PROVE  HeldTypeOK' /\ Turns'
<1> USE RingAssumption
<1> DEFINE steps == {"no", "check", "reset", "addr", "load", "store"}
<1>1. /\ taking \in [Thread -> steps]
      /\ taken \in [Thread -> Place] /\ added \in [Thread -> Place]
      /\ held \in [Thread -> SUBSET Place] /\ passed \in [Thread -> 0 .. Spare + 1]
      /\ disorder \in BOOLEAN
      /\ used_recv_region \in Place /\ in_use \in Seq(Place) /\ reading \in SUBSET Place
      /\ to_post \in 0 .. Slots /\ filled \in 0 .. Len(in_use)
      /\ handling \in {"none", "SEND", "RECV"}
      /\ "main" \in Thread /\ "epoll" \in Thread
  BY DEF HeldTypeOK, Thread
<1>2. /\ held["main"] # {} \/ taking["main"] # "no" => to_post > 0
      /\ held["epoll"] # {} \/ taking["epoll"] # "no" => handling = "RECV"
      /\ \A t \in Thread : taking[t] # "no" => held[t] = {}
  BY DEF Turns
<1>3. ASSUME NEW t \in Thread, RecvCreate(t),
             t = "main" => to_post > 0 /\ reading' = reading,
             t = "epoll" => handling = "RECV" /\ reading' = {},
             UNCHANGED <<to_post, in_use, filled, handling>>
      PROVE  HeldTypeOK' /\ Turns'
  <2>1. /\ taking' = [taking EXCEPT ![t] = "check"] /\ held[t] = {}
        /\ UNCHANGED <<used_recv_region, taken, added, held, passed>>
    BY <1>3 DEF RecvCreate, Step
  <2>2. disorder' \in BOOLEAN
    BY <1>3, Zenon DEF RecvCreate
  <2>3. taking' \in [Thread -> steps] /\ reading' \in SUBSET Place
    BY <1>1, <1>3, <2>1 DEF Thread
  <2>4. HeldTypeOK'
    BY <1>1, <1>3, <2>1, <2>2, <2>3 DEF HeldTypeOK
  <2>5. Turns'
    BY <1>1, <1>2, <1>3, <2>1 DEF Turns, Thread
  <2> QED
    BY <2>4, <2>5
<1>4. ASSUME NEW t \in Thread, RecvCheck(t) \/ RecvReset(t) \/ RecvAddr(t) \/ RecvLoad(t),
             UNCHANGED <<to_post, in_use, filled, handling, reading>>
      PROVE  HeldTypeOK' /\ Turns'
  <2>1. /\ taking[t] # "no" /\ \E to \in steps : taking' = [taking EXCEPT ![t] = to]
        /\ UNCHANGED <<held, passed, disorder>>
    BY <1>4 DEF RecvCheck, RecvReset, RecvAddr, RecvLoad, Step
  <2>2. used_recv_region' \in Place
    BY <1>1, <1>4 DEF RecvCheck, RecvReset, RecvAddr, RecvLoad, Place
  <2>3. taken' \in [Thread -> Place] /\ added' \in [Thread -> Place]
    BY <1>1, <1>4 DEF RecvCheck, RecvReset, RecvAddr, RecvLoad
  <2>4. taking' \in [Thread -> steps]
    BY <1>1, <2>1
  <2>5. HeldTypeOK'
    BY <1>1, <1>4, <2>1, <2>2, <2>3, <2>4 DEF HeldTypeOK
  <2>6. \A u \in Thread : taking'[u] # "no" => taking[u] # "no"
    BY <1>1, <2>1
  <2>7. Turns'
    BY <1>1, <1>2, <1>4, <2>1, <2>6 DEF Turns
  <2> QED
    BY <2>5, <2>7
<1>5. ASSUME NEW t \in Thread, RecvStore(t),
             UNCHANGED <<to_post, in_use, filled, handling, reading>>
      PROVE  HeldTypeOK' /\ Turns'
  <2>1. /\ taking[t] = "store" /\ taking' = [taking EXCEPT ![t] = "no"]
        /\ used_recv_region' = (IF added[t] > Slots THEN added[t] ELSE added[t] + 1)
        /\ held' = [held EXCEPT ![t] = {taken[t]}]
        /\ passed' = [u \in Thread |-> IF u = t \/ held[u] = {} THEN 0
                                       ELSE IF passed[u] > Spare THEN passed[u]
                                       ELSE passed[u] + 1]
        /\ taken' = [taken EXCEPT ![t] = 0] /\ added' = [added EXCEPT ![t] = 0]
    BY <1>5 DEF RecvStore, Step
  <2>2. disorder' \in BOOLEAN
    BY <1>5, Zenon DEF RecvStore
  <2>3. /\ used_recv_region' \in Place /\ held' \in [Thread -> SUBSET Place]
        /\ taken' \in [Thread -> Place] /\ added' \in [Thread -> Place]
    <3>1. added[t] \in Place /\ taken[t] \in Place /\ 0 \in Place
      BY <1>1 DEF Place
    <3>2. used_recv_region' \in Place
      BY <2>1, <3>1 DEF Place
    <3>3. held' \in [Thread -> SUBSET Place]
      BY <1>1, <2>1, <3>1
    <3>4. taken' \in [Thread -> Place] /\ added' \in [Thread -> Place]
      BY <1>1, <2>1, <3>1
    <3> QED
      BY <3>2, <3>3, <3>4
  <2>4. passed' \in [Thread -> 0 .. Spare + 1]
    <3>1. \A u \in Thread : (IF u = t \/ held[u] = {} THEN 0
                             ELSE IF passed[u] > Spare THEN passed[u]
                             ELSE passed[u] + 1) \in 0 .. Spare + 1
      BY <1>1
    <3> QED
      BY <2>1, <3>1
  <2>5. taking' \in [Thread -> steps]
    BY <1>1, <2>1
  <2>6. HeldTypeOK'
    BY <1>1, <1>5, <2>2, <2>3, <2>4, <2>5 DEF HeldTypeOK
  <2>7. /\ \A u \in Thread : taking'[u] # "no" => taking[u] # "no" /\ u # t
        /\ \A u \in Thread : u # t => held'[u] = held[u]
    BY <1>1, <2>1
  <2>8. Turns'
    BY <1>1, <1>2, <1>5, <2>1, <2>7 DEF Turns
  <2> QED
    BY <2>6, <2>8
<1>6. ASSUME NEW t \in Thread, Queue(t), filled' = filled, reading' = reading,
             IF t = "main" THEN to_post' = to_post - 1 /\ handling' = handling
             ELSE to_post' = to_post /\ handling' = "none"
      PROVE  HeldTypeOK' /\ Turns'
  <2>1. /\ held[t] # {} /\ \E slot \in Place : in_use' = Append(in_use, slot)
        /\ held' = [held EXCEPT ![t] = {}] /\ passed' = [passed EXCEPT ![t] = 0]
        /\ UNCHANGED <<used_recv_region, taking, taken, added, disorder>>
    BY <1>1, <1>6 DEF Queue
  <2>2. in_use' \in Seq(Place) /\ Len(in_use') = Len(in_use) + 1
    BY <1>1, <2>1
  <2>3. filled' \in 0 .. Len(in_use')
    BY <1>1, <1>6, <2>2
  <2>4. to_post' \in 0 .. Slots /\ handling' \in {"none", "SEND", "RECV"}
    BY <1>1, <1>2, <1>6, <2>1
  <2>5. held' \in [Thread -> SUBSET Place] /\ passed' \in [Thread -> 0 .. Spare + 1]
    BY <1>1, <2>1
  <2>6. HeldTypeOK'
    BY <1>1, <1>6, <2>1, <2>2, <2>3, <2>4, <2>5 DEF HeldTypeOK
  <2>7. /\ held'[t] = {} /\ taking[t] = "no"
        /\ \A u \in Thread : u # t => held'[u] = held[u]
    BY <1>1, <1>2, <2>1
  <2>8. Turns'
    BY <1>1, <1>2, <1>6, <2>1, <2>7 DEF Turns, Thread
  <2> QED
    BY <2>6, <2>8
<1>7. ASSUME Received, UNCHANGED heldVars PROVE HeldTypeOK' /\ Turns'
  <2>1. /\ in_use # << >> /\ handling = "none" /\ handling' = "RECV"
        /\ filled' = filled - 1 /\ filled > 0 /\ in_use' = Tail(in_use)
        /\ reading' = {Head(in_use)}
        /\ UNCHANGED <<used_recv_region, to_post>>
    BY <1>1, <1>7 DEF Received
  <2>2. in_use' \in Seq(Place) /\ Len(in_use') = Len(in_use) - 1 /\ Head(in_use) \in Place
    BY <1>1, <2>1
  <2>3. HeldTypeOK'
    BY <1>1, <1>7, <2>1, <2>2 DEF HeldTypeOK, heldVars
  <2>4. Turns'
    BY <1>2, <1>7, <2>1 DEF Turns, heldVars
  <2> QED
    BY <2>3, <2>4
<1>8. ASSUME Fill \/ Acknowledged \/ (~Reposts(handling) /\ Handled), UNCHANGED heldVars
      PROVE  HeldTypeOK' /\ Turns'
  <2>1. /\ UNCHANGED <<used_recv_region, to_post, in_use>>
        /\ filled' \in 0 .. Len(in_use) /\ reading' \in SUBSET Place
        /\ handling' \in {"none", "SEND", "RECV"}
        /\ handling = "RECV" => handling' = "RECV"
    BY <1>1, <1>8 DEF Fill, Acknowledged, Handled, Reposts
  <2> QED
    BY <1>1, <1>2, <1>8, <2>1 DEF HeldTypeOK, Turns, heldVars
<1>9. CASE MainPosts
  BY <1>1, <1>3, <1>9 DEF MainPosts
<1>10. CASE EpollPosts
  BY <1>1, <1>3, <1>10 DEF EpollPosts, Reposts
<1>11. CASE MainQueues
  BY <1>1, <1>6, <1>11 DEF MainQueues
<1>12. CASE EpollQueues
  BY <1>1, <1>6, <1>12 DEF EpollQueues
<1>13. CASE \E t \in Thread : RecvAlloc(t)
  BY <1>4, <1>5, <1>13 DEF RecvAlloc
<1> QED
  BY <1>7, <1>8, <1>9, <1>10, <1>11, <1>12, <1>13 DEF ServerRecvNext

\* hmr_recv_task_create.  While no thread is passed by more than the spare slots,
\* every slot in use is younger than the circle is long.
LEMMA TakeStep ==
  ASSUME RecvInv, ~disorder, NEW t \in Thread, RecvStore(t),
         UNCHANGED <<to_post, in_use, filled, handling, reading>>,
         HeldTypeOK', ~disorder'
  PROVE  Orderly'
<1> USE RingAssumption
<1> DEFINE new == Wrapped(used_recv_region)
           k == Len(in_use)
<1>1. /\ used_recv_region \in 0 .. Slots /\ to_post \in 0 .. Slots
      /\ in_use \in Seq(Slot) /\ k \in Nat /\ reading \in SUBSET Slot
      /\ held \in [Thread -> SUBSET Slot] /\ passed \in [Thread -> 0 .. Spare + 1]
      /\ taking \in [Thread -> {"no", "check", "reset", "addr", "load", "store"}]
  BY DEF RecvInv, Orderly, RecvTypeOK, TypeOK, HeldTypeOK
<1>2. new \in Slot
  BY <1>1, WrappedInRegion
<1>3. /\ held[t] = {} /\ held' = [held EXCEPT ![t] = {new}]
      /\ used_recv_region' = new + 1
      /\ passed' = [u \in Thread |-> IF u = t \/ held[u] = {} THEN 0 ELSE passed[u] + 1]
      /\ \A u \in Thread : ~(passed'[u] > Spare)
      /\ taking[t] = "store" /\ taking' = [taking EXCEPT ![t] = "no"]
  <2>1. taking[t] = "store" /\ taking' = [taking EXCEPT ![t] = "no"]
    BY DEF RecvStore, Step
  <2>2. /\ used_recv_region < Slots /\ taken[t] = used_recv_region
        /\ added[t] = used_recv_region
    BY <2>1 DEF RecvInv, Orderly, Alone
  <2>3. new = used_recv_region
    BY <1>1, <2>2 DEF Wrapped
  <2>4. held[t] = {}
    BY <2>1 DEF RecvInv, Turns
  <2>5. \A u \in Thread : ~(passed'[u] > Spare)
    BY DEF RecvStore
  <2>6. \A u \in Thread : held[u] # {} => ~(passed[u] > Spare)
    <3>1. \A u \in Thread : \A slot \in held[u] : passed[u] <= Spare
      BY DEF RecvInv, Orderly, Ages
    <3> QED
      BY <1>1, <3>1
  <2>7. passed' = [u \in Thread |-> IF u = t \/ held[u] = {} THEN 0 ELSE passed[u] + 1]
    <3>1. passed' = [u \in Thread |-> IF u = t \/ held[u] = {} THEN 0
                                     ELSE IF passed[u] > Spare THEN passed[u]
                                     ELSE passed[u] + 1]
      BY DEF RecvStore
    <3> QED
      BY <2>6, <3>1
  <2>8. held' = [held EXCEPT ![t] = {new}]
    BY <2>2, <2>3 DEF RecvStore
  <2>9. used_recv_region' = new + 1
    BY <1>1, <2>2, <2>3 DEF RecvStore
  <2> QED
    BY <2>1, <2>4, <2>5, <2>7, <2>8, <2>9
<1>4. \A u \in Thread : u # t => taking[u] = "no"
  BY <1>3 DEF RecvInv, Orderly, Alone, Thread
<1>5. passed' \in [Thread -> 0 .. Spare + 1]
  BY DEF HeldTypeOK
<1>6. \A slot \in Slot : /\ Age(slot) \in 1 .. Slots
                         /\ Age(slot) < Slots => slot # new
                         /\ slot # new => Age(slot)' = Age(slot) + 1
                         /\ slot = new => Age(slot)' = 1
  BY <1>1, <1>2, <1>3, AgeFacts
<1>7. RecvTypeOK'
  <2>1. used_recv_region' \in 0 .. Slots
    BY <1>2, <1>3 DEF Slot
  <2>2. held' \in [Thread -> SUBSET Slot]
    BY <1>1, <1>2, <1>3
  <2>3. TypeOK'
    BY <2>1 DEF RecvInv, Orderly, RecvTypeOK, TypeOK
  <2> QED
    BY <2>2, <2>3 DEF RecvTypeOK
<1>8. BuffersExclusive'
  BY DEF RecvInv, Orderly, BuffersExclusive
<1>10. Alone'
  <2>1. \A u \in Thread : taking'[u] = "no"
    BY <1>1, <1>3, <1>4
  <2> QED
    BY <2>1 DEF Alone, Thread
<1>9. Counts' /\ Ages' /\ HeldExclusive'
  <2> DEFINE r == IF handling = "RECV" THEN 1 ELSE 0
             H == HeldNow
  <2>1. /\ k + to_post + r <= Slots - Spare
        /\ held["epoll"] # {} \/ taking["epoll"] # "no" => handling = "RECV"
        /\ held["main"] # {} \/ taking["main"] # "no" => to_post > 0
        /\ \A u \in Thread : held[u] = {} \/ \E slot \in Slot : held[u] = {slot}
    BY DEF RecvInv, Turns, Orderly, Counts
  <2>2. \A u \in Thread : passed'[u] <= Spare
    <3>1. ASSUME NEW u \in Thread PROVE passed'[u] <= Spare
      <4>1. ~(passed'[u] > Spare)
        BY <1>3
      <4>2. passed'[u] \in 0 .. Spare + 1
        BY <1>5
      <4> QED
        BY <4>1, <4>2
    <3> QED
      BY <3>1
  <2>3. H \in Nat /\ H' = H + 1 /\ k + H < Slots - Spare
    <3>1. CASE t = "main"
      <4>1. to_post > 0 /\ (held["epoll"] # {} => r = 1) /\ held["main"] = {}
        BY <1>3, <2>1, <3>1 DEF Thread
      <4> QED
        BY <1>1, <1>3, <2>1, <3>1, <4>1 DEF HeldNow, Holds, Thread
    <3>2. CASE t = "epoll"
      <4>1. r = 1 /\ (held["main"] # {} => to_post > 0) /\ held["epoll"] = {}
        BY <1>3, <2>1, <3>2 DEF Thread
      <4> QED
        BY <1>1, <1>3, <2>1, <3>2, <4>1 DEF HeldNow, Holds, Thread
    <3> QED
      BY <3>1, <3>2 DEF Thread
  <2>4. ASSUME NEW i \in 1 .. k
        PROVE  /\ in_use[i] \in Slot /\ in_use[i] # new
               /\ Age(in_use[i])' <= 1 + Spare + (k - i) + H'
    <3>1. in_use[i] \in Slot /\ Age(in_use[i]) <= 1 + Spare + (k - i) + H
      BY <1>1 DEF RecvInv, Orderly, Ages
    <3>2. Age(in_use[i]) < Slots
      BY <1>1, <1>6, <2>3, <3>1
    <3>3. Age(in_use[i])' = Age(in_use[i]) + 1
      <4>1. PICK s \in Slot : s = in_use[i]
        BY <3>1
      <4>2. Age(s)' = Age(s) + 1
        BY <1>6, <3>2, <4>1
      <4>3. in_use' = in_use
        OBVIOUS
      <4> QED
        BY <4>1, <4>2, <4>3
    <3> QED
      BY <1>1, <1>6, <2>3, <3>1, <3>2, <3>3
  <2>5. ASSUME NEW slot \in reading'
        PROVE  /\ slot \in Slot /\ slot # new
               /\ Age(slot)' <= 1 + Spare + k + H'
    <3>1. /\ slot \in reading /\ handling = "RECV" /\ held["epoll"] = {}
          /\ taking["epoll"] = "no"
      BY <2>5 DEF RecvInv, Orderly, Counts
    <3>4. t = "main"
      BY <1>3, <3>1 DEF Thread
    <3>2. slot \in Slot /\ Age(slot) <= 1 + Spare + k + H /\ H = 0
      BY <1>1, <1>3, <3>1, <3>4 DEF RecvInv, Orderly, Ages, HeldNow, Holds
    <3>3. Age(slot) < Slots
      <4>1. r = 1
        BY <3>1
      <4>2. to_post > 0
        BY <1>3, <2>1, <3>4
      <4> QED
        BY <1>1, <1>6, <2>1, <3>2, <4>1, <4>2
    <3> QED
      BY <1>1, <1>6, <2>3, <3>2, <3>3
  <2>6. ASSUME NEW u \in Thread, u # t, NEW slot \in held[u]
        PROVE  /\ slot \in Slot /\ slot # new
               /\ Age(slot)' = 1 + passed'[u] /\ passed'[u] = passed[u] + 1
    <3>1. slot \in Slot /\ Age(slot) = 1 + passed[u] /\ passed[u] \in Nat
      BY <1>1, <2>6 DEF RecvInv, Orderly, Ages
    <3>2. passed'[u] = passed[u] + 1 /\ passed'[u] <= Spare
      BY <1>3, <2>2, <2>6
    <3> QED
      BY <1>6, <3>1, <3>2
  <2>7. /\ held'[t] = {new}
        /\ \A u \in Thread : u # t => held'[u] = held[u]
    BY <1>1, <1>3
  <2>8. Counts'
    <3>1. \A u \in Thread : held'[u] = {} => passed'[u] = 0
      BY <1>3, <2>7
    <3>3. IF handling = "RECV" /\ held'["epoll"] = {} /\ taking'["epoll"] = "no"
          THEN \E slot \in Slot : reading = {slot} ELSE reading = {}
      <4>1. CASE t = "main"
        <5>1. held'["epoll"] = held["epoll"] /\ taking'["epoll"] = taking["epoll"]
          BY <1>1, <1>3, <2>7, <4>1 DEF Thread
        <5> QED
          BY <5>1 DEF RecvInv, Orderly, Counts
      <4>2. CASE t = "epoll"
        <5>1. held'["epoll"] # {} /\ taking["epoll"] # "no"
          BY <1>3, <2>7, <4>2
        <5> QED
          BY <5>1 DEF RecvInv, Orderly, Counts
      <4> QED
        BY <4>1, <4>2 DEF Thread
    <3>5. \A u \in Thread : held'[u] = {} \/ \E slot \in Slot : held'[u] = {slot}
      BY <1>2, <2>1, <2>7
    <3> QED
      BY <2>1, <3>1, <3>3, <3>5 DEF Counts
  <2>9. Ages'
    <3>1. ASSUME NEW u \in Thread, NEW slot \in held'[u]
          PROVE  Age(slot)' = 1 + passed'[u] /\ passed'[u] <= Spare
      <4>1. CASE u = t
        BY <1>2, <1>3, <1>6, <2>2, <2>7, <3>1, <4>1
      <4>2. CASE u # t
        BY <2>2, <2>6, <2>7, <3>1, <4>2
      <4> QED
        BY <4>1, <4>2
    <3> QED
      BY <2>4, <2>5, <3>1 DEF Ages
  <2>10. HeldExclusive'
    <3>1. ASSUME NEW u \in Thread, NEW slot \in held'[u]
          PROVE  slot \notin reading' /\ \A i \in 1 .. k : in_use[i] # slot
      <4>1. CASE u = t
        BY <2>4, <2>5, <2>7, <3>1, <4>1
      <4>2. CASE u # t
        BY <2>7, <3>1, <4>2 DEF RecvInv, Orderly, HeldExclusive
      <4> QED
        BY <4>1, <4>2
    <3>2. held'["main"] \cap held'["epoll"] = {}
      BY <2>6, <2>7 DEF Thread
    <3> QED
      BY <3>1, <3>2 DEF HeldExclusive
  <2> QED
    BY <2>8, <2>9, <2>10
<1> QED
  BY <1>7, <1>8, <1>9, <1>10 DEF Orderly

\* ibv_post_recv.  The slot that goes to the end of the queue is no older than
\* those that passed it on the way.
LEMMA QueueStep ==
  ASSUME RecvInv, ~disorder, NEW t \in Thread, Queue(t),
         filled' = filled, reading' = reading,
         IF t = "main" THEN to_post' = to_post - 1 /\ handling' = handling
         ELSE to_post' = to_post /\ handling' = "none",
         HeldTypeOK'
  PROVE  Orderly'
<1> USE RingAssumption
<1> DEFINE k == Len(in_use)
<1>1. /\ used_recv_region \in 0 .. Slots /\ to_post \in 0 .. Slots
      /\ in_use \in Seq(Slot) /\ k \in Nat /\ reading \in SUBSET Slot
      /\ held \in [Thread -> SUBSET Slot] /\ passed \in [Thread -> 0 .. Spare + 1]
      /\ filled \in 0 .. k
  BY DEF RecvInv, Orderly, RecvTypeOK, TypeOK, HeldTypeOK
<1>2. PICK new \in Slot : held[t] = {new} /\ in_use' = Append(in_use, new)
  <2>1. PICK slot \in held[t] : in_use' = Append(in_use, slot)
    BY DEF Queue
  <2>2. held[t] = {slot} /\ slot \in Slot
    BY <1>1, <2>1 DEF RecvInv, Orderly, Counts
  <2> QED
    BY <2>1, <2>2
<1>3. /\ held'[t] = {} /\ passed'[t] = 0
      /\ \A u \in Thread : u # t => held'[u] = held[u] /\ passed'[u] = passed[u]
      /\ held' \in [Thread -> SUBSET Slot] /\ passed' \in [Thread -> 0 .. Spare + 1]
      /\ UNCHANGED <<used_recv_region, taking, taken, added>>
  BY <1>1 DEF Queue
<1>4. /\ in_use' \in Seq(Slot) /\ Len(in_use') = k + 1 /\ in_use'[k + 1] = new
      /\ \A i \in 1 .. k : in_use'[i] = in_use[i]
  BY <1>1, <1>2
<1>5. /\ t = "main" => to_post > 0
      /\ t = "epoll" => handling = "RECV" /\ reading = {}
      /\ taking[t] = "no"
  BY <1>2 DEF RecvInv, Turns, Orderly, Counts
<1>6. RecvTypeOK'
  <2>1. TypeOK'
    <3>1. to_post' \in 0 .. Slots
      BY <1>1, <1>5
    <3>2. handling' \in {"none", "SEND", "RECV"}
      BY DEF RecvInv, Orderly, RecvTypeOK, TypeOK
    <3>3. filled' \in 0 .. Len(in_use')
      BY <1>1, <1>4
    <3> QED
      BY <1>1, <1>3, <1>4, <3>1, <3>2, <3>3 DEF TypeOK
  <2> QED
    BY <1>3, <2>1 DEF RecvTypeOK
<1>7. new \notin reading /\ \A i \in 1 .. k : in_use[i] # new
  BY <1>2 DEF RecvInv, Orderly, HeldExclusive
<1>8. BuffersExclusive'
  <2>1. ASSUME NEW i \in 1 .. k + 1, NEW j \in 1 .. k + 1, i # j
        PROVE  in_use'[i] # in_use'[j]
    <3>1. CASE i = k + 1
      BY <1>1, <1>4, <1>7, <2>1, <3>1
    <3>2. CASE j = k + 1
      BY <1>1, <1>4, <1>7, <2>1, <3>2
    <3>3. CASE i \in 1 .. k /\ j \in 1 .. k
      BY <1>4, <2>1, <3>3 DEF RecvInv, Orderly, BuffersExclusive
    <3> QED
      BY <1>1, <3>1, <3>2, <3>3
  <2>2. ASSUME NEW i \in 1 .. k + 1 PROVE in_use'[i] \notin reading
    <3>1. CASE i = k + 1
      BY <1>4, <1>7, <3>1
    <3>2. CASE i \in 1 .. k
      BY <1>4, <3>2 DEF RecvInv, Orderly, BuffersExclusive
    <3> QED
      BY <1>1, <3>1, <3>2
  <2> QED
    BY <1>4, <2>1, <2>2 DEF BuffersExclusive
<1>9. Counts'
  <2>1. Len(in_use') + to_post' + (IF handling' = "RECV" THEN 1 ELSE 0) <= Slots - Spare
    <3>1. k + to_post + (IF handling = "RECV" THEN 1 ELSE 0) <= Slots - Spare
      BY DEF RecvInv, Orderly, Counts
    <3> QED
      BY <1>1, <1>4, <1>5, <3>1 DEF Thread
  <2>2. IF handling' = "RECV" /\ held'["epoll"] = {} /\ taking'["epoll"] = "no"
        THEN \E slot \in Slot : reading' = {slot} ELSE reading' = {}
    <3>1. CASE t = "main"
      <4>1. held'["epoll"] = held["epoll"]
        BY <1>3, <3>1 DEF Thread
      <4> QED
        BY <1>3, <3>1, <4>1 DEF RecvInv, Orderly, Counts
    <3>2. CASE t = "epoll"
      BY <1>5, <3>2
    <3> QED
      BY <3>1, <3>2 DEF Thread
  <2>5. \A u \in Thread : /\ held'[u] = {} \/ \E slot \in Slot : held'[u] = {slot}
                          /\ held'[u] = {} => passed'[u] = 0
    BY <1>3 DEF RecvInv, Orderly, Counts
  <2> QED
    BY <2>1, <2>2, <2>5 DEF Counts
<1>12. Alone'
  BY <1>3 DEF RecvInv, Orderly, Alone
<1>10. Ages'
  <2>1. HeldNow' \in Nat /\ HeldNow = HeldNow' + 1
    <3>1. held[t] # {} /\ held'[t] = {}
      BY <1>2, <1>3
    <3>2. CASE t = "main"
      <4>1. held'["epoll"] = held["epoll"]
        BY <1>3, <3>2 DEF Thread
      <4> QED
        BY <3>1, <3>2, <4>1 DEF HeldNow, Holds
    <3>3. CASE t = "epoll"
      <4>1. held'["main"] = held["main"]
        BY <1>3, <3>3 DEF Thread
      <4> QED
        BY <3>1, <3>3, <4>1 DEF HeldNow, Holds
    <3> QED
      BY <3>2, <3>3 DEF Thread
  <2>2. \A slot \in Slot : Age(slot)' = Age(slot) /\ Age(slot) \in Nat
    BY <1>1, <1>3 DEF Age, Slot
  <2>3. ASSUME NEW i \in 1 .. k + 1, NEW s \in Slot, s = in_use'[i]
        PROVE  Age(s)' <= 1 + Spare + (k + 1 - i) + HeldNow'
    <3>1. s = in_use'[i]
      BY <2>3
    <3>2. Age(s) <= 1 + Spare + (k + 1 - i) + HeldNow'
      <4>1. CASE i = k + 1
        <5>1. Age(s) = 1 + passed[t] /\ passed[t] <= Spare /\ passed[t] \in Nat
          BY <1>1, <1>2, <1>4, <3>1, <4>1 DEF RecvInv, Orderly, Ages
        <5> QED
          BY <1>1, <2>1, <4>1, <5>1
      <4>2. CASE i \in 1 .. k
        <5>1. Age(in_use[i]) <= 1 + Spare + (k - i) + HeldNow
          BY <4>2 DEF RecvInv, Orderly, Ages
        <5>2. s = in_use[i]
          BY <1>4, <3>1, <4>2
        <5> QED
          BY <1>1, <2>1, <2>2, <4>2, <5>1, <5>2
      <4> QED
        BY <1>1, <4>1, <4>2
    <3> QED
      BY <2>2, <3>2
  <2>4. ASSUME NEW slot \in reading PROVE Age(slot)' <= 1 + Spare + (k + 1) + HeldNow'
    <3>1. slot \in Slot /\ Age(slot) <= 1 + Spare + k + HeldNow
      BY <1>1 DEF RecvInv, Orderly, Ages
    <3> QED
      BY <1>1, <2>1, <2>2, <3>1
  <2>5. ASSUME NEW u \in Thread, NEW slot \in held'[u]
        PROVE  Age(slot)' = 1 + passed'[u] /\ passed'[u] <= Spare
    <3>1. u # t /\ slot \in held[u] /\ slot \in Slot /\ passed'[u] = passed[u]
      BY <1>1, <1>3, <2>5
    <3> QED
      BY <2>2, <3>1 DEF RecvInv, Orderly, Ages
  <2>6. \A i \in 1 .. k + 1 : in_use'[i] \in Slot
    BY <1>4
  <2>7. (\A i \in 1 .. Len(in_use) :
           Age(in_use[i]) <= 1 + Spare + (Len(in_use) - i) + HeldNow)'
    BY <1>4, <2>3, <2>6 DEF Age
  <2> QED
    BY <1>4, <2>4, <2>5, <2>7 DEF Ages
<1>11. HeldExclusive'
  <2>1. \A u \in Thread : u # t => new \notin held[u]
    BY <1>2 DEF RecvInv, Orderly, HeldExclusive, Thread
  <2>2. ASSUME NEW u \in Thread, NEW slot \in held'[u]
        PROVE  slot \notin reading /\ \A i \in 1 .. k + 1 : in_use'[i] # slot
    <3>1. u # t /\ slot \in held[u] /\ slot # new
      BY <1>3, <2>1, <2>2
    <3>2. slot \notin reading /\ \A i \in 1 .. k : in_use[i] # slot
      BY <3>1 DEF RecvInv, Orderly, HeldExclusive
    <3> QED
      BY <1>1, <1>4, <3>1, <3>2
  <2>3. held'["main"] \cap held'["epoll"] = {}
    BY <1>3 DEF Thread
  <2> QED
    BY <1>4, <2>2, <2>3 DEF HeldExclusive
<1> QED
  BY <1>6, <1>8, <1>9, <1>10, <1>11, <1>12 DEF Orderly

\* A completion of a receive: its slot goes from the queue to the handler.
LEMMA ReceivedStep ==
  ASSUME RecvInv, ~disorder, Received, UNCHANGED heldVars, HeldTypeOK'
  PROVE  Orderly'
<1> USE RingAssumption
<1> DEFINE k == Len(in_use)
<1>1. /\ used_recv_region \in 0 .. Slots /\ to_post \in 0 .. Slots
      /\ in_use \in Seq(Slot) /\ k \in Nat /\ reading \in SUBSET Slot
      /\ held \in [Thread -> SUBSET Slot] /\ passed \in [Thread -> 0 .. Spare + 1]
      /\ filled \in 1 .. k /\ k > 0
  BY DEF RecvInv, Orderly, RecvTypeOK, TypeOK, HeldTypeOK, Received
<1>2. /\ in_use' \in Seq(Slot) /\ Len(in_use') = k - 1
      /\ \A i \in 1 .. k - 1 : in_use'[i] = in_use[i + 1]
      /\ reading' = {in_use[1]} /\ in_use[1] \in Slot
      /\ handling = "none" /\ handling' = "RECV" /\ filled' = filled - 1
      /\ UNCHANGED <<used_recv_region, to_post>>
  BY <1>1 DEF Received
<1>3. UNCHANGED <<held, passed, taking, taken, added>>
  BY DEF heldVars
<1>4. held["epoll"] = {} /\ taking["epoll"] = "no"
  BY <1>2 DEF RecvInv, Turns
<1>5. RecvTypeOK'
  <2>1. TypeOK'
    BY <1>1, <1>2 DEF TypeOK
  <2> QED
    BY <1>1, <1>3, <2>1 DEF RecvTypeOK
<1>6. \A i, j \in 1 .. k : i # j => in_use[i] # in_use[j]
  BY DEF RecvInv, Orderly, BuffersExclusive
<1>7. BuffersExclusive'
  <2>1. ASSUME NEW i \in 1 .. k - 1 PROVE i + 1 \in 1 .. k /\ i + 1 # 1
    BY <1>1
  <2>2. \A i, j \in 1 .. k - 1 : i # j => in_use'[i] # in_use'[j]
    BY SMTT(30), <1>1, <1>2, <1>6, <2>1
  <2>3. \A i \in 1 .. k - 1 : in_use'[i] \notin reading'
    BY SMTT(30), <1>1, <1>2, <1>6, <2>1
  <2> QED
    BY <1>2, <2>2, <2>3 DEF BuffersExclusive
<1>8. Counts'
  <2>1. Len(in_use') + to_post' + 1 <= Slots - Spare
    <3>1. k + to_post <= Slots - Spare
      BY <1>1, <1>2 DEF RecvInv, Orderly, Counts
    <3> QED
      BY <1>1, <1>2, <3>1
  <2>2. \A u \in Thread : /\ held[u] = {} \/ \E slot \in Slot : held[u] = {slot}
                          /\ held[u] = {} => passed[u] = 0
    BY DEF RecvInv, Orderly, Counts
  <2> QED
    BY <1>2, <1>3, <1>4, <2>1, <2>2 DEF Counts
<1>11. Alone'
  BY <1>2, <1>3 DEF RecvInv, Orderly, Alone
<1>9. Ages'
  <2>1. HeldNow' = HeldNow /\ HeldNow \in Nat
    BY <1>3 DEF HeldNow, Holds
  <2>2. \A slot \in Slot : Age(slot)' = Age(slot) /\ Age(slot) \in Nat
    BY <1>1, <1>2 DEF Age, Slot
  <2>3. \A i \in 1 .. k : Age(in_use[i]) <= 1 + Spare + (k - i) + HeldNow
    BY DEF RecvInv, Orderly, Ages
  <2>4. ASSUME NEW i \in 1 .. k - 1, NEW s \in Slot, s = in_use'[i]
        PROVE  Age(s)' <= 1 + Spare + (k - 1 - i) + HeldNow'
    <3>2. i + 1 \in 1 .. k /\ s = in_use[i + 1]
      BY <1>1, <1>2, <2>4
    <3>3. Age(s) <= 1 + Spare + (k - (i + 1)) + HeldNow
      BY <2>3, <3>2
    <3>4. k - (i + 1) = k - 1 - i
      BY <1>1
    <3>5. Age(s) <= 1 + Spare + (k - 1 - i) + HeldNow
      BY <3>2, <3>3, <3>4
    <3> QED
      BY <2>1, <2>2, <3>5
  <2>5. ASSUME NEW slot \in reading' PROVE Age(slot)' <= 1 + Spare + (k - 1) + HeldNow'
    <3>1. slot = in_use[1] /\ slot \in Slot /\ 1 \in 1 .. k
      BY <1>1, <1>2
    <3> QED
      BY <1>1, <2>1, <2>2, <2>3, <3>1
  <2>6. ASSUME NEW u \in Thread, NEW slot \in held[u]
        PROVE  Age(slot)' = 1 + passed[u] /\ passed[u] <= Spare
    BY <1>1, <2>2 DEF RecvInv, Orderly, Ages
  <2>7. \A i \in 1 .. k - 1 : in_use'[i] \in Slot
    BY <1>1, <1>2
  <2>8. (\A i \in 1 .. Len(in_use) :
           Age(in_use[i]) <= 1 + Spare + (Len(in_use) - i) + HeldNow)'
    BY <1>2, <2>4, <2>7 DEF Age
  <2> QED
    BY <1>2, <1>3, <2>5, <2>6, <2>8 DEF Ages
<1>10. HeldExclusive'
  <2>1. ASSUME NEW u \in Thread, NEW slot \in held[u]
        PROVE  slot \notin reading' /\ \A i \in 1 .. k - 1 : in_use'[i] # slot
    <3>1. \A i \in 1 .. k : in_use[i] # slot
      BY DEF RecvInv, Orderly, HeldExclusive
    <3> QED
      BY <1>1, <1>2, <3>1
  <2>2. held["main"] \cap held["epoll"] = {}
    BY DEF RecvInv, Orderly, HeldExclusive
  <2> QED
    BY <1>2, <1>3, <2>1, <2>2 DEF HeldExclusive
<1> QED
  BY <1>5, <1>7, <1>8, <1>9, <1>10, <1>11 DEF Orderly

\* The other steps take no slot and queue none: a wrap of the cursor leaves every
\* slot as old as it was.
LEMMA OtherStep ==
  ASSUME RecvInv, ~disorder, HeldTypeOK', Alone',
         UNCHANGED <<to_post, in_use, held, passed>>,
         used_recv_region' = used_recv_region
           \/ (used_recv_region = Slots /\ used_recv_region' = 0),
         \/ /\ reading' = reading /\ (taking'["epoll"] = "no" <=> taking["epoll"] = "no")
            /\ \/ handling' = handling
               \/ handling # "RECV" /\ handling' # "RECV"
         \/ /\ reading' = {} /\ handling' = handling /\ taking'["epoll"] # "no"
  PROVE  Orderly'
<1> USE RingAssumption
<1>1. /\ used_recv_region \in 0 .. Slots /\ in_use \in Seq(Slot) /\ reading \in SUBSET Slot
      /\ held \in [Thread -> SUBSET Slot]
  BY DEF RecvInv, Orderly, RecvTypeOK, TypeOK
<1>2. used_recv_region' \in 0 .. Slots /\ reading' \in SUBSET reading
  BY <1>1
<1>3. RecvTypeOK'
  BY <1>1, <1>2 DEF RecvTypeOK, TypeOK, HeldTypeOK
<1>4. BuffersExclusive'
  BY <1>2 DEF RecvInv, Orderly, BuffersExclusive
<1>5. Counts'
  BY DEF RecvInv, Orderly, Counts
<1>6. \A slot \in Slot : Age(slot)' = Age(slot)
  BY <1>1 DEF Age, Slot
<1>7. HeldNow' = HeldNow
  BY DEF HeldNow, Holds
<1>8. Ages'
  <2>1. \A i \in 1 .. Len(in_use) : Age(in_use[i])' = Age(in_use[i])
    <3>1. ASSUME NEW i \in 1 .. Len(in_use) PROVE Age(in_use[i])' = Age(in_use[i])
      <4>1. PICK slot \in Slot : slot = in_use[i]
        BY <1>1
      <4>2. Age(slot)' = Age(slot)
        BY <1>6
      <4>3. in_use' = in_use
        OBVIOUS
      <4> QED
        BY <4>1, <4>2, <4>3
    <3> QED
      BY <3>1
  <2>2. \A slot \in reading' : Age(slot)' = Age(slot) /\ slot \in reading
    BY <1>1, <1>2, <1>6
  <2>3. \A t \in Thread : \A slot \in held[t] : Age(slot)' = Age(slot)
    BY <1>1, <1>6
  <2> QED
    BY <1>7, <2>1, <2>2, <2>3 DEF RecvInv, Orderly, Ages
<1>9. HeldExclusive'
  BY <1>2 DEF RecvInv, Orderly, HeldExclusive
<1> QED
  BY <1>3, <1>4, <1>5, <1>8, <1>9 DEF Orderly

\* An allocation that no other one overlaps.
LEMMA AloneStep ==
  ASSUME RecvInv, ~disorder, NEW t \in Thread,
         \/ RecvCreate(t) /\ ~disorder'
         \/ RecvCheck(t) \/ RecvReset(t) \/ RecvAddr(t) \/ RecvLoad(t)
  PROVE  /\ Alone'
         /\ used_recv_region' = used_recv_region
              \/ (used_recv_region = Slots /\ used_recv_region' = 0)
<1> USE RingAssumption
<1> DEFINE steps == {"no", "check", "reset", "addr", "load", "store"}
<1>1. /\ used_recv_region \in 0 .. Slots /\ taking \in [Thread -> steps]
      /\ taken \in [Thread -> Place] /\ added \in [Thread -> Place]
  BY DEF RecvInv, Orderly, RecvTypeOK, TypeOK, HeldTypeOK
<1>2. \A u \in Thread : u # t => taking[u] = "no"
  BY DEF RecvInv, Orderly, Alone, Thread, RecvCreate, RecvCheck, RecvReset, RecvAddr,
    RecvLoad, Step
<1>3. ASSUME NEW to \in steps, taking' = [taking EXCEPT ![t] = to],
             to = "reset" => used_recv_region' = Slots,
             to \in {"addr", "load", "store"} => used_recv_region' < Slots,
             to \in {"load", "store"} => taken'[t] = used_recv_region',
             to = "store" => added'[t] = used_recv_region'
      PROVE  Alone'
  <2>1. taking'[t] = to /\ \A u \in Thread : u # t => taking'[u] = "no"
    BY <1>1, <1>2, <1>3
  <2>2. ASSUME NEW u \in Thread
        PROVE  /\ taking'[u] = "reset" => used_recv_region' = Slots
               /\ taking'[u] \in {"addr", "load", "store"} => used_recv_region' < Slots
               /\ taking'[u] \in {"load", "store"} => taken'[u] = used_recv_region'
               /\ taking'[u] = "store" => added'[u] = used_recv_region'
    <3>1. CASE u = t
      BY <1>3, <2>1, <3>1
    <3>2. CASE u # t
      BY <2>1, <3>2
    <3> QED
      BY <3>1, <3>2
  <2> QED
    BY <2>1, <2>2 DEF Alone, Thread
<1>4. CASE RecvCreate(t)
  BY <1>3, <1>4 DEF RecvCreate, Step
<1>5. CASE RecvCheck(t)
  <2>1. /\ Wrapped(used_recv_region) = used_recv_region => used_recv_region < Slots
        /\ Wrapped(used_recv_region) # used_recv_region => used_recv_region = Slots
    BY <1>1 DEF Wrapped
  <2> QED
    BY <1>3, <1>5, <2>1 DEF RecvCheck, Step
<1>6. CASE RecvReset(t)
  <2>1. used_recv_region = Slots
    BY <1>6 DEF RecvReset, Step, RecvInv, Orderly, Alone
  <2> QED
    BY <1>3, <1>6, <2>1 DEF RecvReset, Step
<1>7. CASE RecvAddr(t)
  <2>1. used_recv_region < Slots
    BY <1>7 DEF RecvAddr, Step, RecvInv, Orderly, Alone
  <2> QED
    BY <1>1, <1>3, <1>7, <2>1 DEF RecvAddr, Step
<1>8. CASE RecvLoad(t)
  <2>1. used_recv_region < Slots /\ taken[t] = used_recv_region
    BY <1>8 DEF RecvLoad, Step, RecvInv, Orderly, Alone
  <2> QED
    BY <1>1, <1>3, <1>8, <2>1 DEF RecvLoad, Step
<1> QED
  BY <1>4, <1>5, <1>6, <1>7, <1>8

LEMMA ServerRecvStep == RecvInv /\ ServerRecvNext => RecvInv'
<1> SUFFICES ASSUME RecvInv, ServerRecvNext PROVE RecvInv'
  OBVIOUS
<1>1. /\ "main" \in Thread /\ "epoll" \in Thread /\ "epoll" # "main"
      /\ taking \in [Thread -> {"no", "check", "reset", "addr", "load", "store"}]
  BY DEF Thread, RecvInv, HeldTypeOK
<1>2. HeldTypeOK' /\ Turns'
  BY RecvTypesStep DEF RecvInv
<1>3. SUFFICES ASSUME ~disorder' PROVE Orderly'
  BY <1>2 DEF RecvInv
<1>4. ~disorder
  BY <1>3 DEF ServerRecvNext, MainPosts, EpollPosts, MainQueues, EpollQueues, RecvAlloc, heldVars,
    RecvCreate, RecvCheck, RecvReset, RecvAddr, RecvLoad, RecvStore, Queue
<1>5. CASE MainPosts
  <2>1. Alone' /\ used_recv_region' = used_recv_region
    BY <1>1, <1>3, <1>4, <1>5, AloneStep DEF MainPosts, RecvCreate
  <2>2. taking'["epoll"] = taking["epoll"] /\ UNCHANGED <<held, passed>>
    BY <1>1, <1>5 DEF MainPosts, RecvCreate, Step
  <2> QED
    BY <1>2, <1>4, <1>5, <2>1, <2>2, OtherStep DEF MainPosts
<1>6. CASE EpollPosts
  <2>1. Alone' /\ used_recv_region' = used_recv_region
    BY <1>1, <1>3, <1>4, <1>6, AloneStep DEF EpollPosts, RecvCreate
  <2>2. taking'["epoll"] # "no" /\ UNCHANGED <<held, passed>>
    BY <1>1, <1>6 DEF EpollPosts, RecvCreate, Step
  <2> QED
    BY <1>2, <1>4, <1>6, <2>1, <2>2, OtherStep DEF EpollPosts
<1>7. CASE MainQueues
  BY <1>1, <1>2, <1>4, <1>7, QueueStep DEF MainQueues
<1>8. CASE EpollQueues
  BY <1>1, <1>2, <1>4, <1>8, QueueStep DEF EpollQueues
<1>9. ASSUME NEW t \in Thread, RecvAlloc(t) PROVE Orderly'
  <2>1. CASE RecvStore(t)
    BY <1>2, <1>3, <1>4, <1>9, <2>1, TakeStep DEF RecvAlloc
  <2>2. CASE RecvCheck(t) \/ RecvReset(t) \/ RecvAddr(t) \/ RecvLoad(t)
    <3>1. /\ Alone'
          /\ used_recv_region' = used_recv_region
               \/ (used_recv_region = Slots /\ used_recv_region' = 0)
      BY <1>4, <2>2, AloneStep
    <3>2. /\ UNCHANGED <<held, passed, to_post, in_use, handling, reading>>
          /\ (taking'["epoll"] = "no" <=> taking["epoll"] = "no")
      BY <1>1, <1>9, <2>2 DEF RecvAlloc, RecvCheck, RecvReset, RecvAddr, RecvLoad, Step
    <3> QED
      BY <1>2, <1>4, <3>1, <3>2, OtherStep
  <2> QED
    BY <1>9, <2>1, <2>2 DEF RecvAlloc
<1>10. CASE Received /\ UNCHANGED heldVars
  BY <1>2, <1>4, <1>10, ReceivedStep
<1>11. CASE (Fill \/ Acknowledged \/ (~Reposts(handling) /\ Handled)) /\ UNCHANGED heldVars
  <2>1. /\ UNCHANGED <<used_recv_region, to_post, in_use, taking, taken, added, held, passed>>
        /\ \/ reading' = reading /\ handling' = handling
           \/ /\ reading' \in {reading, {}} /\ handling # "RECV" /\ handling' # "RECV"
    BY <1>11 DEF Fill, Acknowledged, Handled, Reposts, heldVars
  <2>2. handling # "RECV" => reading = {}
    BY <1>4 DEF RecvInv, Orderly, Counts
  <2>3. Alone'
    BY <1>4, <2>1 DEF RecvInv, Orderly, Alone
  <2> QED
    BY <1>2, <1>4, <2>1, <2>2, <2>3, OtherStep
<1> QED
  BY <1>5, <1>6, <1>7, <1>8, <1>9, <1>10, <1>11 DEF ServerRecvNext

\* What is in use is with the device, the handler or a thread, and with one only.
LEMMA RecvInvExclusive == RecvInv => PostersExclusive
<1> SUFFICES ASSUME RecvInv, ~disorder PROVE PostersExclusive
  BY DEF PostersExclusive
<1>1. DOMAIN in_use = 1 .. Len(in_use)
  BY DEF RecvInv, Orderly, RecvTypeOK, TypeOK
<1> QED
  BY <1>1 DEF RecvInv, Orderly, RecvTypeOK, HeldExclusive, PostersExclusive

-----------------------------------------------------------------------------
(* The send buffers. *)

Message == [addr : Nat, length : Nat, of : Thread, in_use : BOOLEAN]
Busy(t) == step[t] \in {"load", "store"}
Size == Len(buffers)
Ends(i) == buffers[i].addr + buffers[i].length

\* upto[i] is what the first i buffers take.
Cumulative(upto) ==
  /\ upto \in [0 .. Size -> Nat]
  /\ upto[0] = 0
  /\ \A i \in 1 .. Size : upto[i] = upto[i - 1] + buffers[i].length
  /\ \A i, j \in 0 .. Size : i <= j => upto[i] <= upto[j]

\* A message at b with gap bytes handed out since the start of one at a: the
\* cursor has not wrapped in between; or it has, once, and is still behind a; or
\* more than the region has been handed out.
Apart(a, b, gap, length) ==
  \/ b = a + gap
  \/ a + gap + Longest > AllocMemSize + b /\ b <= gap
  \/ gap + length > AllocMemSize

Layout(upto) ==
  /\ Cumulative(upto)
  /\ \A i \in 1 .. Size : Ends(i) <= AllocMemSize /\ buffers[i].length <= Longest
  /\ \A i, j \in 1 .. Size : i < j =>
       Apart(buffers[i].addr, buffers[j].addr, upto[j - 1] - upto[i - 1], buffers[j].length)

\* A message that starts at the cursor is next to the last one, or wraps for want
\* of room behind it.
Follows(length) ==
  Size > 0 => \/ used_send_region = Ends(Size)
              \/ used_send_region = 0 /\ Ends(Size) + length > AllocMemSize

AtStep(t) ==
  /\ step[t] \in {"no", "check", "reset"} /\ Size > 0 =>
       used_send_region = Ends(Size)
  /\ step[t] = "reset" => ~Fits(used_send_region, Length(t))
  /\ step[t] = "addr" => Fits(used_send_region, Length(t)) /\ Follows(Length(t))
  /\ Busy(t) => /\ Size > 0
                /\ buffers[Size].of = t /\ buffers[Size].in_use
                /\ buffers[Size].length = Length(t)
                /\ buffers[Size].addr = used_send_region
  /\ step[t] = "store" => loaded[t] = used_send_region

\* One thread at a time is in an allocation, and the other one waits.
InTurn ==
  /\ used_send_region <= AllocMemSize
  /\ \E t \in Thread : AtStep(t) /\ \A u \in Thread \ {t} : step[u] = "no"

SendTypeOK ==
  /\ used_send_region \in Nat
  /\ step \in [Thread -> {"no", "check", "reset", "addr", "load", "store"}]
  /\ loaded \in [Thread -> Nat]
  /\ sends \in [Thread -> Nat]
  /\ \A t \in Thread : step[t] # "no" => sends[t] \in 1 .. Len(Lengths[t])
  /\ buffers \in Seq(Message)
  /\ raced \in BOOLEAN

SendInv ==
  /\ SendTypeOK
  /\ ~raced => InTurn /\ \E upto : Layout(upto)

\* A set of natural numbers that is not empty has a smallest member.
LEMMA Smallest ==
  ASSUME NEW T \in SUBSET Nat, T # {}
  PROVE  \E i \in T : \A j \in T : i <= j
<1> DEFINE R == OpToRel(<, Nat)
<1>1. \A i, j \in Nat : j < i => <<j, i>> \in R
  BY DEF OpToRel
<1>2. IsWellFoundedOn(R, Nat)
  BY NatLessThanWellFounded
<1> HIDE DEF R
<1>3. PICK i \in T : \A j \in T : ~(<<j, i>> \in R)
  BY <1>2, WFMin
<1>4. \A j \in T : ~(j < i)
  BY <1>1, <1>3
<1> QED
  BY <1>3, <1>4

\* The longest message there is.
LEMMA LongestMessage ==
  /\ Longest \in 0 .. AllocMemSize
  /\ \A t \in Thread : \A i \in 1 .. Len(Lengths[t]) :
       Lengths[t][i] \in 1 .. AllocMemSize /\ Lengths[t][i] <= Longest
<1> DEFINE All == {0} \cup UNION {ToSet(Lengths[t]) : t \in Thread}
           Left == {AllocMemSize - n : n \in All}
<1>1. AllocMemSize \in Nat /\ Lengths \in [Thread -> Seq(1 .. AllocMemSize)]
  BY LengthsAssumption
<1>2. ASSUME NEW t \in Thread, NEW i \in 1 .. Len(Lengths[t])
      PROVE  Lengths[t][i] \in 1 .. AllocMemSize /\ Lengths[t][i] \in All
  <2>1. Lengths[t] \in Seq(1 .. AllocMemSize)
    BY <1>1
  <2>2. i \in DOMAIN Lengths[t] /\ Lengths[t][i] \in 1 .. AllocMemSize
    BY <1>2, <2>1, ElementOfSeq, LenProperties
  <2>3. Lengths[t][i] \in ToSet(Lengths[t])
    BY <2>2 DEF ToSet
  <2> QED
    BY <2>2, <2>3
<1>3. All \subseteq 0 .. AllocMemSize /\ 0 \in All
  <2>1. ASSUME NEW t \in Thread PROVE ToSet(Lengths[t]) \subseteq 0 .. AllocMemSize
    <3>1. Lengths[t] \in Seq(1 .. AllocMemSize)
      BY <1>1
    <3>2. DOMAIN Lengths[t] = 1 .. Len(Lengths[t])
      BY <3>1
    <3> QED
      BY <1>1, <1>2, <3>2 DEF ToSet
  <2>2. 0 \in 0 .. AllocMemSize
    BY <1>1
  <2>3. ASSUME NEW n \in All PROVE n \in 0 .. AllocMemSize
    <3>1. n = 0 \/ \E t \in Thread : n \in ToSet(Lengths[t])
      BY <2>3
    <3> QED
      BY <2>1, <2>2, <3>1
  <2>4. 0 \in All
    OBVIOUS
  <2> QED
    BY <2>3, <2>4
<1> HIDE DEF All
<1>4. Left \in SUBSET Nat /\ Left # {}
  BY <1>1, <1>3
<1>5. PICK least \in Left : \A m \in Left : least <= m
  BY <1>4, Smallest
<1>6. PICK most \in All : least = AllocMemSize - most
  BY <1>5
<1>7. \A n \in All : most >= n
  <2>1. ASSUME NEW n \in All PROVE most >= n
    <3>1. least <= AllocMemSize - n
      BY <1>5
    <3> QED
      BY <1>1, <1>3, <1>6, <3>1
  <2> QED
    BY <2>1
<1>8. Longest = Max(All)
  BY DEF Longest, All
<1>9. Longest \in All /\ \A n \in All : Longest >= n
  BY <1>7, <1>8 DEF Max
<1> QED
  BY <1>1, <1>2, <1>3, <1>9

\* A thread that allocates is at one of its messages.
LEMMA LengthTypes ==
  ASSUME SendTypeOK, NEW t \in Thread, step[t] # "no"
  PROVE  Length(t) \in 1 .. AllocMemSize /\ Length(t) <= Longest
BY LongestMessage DEF SendTypeOK, Length

\* Where the next message is placed keeps the distance to each one before it,
\* when the last of them has kept it.
LEMMA ApartNext ==
  ASSUME NEW a \in Nat, NEW b \in Nat, NEW c \in Nat, NEW gap \in Nat,
         NEW m \in Nat, NEW n \in Nat, n <= Longest, Apart(a, b, gap, m),
         c = b + m \/ (c = 0 /\ b + m + n > AllocMemSize)
  PROVE  Apart(a, c, gap + m, n)
<1>1. Longest \in Nat /\ AllocMemSize \in Nat
  BY LongestMessage, LengthsAssumption
<1> QED
  BY <1>1 DEF Apart

\* Two messages that are apart do not overlap while the region holds what is
\* handed out between them, around them and the longest message.
LEMMA ApartExclusive ==
  ASSUME NEW a \in Nat, NEW m \in Nat, NEW b \in Nat, NEW n \in Nat,
         NEW gap \in Nat, m <= gap, gap + n + Longest <= AllocMemSize,
         Apart(a, b, gap, n)
  PROVE  ~(a < b + n /\ b < a + m)
<1>1. Longest \in Nat /\ AllocMemSize \in Nat
  BY LongestMessage, LengthsAssumption
<1> QED
  BY <1>1 DEF Apart

LEMMA SendInit == PoolInit => SendInv
<1> SUFFICES ASSUME PoolInit PROVE SendInv
  OBVIOUS
<1>1. buffers = << >> /\ Size = 0
  BY DEF PoolInit, Size
<1>2. SendTypeOK
  <2>1. buffers \in Seq(Message)
    BY <1>1
  <2> QED
    BY <2>1 DEF PoolInit, SendTypeOK
<1>3. InTurn
  <2>1. used_send_region <= AllocMemSize
    BY LengthsAssumption DEF PoolInit
  <2>2. AtStep("main") /\ \A u \in Thread \ {"main"} : step[u] = "no"
    BY <1>1 DEF PoolInit, AtStep, Busy, Thread
  <2> QED
    BY <2>1, <2>2 DEF InTurn, Thread
<1>4. Layout([i \in 0 .. 0 |-> 0])
  BY <1>1 DEF Layout, Cumulative
<1> QED
  BY <1>2, <1>3, <1>4 DEF SendInv

\* Before a step of an allocation that does not race, the other thread waits.
LEMMA AllocAlone ==
  ASSUME SendInv, NEW t \in Thread, Alloc(t), ~raced'
  PROVE  /\ ~raced /\ AtStep(t)
         /\ \A u \in Thread \ {t} : step[u] = "no" /\ step'[u] = "no"
<1>1. /\ raced \in BOOLEAN
      /\ step \in [Thread -> {"no", "check", "reset", "addr", "load", "store"}]
  BY DEF SendInv, SendTypeOK
<1>2. ~raced
  BY <1>1 DEF Alloc, Create, Check, Reset, Addr, Load, Store
<1>3. PICK x \in Thread : AtStep(x) /\ \A u \in Thread \ {x} : step[u] = "no"
  BY <1>2 DEF SendInv, InTurn
<1>4. CASE Create(t)
  <2>1. \A u \in Thread : step[u] = "no"
    BY <1>4 DEF Create, Goto
  <2>2. AtStep(t)
    BY <1>3, <2>1 DEF AtStep, Busy
  <2> QED
    BY <1>1, <1>2, <1>4, <2>1, <2>2 DEF Create, Goto
<1>5. CASE Check(t) \/ Reset(t) \/ Addr(t) \/ Load(t) \/ Store(t)
  <2>1. step[t] # "no" /\ \A u \in Thread \ {t} : step'[u] = step[u]
    BY <1>1, <1>5 DEF Check, Reset, Addr, Load, Store, Goto
  <2>2. x = t
    BY <1>3, <2>1
  <2> QED
    BY <1>2, <1>3, <2>1, <2>2
<1> QED
  BY <1>4, <1>5 DEF Alloc

LEMMA AllocTypes ==
  ASSUME SendTypeOK, NEW t \in Thread, Alloc(t)
  PROVE  SendTypeOK'
<1>1. /\ used_send_region \in Nat
      /\ step \in [Thread -> {"no", "check", "reset", "addr", "load", "store"}]
      /\ loaded \in [Thread -> Nat] /\ sends \in [Thread -> Nat]
      /\ \A u \in Thread : step[u] # "no" => sends[u] \in 1 .. Len(Lengths[u])
      /\ buffers \in Seq(Message) /\ raced \in BOOLEAN
      /\ \A u \in Thread : Len(Lengths[u]) \in Nat
  BY LengthsAssumption DEF SendTypeOK
<1>2. CASE Create(t)
  <2>1. raced' \in BOOLEAN
    BY <1>2, Zenon DEF Create
  <2>2. /\ step' \in [Thread -> {"no", "check", "reset", "addr", "load", "store"}]
        /\ sends' \in [Thread -> Nat]
    BY <1>1, <1>2 DEF Create, Goto
  <2>3. \A u \in Thread : step'[u] # "no" => sends'[u] \in 1 .. Len(Lengths[u])
    BY <1>1, <1>2 DEF Create, Goto
  <2> QED
    BY <1>1, <1>2, <2>1, <2>2, <2>3 DEF Create, SendTypeOK
<1>3. CASE Check(t) \/ Reset(t) \/ Load(t) \/ Store(t)
  <2>1. /\ step[t] # "no" /\ UNCHANGED <<sends, buffers, raced>>
        /\ step' \in [Thread -> {"no", "check", "reset", "addr", "load", "store"}]
        /\ \A u \in Thread \ {t} : step'[u] = step[u]
    BY <1>1, <1>3 DEF Check, Reset, Load, Store, Goto
  <2>2. Length(t) \in Nat
    BY <2>1, LengthTypes
  <2>3. used_send_region' \in Nat /\ loaded' \in [Thread -> Nat]
    <3>1. CASE Check(t) \/ Reset(t)
      BY <1>1, <3>1 DEF Check, Reset
    <3>2. CASE Load(t)
      BY <1>1, <3>2 DEF Load
    <3>3. CASE Store(t)
      BY <1>1, <2>2, <3>3 DEF Store
    <3> QED
      BY <1>3, <3>1, <3>2, <3>3
  <2>4. \A u \in Thread : step'[u] # "no" => sends[u] \in 1 .. Len(Lengths[u])
    BY <1>1, <2>1
  <2> QED
    BY <1>1, <2>1, <2>3, <2>4 DEF SendTypeOK
<1>4. CASE Addr(t)
  <2>1. Length(t) \in Nat
    BY <1>4, LengthTypes DEF Addr, Goto
  <2>2. buffers' \in Seq(Message)
    BY <1>1, <1>4, <2>1 DEF Addr, Message
  <2>3. /\ step' \in [Thread -> {"no", "check", "reset", "addr", "load", "store"}]
        /\ \A u \in Thread : step'[u] # "no" => sends[u] \in 1 .. Len(Lengths[u])
    BY <1>1, <1>4 DEF Addr, Goto
  <2> QED
    BY <1>1, <1>4, <2>2, <2>3 DEF Addr, SendTypeOK
<1> QED
  BY <1>2, <1>3, <1>4 DEF Alloc

LEMMA LayoutKept ==
  ASSUME buffers' = buffers, NEW upto, Layout(upto)
  PROVE  Layout(upto)'
BY DEF Layout, Cumulative, Size, Ends

\* The thread whose turn it is comes to its next access, with the cursor where the
\* last message ends, or at zero when it does not fit.
LEMMA TurnKept ==
  ASSUME SendInv, NEW t \in Thread, Alloc(t), ~raced'
  PROVE  InTurn'
<1>1. /\ ~raced /\ AtStep(t)
      /\ \A u \in Thread \ {t} : step[u] = "no" /\ step'[u] = "no"
  BY AllocAlone
<1>2. /\ used_send_region \in Nat /\ used_send_region <= AllocMemSize
      /\ step \in [Thread -> {"no", "check", "reset", "addr", "load", "store"}]
      /\ loaded \in [Thread -> Nat] /\ sends \in [Thread -> Nat]
      /\ buffers \in Seq(Message) /\ Size \in Nat
      /\ AllocMemSize \in Nat
  BY <1>1, LengthsAssumption DEF SendInv, SendTypeOK, InTurn, Size
<1> SUFFICES used_send_region' <= AllocMemSize /\ AtStep(t)'
  BY <1>1 DEF InTurn
<1>3. ASSUME 0 < Size PROVE Ends(Size) \in Nat
  <2>1. buffers[Size] \in Message
    BY <1>2, <1>3 DEF Size
  <2> QED
    BY <2>1 DEF Ends, Message
<1>4. CASE Create(t)
  <2>1. /\ UNCHANGED <<used_send_region, buffers>> /\ step[t] = "no" /\ step'[t] = "check"
    BY <1>2, <1>4 DEF Create, Goto
  <2> QED
    BY <1>1, <1>2, <2>1 DEF AtStep, Busy, Size, Ends
<1>5. CASE Check(t)
  <2>1. /\ UNCHANGED <<used_send_region, buffers, sends>> /\ step[t] = "check"
        /\ step'[t] = IF Fits(used_send_region, Length(t)) THEN "addr" ELSE "reset"
    BY <1>2, <1>5 DEF Check, Goto
  <2> QED
    BY <1>1, <1>2, <2>1 DEF AtStep, Busy, Size, Ends, Follows, Length, Fits
<1>6. CASE Reset(t)
  <2>1. /\ used_send_region' = 0 /\ UNCHANGED <<buffers, sends>>
        /\ step[t] = "reset" /\ step'[t] = "addr"
    BY <1>2, <1>6 DEF Reset, Goto
  <2>2. Length(t) \in 1 .. AllocMemSize
    BY <2>1, LengthTypes DEF SendInv
  <2>3. Size > 0 => Ends(Size) + Length(t) > AllocMemSize
    BY <1>1, <1>2, <1>3, <2>1, <2>2 DEF AtStep, Fits
  <2> QED
    BY <1>2, <2>1, <2>2, <2>3 DEF AtStep, Busy, Size, Ends, Follows, Length, Fits
<1>7. CASE Addr(t)
  <2> DEFINE new == [addr |-> used_send_region, length |-> Length(t), of |-> t, in_use |-> TRUE]
  <2>1. /\ UNCHANGED <<used_send_region, sends>> /\ buffers' = Append(buffers, new)
        /\ step[t] = "addr" /\ step'[t] = "load"
    BY <1>2, <1>7 DEF Addr, Goto
  <2>2. Size' = Size + 1 /\ buffers'[Size'] = new
    BY <1>2, <2>1 DEF Size
  <2>3. Size' > 0
    BY <1>2, <2>2
  <2>4. Length(t)' = Length(t)
    BY <2>1 DEF Length
  <2>5. /\ buffers'[Size'].of = t /\ buffers'[Size'].in_use
        /\ buffers'[Size'].length = Length(t)'
        /\ buffers'[Size'].addr = used_send_region'
    <3>1. /\ new.of = t /\ new.in_use
          /\ new.length = Length(t) /\ new.addr = used_send_region
      OBVIOUS
    <3> HIDE DEF new
    <3> QED
      BY <2>1, <2>2, <2>4, <3>1
  <2> QED
    BY <1>2, <2>1, <2>3, <2>5 DEF AtStep, Busy
<1>8. CASE Load(t)
  <2>1. /\ UNCHANGED <<used_send_region, sends, buffers>>
        /\ loaded'[t] = used_send_region
        /\ step[t] = "load" /\ step'[t] = "store"
    BY <1>2, <1>8 DEF Load, Goto
  <2> QED
    BY <1>1, <1>2, <2>1 DEF AtStep, Busy, Length, Size
<1>9. CASE Store(t)
  <2>1. /\ used_send_region' = loaded[t] + Length(t) /\ UNCHANGED <<sends, buffers>>
        /\ step[t] = "store" /\ step'[t] = "no"
    BY <1>2, <1>9 DEF Store, Goto
  <2>2. Size > 0 /\ used_send_region' = Ends(Size)
    BY <1>1, <2>1 DEF AtStep, Busy, Ends
  <2>3. Ends(Size) <= AllocMemSize
    BY <1>1, <1>2, <2>2 DEF SendInv, Layout
  <2> QED
    BY <1>2, <2>1, <2>2, <2>3 DEF AtStep, Busy, Size, Ends
<1> QED
  BY <1>4, <1>5, <1>6, <1>7, <1>8, <1>9 DEF Alloc

\* A new message is apart from each one before it.
LEMMA LayoutGrows ==
  ASSUME SendInv, ~raced, NEW t \in Thread, Addr(t), AtStep(t), NEW upto, Layout(upto)
  PROVE  \E grown : Layout(grown)'
<1> DEFINE n == Size
           len == Length(t)
           new == [addr |-> used_send_region, length |-> len, of |-> t, in_use |-> TRUE]
<1>1. /\ used_send_region \in Nat /\ buffers \in Seq(Message) /\ n \in Nat
      /\ AllocMemSize \in Nat /\ Longest \in Nat
  BY LengthsAssumption, LongestMessage DEF SendInv, SendTypeOK, Size
<1>2. /\ buffers' = Append(buffers, new) /\ step[t] = "addr"
      /\ len \in Nat /\ len <= Longest
  BY LengthTypes DEF Addr, Goto, SendInv
<1>3. /\ Size' = n + 1
      /\ buffers'[n + 1].addr = used_send_region /\ buffers'[n + 1].length = len
      /\ \A i \in 1 .. n : buffers'[i] = buffers[i] /\ buffers[i] \in Message
  BY <1>1, <1>2 DEF Size
<1> HIDE DEF len, new
<1>4. /\ upto \in [0 .. n -> Nat] /\ upto[0] = 0
      /\ \A i \in 1 .. n : upto[i] = upto[i - 1] + buffers[i].length
      /\ \A i, j \in 0 .. n : i <= j => upto[i] <= upto[j]
  BY DEF Layout, Cumulative
<1>5. /\ used_send_region + len <= AllocMemSize
      /\ n > 0 => \/ used_send_region = Ends(n)
                  \/ used_send_region = 0 /\ Ends(n) + len > AllocMemSize
  BY <1>2 DEF AtStep, Fits, Follows, len
<1>6. PICK grown :
        /\ grown \in [0 .. n + 1 -> Nat] /\ grown[n + 1] = upto[n] + len
        /\ \A i \in 0 .. n : grown[i] = upto[i] /\ upto[i] \in Nat
  <2> DEFINE sums == [i \in 0 .. n + 1 |-> IF i = n + 1 THEN upto[n] + len ELSE upto[i]]
  <2>1. /\ sums \in [0 .. n + 1 -> Nat] /\ sums[n + 1] = upto[n] + len
        /\ \A i \in 0 .. n : sums[i] = upto[i] /\ upto[i] \in Nat
    BY <1>1, <1>2, <1>4
  <2> HIDE DEF sums
  <2> QED
    BY <2>1
<1>7. Cumulative(grown)'
  <2>1. grown[0] = 0
    BY <1>1, <1>4, <1>6
  <2>2. ASSUME NEW i \in 1 .. n + 1
        PROVE  grown[i] = grown[i - 1] + buffers'[i].length
    <3>1. CASE i = n + 1
      BY <1>1, <1>3, <1>6, <3>1
    <3>2. CASE i \in 1 .. n
      <4>1. i - 1 \in 0 .. n /\ i \in 0 .. n
        BY <1>1, <3>2
      <4>2. grown[i] = upto[i] /\ grown[i - 1] = upto[i - 1] /\ buffers'[i] = buffers[i]
        BY <1>3, <1>6, <3>2, <4>1
      <4> QED
        BY <1>4, <3>2, <4>2
    <3> QED
      BY <1>1, <3>1, <3>2
  <2>3. ASSUME NEW i \in 0 .. n + 1, NEW j \in 0 .. n + 1, i <= j
        PROVE  grown[i] <= grown[j]
    <3>1. CASE j = n + 1 /\ i <= n
      BY <1>1, <1>2, <1>4, <1>6, <3>1
    <3>2. CASE j <= n
      <4>1. i \in 0 .. n /\ j \in 0 .. n
        BY <1>1, <2>3, <3>2
      <4>2. grown[i] = upto[i] /\ grown[j] = upto[j]
        BY <1>6, <4>1
      <4> QED
        BY <1>4, <2>3, <4>1, <4>2
    <3>3. CASE i = n + 1
      BY <1>1, <1>6, <2>3, <3>3
    <3> QED
      BY <1>1, <3>1, <3>2, <3>3
  <2> QED
    <3>1. \A i \in 1 .. n + 1 : grown[i] = grown[i - 1] + buffers'[i].length
      BY <2>2
    <3>2. \A i, j \in 0 .. n + 1 : i <= j => grown[i] <= grown[j]
      BY <2>3
    <3> HIDE DEF n
    <3> QED
      BY <1>3, <1>6, <2>1, <3>1, <3>2 DEF Cumulative
<1>8. ASSUME NEW i \in 1 .. n + 1
      PROVE  Ends(i)' <= AllocMemSize /\ buffers'[i].length <= Longest
  <2>1. CASE i = n + 1
    <3>1. buffers'[i].addr = used_send_region /\ buffers'[i].length = len
      BY <1>3, <2>1
    <3> QED
      BY <1>2, <1>5, <3>1 DEF Ends
  <2>2. CASE i \in 1 .. n
    BY <1>3, <2>2 DEF Layout, Ends
  <2> QED
    BY <1>1, <2>1, <2>2
<1>9. ASSUME NEW i \in 1 .. n + 1, NEW j \in 1 .. n + 1, i < j
      PROVE  Apart(buffers'[i].addr, buffers'[j].addr, grown[j - 1] - grown[i - 1],
                   buffers'[j].length)
  <2>1. i \in 1 .. n /\ buffers'[i] = buffers[i] /\ buffers[i] \in Message
    BY <1>1, <1>3, <1>9
  <2>2. grown[i - 1] = upto[i - 1] /\ i - 1 \in 0 .. n
    BY <1>1, <1>6, <2>1
  <2>3. CASE j \in 1 .. n
    <3>1. grown[j - 1] = upto[j - 1] /\ buffers'[j] = buffers[j]
      <4>1. j - 1 \in 0 .. n
        BY <1>1, <2>3
      <4> QED
        BY <1>3, <1>6, <2>3, <4>1
    <3> QED
      BY <1>9, <2>1, <2>2, <2>3, <3>1 DEF Layout
  <2>4. CASE j = n + 1
    <3>1. /\ grown[j - 1] = upto[n] /\ buffers'[j].length = len
          /\ buffers'[j].addr = used_send_region
      BY <1>1, <1>3, <1>6, <2>4
    <3> DEFINE a == buffers[i].addr
               b == buffers[n].addr
               m == buffers[n].length
    <3>2. /\ a \in Nat /\ b \in Nat /\ m \in Nat /\ n \in 1 .. n
          /\ used_send_region = b + m \/ (used_send_region = 0 /\ b + m + len > AllocMemSize)
          /\ upto[n] = upto[n - 1] + m /\ upto[n - 1] \in Nat /\ upto[i - 1] \in Nat
      <4>1. n \in 1 .. n /\ n - 1 \in 0 .. n
        BY <1>1, <2>1
      <4>2. buffers[n] \in Message
        BY <1>3, <4>1
      <4>3. used_send_region = b + m \/ (used_send_region = 0 /\ b + m + len > AllocMemSize)
        BY <1>5, <4>1 DEF Ends
      <4> QED
        BY <1>4, <1>6, <2>1, <2>2, <4>1, <4>2, <4>3 DEF Message
    <3>3. CASE i = n
      <4>1. upto[n] - upto[n - 1] = m
        BY <3>2
      <4>2. Apart(b, used_send_region, m, len)
        <5> HIDE DEF b, m
        <5> QED
          BY <1>1, <1>2, <3>2 DEF Apart
      <4> QED
        BY <2>1, <2>2, <3>1, <3>2, <3>3, <4>1, <4>2
    <3>4. CASE i < n
      <4> DEFINE gap == upto[n - 1] - upto[i - 1]
      <4>1. Apart(a, b, gap, m)
        BY <2>1, <3>2, <3>4 DEF Layout
      <4>2. gap \in Nat
        <5>1. i - 1 \in 0 .. n /\ n - 1 \in 0 .. n /\ i - 1 <= n - 1
          BY <1>1, <2>1
        <5>2. upto[i - 1] <= upto[n - 1]
          BY <1>4, <5>1
        <5> QED
          BY <3>2, <5>2
      <4>3. upto[n] - upto[i - 1] = gap + m
        BY <3>2
      <4> HIDE DEF gap
      <4>4. Apart(a, used_send_region, gap + m, len)
        BY <1>1, <1>2, <3>2, <4>1, <4>2, ApartNext
      <4> QED
        BY <2>1, <2>2, <3>1, <4>3, <4>4
    <3> QED
      BY <1>1, <2>1, <3>3, <3>4
  <2> QED
    BY <1>1, <2>3, <2>4
<1>10. Layout(grown)'
  <2>1. \A i \in 1 .. n + 1 : Ends(i)' <= AllocMemSize /\ buffers'[i].length <= Longest
    BY <1>8
  <2>2. \A i, j \in 1 .. n + 1 : i < j =>
          Apart(buffers'[i].addr, buffers'[j].addr, grown[j - 1] - grown[i - 1],
                buffers'[j].length)
    BY <1>9
  <2> HIDE DEF n
  <2> QED
    BY <1>3, <1>7, <2>1, <2>2 DEF Layout
<1> QED
  BY <1>10

LEMMA AllocStep ==
  ASSUME SendInv, NEW t \in Thread, Alloc(t)
  PROVE  SendInv'
<1>1. SendTypeOK'
  BY AllocTypes DEF SendInv
<1>2. ASSUME ~raced' PROVE InTurn' /\ \E upto : Layout(upto)'
  <2>1. ~raced /\ AtStep(t)
    BY <1>2, AllocAlone
  <2>2. PICK upto : Layout(upto)
    BY <2>1 DEF SendInv
  <2>3. \E kept : Layout(kept)'
    <3>1. CASE Addr(t)
      BY <2>1, <2>2, <3>1, LayoutGrows
    <3>2. CASE ~Addr(t)
      <4>1. buffers' = buffers
        BY <3>2 DEF Alloc, Create, Check, Reset, Load, Store
      <4>2. Layout(upto)'
        BY <2>2, <4>1, LayoutKept
      <4> QED
        BY <4>2
    <3> QED
      BY <3>1, <3>2
  <2>4. InTurn'
    BY <1>2, TurnKept
  <2> QED
    BY <2>3, <2>4
<1> QED
  BY <1>1, <1>2 DEF SendInv

\* The end of a send drops buffers before the oldest in use, and changes no other
\* one but its own.
LEMMA SentDrops ==
  ASSUME SendTypeOK, Sent
  PROVE  \E d \in 0 .. Size : \E i \in 1 .. Size :
           /\ Queued(i)
           /\ buffers' \in Seq(Message) /\ Size' = Size - d
           /\ \A k \in 1 .. Size - d :
                /\ k + d \in 1 .. Size
                /\ buffers'[k].addr = buffers[k + d].addr
                /\ buffers'[k].length = buffers[k + d].length
                /\ buffers'[k].of = buffers[k + d].of
                /\ k + d # i => buffers'[k] = buffers[k + d]
           /\ \A k \in 1 .. Size : k # i /\ buffers[k].in_use => k > d
<1> DEFINE n == Size
<1>1. buffers \in Seq(Message) /\ n \in Nat /\ DOMAIN buffers = 1 .. n
  BY DEF SendTypeOK, Size
<1>2. PICK i \in DOMAIN buffers :
        /\ Queued(i)
        /\ LET done == [buffers EXCEPT ![i].in_use = FALSE]
               oldest == Min({j \in DOMAIN done : done[j].in_use} \cup {Len(done) + 1})
           IN  buffers' = SubSeq(done, oldest, Len(done))
  BY DEF Sent
<1> DEFINE done == [buffers EXCEPT ![i].in_use = FALSE]
           used == {j \in DOMAIN done : done[j].in_use} \cup {Len(done) + 1}
           oldest == Min(used)
<1>3. buffers' = SubSeq(done, oldest, Len(done))
  BY <1>2
<1>4. /\ done \in Seq(Message) /\ Len(done) = n /\ DOMAIN done = 1 .. n
      /\ \A k \in 1 .. n : /\ done[k].addr = buffers[k].addr
                           /\ done[k].length = buffers[k].length
                           /\ done[k].of = buffers[k].of
                           /\ k # i => done[k] = buffers[k]
  <2>1. buffers[i] \in Message
    BY <1>1, <1>2
  <2>2. done \in Seq(Message) /\ Len(done) = n
    <3> DEFINE ended == [buffers[i] EXCEPT !.in_use = FALSE]
    <3>1. ended \in Message
      BY <2>1 DEF Message
    <3>2. done = [buffers EXCEPT ![i] = ended]
      OBVIOUS
    <3>3. i \in 1 .. Len(buffers)
      BY <1>1, <1>2 DEF Size
    <3> HIDE DEF done, ended
    <3> QED
      BY <1>1, <3>1, <3>2, <3>3, ExceptSeq DEF Size
  <2>3. ASSUME NEW k \in 1 .. n
        PROVE  /\ done[k].addr = buffers[k].addr
               /\ done[k].length = buffers[k].length
               /\ done[k].of = buffers[k].of
               /\ k # i => done[k] = buffers[k]
    <3>1. buffers[k] \in Message
      BY <1>1, <2>3 DEF Size
    <3>2. done[k] = IF k = i THEN [buffers[k] EXCEPT !.in_use = FALSE] ELSE buffers[k]
      BY <1>1, <1>2, <2>3
    <3> QED
      BY <3>1, <3>2 DEF Message
  <2> QED
    BY <2>2, <2>3
<1> HIDE DEF done
<1>5. used \in SUBSET Nat /\ used # {} /\ n + 1 \in used /\ used \subseteq 1 .. n + 1
  BY <1>1, <1>4
<1>6. oldest \in used /\ \A j \in used : oldest <= j
  <2>1. \E m \in used : \A j \in used : m <= j
    BY <1>5, Smallest
  <2> HIDE DEF used
  <2> QED
    BY <2>1 DEF Min
<1>7. \A k \in 1 .. n : k # i /\ buffers[k].in_use => k \in used
  BY <1>4
<1> HIDE DEF used, oldest
<1>8. oldest \in 1 .. n + 1
  BY <1>5, <1>6
<1>9. /\ buffers' \in Seq(Message) /\ Len(buffers') = n - (oldest - 1)
      /\ \A k \in 1 .. n - oldest + 1 : buffers'[k] = done[oldest + k - 1]
  <2>1. \A k \in oldest .. n : done[k] \in Message
    BY <1>1, <1>4, <1>8
  <2>2. oldest \in Int /\ n \in Int
    BY <1>1, <1>8
  <2>3. /\ SubSeq(done, oldest, n) \in Seq(Message)
        /\ Len(SubSeq(done, oldest, n)) = IF oldest <= n THEN n - oldest + 1 ELSE 0
        /\ \A k \in 1 .. n - oldest + 1 : SubSeq(done, oldest, n)[k] = done[oldest + k - 1]
    BY <2>1, <2>2, SubSeqProperties
  <2> QED
    BY <1>1, <1>3, <1>4, <1>8, <2>3
<1>10. PICK d \in 0 .. n : d = oldest - 1
  BY <1>1, <1>8
<1>11. Size' = n - d
  BY <1>9, <1>10 DEF Size
<1>12. ASSUME NEW k \in 1 .. n - d
       PROVE  /\ k + d \in 1 .. n
              /\ buffers'[k].addr = buffers[k + d].addr
              /\ buffers'[k].length = buffers[k + d].length
              /\ buffers'[k].of = buffers[k + d].of
              /\ k + d # i => buffers'[k] = buffers[k + d]
  <2>1. k + d \in 1 .. n /\ k \in 1 .. n - oldest + 1 /\ oldest + k - 1 = k + d
    BY <1>1, <1>8, <1>10
  <2>2. buffers'[k] = done[k + d]
    BY <1>9, <2>1
  <2> QED
    BY <1>4, <2>1, <2>2
<1>13. \A k \in 1 .. n : k # i /\ buffers[k].in_use => k > d
  <2>1. ASSUME NEW k \in 1 .. n, k # i, buffers[k].in_use PROVE k > d
    <3>1. oldest <= k
      BY <1>6, <1>7, <2>1
    <3> QED
      BY <1>1, <1>8, <1>10, <3>1
  <2> QED
    BY <2>1
<1> QED
  <2>1. /\ Queued(i)
        /\ buffers' \in Seq(Message) /\ Size' = n - d
        /\ \A k \in 1 .. n - d :
             /\ k + d \in 1 .. n
             /\ buffers'[k].addr = buffers[k + d].addr
             /\ buffers'[k].length = buffers[k + d].length
             /\ buffers'[k].of = buffers[k + d].of
             /\ k + d # i => buffers'[k] = buffers[k + d]
        /\ \A k \in 1 .. n : k # i /\ buffers[k].in_use => k > d
    BY <1>2, <1>9, <1>11, <1>12, <1>13
  <2>2. i \in 1 .. n
    BY <1>1, <1>2
  <2> QED
    BY <2>1, <2>2

LEMMA SentStep ==
  ASSUME SendInv, Sent
  PROVE  SendInv'
<1> DEFINE n == Size
<1>1. /\ UNCHANGED <<used_send_region, step, loaded, sends, raced>>
      /\ buffers \in Seq(Message) /\ n \in Nat
  BY DEF Sent, SendInv, SendTypeOK, Size
<1>2. PICK d \in 0 .. n, i \in 1 .. n :
        /\ Queued(i)
        /\ buffers' \in Seq(Message) /\ Size' = n - d
        /\ \A k \in 1 .. n - d :
             /\ k + d \in 1 .. n
             /\ buffers'[k].addr = buffers[k + d].addr
             /\ buffers'[k].length = buffers[k + d].length
             /\ buffers'[k].of = buffers[k + d].of
             /\ k + d # i => buffers'[k] = buffers[k + d]
        /\ \A k \in 1 .. n : k # i /\ buffers[k].in_use => k > d
  BY SentDrops DEF SendInv
<1>3. SendTypeOK'
  BY <1>1, <1>2 DEF SendInv, SendTypeOK
<1>4. ASSUME 0 < Size'
      PROVE  /\ 0 < n /\ Ends(Size)' = Ends(n)
             /\ buffers'[Size'].addr = buffers[n].addr
             /\ buffers'[Size'].length = buffers[n].length
             /\ buffers'[Size'].of = buffers[n].of
             /\ n # i => buffers'[Size'] = buffers[n]
  <2>1. n - d \in 1 .. n - d /\ (n - d) + d = n /\ 0 < n
    BY <1>1, <1>2, <1>4
  <2>2. /\ buffers'[n - d].addr = buffers[n].addr
        /\ buffers'[n - d].length = buffers[n].length
        /\ buffers'[n - d].of = buffers[n].of
        /\ n # i => buffers'[n - d] = buffers[n]
    BY <1>2, <2>1
  <2> QED
    BY <1>2, <2>1, <2>2 DEF Ends
<1>5. ASSUME ~raced PROVE InTurn'
  <2>1. PICK t \in Thread : AtStep(t) /\ \A u \in Thread \ {t} : step[u] = "no"
    BY <1>5 DEF SendInv, InTurn
  <2>2. used_send_region' <= AllocMemSize
    BY <1>1, <1>5 DEF SendInv, InTurn
  <2>3. Busy(t) => /\ 0 < Size' /\ buffers'[Size'] = buffers[n]
                   /\ buffers[n].of = t /\ buffers[n].in_use
                   /\ buffers[n].length = Length(t)
                   /\ buffers[n].addr = used_send_region
    <3>1. SUFFICES ASSUME Busy(t) PROVE 0 < Size' /\ buffers'[Size'] = buffers[n]
      BY <2>1 DEF AtStep
    <3>2. n > 0 /\ buffers[n].of = t /\ buffers[n].in_use
      BY <2>1, <3>1 DEF AtStep
    <3>3. n # i
      BY <1>1, <1>2, <3>1, <3>2 DEF Queued, Busy, Size
    <3>4. n > d
      <4>1. \A k \in 1 .. n : k # i /\ buffers[k].in_use => k > d
        BY <1>2
      <4>2. n \in 1 .. n
        BY <1>1, <3>2
      <4> QED
        BY <3>2, <3>3, <4>1, <4>2
    <3>5. 0 < Size'
      BY <1>1, <1>2, <3>4
    <3> QED
      BY <1>4, <3>3, <3>5
  <2>4. Length(t)' = Length(t) /\ step'[t] = step[t] /\ loaded'[t] = loaded[t]
    BY <1>1 DEF Length
  <2>5. AtStep(t)'
    <3>1. (step[t] \in {"no", "check", "reset"} /\ Size > 0 => used_send_region = Ends(Size))'
      BY <1>1, <1>4, <2>1 DEF AtStep
    <3>2. (step[t] = "reset" => ~Fits(used_send_region, Length(t)))'
      BY <1>1, <2>1, <2>4 DEF AtStep, Fits
    <3>3. (step[t] = "addr" => Fits(used_send_region, Length(t)) /\ Follows(Length(t)))'
      BY <1>1, <1>4, <2>1, <2>4 DEF AtStep, Fits, Follows
    <3>4. (step[t] = "store" => loaded[t] = used_send_region)'
      BY <1>1, <2>1 DEF AtStep
    <3>5. Busy(t)' = Busy(t)
      BY <1>1 DEF Busy
    <3> QED
      BY <1>1, <2>3, <2>4, <3>1, <3>2, <3>3, <3>4, <3>5 DEF AtStep
  <2> QED
    BY <1>1, <2>1, <2>2, <2>5 DEF InTurn
<1>6. ASSUME ~raced PROVE \E upto : Layout(upto)'
  <2>1. PICK upto : Layout(upto)
    BY <1>6 DEF SendInv
  <2>2. /\ upto \in [0 .. n -> Nat]
        /\ \A k \in 1 .. n : upto[k] = upto[k - 1] + buffers[k].length
        /\ \A k, m \in 0 .. n : k <= m => upto[k] <= upto[m]
    BY <2>1 DEF Layout, Cumulative
  <2>3. PICK left : left = [k \in 0 .. n - d |-> upto[k + d] - upto[d]]
    OBVIOUS
  <2>4. ASSUME NEW k \in 0 .. n - d
        PROVE  /\ k + d \in 0 .. n /\ upto[d] \in Nat /\ upto[k + d] \in Nat
               /\ left[k] = upto[k + d] - upto[d] /\ left[k] \in Nat
    <3>1. k + d \in 0 .. n /\ d <= k + d
      BY <1>1, <1>2, <2>4
    <3>2. upto[d] \in Nat /\ upto[k + d] \in Nat /\ upto[d] <= upto[k + d]
      BY <1>2, <2>2, <3>1
    <3> QED
      BY <2>3, <3>1, <3>2
  <2>5. Cumulative(left)'
    <3>1. left \in [0 .. n - d -> Nat]
      BY <2>3, <2>4
    <3>2. left[0] = 0
      <4>1. 0 \in 0 .. n - d /\ 0 + d = d
        BY <1>1, <1>2
      <4> QED
        BY <2>4, <4>1
    <3>3. ASSUME NEW k \in 1 .. n - d PROVE left[k] = left[k - 1] + buffers'[k].length
      <4>1. /\ k \in 0 .. n - d /\ k - 1 \in 0 .. n - d /\ (k - 1) + d = (k + d) - 1
            /\ k + d \in 1 .. n
        BY <1>1, <1>2, <3>3
      <4>2. upto[k + d] = upto[(k + d) - 1] + buffers[k + d].length
        BY <2>2, <4>1
      <4>3. buffers'[k].length = buffers[k + d].length /\ buffers[k + d].length \in Nat
        <5>1. buffers[k + d] \in Message
          BY <1>1, <4>1 DEF Size
        <5> QED
          BY <1>2, <3>3, <5>1 DEF Message
      <4>4. left[k] = upto[k + d] - upto[d] /\ left[k - 1] = upto[(k + d) - 1] - upto[d]
        BY <2>4, <4>1
      <4>5. upto[d] \in Nat /\ upto[(k + d) - 1] \in Nat
        BY <2>4, <4>1
      <4> QED
        BY <4>2, <4>3, <4>4, <4>5
    <3>4. ASSUME NEW k \in 0 .. n - d, NEW m \in 0 .. n - d, k <= m
          PROVE  left[k] <= left[m]
      <4>1. k + d \in 0 .. n /\ m + d \in 0 .. n /\ k + d <= m + d
        BY <1>1, <1>2, <2>4, <3>4
      <4>2. upto[k + d] <= upto[m + d]
        BY <2>2, <4>1
      <4> QED
        BY <2>4, <4>2
    <3>5. \A k \in 1 .. n - d : left[k] = left[k - 1] + buffers'[k].length
      BY <3>3
    <3>6. \A k, m \in 0 .. n - d : k <= m => left[k] <= left[m]
      BY <3>4
    <3> HIDE DEF n
    <3> QED
      BY <1>2, <3>1, <3>2, <3>5, <3>6 DEF Cumulative
  <2>6. ASSUME NEW k \in 1 .. n - d
        PROVE  Ends(k)' <= AllocMemSize /\ buffers'[k].length <= Longest
    <3>1. Ends(k)' = Ends(k + d) /\ buffers'[k].length = buffers[k + d].length
      BY <1>2, <2>6 DEF Ends
    <3> QED
      BY <1>2, <2>1, <2>6, <3>1 DEF Layout
  <2>7. ASSUME NEW k \in 1 .. n - d, NEW m \in 1 .. n - d, k < m
        PROVE  Apart(buffers'[k].addr, buffers'[m].addr, left[m - 1] - left[k - 1],
                     buffers'[m].length)
    <3>1. /\ k - 1 \in 0 .. n - d /\ m - 1 \in 0 .. n - d /\ k + d < m + d
          /\ (k - 1) + d = (k + d) - 1 /\ (m - 1) + d = (m + d) - 1
      BY SMTT(30), <1>1, <1>2, <2>7
    <3>2. left[m - 1] - left[k - 1] = upto[(m + d) - 1] - upto[(k + d) - 1]
      <4>1. /\ left[m - 1] = upto[(m + d) - 1] - upto[d]
            /\ left[k - 1] = upto[(k + d) - 1] - upto[d]
            /\ upto[(m + d) - 1] \in Nat /\ upto[(k + d) - 1] \in Nat /\ upto[d] \in Nat
        BY <2>4, <3>1
      <4> QED
        BY <4>1
    <3>3. Apart(buffers[k + d].addr, buffers[m + d].addr,
                upto[(m + d) - 1] - upto[(k + d) - 1], buffers[m + d].length)
      BY <1>2, <2>1, <2>7, <3>1 DEF Layout
    <3> QED
      BY <1>2, <2>7, <3>2, <3>3
  <2>8. Layout(left)'
    <3>1. \A k \in 1 .. n - d : Ends(k)' <= AllocMemSize /\ buffers'[k].length <= Longest
      BY <2>6
    <3>2. \A k, m \in 1 .. n - d : k < m =>
            Apart(buffers'[k].addr, buffers'[m].addr, left[m - 1] - left[k - 1],
                  buffers'[m].length)
      BY <2>7
    <3> HIDE DEF n
    <3> QED
      BY <1>2, <2>5, <3>1, <3>2 DEF Layout
  <2> QED
    BY <2>8
<1> QED
  BY <1>1, <1>3, <1>5, <1>6 DEF SendInv

\* The window is the sum of the lengths.
LEMMA WindowIsSum ==
  ASSUME buffers \in Seq(Message), NEW upto, Cumulative(upto)
  PROVE  Window = upto[Size]
<1> DEFINE n == Len(buffers)
           sums == CHOOSE f : f = [i \in 0 .. n |->
                     IF i = 0 THEN 0 ELSE f[i - 1] + buffers[i].length]
<1>1. /\ n \in Nat /\ Size = n
      /\ upto \in [0 .. n -> Nat] /\ upto[0] = 0
      /\ \A i \in 1 .. n : upto[i] = upto[i - 1] + buffers[i].length
  BY DEF Cumulative, Size
<1>2. upto = [i \in 0 .. n |-> IF i = 0 THEN 0 ELSE upto[i - 1] + buffers[i].length]
  <2>1. ASSUME NEW i \in 0 .. n
        PROVE  upto[i] = IF i = 0 THEN 0 ELSE upto[i - 1] + buffers[i].length
    <3>1. CASE i = 0
      BY <1>1, <3>1
    <3>2. CASE i \in 1 .. n
      BY <1>1, <3>2
    <3> QED
      BY <1>1, <3>1, <3>2
  <2> QED
    BY <1>1, <2>1
<1>3. sums = [i \in 0 .. n |-> IF i = 0 THEN 0 ELSE sums[i - 1] + buffers[i].length]
  <2>1. \E f : f = [i \in 0 .. n |-> IF i = 0 THEN 0 ELSE f[i - 1] + buffers[i].length]
    BY <1>2
  <2> QED
    BY <2>1, Zenon
<1>4. Window = sums[n]
  BY Zenon DEF Window
<1> HIDE DEF sums
<1>5. /\ sums[0] = 0
      /\ \A i \in 1 .. n : sums[i] = sums[i - 1] + buffers[i].length
  <2>1. \A i \in 0 .. n : sums[i] = IF i = 0 THEN 0 ELSE sums[i - 1] + buffers[i].length
    BY <1>3
  <2>2. 0 \in 0 .. n /\ \A i \in 1 .. n : i \in 0 .. n /\ i # 0
    BY <1>1
  <2> HIDE DEF n
  <2> QED
    BY <2>1, <2>2
<1>6. \A i \in 0 .. n : sums[i] = upto[i]
  <2> DEFINE T == {i \in 0 .. n : sums[i] # upto[i]}
  <2>1. SUFFICES ASSUME T # {} PROVE FALSE
    BY <2>1
  <2>2. T \in SUBSET Nat
    OBVIOUS
  <2>3. PICK i \in T : \A j \in T : i <= j
    BY <2>1, <2>2, Smallest
  <2>4. i \in 1 .. n /\ i - 1 \in 0 .. n
    BY <1>1, <1>5, <2>3
  <2>5. sums[i - 1] = upto[i - 1]
    BY <2>3, <2>4
  <2>6. sums[i] = upto[i]
    BY <1>1, <1>5, <2>4, <2>5
  <2> QED
    BY <2>3, <2>6
<1> QED
  BY <1>1, <1>4, <1>6

LEMMA SendInvExclusive == SendInv => SendBuffersExclusive
<1> SUFFICES ASSUME SendInv, ~raced, Window + Longest <= AllocMemSize,
                    NEW i \in DOMAIN buffers, buffers[i].in_use
             PROVE  /\ buffers[i].addr + buffers[i].length <= AllocMemSize
                    /\ \A j \in DOMAIN buffers \ {i} :
                         buffers[j].in_use => ~Overlap(buffers[i], buffers[j])
  BY DEF SendBuffersExclusive
<1> DEFINE n == Size
<1>1. /\ buffers \in Seq(Message) /\ n \in Nat /\ DOMAIN buffers = 1 .. n
      /\ AllocMemSize \in Nat /\ Longest \in Nat
  BY LengthsAssumption, LongestMessage DEF SendInv, SendTypeOK, Size
<1>2. PICK upto : Layout(upto)
  BY DEF SendInv
<1>3. Window = upto[n]
  BY <1>1, <1>2, WindowIsSum DEF Layout
<1>4. ASSUME NEW a \in 1 .. n, NEW b \in 1 .. n, a < b
      PROVE  ~Overlap(buffers[a], buffers[b]) /\ ~Overlap(buffers[b], buffers[a])
  <2> DEFINE gap == upto[b - 1] - upto[a - 1]
  <2>1. buffers[a] \in Message /\ buffers[b] \in Message
    BY <1>1 DEF Size
  <2>2. /\ buffers[a].addr \in Nat /\ buffers[a].length \in Nat
        /\ buffers[b].addr \in Nat /\ buffers[b].length \in Nat
    BY <2>1 DEF Message
  <2>3. /\ upto[a - 1] \in Nat /\ upto[a] \in Nat /\ upto[b - 1] \in Nat
        /\ upto[b] \in Nat /\ upto[n] \in Nat
        /\ upto[a] = upto[a - 1] + buffers[a].length
        /\ upto[b] = upto[b - 1] + buffers[b].length
        /\ upto[a] <= upto[b - 1] /\ upto[b] <= upto[n]
    <3>1. /\ a - 1 \in 0 .. n /\ a \in 0 .. n /\ b - 1 \in 0 .. n /\ b \in 0 .. n
          /\ n \in 0 .. n /\ a <= b - 1 /\ b <= n
      BY <1>1, <1>4
    <3> HIDE DEF n
    <3> QED
      BY <1>2, <3>1 DEF Layout, Cumulative, n
  <2>4. gap \in Nat /\ buffers[a].length <= gap
    BY <2>2, <2>3
  <2>5. gap + buffers[b].length + Longest <= AllocMemSize
    <3>1. upto[n] + Longest <= AllocMemSize
      BY <1>3
    <3>2. gap + buffers[b].length = upto[b] - upto[a - 1]
      BY <2>2, <2>3
    <3> HIDE DEF gap
    <3> QED
      BY SMTT(30), <1>1, <2>3, <3>1, <3>2
  <2>6. Apart(buffers[a].addr, buffers[b].addr, gap, buffers[b].length)
    BY <1>2, <1>4 DEF Layout
  <2> HIDE DEF gap
  <2>7. ~(/\ buffers[a].addr < buffers[b].addr + buffers[b].length
          /\ buffers[b].addr < buffers[a].addr + buffers[a].length)
    BY <2>2, <2>4, <2>5, <2>6, ApartExclusive
  <2> QED
    BY <2>7 DEF Overlap
<1>5. buffers[i].addr + buffers[i].length <= AllocMemSize
  BY <1>1, <1>2 DEF Layout, Ends
<1>6. ASSUME NEW j \in DOMAIN buffers \ {i} PROVE ~Overlap(buffers[i], buffers[j])
  <2>1. i \in 1 .. n /\ j \in 1 .. n /\ (i < j \/ j < i)
    BY <1>1
  <2> QED
    BY <1>4, <2>1
<1> QED
  BY <1>5, <1>6

-----------------------------------------------------------------------------
(* The pool: the client's or the server's. *)

PoolInv ==
  /\ role \in {"client", "server"}
  /\ role = "client" => Inv /\ OneThread /\ HeldTypeOK
  /\ role = "server" => RecvInv
  /\ SendInv

LEMMA PoolInvInit == PoolInit => PoolInv
<1> SUFFICES ASSUME PoolInit PROVE PoolInv
  OBVIOUS
<1>1. Init /\ HeldInit /\ role \in {"client", "server"}
  BY DEF PoolInit
<1>2. RecvInv /\ OneThread
  BY <1>1, RecvInit
<1>3. Inv
  BY <1>1, InvInit
<1>4. SendInv
  BY SendInit
<1> QED
  BY <1>1, <1>2, <1>3, <1>4 DEF PoolInv, RecvInv

LEMMA PoolInvStep == PoolInv /\ [PoolNext]_<<role, vars, heldVars, sendVars>> => PoolInv'
<1> SUFFICES ASSUME PoolInv, [PoolNext]_<<role, vars, heldVars, sendVars>> PROVE PoolInv'
  OBVIOUS
<1>1. ASSUME UNCHANGED sendVars PROVE SendInv'
  <2>1. SendTypeOK'
    BY <1>1 DEF PoolInv, sendVars, SendInv, SendTypeOK
  <2>2. ASSUME ~raced PROVE InTurn' /\ \E upto : Layout(upto)'
    <3>1. InTurn'
      BY <1>1, <2>2 DEF PoolInv, sendVars, SendInv, InTurn, AtStep, Busy, Follows, Fits,
        Length, Size, Ends
    <3>2. PICK upto : Layout(upto)
      BY <2>2 DEF PoolInv, SendInv
    <3>3. Layout(upto)'
      BY <1>1, <3>2, LayoutKept DEF sendVars
    <3> QED
      BY <3>1, <3>3
  <2> QED
    BY <1>1, <2>1, <2>2 DEF sendVars, SendInv
<1>2. ASSUME UNCHANGED heldVars, Inv', role = "client"
      PROVE  Inv' /\ OneThread' /\ HeldTypeOK'
  <2>1. /\ used_recv_region' \in Place /\ in_use' \in Seq(Place)
        /\ reading' \in SUBSET Place
    <3>1. TypeOK'
      BY <1>2 DEF Inv
    <3>2. Slot \subseteq Place
      BY RingAssumption DEF Slot, Place
    <3>3. used_recv_region' \in Place
      BY <3>1, RingAssumption DEF TypeOK, Place
    <3>4. in_use' \in Seq(Place) /\ reading' \in SUBSET Place
      BY <3>1, <3>2 DEF TypeOK
    <3> QED
      BY <3>3, <3>4
  <2>2. HeldTypeOK'
    BY <1>2, <2>1 DEF PoolInv, heldVars, HeldTypeOK, Inv, TypeOK
  <2> QED
    BY <1>2, <2>2 DEF PoolInv, heldVars, OneThread
<1>3. CASE role = "client" /\ ClientNext /\ UNCHANGED <<role, heldVars>>
  <2>1. [Next]_vars
    BY <1>3 DEF ClientNext, Handler, Next
  <2>2. Inv'
    BY <1>3, <2>1, InvStep DEF PoolInv
  <2>3. SendInv'
    <3>1. CASE \E t \in Thread : Alloc(t) /\ UNCHANGED vars
      BY <3>1, AllocStep DEF PoolInv
    <3>2. CASE Handled /\ Sent
      BY <3>2, SentStep DEF PoolInv
    <3> QED
      BY <1>1, <1>3, <3>1, <3>2 DEF ClientNext
  <2> QED
    BY <1>2, <1>3, <2>2, <2>3 DEF PoolInv
<1>4. CASE role = "server" /\ ServerRecvNext /\ UNCHANGED <<role, sendVars>>
  <2>1. RecvInv'
    BY <1>4, ServerRecvStep DEF PoolInv
  <2> QED
    BY <1>1, <1>4, <2>1 DEF PoolInv
<1>5. CASE UNCHANGED <<role, vars, heldVars, sendVars>>
  <2>1. Inv => Inv'
    BY <1>5, InvStep
  <2>2. RecvInv => RecvInv'
    BY <1>5 DEF vars, heldVars, RecvInv, Orderly, Turns, Alone, RecvTypeOK, TypeOK, HeldTypeOK,
      BuffersExclusive, Counts, Ages, HeldExclusive, Age, HeldNow, Holds
  <2> QED
    BY <1>1, <1>2, <1>5, <2>1, <2>2 DEF PoolInv
<1> QED
  BY <1>3, <1>4, <1>5 DEF PoolNext

LEMMA PoolAlways == PoolSpec => []PoolInv
<1> QED
  BY PoolInvInit, PoolInvStep, PTL DEF PoolSpec

\* Every variable of a pool has its type: in particular the send cursor is never
\* negative, and a client's receive cursor stays inside the region.
THEOREM PoolTypes == PoolSpec => []PoolTypeOK
<1>1. PoolInv => PoolTypeOK
  BY DEF PoolInv, Inv, RecvInv, SendInv, SendTypeOK, Message, PoolTypeOK
<1> QED
  BY <1>1, PoolAlways, PTL

\* No receive buffer of a client's pool is in use twice: the receives of a client
\* are posted on one thread.
THEOREM PoolReceivesExclusive == PoolSpec => []ClientBuffersExclusive
<1>1. PoolInv => ClientBuffersExclusive
  BY RingExclusive DEF PoolInv, ClientBuffersExclusive
<1> QED
  BY <1>1, PoolAlways, PTL

\* As long as the two threads of a server do not allocate at once, and neither is
\* passed by more than the spare slots between its slot and its receive, every
\* slot is in the region and with one of the device, the handler and the threads:
\* for every number of slots, and of spare ones.
THEOREM TwoPostersExclusive == PoolSpec => []PostersExclusive
<1>1. PoolInv => PostersExclusive
  <2> SUFFICES ASSUME PoolInv PROVE PostersExclusive
    OBVIOUS
  <2>1. CASE role = "server"
    BY <2>1, RecvInvExclusive DEF PoolInv
  <2>2. CASE role = "client"
    <3>1. /\ TypeOK /\ BuffersExclusive
          /\ held["main"] = {} /\ held["epoll"] = {}
      BY <2>2, RingExclusive DEF PoolInv, Inv, OneThread, Thread
    <3> QED
      BY <3>1 DEF PostersExclusive, Thread
  <2> QED
    BY <2>1, <2>2 DEF PoolInv
<1> QED
  BY <1>1, PoolAlways, PTL

\* The messages of a client that are in use keep to the region and apart, although
\* the cursor wraps without asking: for every size of the region and every
\* sequence of lengths, while the two threads do not allocate at once and what
\* was sent since the oldest in use leaves room for the longest.
THEOREM SendsExclusive == PoolSpec => []SendBuffersExclusive
<1>1. PoolInv => SendBuffersExclusive
  BY SendInvExclusive DEF PoolInv
<1> QED
  BY <1>1, PoolAlways, PTL
=============================================================================
