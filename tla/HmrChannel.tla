----------------------------- MODULE HmrChannel -----------------------------
(***************************************************************************)
(* What hmr_rdma_send promises a program: each end's messages go into a    *)
(* queue to the other end and leave it in order, an RDMA write possibly    *)
(* before the sends in front of it, or they are lost.  No message comes    *)
(* twice, and the connection closes only when FINISH has come.  Messages   *)
(* are sent in the order of the script, so a queue is a set of places in   *)
(* it, in their order.                                                     *)
(***************************************************************************)
EXTENDS Naturals, Sequences

CONSTANTS
  Sender,      \* the two ends
  Closer,      \* the end that sends FINISH
  ScriptOf(_)  \* the messages of each end, in order

VARIABLES
  pos,      \* per end: the message it is to send next
  queue,    \* per end: the messages sent that have neither come nor been lost
  arrived,  \* per end: the ones that have come
  closed,   \* the closer's program has closed the connection
  broken    \* the program has gone where nothing is promised

vars == <<pos, queue, arrived, closed, broken>>

Type(e, i) == ScriptOf(e)[i]

Init ==
  /\ pos = [e \in Sender |-> 1]
  /\ queue = [e \in Sender |-> {}]
  /\ arrived = [e \in Sender |-> {}]
  /\ closed = FALSE
  /\ broken = FALSE

\* The program's next message is accepted, or refused.
Send(e) ==
  /\ pos[e] <= Len(ScriptOf(e))
  /\ pos' = [pos EXCEPT ![e] = @ + 1]
  /\ queue' \in {queue, [queue EXCEPT ![e] = @ \cup {pos[e]}]}
  /\ UNCHANGED <<arrived, closed>>

\* The first message arrives, or the first of the writes.
Arrive(e, i) ==
  /\ \A j \in queue[e] : j < i => Type(e, i) = "WRITE" /\ Type(e, j) # "WRITE"
  /\ arrived' = [arrived EXCEPT ![e] = @ \cup {i}]
  /\ queue' = [queue EXCEPT ![e] = @ \ {i}]
  /\ UNCHANGED <<pos, closed>>

\* Messages are lost on their way, of one end or of both.
Lose ==
  /\ queue' \in [Sender -> SUBSET UNION {queue[e] : e \in Sender}]
  /\ \A e \in Sender : queue'[e] \subseteq queue[e]
  /\ UNCHANGED <<pos, arrived>>

\* The connection may close once FINISH has come, and takes messages with it.
Close ==
  \/ UNCHANGED closed
  \/ /\ closed' = TRUE
     /\ \E i \in arrived[Closer] : Type(Closer, i) = "FINISH"

Works ==
  \/ \E e \in Sender : Send(e) \/ \E i \in queue[e] : Arrive(e, i)
  \/ Lose /\ Close

\* The channel breaks, once and for all.
Breaks == broken' = TRUE

Next == (Works /\ UNCHANGED broken) \/ Breaks

Spec == Init /\ [][Next]_vars
=============================================================================
