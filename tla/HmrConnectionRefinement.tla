---------------------- MODULE HmrConnectionRefinement ----------------------
(***************************************************************************)
(* HmrConnection implements HmrChannel: the list, the QP's queue and the   *)
(* polled but unhandled receives of the peer are one queue, in which the   *)
(* timer, the QP and the connection manager move messages unseen.          *)
(***************************************************************************)
EXTENDS HmrConnection

\* The messages of main in a sequence: MR and DONE, which no program sends, have
\* no place in its script and are not in the channel.
Ids(s) == {s[k].id : k \in 1..Len(s)} \ {0}

\* Those in the list that the timer has not yet given to the QP.  What it has,
\* and not yet unlinked, is on the wire.
Waiting(e) ==
  {send_task_list[e][k].id : k \in posted[e] + 1 .. Len(send_task_list[e])} \ {0}

ChannelQueue(e) == Ids(recvs[Peer(e)]) \cup Ids(wire[e]) \cup Waiting(e)

\* Between hmr_msg_check and the insertion the message is still main's.
Channel == INSTANCE HmrChannel WITH
  Sender <- End,
  Closer <- "client",
  ScriptOf <- Script,
  pos <- pos,
  queue <- [e \in End |-> ChannelQueue(e)],
  arrived <- arrived,
  closed <- qp["client"] = "destroyed" /\ trans_state["client"] # "ERROR",
  broken <- ~NoneTwice

\* Two threads per end and the connection between them give the program the
\* channel: order, no second copy, and a close only after FINISH, through every
\* failure the code handles, until a refused post has taken a part of a list.
ImplementsChannel == Channel!Spec
=============================================================================
