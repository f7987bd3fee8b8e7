------------------------- MODULE HmrDeliveryProofs -------------------------
(***************************************************************************)
(* Proofs about HmrConnection, continued: what becomes of the messages of  *)
(* main.  One inductive invariant, over the invariant of the exchange in   *)
(* HmrConnectionProofs, says which of the list, the wire and the receives  *)
(* of the peer each message is in, in which order, and that none is        *)
(* missing; from it follow InOrder, OneCopy, GracefulClose and             *)
(* ClientResourcesLive, and that HmrConnection implements HmrChannel.      *)
(***************************************************************************)
EXTENDS HmrConnectionProofs, HmrConnectionRefinement

-----------------------------------------------------------------------------
(* Where the messages of main are. *)

\* What an end can put in its list and on its wire.
Valid(e) == {Mr, Done} \cup {[type |-> Script(e)[i], id |-> i] : i \in IdsOf(e)}

ValidInv ==
  \A e \in End :
    /\ send_task_list[e] \in Seq(Valid(e))
    /\ wire[e] \in Seq(Valid(e))
    /\ sent[e] \in Seq(Valid(e))
    /\ recvs[Peer(e)] \in Seq(Valid(e))

\* The messages of main that have arrived or been dropped.
Gone(e) == arrived[e] \cup dropped[e]

\* What the timer has posted is in the list, and only between its two loops.
PostedInv ==
  \A e \in End : /\ posted[e] <= Len(send_task_list[e])
                 /\ stage[e] # "unlink" => posted[e] = 0
                 /\ qp[e] # "ready" => wire[e] = << >>

\* The messages of main are in the order of their indices; every index of one set
\* is below those of another.
Rising(s) ==
  \A j, k \in 1..Len(s) : j < k /\ s[j].id # 0 /\ s[k].id # 0 => s[j].id < s[k].id
Less(S, T) == \A i \in S, j \in T : i < j

\* What is received (R), on the wire (W), waiting (U), in the list (L) and gone
\* (G), and the next message to send (p).  The earlier of a received message have
\* been received or are gone, whatever happens to the wire meanwhile.
Ordered(R, W, U, L, G, p) ==
  /\ Less(R, W) /\ Less(R, U) /\ Less(W, U)
  /\ \A i \in R \cup W \cup L \cup G : i < p
  /\ \A i \in R \cup W \cup U : i \notin G
  /\ \A i \in R : \A j \in 1 .. i - 1 : j \in G \cup R

\* No message is missing.
Complete(R, W, U, G, p) == \A j \in 1 .. p - 1 : j \in G \cup R \cup W \cup U

\* Messages of this end can still reach the other.
Working(e) == cm \in Answered /\ qp[e] = "ready" /\ qp[Peer(e)] = "ready"

FlowOf(e) ==
  /\ Rising(recvs[Peer(e)]) /\ Rising(wire[e]) /\ Rising(send_task_list[e])
  /\ Ordered(Ids(recvs[Peer(e)]), Ids(wire[e]), Waiting(e), Ids(send_task_list[e]),
             Gone(e), pos[e])
  /\ Working(e) =>
       Complete(Ids(recvs[Peer(e)]), Ids(wire[e]), Waiting(e), Gone(e), pos[e])

FlowInv == \A e \in End : FlowOf(e)

\* Before the client has taken ESTABLISHED main has sent nothing, and has given
\* up nothing unless the handshake has failed.
FailInv ==
  /\ cm \notin Answered =>
       \A e \in End : arrived[e] = {} /\ dropped[e] = {} /\ misuse[e] = {}
  /\ cm \notin Answered \cup {"failed"} =>
       \A e \in End : pos[e] = 1 /\ trans_state[e] # "ERROR" /\ qp[e] # "destroyed"
  /\ cm \in Answered => \A e \in End : trans_state[e] # "ERROR"
  /\ cm = "failed" /\ qp["client"] = "destroyed" => trans_state["client"] = "ERROR"
  /\ \/ normal_mempool["client"] = "live"
     \/ cm \in {"idle", "resolving_addr", "addr_resolved", "failed", "disconnecting"}

\* The server has handled FINISH.
Finished == \E i \in arrived["client"] : i \in IdsOf("client") /\ ClientScript[i] = "FINISH"

\* DONE, and the disconnection that it brings, come after FINISH.
DoneInv ==
  /\ \A s \in {send_task_list["client"], wire["client"], sent["client"], recvs["server"]} :
       NoType(s, "DONE")
  /\ NoType(send_task_list["client"], "MR")
  /\ ~Finished =>
       /\ \A s \in {send_task_list["server"], wire["server"], sent["server"],
                    recvs["client"]} : NoType(s, "DONE")
       /\ cm # "disconnecting"
       /\ cm \in Answered => qp["client"] # "destroyed"

-----------------------------------------------------------------------------
(* Sequences of messages. *)

\* What of a sequence that is empty, added to, taken from or joined to another
\* is due to main, and when it is in order.
LEMMA IdsEmpty == Ids(<< >>) = {} /\ Rising(<< >>)
BY DEF Ids, Rising

\* The messages of main have positive indices.
LEMMA IdsNat ==
  ASSUME NEW s \in Seq(Msg)
  PROVE  \A i \in Ids(s) : i \in Nat /\ i > 0
<1>1. \A k \in 1..Len(s) : s[k].id \in Nat
  <2>1. \A k \in 1..Len(s) : s[k] \in Msg
    OBVIOUS
  <2> QED
    BY <2>1 DEF Msg
<1> QED
  BY <1>1 DEF Ids

\* A sequence with one more message at its end.
LEMMA IdsAppend ==
  ASSUME NEW s \in Seq(Msg), NEW m \in Msg
  PROVE  /\ Ids(Append(s, m)) = Ids(s) \cup ({m.id} \ {0})
         /\ Rising(s) /\ (m.id # 0 => \A i \in Ids(s) : i < m.id) => Rising(Append(s, m))
<1>1. /\ Len(Append(s, m)) = Len(s) + 1 /\ Len(s) \in Nat
      /\ Append(s, m)[Len(s) + 1] = m
      /\ \A k \in 1..Len(s) : Append(s, m)[k] = s[k]
      /\ \A k \in 1..Len(s) + 1 : k \in 1..Len(s) \/ k = Len(s) + 1
      /\ \A k \in 1..Len(s) : k \in 1..Len(s) + 1
      /\ Len(s) + 1 \in 1..Len(s) + 1
  OBVIOUS
<1>2. Ids(Append(s, m)) = Ids(s) \cup ({m.id} \ {0})
  BY <1>1 DEF Ids
<1>3. ASSUME Rising(s), m.id # 0 => \A i \in Ids(s) : i < m.id
      PROVE  Rising(Append(s, m))
  <2> SUFFICES ASSUME NEW j \in 1..Len(s) + 1, NEW k \in 1..Len(s) + 1, j < k,
                      Append(s, m)[j].id # 0, Append(s, m)[k].id # 0
               PROVE  Append(s, m)[j].id < Append(s, m)[k].id
    BY <1>1 DEF Rising
  <2>1. j \in 1..Len(s) /\ Append(s, m)[j] = s[j]
    BY <1>1
  <2>2. CASE k \in 1..Len(s)
    BY <1>1, <1>3, <2>1, <2>2 DEF Rising
  <2>3. CASE k = Len(s) + 1
    <3>1. s[j].id \in Ids(s)
      BY <2>1 DEF Ids
    <3> QED
      BY <1>1, <1>3, <2>1, <2>3, <3>1
  <2> QED
    BY <1>1, <2>2, <2>3
<1> QED
  BY <1>2, <1>3

\* A sequence without its first message.
LEMMA IdsTail ==
  ASSUME NEW s \in Seq(Msg), s # << >>
  PROVE  /\ Ids(s) = Ids(Tail(s)) \cup ({Head(s).id} \ {0})
         /\ Rising(s) => /\ Rising(Tail(s))
                         /\ Head(s).id # 0 => \A i \in Ids(Tail(s)) : Head(s).id < i
<1>1. /\ Len(s) \in Nat \ {0} /\ Len(Tail(s)) = Len(s) - 1 /\ Head(s) = s[1]
      /\ \A k \in 1..Len(Tail(s)) : Tail(s)[k] = s[k + 1] /\ k + 1 \in 1..Len(s)
      /\ 1 \in 1..Len(s)
  OBVIOUS
<1>2. \A k \in 1..Len(s) : k = 1 \/ (k - 1 \in 1..Len(Tail(s)) /\ Tail(s)[k - 1] = s[k])
  <2> SUFFICES ASSUME NEW k \in 1..Len(s), k # 1
               PROVE  k - 1 \in 1..Len(Tail(s)) /\ Tail(s)[k - 1] = s[k]
    OBVIOUS
  <2>1. k - 1 \in 1..Len(Tail(s)) /\ (k - 1) + 1 = k
    BY <1>1
  <2> QED
    BY <1>1, <2>1
<1>3. Ids(s) = Ids(Tail(s)) \cup ({Head(s).id} \ {0})
  <2>1. \A i \in Ids(s) : i \in Ids(Tail(s)) \cup ({Head(s).id} \ {0})
    BY <1>1, <1>2 DEF Ids
  <2>2. \A i \in Ids(Tail(s)) \cup ({Head(s).id} \ {0}) : i \in Ids(s)
    BY <1>1 DEF Ids
  <2> QED
    BY <2>1, <2>2
<1>4. ASSUME Rising(s) PROVE Rising(Tail(s))
  <2> SUFFICES ASSUME NEW j \in 1..Len(Tail(s)), NEW k \in 1..Len(Tail(s)), j < k,
                      Tail(s)[j].id # 0, Tail(s)[k].id # 0
               PROVE  Tail(s)[j].id < Tail(s)[k].id
    BY DEF Rising
  <2>1. j + 1 < k + 1
    BY <1>1
  <2> QED
    BY <1>1, <1>4, <2>1 DEF Rising
<1>5. ASSUME Rising(s), Head(s).id # 0, NEW i \in Ids(Tail(s))
      PROVE  Head(s).id < i
  <2>1. PICK k \in 1..Len(Tail(s)) : Tail(s)[k].id = i /\ i # 0
    BY DEF Ids
  <2>2. s[k + 1].id = i /\ k + 1 \in 1..Len(s) /\ 1 < k + 1
    BY <1>1, <2>1
  <2> QED
    BY <1>1, <1>5, <2>1, <2>2 DEF Rising
<1> QED
  BY <1>3, <1>4, <1>5

\* Two sequences joined.
LEMMA IdsConcat ==
  ASSUME NEW s \in Seq(Msg), NEW t \in Seq(Msg)
  PROVE  /\ Ids(s \o t) = Ids(s) \cup Ids(t)
         /\ Rising(s) /\ Rising(t) /\ Less(Ids(s), Ids(t)) => Rising(s \o t)
<1>1. /\ Len(s \o t) = Len(s) + Len(t) /\ Len(s) \in Nat /\ Len(t) \in Nat
      /\ \A k \in 1..Len(s) : (s \o t)[k] = s[k] /\ k \in 1..Len(s \o t)
      /\ \A k \in 1..Len(s \o t) :
           \/ k \in 1..Len(s)
           \/ /\ k - Len(s) \in 1..Len(t) /\ (s \o t)[k] = t[k - Len(s)]
              /\ k > Len(s)
  OBVIOUS
<1>2. \A k \in 1..Len(t) : /\ Len(s) + k \in 1..Len(s \o t)
                           /\ (s \o t)[Len(s) + k] = t[k]
  OBVIOUS
<1>3. Ids(s \o t) = Ids(s) \cup Ids(t)
  <2>1. \A i \in Ids(s \o t) : i \in Ids(s) \cup Ids(t)
    BY <1>1 DEF Ids
  <2>2. \A i \in Ids(s) \cup Ids(t) : i \in Ids(s \o t)
    BY <1>1, <1>2 DEF Ids
  <2> QED
    BY <2>1, <2>2
<1>4. ASSUME Rising(s), Rising(t), Less(Ids(s), Ids(t)) PROVE Rising(s \o t)
  <2> SUFFICES ASSUME NEW j \in 1..Len(s \o t), NEW k \in 1..Len(s \o t), j < k,
                      (s \o t)[j].id # 0, (s \o t)[k].id # 0
               PROVE  (s \o t)[j].id < (s \o t)[k].id
    BY DEF Rising
  <2>1. CASE k \in 1..Len(s)
    <3>1. j \in 1..Len(s)
      BY <1>1, <2>1
    <3> QED
      BY <1>1, <1>4, <2>1, <3>1 DEF Rising
  <2>2. CASE j \in 1..Len(s) /\ k \notin 1..Len(s)
    <3>1. (s \o t)[j].id \in Ids(s) /\ (s \o t)[k].id \in Ids(t)
      BY <1>1, <2>2 DEF Ids
    <3> QED
      BY <1>4, <3>1 DEF Less
  <2>3. CASE j \notin 1..Len(s) /\ k \notin 1..Len(s)
    <3>1. j - Len(s) < k - Len(s)
      BY <1>1
    <3> QED
      BY <1>1, <1>4, <2>3, <3>1 DEF Rising
  <2> QED
    BY <2>1, <2>2, <2>3
<1> QED
  BY <1>3, <1>4

-----------------------------------------------------------------------------
(* What the steps do to the sets of messages.                               *)

\* Main queues its next message.
LEMMA OrderedEnqueue ==
  ASSUME NEW R \in SUBSET Nat, NEW W \in SUBSET Nat, NEW U \in SUBSET Nat,
         NEW L \in SUBSET Nat, NEW G \in SUBSET Nat, NEW p \in Nat \ {0},
         Ordered(R, W, U, L, G, p), U \subseteq L
  PROVE  /\ Ordered(R, W, U \cup {p}, L \cup {p}, G, p + 1)
         /\ Complete(R, W, U, G, p) => Complete(R, W, U \cup {p}, G, p + 1)
<1>1. Ordered(R, W, U \cup {p}, L \cup {p}, G, p + 1)
  BY DEF Ordered, Less
<1>2. ASSUME Complete(R, W, U, G, p) PROVE Complete(R, W, U \cup {p}, G, p + 1)
  <2>1. \A j \in 1 .. (p + 1) - 1 : j \in 1 .. p - 1 \/ j = p
    OBVIOUS
  <2> QED
    BY <1>2, <2>1 DEF Complete
<1> QED
  BY <1>1, <1>2

\* The timer gives the list to the QP, which takes it or not.
LEMMA OrderedPost ==
  ASSUME NEW R \in SUBSET Nat, NEW W \in SUBSET Nat, NEW U \in SUBSET Nat,
         NEW L \in SUBSET Nat, NEW G \in SUBSET Nat, NEW p \in Nat \ {0},
         Ordered(R, W, U, L, G, p), U \subseteq L
  PROVE  /\ Ordered(R, W \cup U, {}, L, G, p) /\ Ordered(R, W, {}, L, G, p)
         /\ Complete(R, W, U, G, p) => Complete(R, W \cup U, {}, G, p)
<1>1. Complete(R, W, U, G, p) => Complete(R, W \cup U, {}, G, p)
  BY DEF Complete
<1>2. Ordered(R, W, {}, L, G, p)
  BY DEF Ordered, Less
<1>3. Less(R, W \cup U) /\ Less(R, {}) /\ Less(W \cup U, {})
  BY DEF Ordered, Less
<1>4. Ordered(R, W \cup U, {}, L, G, p)
  <2>1. \A i \in R \cup (W \cup U) \cup L \cup G : i < p
    BY DEF Ordered
  <2>2. \A i \in R \cup (W \cup U) \cup {} : i \notin G
    BY DEF Ordered
  <2> QED
    BY <1>3, <2>1, <2>2 DEF Ordered
<1> QED
  BY <1>1, <1>2, <1>4

\* The list is cleared.
LEMMA OrderedUnlink ==
  ASSUME NEW R \in SUBSET Nat, NEW W \in SUBSET Nat, NEW U \in SUBSET Nat,
         NEW L \in SUBSET Nat, NEW G \in SUBSET Nat, NEW p \in Nat \ {0},
         NEW H \in SUBSET Nat, H \ {0} = (G \ {0}) \cup U,
         \A i \in R \cup W \cup U : i > 0,
         U \subseteq L, Ordered(R, W, U, L, G, p)
  PROVE  /\ Ordered(R, W, {}, {}, H, p)
         /\ Complete(R, W, U, G, p) => Complete(R, W, {}, H, p)
<1>1. \A i \in H : i = 0 \/ i \in G \/ i \in U
  OBVIOUS
<1>2. \A i \in Nat : i > 0 /\ (i \in G \/ i \in U) => i \in H
  <2> SUFFICES ASSUME NEW i \in Nat, i > 0, i \in G \/ i \in U PROVE i \in H
    OBVIOUS
  <2>1. i \in (G \ {0}) \cup U
    OBVIOUS
  <2> QED
    BY <2>1
<1>3. Less(R, W) /\ Less(R, {}) /\ Less(W, {})
  BY DEF Ordered, Less
<1>4. \A i \in R \cup W \cup {} \cup H : i < p
  BY <1>1 DEF Ordered
<1>5. \A i \in R \cup W \cup {} : i \notin H
  <2>1. \A i \in R \cup W : i \notin U
    BY DEF Ordered, Less
  <2> QED
    BY <1>1, <2>1 DEF Ordered
<1>6. \A i \in R : \A j \in 1 .. i - 1 : j \in H \cup R
  <2> SUFFICES ASSUME NEW i \in R, NEW j \in 1 .. i - 1 PROVE j \in H \cup R
    OBVIOUS
  <2>1. j \in Nat /\ j > 0 /\ j \in G \cup R
    BY DEF Ordered
  <2> QED
    BY <1>2, <2>1
<1>7. Ordered(R, W, {}, {}, H, p)
  BY <1>3, <1>4, <1>5, <1>6 DEF Ordered
<1>8. ASSUME Complete(R, W, U, G, p) PROVE Complete(R, W, {}, H, p)
  <2> SUFFICES ASSUME NEW j \in 1 .. p - 1 PROVE j \in H \cup R \cup W \cup {}
    BY DEF Complete
  <2>1. j \in Nat /\ j > 0 /\ j \in G \cup R \cup W \cup U
    BY <1>8 DEF Complete
  <2> QED
    BY <1>2, <2>1
<1> QED
  BY <1>7, <1>8

\* The first message on the wire is received by the peer.
LEMMA OrderedDeliver ==
  ASSUME NEW R \in SUBSET Nat, NEW W \in SUBSET Nat, NEW V \in SUBSET Nat,
         NEW U \in SUBSET Nat, NEW L \in SUBSET Nat, NEW G \in SUBSET Nat,
         NEW p \in Nat \ {0}, NEW i \in Nat \ {0},
         W = V \cup {i}, \A k \in V : i < k, U \subseteq L,
         Ordered(R, W, U, L, G, p), Complete(R, W, U, G, p)
  PROVE  Ordered(R \cup {i}, V, U, L, G, p) /\ Complete(R \cup {i}, V, U, G, p)
<1>1. Complete(R \cup {i}, V, U, G, p)
  BY DEF Complete
<1>2. Less(R \cup {i}, V) /\ Less(R \cup {i}, U) /\ Less(V, U)
  BY DEF Ordered, Less
<1>3. /\ \A k \in (R \cup {i}) \cup V \cup L \cup G : k < p
      /\ \A k \in (R \cup {i}) \cup V \cup U : k \notin G
  BY DEF Ordered
<1>4. ASSUME NEW k \in R \cup {i}, NEW j \in 1 .. k - 1 PROVE j \in G \cup (R \cup {i})
  <2>1. CASE k \in R
    BY <2>1, <1>4 DEF Ordered
  <2>2. CASE k = i
    <3>1. j < i /\ j \in Nat
      BY <1>4, <2>2
    <3>2. j \notin V /\ j \notin U
      <4>1. j \in V => i < j
        OBVIOUS
      <4>2. j \in U => i < j
        BY DEF Ordered, Less
      <4> QED
        BY <3>1, <4>1, <4>2
    <3>3. j \in 1 .. p - 1
      <4>1. i < p
        BY DEF Ordered
      <4> QED
        BY <1>4, <2>2, <4>1
    <3> QED
      BY <3>1, <3>2, <3>3 DEF Complete
  <2> QED
    BY <2>1, <2>2
<1> QED
  BY <1>1, <1>2, <1>3, <1>4 DEF Ordered

\* The first message on the wire arrives in the peer's memory.
LEMMA OrderedWrite ==
  ASSUME NEW R \in SUBSET Nat, NEW W \in SUBSET Nat, NEW V \in SUBSET Nat,
         NEW U \in SUBSET Nat, NEW L \in SUBSET Nat, NEW G \in SUBSET Nat,
         NEW p \in Nat \ {0}, NEW i \in Nat \ {0},
         W = V \cup {i}, \A k \in V : i < k,
         Ordered(R, W, U, L, G, p)
  PROVE  /\ Ordered(R, V, U, L, G \cup {i}, p)
         /\ Complete(R, W, U, G, p) => Complete(R, V, U, G \cup {i}, p)
<1>1. Complete(R, W, U, G, p) => Complete(R, V, U, G \cup {i}, p)
  BY DEF Complete
<1>2. Less(R, V) /\ Less(R, U) /\ Less(V, U)
  BY DEF Ordered, Less
<1>3. \A k \in R \cup V \cup L \cup (G \cup {i}) : k < p
  BY DEF Ordered
<1>4. \A k \in R \cup V \cup U : k \notin G \cup {i}
  <2>1. i \notin R /\ i \notin U /\ i \notin V
    BY DEF Ordered, Less
  <2> QED
    BY <2>1 DEF Ordered
<1>5. \A k \in R : \A j \in 1 .. k - 1 : j \in (G \cup {i}) \cup R
  BY DEF Ordered
<1> QED
  BY <1>1, <1>2, <1>3, <1>4, <1>5 DEF Ordered

\* The peer handles the first message it has received; all before it are gone.
LEMMA OrderedPoll ==
  ASSUME NEW R \in SUBSET Nat, NEW Q \in SUBSET Nat, NEW W \in SUBSET Nat,
         NEW U \in SUBSET Nat, NEW L \in SUBSET Nat, NEW G \in SUBSET Nat,
         NEW p \in Nat \ {0}, NEW i \in Nat \ {0},
         R = Q \cup {i}, \A k \in Q : i < k,
         Ordered(R, W, U, L, G, p)
  PROVE  /\ Ordered(Q, W, U, L, G \cup {i}, p)
         /\ Complete(R, W, U, G, p) => Complete(Q, W, U, G \cup {i}, p)
         /\ \A j \in 1 .. i - 1 : j \in G
<1>1. Complete(R, W, U, G, p) => Complete(Q, W, U, G \cup {i}, p)
  BY DEF Complete
<1>2. Less(Q, W) /\ Less(Q, U) /\ Less(W, U)
  BY DEF Ordered, Less
<1>3. \A k \in Q \cup W \cup L \cup (G \cup {i}) : k < p
  BY DEF Ordered
<1>4. \A k \in Q \cup W \cup U : k \notin G \cup {i}
  <2>1. i \notin W /\ i \notin U /\ i \notin Q
    BY DEF Ordered, Less
  <2> QED
    BY <2>1 DEF Ordered
<1>5. \A k \in Q : \A j \in 1 .. k - 1 : j \in (G \cup {i}) \cup Q
  BY DEF Ordered
<1>6. ASSUME NEW j \in 1 .. i - 1 PROVE j \in G
  <2>1. j \in G \cup R
    BY DEF Ordered
  <2>2. j \notin R
    BY <1>6
  <2> QED
    BY <2>1, <2>2
<1> QED
  BY <1>1, <1>2, <1>3, <1>4, <1>5, <1>6 DEF Ordered

\* Main's next message does not come to be in the list.
LEMMA OrderedLost ==
  ASSUME NEW R \in SUBSET Nat, NEW W \in SUBSET Nat, NEW U \in SUBSET Nat,
         NEW L \in SUBSET Nat, NEW G \in SUBSET Nat, NEW p \in Nat \ {0},
         Ordered(R, W, U, L, G, p), U \subseteq L
  PROVE  /\ Ordered(R, W, U, L, G \cup {p}, p + 1)
         /\ Complete(R, W, U, G, p) => Complete(R, W, U, G \cup {p}, p + 1)
<1>1. Less(R, W) /\ Less(R, U) /\ Less(W, U)
  BY DEF Ordered
<1>2. \A i \in R \cup W \cup L \cup (G \cup {p}) : i < p + 1
  <2>1. \A i \in R \cup W \cup L \cup G : i \in Nat /\ i < p
    BY DEF Ordered
  <2> QED
    BY <2>1
<1>3. \A i \in R \cup W \cup U : i \notin G \cup {p}
  <2>1. \A i \in R \cup W \cup U : i \notin G /\ i < p
    BY DEF Ordered
  <2> QED
    BY <2>1
<1>4. \A i \in R : \A j \in 1 .. i - 1 : j \in (G \cup {p}) \cup R
  BY DEF Ordered
<1>5. ASSUME Complete(R, W, U, G, p) PROVE Complete(R, W, U, G \cup {p}, p + 1)
  <2>1. \A j \in 1 .. (p + 1) - 1 : j \in 1 .. p - 1 \/ j = p
    OBVIOUS
  <2> QED
    BY <1>5, <2>1 DEF Complete
<1> QED
  BY <1>1, <1>2, <1>3, <1>4, <1>5 DEF Ordered

\* Nor does DONE, which is not main's.
LEMMA OrderedDoneLost ==
  ASSUME NEW R \in SUBSET Nat, NEW W \in SUBSET Nat, NEW U \in SUBSET Nat,
         NEW L \in SUBSET Nat, NEW G \in SUBSET Nat, NEW p \in Nat \ {0},
         Ordered(R, W, U, L, G, p), \A i \in R \cup W \cup U : i > 0
  PROVE  /\ Ordered(R, W, U, L, G \cup {0}, p)
         /\ Complete(R, W, U, G, p) => Complete(R, W, U, G \cup {0}, p)
<1>1. \A i \in R \cup W \cup L \cup (G \cup {0}) : i < p
  BY DEF Ordered
<1>2. \A i \in R \cup W \cup U : i \notin G \cup {0}
  BY DEF Ordered
<1> QED
  BY <1>1, <1>2 DEF Ordered, Complete

\* Messages are lost on the wire or with the receives.
LEMMA OrderedLose ==
  ASSUME NEW R \in SUBSET Nat, NEW W \in SUBSET Nat, NEW U \in SUBSET Nat,
         NEW L \in SUBSET Nat, NEW G \in SUBSET Nat, NEW p \in Nat \ {0},
         Ordered(R, W, U, L, G, p)
  PROVE  /\ Ordered({}, W, U, L, G, p) /\ Ordered(R, {}, U, L, G, p)
         /\ Ordered({}, {}, U, L, G, p)
BY DEF Ordered, Less

-----------------------------------------------------------------------------
(* What the steps do to the rest of what FlowInv is about.                  *)

\* The waiting messages of a list that is added to, posted or not.
LEMMA WaitingFacts ==
  ASSUME NEW e \in End, send_task_list[e] \in Seq(Msg), posted[e] \in Nat
  PROVE  /\ Waiting(e) \subseteq Ids(send_task_list[e])
         /\ posted[e] = 0 => Waiting(e) = Ids(send_task_list[e])
         /\ posted[e] = Len(send_task_list[e]) => Waiting(e) = {}
<1>1. \A k \in posted[e] + 1 .. Len(send_task_list[e]) : k \in 1..Len(send_task_list[e])
  OBVIOUS
<1>2. Waiting(e) \subseteq Ids(send_task_list[e])
  BY <1>1 DEF Waiting, Ids
<1>3. ASSUME posted[e] = 0 PROVE Waiting(e) = Ids(send_task_list[e])
  BY <1>3 DEF Waiting, Ids
<1>4. ASSUME posted[e] = Len(send_task_list[e]) PROVE Waiting(e) = {}
  BY <1>4 DEF Waiting
<1> QED
  BY <1>2, <1>3, <1>4

\* A message that is added to the list waits there.
LEMMA WaitingAppend ==
  ASSUME NEW e \in End, send_task_list[e] \in Seq(Msg), posted[e] \in Nat, NEW m \in Msg,
         posted[e] <= Len(send_task_list[e]), posted'[e] = posted[e],
         send_task_list'[e] = Append(send_task_list[e], m)
  PROVE  Waiting(e)' = Waiting(e) \cup ({m.id} \ {0})
<1> DEFINE s == send_task_list[e]
<1>1. /\ Len(Append(s, m)) = Len(s) + 1 /\ Len(s) \in Nat
      /\ Append(s, m)[Len(s) + 1] = m
      /\ \A k \in posted[e] + 1 .. Len(s) :
           Append(s, m)[k] = s[k] /\ k \in posted[e] + 1 .. Len(s) + 1
      /\ \A k \in posted[e] + 1 .. Len(s) + 1 :
           k \in posted[e] + 1 .. Len(s) \/ k = Len(s) + 1
      /\ Len(s) + 1 \in posted[e] + 1 .. Len(s) + 1
  OBVIOUS
<1>2. Waiting(e)' = {Append(s, m)[k].id : k \in posted[e] + 1 .. Len(s) + 1} \ {0}
  BY <1>1 DEF Waiting
<1> QED
  BY <1>1, <1>2 DEF Waiting

\* A message does not come to be in the list.
LosesMessage(e, i) ==
  send_task_list'[e] = send_task_list[e] /\ dropped'[e] = dropped[e] \cup {i}

\* Which steps of an end change its place in the list and in its script, and what
\* has arrived or been dropped.
LEMMA PlacesEffects ==
  ASSUME TypeInv, [Next]_vars, NEW e \in End
  PROVE  /\ posted'[e] = posted[e] \/ TimerPost(e) \/ TimerUnlink(e)
         /\ \/ pos'[e] = pos[e]
            \/ MainEnqueue(e)
            \/ MainCheck(e) /\ trans_state[e] = "ERROR" /\ pos'[e] = pos[e] + 1
         /\ \/ dropped'[e] = dropped[e]
            \/ TimerUnlink(e)
            \/ MainEnqueue(e) /\ LosesMessage(e, pos[e])
            \/ RecvFinish(e) /\ LosesMessage(e, 0)
         /\ \/ arrived'[e] = arrived[e]
            \/ DeliverWrite(e) \/ RecvNormal(Peer(e)) \/ RecvFinish(Peer(e))
<1> USE DEF TypeInv, TypeOK
<1>1. ASSUME NEW f \in End, Main(f)
      PROVE  /\ UNCHANGED <<posted, arrived>>
             /\ \/ UNCHANGED pos
                \/ MainEnqueue(f) /\ pos' = [pos EXCEPT ![f] = @ + 1]
                \/ /\ MainCheck(f) /\ trans_state[f] = "ERROR"
                   /\ pos' = [pos EXCEPT ![f] = @ + 1]
             /\ \/ UNCHANGED dropped
                \/ /\ MainEnqueue(f)
                   /\ UNCHANGED send_task_list
                   /\ dropped' = [dropped EXCEPT ![f] = @ \cup {pos[f]}]
  BY <1>1 DEF Main, MainCheck, MainEnqueue, Insert, MainSent, MainJoin, history
<1>2. ASSUME NEW f \in End, CmHandler(f) PROVE UNCHANGED <<posted, pos, dropped, arrived>>
  BY <1>2 DEF CmHandler, Established, Disconnected, ConnectError, OtherError, threadVars,
              history
<1>3. ASSUME NEW f \in End, CqHandler(f)
      PROVE  /\ UNCHANGED <<posted, pos>>
             /\ \/ UNCHANGED arrived
                \/ /\ RecvNormal(f) \/ RecvFinish(f)
                   /\ \E x : arrived' = [arrived EXCEPT ![Peer(f)] = x]
             /\ \/ UNCHANGED dropped
                \/ /\ RecvFinish(f)
                   /\ UNCHANGED send_task_list
                   /\ dropped' = [dropped EXCEPT ![f] = @ \cup {0}]
  <2>1. CASE RecvNormal(f) \/ RecvFinish(f)
    BY <2>1 DEF RecvNormal, RecvFinish, Insert, Done, Arrives, threadVars
  <2>2. CASE SentMr(f) \/ SentOther(f) \/ RecvDone(f) \/ RecvMr(f)
    BY <2>2 DEF SentMr, SentOther, RecvDone, RecvMr, threadVars, history
  <2> QED
    BY <1>3, <2>1, <2>2 DEF CqHandler
<1>4. ASSUME NEW f \in End, TimerHandler(f) \/ LoopExit(f)
      PROVE  /\ UNCHANGED <<pos, arrived>>
             /\ \/ UNCHANGED <<posted, dropped>>
                \/ TimerPost(f) /\ UNCHANGED dropped /\ \E x : posted' = [posted EXCEPT ![f] = x]
                \/ /\ TimerUnlink(f)
                   /\ \E x : posted' = [posted EXCEPT ![f] = x]
                   /\ \E x : dropped' = [dropped EXCEPT ![f] = x]
  <2>1. CASE TimerPost(f)
    BY <2>1 DEF TimerPost, Posts
  <2>2. CASE TimerUnlink(f)
    BY <2>2 DEF TimerUnlink
  <2>3. CASE StaleExpires(f) \/ LoopExit(f)
    BY <2>3 DEF StaleExpires, LoopExit, threadVars, history
  <2>4. CASE TimerRefused(f)
    BY <2>4 DEF TimerRefused, Posts
  <2> QED
    BY <1>4, <2>1, <2>2, <2>3, <2>4 DEF TimerHandler
<1>5. ASSUME NEW f \in End, Network(f) \/ RnrExhausted(f)
      PROVE  /\ UNCHANGED <<posted, pos, dropped>>
             /\ \/ UNCHANGED arrived
                \/ DeliverWrite(f) /\ \E x : arrived' = [arrived EXCEPT ![f] = x]
  <2>1. CASE DeliverWrite(f)
    BY <2>1 DEF DeliverWrite, threadVars
  <2>2. CASE DeliverSend(f) \/ CmHangup(f) \/ RnrExhausted(f)
    BY <2>2 DEF DeliverSend, CmHangup, RnrExhausted, threadVars, history
  <2> QED
    BY <1>5, <2>1, <2>2 DEF Network
<1>6. \/ UNCHANGED <<posted, pos, dropped, arrived>>
      \/ \E f \in End : Main(f) \/ Epoll(f) \/ Network(f) \/ RnrExhausted(f)
  BY DEF Next, vars, threadVars, history, ClientConnect, Accept, SetConnecting, Prepare,
         AddrResolved, RouteResolved, ConnectRequest, CmProgress, CmFails
<1>7. ASSUME NEW f \in End, f # e
      PROVE  Peer(f) # Peer(e)
  BY <1>7 DEF End, Peer
<1>8. posted'[e] = posted[e] \/ TimerPost(e) \/ TimerUnlink(e)
  BY <1>1, <1>2, <1>3, <1>4, <1>5, <1>6 DEF Epoll, ThreadTypeOK
<1>9. \/ pos'[e] = pos[e]
      \/ MainEnqueue(e)
      \/ MainCheck(e) /\ trans_state[e] = "ERROR" /\ pos'[e] = pos[e] + 1
  BY <1>1, <1>2, <1>3, <1>4, <1>5, <1>6 DEF Epoll, ThreadTypeOK
<1>10. \/ dropped'[e] = dropped[e]
       \/ TimerUnlink(e)
       \/ MainEnqueue(e) /\ LosesMessage(e, pos[e])
       \/ RecvFinish(e) /\ LosesMessage(e, 0)
  BY <1>1, <1>2, <1>3, <1>4, <1>5, <1>6 DEF Epoll, HistoryTypeOK, LosesMessage
<1>11. \/ arrived'[e] = arrived[e]
       \/ DeliverWrite(e) \/ RecvNormal(Peer(e)) \/ RecvFinish(Peer(e))
  <2>1. ASSUME NEW f \in End, CqHandler(f)
        PROVE  \/ arrived'[e] = arrived[e]
               \/ RecvNormal(Peer(e)) \/ RecvFinish(Peer(e))
    <3>1. CASE UNCHANGED arrived
      BY <3>1
    <3>2. CASE f = Peer(e)
      BY <1>3, <2>1, <3>2
    <3>3. CASE f # Peer(e)
      <4>1. Peer(f) # e
        BY <3>3, PeerIsEnd
      <4> QED
        BY <1>3, <2>1, <4>1 DEF HistoryTypeOK
    <3> QED
      BY <3>2, <3>3
  <2> QED
    BY <1>1, <1>2, <1>4, <1>5, <1>6, <2>1 DEF Epoll, HistoryTypeOK
<1> QED
  BY <1>8, <1>9, <1>10, <1>11

\* What happens to the completions of an end's sends.
LEMMA SentEffects ==
  ASSUME TypeInv, [Next]_vars, NEW e \in End
  PROVE  \/ sent'[e] = sent[e]
         \/ sent'[e] = << >>
         \/ sent[e] # << >> /\ sent'[e] = Tail(sent[e])
         \/ wire[e] # << >> /\ sent'[e] = Append(sent[e], Head(wire[e]))
<1> DEFINE Goal ==
         \/ sent'[e] = sent[e]
         \/ sent'[e] = << >>
         \/ sent[e] # << >> /\ sent'[e] = Tail(sent[e])
         \/ wire[e] # << >> /\ sent'[e] = Append(sent[e], Head(wire[e]))
<1> USE DEF TypeInv, TypeOK
<1>1. \/ UNCHANGED sent
      \/ \E f \in End : \/ SentMr(f) \/ SentOther(f) \/ DeliverSend(f) \/ DeliverWrite(f)
                        \/ Disconnected(f)
  <2>1. ASSUME NEW f \in End, Epoll(f)
        PROVE  UNCHANGED sent \/ SentMr(f) \/ SentOther(f) \/ Disconnected(f)
    BY <2>1 DEF Epoll, CmHandler, Established, ConnectError, OtherError, CqHandler,
                RecvNormal, RecvFinish, RecvDone, RecvMr, TimerHandler, TimerPost, TimerRefused, Posts,
                TimerUnlink, StaleExpires, LoopExit, qpVars
  <2>2. ASSUME NEW f \in End, Main(f) \/ CmHangup(f) \/ RnrExhausted(f)
        PROVE  UNCHANGED sent
    BY <2>2 DEF Main, MainCheck, MainEnqueue, MainSent, MainJoin, CmHangup, RnrExhausted,
                qpVars
  <2> QED
    BY <2>1, <2>2 DEF Next, vars, qpVars, ClientConnect, Accept, SetConnecting, Prepare,
                      AddrResolved, RouteResolved, ConnectRequest, CmProgress, CmFails,
                      Network
<1>2. ASSUME NEW f \in End, SentMr(f) \/ SentOther(f) PROVE Goal
  BY <1>2 DEF SentMr, SentOther, TakeSent, QpTypeOK
<1>3. ASSUME NEW f \in End, DeliverSend(f) \/ DeliverWrite(f) PROVE Goal
  BY <1>3 DEF DeliverSend, DeliverWrite, Linked, QpTypeOK
<1>4. ASSUME NEW f \in End, Disconnected(f) PROVE Goal
  BY <1>4 DEF Disconnected, QpTypeOK
<1> QED
  BY <1>1, <1>2, <1>3, <1>4

\* Where the epoll thread of an end goes.
LEMMA StageEffects ==
  ASSUME TypeInv, [Next]_vars, NEW e \in End
  PROVE  \/ stage'[e] = stage[e]
         \/ stage[e] = "idle" /\ stage'[e] \in {"idle", "spin", "exited"}
         \/ TimerPost(e) /\ stage'[e] = "unlink"
         \/ TimerUnlink(e) /\ stage'[e] = "idle"
<1> USE DEF TypeInv, TypeOK
<1>1. \/ UNCHANGED stage
      \/ \E f \in End : TimerPost(f) \/ TimerUnlink(f) \/ LoopExit(f) \/ RecvFinish(f)
  <2>1. ASSUME NEW f \in End, Epoll(f)
        PROVE  \/ UNCHANGED stage
               \/ TimerPost(f) \/ TimerUnlink(f) \/ LoopExit(f) \/ RecvFinish(f)
    BY <2>1 DEF Epoll, CmHandler, Established, Disconnected, ConnectError, OtherError,
                CqHandler, SentMr, SentOther, RecvNormal, RecvDone, RecvMr, TimerHandler,
                TimerRefused, StaleExpires, threadVars
  <2>2. ASSUME NEW f \in End, Main(f) \/ Network(f) \/ RnrExhausted(f)
        PROVE  UNCHANGED stage
    BY <2>2 DEF Main, MainCheck, MainEnqueue, MainSent, MainJoin, Network, DeliverSend,
                DeliverWrite, CmHangup, RnrExhausted, threadVars
  <2> QED
    BY <2>1, <2>2 DEF Next, vars, threadVars, ClientConnect, Accept, SetConnecting, Prepare,
                      AddrResolved, RouteResolved, ConnectRequest, CmProgress, CmFails
<1>2. ASSUME NEW f \in End, TimerPost(f) \/ TimerUnlink(f) \/ LoopExit(f)
      PROVE  \/ stage'[e] = stage[e]
             \/ stage[e] = "idle" /\ stage'[e] \in {"idle", "spin", "exited"}
             \/ TimerPost(e) /\ stage'[e] = "unlink"
             \/ TimerUnlink(e) /\ stage'[e] = "idle"
  <2>1. /\ TimerPost(f) => stage' = [stage EXCEPT ![f] = "unlink"]
        /\ TimerUnlink(f) => stage' = [stage EXCEPT ![f] = "idle"]
        /\ LoopExit(f) => stage' = [stage EXCEPT ![f] = "exited"] /\ stage[f] = "idle"
    BY DEF TimerPost, TimerUnlink, LoopExit
  <2>2. CASE f # e
    BY <1>2, <2>1, <2>2 DEF ThreadTypeOK
  <2>3. CASE f = e
    BY <1>2, <2>1, <2>3 DEF ThreadTypeOK
  <2> QED
    BY <2>2, <2>3
<1>3. ASSUME NEW f \in End, RecvFinish(f)
      PROVE  \/ stage'[e] = stage[e]
             \/ stage[e] = "idle" /\ stage'[e] \in {"idle", "spin", "exited"}
  <2>1. /\ stage[f] = "idle"
        /\ \/ UNCHANGED stage
           \/ stage' = [stage EXCEPT ![f] = IF trans_state[f] = "ERROR" THEN @ ELSE "spin"]
    BY <1>3 DEF RecvFinish, TakeRecv
  <2> QED
    BY <2>1 DEF ThreadTypeOK
<1> QED
  BY <1>1, <1>2, <1>3

-----------------------------------------------------------------------------
(* ValidInv and PostedInv. *)

\* What the QP has taken of a list of such messages.
LEMMA FirstOf ==
  ASSUME NEW S, NEW s \in Seq(S), NEW n \in 0 .. Len(s)
  PROVE  SubSeq(s, 1, n) \in Seq(S)
<1>1. \A k \in 1 .. n : s[k] \in S
  OBVIOUS
<1> QED
  BY <1>1

\* A refused post that has taken a part of a list has done so for good.
LEMMA TwiceStays == ASSUME [Next]_vars PROVE NoneTwice' => NoneTwice
<1>1. twice \subseteq twice'
  <2>1. ASSUME NEW e, Main(e) \/ Network(e) \/ RnrExhausted(e) \/ LoopExit(e)
        PROVE  UNCHANGED twice
    BY <2>1 DEF Main, MainCheck, MainEnqueue, MainSent, MainJoin, Network, DeliverSend,
                DeliverWrite, CmHangup, RnrExhausted, LoopExit, refusalVars
  <2>2. ASSUME NEW e, CmHandler(e) \/ CqHandler(e) PROVE UNCHANGED twice
    BY <2>2 DEF CmHandler, Established, Disconnected, ConnectError, OtherError, CqHandler,
                SentMr, SentOther, RecvNormal, RecvFinish, RecvDone, RecvMr, refusalVars
  <2>3. ASSUME NEW e, TimerHandler(e) PROVE twice \subseteq twice'
    BY <2>3 DEF TimerHandler, TimerPost, TimerRefused, TimerUnlink, StaleExpires, refusalVars
  <2> QED
    BY <2>1, <2>2, <2>3 DEF Next, vars, refusalVars, Epoll, ClientConnect, Accept,
       SetConnecting, Prepare, AddrResolved, RouteResolved, ConnectRequest, CmProgress, CmFails
<1> QED
  BY <1>1 DEF NoneTwice

\* Nothing has been sent at the start.
LEMMA ValidInit == Init => ValidInv
BY PeerIsEnd DEF Init, ValidInv

\* Only MR, DONE and the messages of the script are ever sent.
LEMMA ValidStep ==
  ASSUME TypeInv, ValidInv, [Next]_vars
  PROVE  ValidInv'
<1> SUFFICES ASSUME NEW e \in End
             PROVE  /\ send_task_list'[e] \in Seq(Valid(e))
                    /\ wire'[e] \in Seq(Valid(e))
                    /\ sent'[e] \in Seq(Valid(e))
                    /\ recvs'[Peer(e)] \in Seq(Valid(e))
  BY DEF ValidInv
<1>1. /\ send_task_list[e] \in Seq(Valid(e)) /\ wire[e] \in Seq(Valid(e))
      /\ sent[e] \in Seq(Valid(e)) /\ recvs[Peer(e)] \in Seq(Valid(e))
      /\ Mr \in Valid(e) /\ Done \in Valid(e) /\ << >> \in Seq(Valid(e))
  BY DEF ValidInv, Valid
<1>2. Peer(e) \in End /\ Peer(Peer(e)) = e
  BY PeerIsEnd
<1>3. send_task_list'[e] \in Seq(Valid(e))
  <2>1. MainEnqueue(e) => [type |-> Script(e)[pos[e]], id |-> pos[e]] \in Valid(e)
    BY DEF MainEnqueue, Valid, TypeInv, PosOK
  <2> QED
    BY <1>1, <2>1, ListEffects, SequenceTypes
<1>4. wire'[e] \in Seq(Valid(e))
  <2>1. \A n \in 0 .. Len(send_task_list[e]) :
          wire[e] \o SubSeq(send_task_list[e], 1, n) \in Seq(Valid(e))
    BY <1>1, FirstOf, SequenceTypes
  <2> QED
    BY <1>1, <2>1, WireEffects, SequenceTypes
<1>5. sent'[e] \in Seq(Valid(e))
  BY <1>1, SentEffects, SequenceTypes
<1>6. recvs'[Peer(e)] \in Seq(Valid(e))
  BY ZenonT(60), <1>1, <1>2, RecvsEffects, SequenceTypes
<1> QED
  BY <1>3, <1>4, <1>5, <1>6

\* Nothing has been posted at the start.
LEMMA PostedInit == Init => PostedInv
BY DEF Init, PostedInv

\* The timer posts what is in the list, and a QP that has failed has nothing on
\* its wire.
LEMMA PostedStep ==
  ASSUME TypeInv, EventsInv, QuietInv, QuietInv', PostedInv, [Next]_vars
  PROVE  PostedInv'
<1> SUFFICES ASSUME NEW e \in End
             PROVE  /\ posted'[e] <= Len(send_task_list'[e])
                    /\ stage'[e] # "unlink" => posted'[e] = 0
                    /\ qp'[e] # "ready" => wire'[e] = << >>
  BY DEF PostedInv
<1>1. /\ posted[e] \in Nat /\ send_task_list[e] \in Seq(Msg) /\ posted[e] <= Len(send_task_list[e])
      /\ stage[e] # "unlink" => posted[e] = 0
      /\ qp[e] # "ready" => wire[e] = << >>
  BY DEF PostedInv, TypeInv, TypeOK, ThreadTypeOK, TransTypeOK
<1>2. ASSUME TimerPost(e)
      PROVE  /\ posted'[e] <= Len(send_task_list'[e])
             /\ stage'[e] # "unlink" => posted'[e] = 0
  BY <1>1, <1>2 DEF TimerPost, Posts, TypeInv, TypeOK, ThreadTypeOK
<1>3. ASSUME TimerUnlink(e)
      PROVE  /\ posted'[e] <= Len(send_task_list'[e])
             /\ stage'[e] # "unlink" => posted'[e] = 0
  <2>1. posted'[e] = 0 /\ send_task_list'[e] = << >>
    BY <1>3 DEF TimerUnlink, ListAfterUnlink, TypeInv, TypeOK, ThreadTypeOK, TransTypeOK
  <2> QED
    BY <2>1
<1>4. ASSUME ~TimerPost(e) /\ ~TimerUnlink(e)
      PROVE  /\ posted'[e] <= Len(send_task_list'[e])
             /\ stage'[e] # "unlink" => posted'[e] = 0
  <2>1. posted'[e] = posted[e]
    BY <1>4, PlacesEffects
  <2>2. posted[e] <= Len(send_task_list'[e])
    <3>1. \A m \in Msg : posted[e] <= Len(Append(send_task_list[e], m))
      BY <1>1
    <3>2. Done \in Msg
      BY MessageTypes
    <3> QED
      BY <1>1, <1>4, <3>1, <3>2, ListEffects, Enqueued
  <2>3. stage'[e] # "unlink" => stage[e] # "unlink"
    BY <1>4, StageEffects
  <2> QED
    BY <1>1, <2>1, <2>2, <2>3
<1>5. ASSUME qp'[e] # "ready" PROVE wire'[e] = << >>
  <2>1. CASE cm' \notin Answered
    BY <2>1 DEF QuietInv, Quiet
  <2>2. CASE cm \notin Answered /\ cm' \in Answered
    <3>1. qp' = qp /\ Established("client") /\ wire[e] = << >>
      BY <2>2, AnsweredSteps DEF Established, QuietInv, Quiet
    <3>2. /\ ~TimerPost(e) /\ ~TimerRefused(e)
          /\ wire'[e] = << >> \/ wire'[e] = wire[e]
      BY <1>5, <2>2, <3>1, WireEffects DEF TimerPost, TimerRefused, Posts, QuietInv, Quiet
    <3> QED
      BY <3>1, <3>2
  <2>3. CASE cm \in Answered
    <3>1. CASE qp'[e] = qp[e]
      BY <1>1, <1>5, <3>1, WireEffects
    <3>2. CASE qp'[e] # qp[e]
      BY <2>3, <3>2, QpEffects
    <3> QED
      BY <3>1, <3>2
  <2> QED
    BY <2>1, <2>2, <2>3
<1>6. /\ posted'[e] <= Len(send_task_list'[e])
      /\ stage'[e] # "unlink" => posted'[e] = 0
  BY <1>2, <1>3, <1>4
<1> QED
  BY <1>5, <1>6

-----------------------------------------------------------------------------
(* FailInv. *)

\* Nothing has failed at the start.
LEMMA FailInit == Init => FailInv
BY DEF Init, FailInv, Answered

\* A handshake that has failed remains so, and what it leaves of the client.
LEMMA FailedStep ==
  ASSUME TypeInv, EventsInv, QuietInv, FailInv, [Next]_vars, cm \notin Answered
  PROVE  /\ cm = "failed" => cm' = "failed"
         /\ cm' \notin Answered \cup {"failed"} =>
              \A e \in End : pos'[e] = 1 /\ trans_state'[e] # "ERROR" /\ qp'[e] # "destroyed"
         /\ cm' \in Answered => \A e \in End : trans_state'[e] # "ERROR"
         /\ cm' = "failed" /\ qp'["client"] = "destroyed" => trans_state'["client"] = "ERROR"
         /\ \/ normal_mempool'["client"] = "live"
            \/ cm' \in {"idle", "resolving_addr", "addr_resolved", "failed", "disconnecting"}
<1> DEFINE Goal ==
         /\ cm = "failed" => cm' = "failed"
         /\ cm' \notin Answered \cup {"failed"} =>
              \A e \in End : pos'[e] = 1 /\ trans_state'[e] # "ERROR" /\ qp'[e] # "destroyed"
         /\ cm' \in Answered => \A e \in End : trans_state'[e] # "ERROR"
         /\ cm' = "failed" /\ qp'["client"] = "destroyed" => trans_state'["client"] = "ERROR"
         /\ \/ normal_mempool'["client"] = "live"
            \/ cm' \in {"idle", "resolving_addr", "addr_resolved", "failed", "disconnecting"}
<1> USE DEF TypeInv, TypeOK
<1>0. "client" \in End /\ "server" \in End /\ "client" # "server"
  BY DEF End
<1>1. /\ cm # "failed" => \A e \in End : pos[e] = 1 /\ trans_state[e] # "ERROR"
                                         /\ qp[e] # "destroyed"
      /\ cm = "failed" /\ qp["client"] = "destroyed" => trans_state["client"] = "ERROR"
      /\ \/ normal_mempool["client"] = "live"
         \/ cm \in {"idle", "resolving_addr", "addr_resolved", "failed"}
  BY DEF FailInv, Answered
<1>2. ASSUME UNCHANGED <<cm, trans_state, normal_mempool, qp>>, UNCHANGED pos \/ cm = "failed"
      PROVE  Goal
  BY <1>1, <1>2
<1>3. CASE UNCHANGED vars
  <2>1. UNCHANGED <<cm, trans_state, normal_mempool, qp, pos>>
    BY <1>3 DEF vars, transVars, threadVars, cmVars
  <2> QED
    BY <1>2, <2>1
<1>4. CASE ClientConnect
  <2>1. cm = "idle"
    BY <1>4 DEF ClientConnect, EventsInv, MainInv
  <2>2. /\ UNCHANGED <<qp, pos, normal_mempool>> /\ cm' \in {"idle", "resolving_addr"}
        /\ \A e \in End : trans_state'[e] # "ERROR"
    BY <1>1, <1>4, <2>1 DEF ClientConnect, TransTypeOK
  <2> QED
    BY <1>1, <2>1, <2>2 DEF Answered
<1>5. CASE Accept
  <2>1. UNCHANGED <<trans_state, normal_mempool, qp, pos>>
    BY <1>5 DEF Accept
  <2>2. cm' = cm \/ (cm = "requested" /\ cm' = "accepted")
    BY <1>5 DEF Accept
  <2> QED
    BY <1>1, <2>1, <2>2 DEF Answered
<1>6. CASE SetConnecting
  <2>1. UNCHANGED <<cm, normal_mempool, qp, pos>>
    BY <1>6 DEF SetConnecting, cmVars
  <2>2. /\ trans_state'["client"] = trans_state["client"]
        /\ trans_state'["server"] = "CONNECTING"
    BY <1>0, <1>6 DEF SetConnecting, TransTypeOK
  <2>3. \A e \in End : e = "client" \/ e = "server"
    BY DEF End
  <2> QED
    BY <1>1, <2>1, <2>2, <2>3
<1>7. CASE Prepare
  <2>1. UNCHANGED <<cm, trans_state, qp, pos>> /\ normal_mempool'["client"] = normal_mempool["client"]
    BY <1>0, <1>7 DEF Prepare, cmVars, TransTypeOK
  <2> QED
    BY <1>1, <2>1
<1>8. CASE AddrResolved
  <2>1. cm = "addr_resolved"
    BY <1>0, <1>8, EventTaken DEF AddrResolved
  <2>2. UNCHANGED <<trans_state, qp, pos>>
    BY <1>8 DEF AddrResolved, threadVars
  <2>3. cm' = "failed" \/ (cm' = "resolving_route" /\ normal_mempool'["client"] = "live")
    BY <1>0, <1>8 DEF AddrResolved, TransTypeOK
  <2> QED
    BY <1>0, <1>1, <2>1, <2>2, <2>3 DEF Answered
<1>9. CASE RouteResolved
  <2>1. cm = "route_resolved"
    BY <1>0, <1>9, EventTaken DEF RouteResolved
  <2>2. UNCHANGED <<normal_mempool, pos>>
    BY <1>9 DEF RouteResolved
  <2>3. \/ /\ cm' = "connecting" /\ UNCHANGED trans_state
           /\ \A e \in End : qp'[e] # "destroyed"
        \/ /\ cm' = "failed"
           /\ qp'["client"] = "destroyed" => trans_state'["client"] = "ERROR"
    <3>1. PICK created \in Outcomes, connecting \in Outcomes :
            IF created /\ connecting
            THEN /\ qp' = [qp EXCEPT !["client"] = "ready"]
                 /\ cm' = "connecting" /\ UNCHANGED trans_state
            ELSE /\ cm' = "failed"
                 /\ qp' = [qp EXCEPT !["client"] = IF created THEN "destroyed" ELSE @]
                 /\ trans_state' = [trans_state EXCEPT !["client"] =
                                      IF created THEN "ERROR" ELSE @]
      BY <1>9 DEF RouteResolved
    <3>2. CASE created /\ connecting
      BY <1>1, <2>1, <3>1, <3>2 DEF TransTypeOK
    <3>3. CASE ~(created /\ connecting)
      <4>1. CASE created
        BY <1>0, <3>1, <3>3, <4>1 DEF TransTypeOK
      <4>2. CASE ~created
        BY <1>0, <1>1, <2>1, <3>1, <3>3, <4>2 DEF TransTypeOK
      <4> QED
        BY <4>1, <4>2
    <3> QED
      BY <3>2, <3>3
  <2> QED
    BY <1>1, <2>1, <2>2, <2>3 DEF Answered
<1>10. CASE ConnectRequest
  <2>1. UNCHANGED <<cm, trans_state, normal_mempool, pos>>
    BY <1>10 DEF ConnectRequest, threadVars
  <2>2. /\ qp'["client"] = qp["client"]
        /\ \A e \in End : qp'[e] = qp[e] \/ qp'[e] = "ready"
    BY <1>0, <1>10 DEF ConnectRequest, TransTypeOK
  <2> QED
    BY <1>0, <1>1, <2>1, <2>2
<1>11. CASE CmProgress
  <2>1. UNCHANGED <<trans_state, normal_mempool, qp, pos>>
    BY <1>11 DEF CmProgress, transVars, threadVars
  <2>2. \/ cm = "resolving_addr" /\ cm' = "addr_resolved"
        \/ cm = "resolving_route" /\ cm' = "route_resolved"
        \/ cm = "connecting" /\ cm' = "requested"
        \/ cm = "accepted" /\ cm' = "responded"
    BY <1>11 DEF CmProgress, CmNotifies, Answered
  <2> QED
    BY <1>1, <2>1, <2>2 DEF Answered
<1>12. CASE CmFails
  <2>1. UNCHANGED <<trans_state, normal_mempool, qp, pos>> /\ cm' = "failed" /\ cm # "failed"
    BY <1>12 DEF CmFails, transVars, threadVars
  <2> QED
    BY <1>0, <1>1, <2>1 DEF Answered
<1>13. CASE cm = "responded" /\ Established("client")
  <2>1. UNCHANGED <<normal_mempool, qp, pos>> /\ cm' = "rtu"
    BY <1>13 DEF Established, threadVars
  <2>2. \A e \in End : trans_state'[e] # "ERROR"
    BY <1>1, <1>13 DEF Established, TransTypeOK
  <2> QED
    BY <1>1, <1>13, <2>1, <2>2 DEF Answered
<1>14. ASSUME NEW f \in End, MainCheck(f) \/ MainSent(f) \/ MainJoin(f) \/ LoopExit(f)
       PROVE  Goal
  <2>1. UNCHANGED <<cm, trans_state, normal_mempool, qp>>
    BY <1>14 DEF MainCheck, MainSent, MainJoin, LoopExit, transVars, cmVars
  <2>2. UNCHANGED pos \/ trans_state[f] = "ERROR"
    BY <1>14 DEF MainCheck, MainSent, MainJoin, LoopExit
  <2> QED
    BY <1>1, <1>2, <2>1, <2>2
<1>15. ASSUME NEW f \in End, cm = "failed", ConnectError(f) \/ OtherError(f)
       PROVE  Goal
  <2>1. UNCHANGED <<cm, normal_mempool, qp, pos>>
    BY <1>15 DEF ConnectError, OtherError, transVars, threadVars
  <2>2. trans_state'["client"] = trans_state["client"] \/ trans_state'["client"] = "ERROR"
    BY <1>0, <1>15 DEF ConnectError, OtherError, transVars, TransTypeOK
  <2> QED
    BY <1>1, <1>15, <2>1, <2>2 DEF Answered
<1> QED
  BY <1>3, <1>4, <1>5, <1>6, <1>7, <1>8, <1>9, <1>10, <1>11, <1>12, <1>13, <1>14, <1>15,
     UnansweredSteps

\* Which steps misuse a resource, and which release the client's pool.
LEMMA MisuseEffects ==
  ASSUME TypeInv, [Next]_vars, NEW e \in End
  PROVE  \/ misuse'[e] = misuse[e]
         \/ MainEnqueue(e) /\ normal_mempool[e] # "live"
         \/ (TimerPost(e) \/ TimerRefused(e)) /\ qp[e] = "destroyed"
<1> USE DEF TypeInv, TypeOK
<1>1. UNCHANGED misuse \/ \E f \in End : MainEnqueue(f) \/ TimerPost(f) \/ TimerRefused(f)
  <2>1. ASSUME NEW f \in End, Epoll(f)
        PROVE  UNCHANGED misuse \/ TimerPost(f) \/ TimerRefused(f)
    BY <2>1 DEF Epoll, CmHandler, Established, Disconnected, ConnectError, OtherError,
                CqHandler, SentMr, SentOther, RecvNormal, RecvFinish, RecvDone, RecvMr,
                TimerHandler, TimerUnlink, StaleExpires, LoopExit, history
  <2>2. ASSUME NEW f \in End, Main(f) \/ Network(f) \/ RnrExhausted(f)
        PROVE  UNCHANGED misuse \/ MainEnqueue(f)
    BY <2>2 DEF Main, MainCheck, MainSent, MainJoin, Network, DeliverSend,
                DeliverWrite, CmHangup, RnrExhausted, history
  <2> QED
    BY <2>1, <2>2 DEF Next, vars, history, ClientConnect, Accept, SetConnecting, Prepare,
                      AddrResolved, RouteResolved, ConnectRequest, CmProgress, CmFails
<1>2. ASSUME NEW f \in End, MainEnqueue(f)
      PROVE  misuse'[e] = misuse[e] \/ (MainEnqueue(e) /\ normal_mempool[e] # "live")
  BY <1>2 DEF MainEnqueue, HistoryTypeOK
<1>3. ASSUME NEW f \in End, TimerPost(f) \/ TimerRefused(f)
      PROVE  \/ misuse'[e] = misuse[e]
             \/ (TimerPost(e) \/ TimerRefused(e)) /\ qp[e] = "destroyed"
  <2>1. misuse' = [misuse EXCEPT ![f] = IF qp[f] = "destroyed" THEN @ \cup {"post"} ELSE @]
    BY <1>3 DEF TimerPost, TimerRefused, Posts
  <2>2. CASE f # e
    BY <2>1, <2>2 DEF HistoryTypeOK
  <2>3. CASE f = e
    BY <1>3, <2>1, <2>3 DEF HistoryTypeOK
  <2> QED
    BY <2>2, <2>3
<1> QED
  BY <1>1, <1>2, <1>3

\* Every step keeps FailInv: before the client has taken ESTABLISHED nothing is
\* sent, and nothing given up unless the handshake fails.
LEMMA FailStep ==
  ASSUME TypeInv, EventsInv, QuietInv, FailInv, [Next]_vars
  PROVE  FailInv'
<1>0. "client" \in End /\ "server" \in End
  BY DEF End
<1>1. CASE cm \notin Answered
  <2>1. ASSUME NEW e \in End
        PROVE  arrived'[e] = {} /\ dropped'[e] = {} /\ misuse'[e] = {}
    <3>1. Quiet(e) /\ Quiet(Peer(e))
      BY <1>1, PeerIsEnd DEF QuietInv
    <3>2. /\ ~MainEnqueue(e) /\ ~TimerPost(e) /\ ~TimerRefused(e) /\ ~TimerUnlink(e)
          /\ ~DeliverWrite(e)
      BY <3>1 DEF Quiet, MainEnqueue, TimerPost, TimerRefused, Posts, TimerUnlink,
                  DeliverWrite, Linked
    <3>3. ~RecvNormal(Peer(e)) /\ ~RecvFinish(Peer(e)) /\ ~RecvFinish(e)
      BY <3>1 DEF Quiet, RecvNormal, RecvFinish, TakeRecv
    <3> QED
      BY <1>1, <3>2, <3>3, PlacesEffects, MisuseEffects DEF FailInv
  <2> QED
    BY <1>1, <2>1, FailedStep DEF FailInv
<1>2. CASE cm \in Answered
  <2>1. cm' \in Answered
    BY <1>2, AnsweredSteps
  <2>2. \A e \in End : trans_state'[e] # "ERROR"
    BY <1>2, StateEffects DEF FailInv
  <2>3. normal_mempool'["client"] = normal_mempool["client"] \/ cm' = "disconnecting"
    <3>1. AnsweredNext
      BY <1>2, AnsweredSteps
    <3>2. ASSUME NEW f \in End, CqHandler(f) \/ TimerHandler(f) \/ LoopExit(f)
          PROVE  UNCHANGED normal_mempool
      BY <3>2 DEF CqHandler, SentMr, SentOther, RecvNormal, RecvFinish, RecvDone, RecvMr,
                  TimerHandler, TimerPost, TimerRefused, Posts, TimerUnlink, StaleExpires, LoopExit, transVars
    <3>3. ASSUME NEW f \in End, Main(f) \/ Network(f) \/ RnrExhausted(f)
          PROVE  UNCHANGED normal_mempool
      BY <3>3 DEF Main, MainCheck, MainEnqueue, MainSent, MainJoin, Network, DeliverSend,
                  DeliverWrite, CmHangup, RnrExhausted, transVars
    <3>4. CASE UNCHANGED vars \/ CmProgress \/ SetConnecting \/ Established("server")
      BY <3>4 DEF vars, transVars, CmProgress, SetConnecting, Established
    <3>5. CASE Prepare
      BY <1>0, <3>5 DEF Prepare, TypeInv, TypeOK, TransTypeOK
    <3>6. ASSUME NEW f \in End, Disconnected(f) PROVE cm' = "disconnecting"
      BY <3>6, EventTaken DEF Disconnected
    <3> QED
      BY <3>1, <3>2, <3>3, <3>4, <3>5, <3>6 DEF AnsweredNext
  <2>4. cm = "disconnecting" => cm' = "disconnecting"
    <3>1. AnsweredNext
      BY <1>2, AnsweredSteps
    <3>2. ASSUME NEW f \in End, CqHandler(f), cm = "disconnecting" PROVE UNCHANGED cm
      <4>1. Disconnect(f) => UNCHANGED cm
        BY <3>2 DEF Disconnect
      <4> QED
        BY <3>2, <4>1 DEF CqHandler, SentMr, SentOther, RecvNormal, RecvFinish, RecvDone,
                          RecvMr, cmVars
    <3>3. ASSUME NEW f \in End, Main(f) \/ Network(f) \/ RnrExhausted(f) \/ TimerHandler(f)
                                 \/ LoopExit(f) \/ Disconnected(f)
          PROVE  UNCHANGED cm
      BY <3>3 DEF Main, MainCheck, MainEnqueue, MainSent, MainJoin, Network, DeliverSend,
                  DeliverWrite, CmHangup, RnrExhausted, TimerHandler, TimerPost, TimerRefused, Posts,
                  TimerUnlink, StaleExpires, LoopExit, Disconnected, cmVars
    <3>4. CASE UNCHANGED vars \/ SetConnecting \/ Established("server") \/ Prepare
      BY <3>4 DEF vars, cmVars, SetConnecting, Established, Prepare
    <3> QED
      BY <3>1, <3>2, <3>3, <3>4 DEF AnsweredNext
  <2> QED
    BY <1>2, <2>1, <2>2, <2>3, <2>4 DEF FailInv, Answered
<1> QED
  BY <1>1, <1>2

-----------------------------------------------------------------------------
(* FlowInv and InOrder. *)

\* The types of what FlowOf relates.
LEMMA FlowTypes ==
  ASSUME TypeInv, NEW e \in End
  PROVE  /\ Peer(e) \in End /\ Peer(Peer(e)) = e
         /\ send_task_list[e] \in Seq(Msg) /\ wire[e] \in Seq(Msg)
         /\ recvs[Peer(e)] \in Seq(Msg)
         /\ posted[e] \in Nat /\ pos[e] \in Nat \ {0} /\ Gone(e) \in SUBSET Nat
         /\ Ids(send_task_list[e]) \in SUBSET Nat /\ Ids(wire[e]) \in SUBSET Nat
         /\ Ids(recvs[Peer(e)]) \in SUBSET Nat /\ Waiting(e) \in SUBSET Nat
         /\ Waiting(e) \subseteq Ids(send_task_list[e])
         /\ \A i \in Ids(recvs[Peer(e)]) \cup Ids(wire[e]) \cup Waiting(e) : i > 0
<1>1. Peer(e) \in End /\ Peer(Peer(e)) = e
  BY PeerIsEnd
<1>2. /\ send_task_list[e] \in Seq(Msg) /\ wire[e] \in Seq(Msg)
      /\ recvs[Peer(e)] \in Seq(Msg)
      /\ posted[e] \in Nat /\ pos[e] \in Nat \ {0}
  BY <1>1 DEF TypeInv, TypeOK, TransTypeOK, ThreadTypeOK, QpTypeOK
<1>3. Gone(e) \in SUBSET Nat
  BY DEF Gone, TypeInv, TypeOK, HistoryTypeOK
<1>4. /\ \A i \in Ids(send_task_list[e]) : i \in Nat /\ i > 0
      /\ \A i \in Ids(wire[e]) : i \in Nat /\ i > 0
      /\ \A i \in Ids(recvs[Peer(e)]) : i \in Nat /\ i > 0
  BY <1>2, IdsNat
<1>5. Waiting(e) \subseteq Ids(send_task_list[e])
  BY <1>2, WaitingFacts
<1> QED
  BY <1>1, <1>2, <1>3, <1>4, <1>5

\* FlowInv holds at the start.
LEMMA FlowInit == Init => FlowInv /\ InOrder
<1> SUFFICES ASSUME Init PROVE FlowInv /\ InOrder
  OBVIOUS
<1>1. ASSUME NEW e \in End PROVE FlowOf(e)
  <2>1. /\ recvs[Peer(e)] = << >> /\ wire[e] = << >> /\ send_task_list[e] = << >>
        /\ arrived[e] = {} /\ dropped[e] = {} /\ cm \notin Answered /\ posted[e] = 0
    BY PeerIsEnd DEF Init, Answered
  <2>2. Waiting(e) = {} /\ Gone(e) = {}
    BY <2>1 DEF Waiting, Gone
  <2> QED
    BY <2>1, <2>2, IdsEmpty DEF FlowOf, Ordered, Less, Working
<1>2. InOrder
  BY DEF Init, InOrder
<1> QED
  BY <1>1, <1>2 DEF FlowInv

\* What the messages that are valid say of themselves.
LEMMA ValidFacts ==
  ASSUME NEW e \in End, NEW m \in Valid(e)
  PROVE  /\ m \in Msg
         /\ m.type \in {"MR", "DONE"} => m.id = 0
         /\ m.type \notin {"MR", "DONE"} => m.id \in IdsOf(e) /\ m.id \in Nat \ {0}
         /\ m.id # 0 => Script(e)[m.id] = m.type
<1>1. CASE m \in {Mr, Done}
  BY <1>1, MessageTypes DEF Mr, Done
<1>2. CASE \E i \in IdsOf(e) : m = [type |-> Script(e)[i], id |-> i]
  <2>1. PICK i \in IdsOf(e) : m = [type |-> Script(e)[i], id |-> i]
    BY <1>2
  <2>2. m \in Msg /\ Script(e)[i] \in AppType
    BY <2>1, MessageTypes
  <2>3. i \in Nat \ {0}
    <3>1. Len(Script(e)) \in Nat
      BY ScriptAssumption DEF Script
    <3> QED
      BY <2>1, <3>1 DEF IdsOf
  <2> QED
    BY <2>1, <2>2, <2>3 DEF AppType
<1> QED
  BY <1>1, <1>2 DEF Valid

\* Before the client has taken ESTABLISHED, and when it does.
LEMMA FlowUnanswered ==
  ASSUME TypeInv, EventsInv, QuietInv, QuietInv', FailInv, FailInv', [Next]_vars,
         NEW e \in End, cm \notin Answered
  PROVE  FlowOf(e)' /\ arrived'[e] = arrived[e]
<1>0. "client" \in End /\ "server" \in End /\ Peer(e) \in End
  BY PeerIsEnd DEF End
<1>1. CASE cm' \notin Answered
  <2>1. /\ recvs'[Peer(e)] = << >> /\ wire'[e] = << >> /\ send_task_list'[e] = << >>
        /\ arrived'[e] = {} /\ dropped'[e] = {} /\ arrived[e] = {} /\ posted'[e] = 0
    BY <1>0, <1>1 DEF QuietInv, Quiet, FailInv
  <2>2. Waiting(e)' = {} /\ Gone(e)' = {}
    BY <2>1 DEF Waiting, Gone
  <2>3. /\ Ids(recvs'[Peer(e)]) = {} /\ Ids(wire'[e]) = {} /\ Ids(send_task_list'[e]) = {}
        /\ Rising(recvs'[Peer(e)]) /\ Rising(wire'[e]) /\ Rising(send_task_list'[e])
    BY <2>1, IdsEmpty
  <2> QED
    BY <1>1, <2>1, <2>2, <2>3 DEF FlowOf, Ordered, Less, Working
<1>2. CASE cm' \in Answered
  <2>1. Established("client") /\ cm = "responded"
    BY <1>2, AnsweredSteps
  <2>2. /\ recvs'[Peer(e)] = << >> /\ send_task_list'[e] = << >> /\ pos'[e] = 1
        /\ arrived'[e] = {} /\ dropped'[e] = {} /\ arrived[e] = {} /\ posted'[e] = 0
    BY <1>0, <2>1 DEF Established, QuietInv, Quiet, FailInv, Answered, threadVars
  <2>3. wire'[e] = << >> \/ wire'[e] = Append(<< >>, Mr)
    <3>1. wire[e] = << >> /\ ~TimerPost(e) /\ ~TimerRefused(e)
      BY <2>1 DEF QuietInv, Quiet, Answered, TimerPost, TimerRefused, Posts
    <3> QED
      BY <3>1, WireEffects
  <2>4. Waiting(e)' = {} /\ Gone(e)' = {}
    BY <2>2 DEF Waiting, Gone
  <2>5. Ids(wire'[e]) = {} /\ Rising(wire'[e])
    <3>1. Ids(Append(<< >>, Mr)) = {} /\ Rising(Append(<< >>, Mr))
      <4>1. << >> \in Seq(Msg) /\ Mr \in Msg /\ Mr.id = 0
        BY MessageTypes DEF Mr
      <4>2. /\ Ids(Append(<< >>, Mr)) = Ids(<< >>) \cup ({Mr.id} \ {0})
            /\ Rising(<< >>) => Rising(Append(<< >>, Mr))
        BY <4>1, IdsAppend
      <4> QED
        BY <4>1, <4>2, IdsEmpty
    <3> QED
      BY <2>3, <3>1, IdsEmpty
  <2>6. /\ Ids(recvs'[Peer(e)]) = {} /\ Ids(send_task_list'[e]) = {}
        /\ Rising(recvs'[Peer(e)]) /\ Rising(send_task_list'[e])
    BY <2>2, IdsEmpty
  <2> QED
    BY <2>2, <2>4, <2>5, <2>6 DEF FlowOf, Ordered, Complete, Less
<1> QED
  BY <1>1, <1>2

\* Main adds its next message behind those it has sent.
LEMMA FlowEnqueue ==
  ASSUME TypeInv, PostedInv, NEW e \in End, FlowOf(e), MainEnqueue(e),
         Working(e)' => Working(e)
  PROVE  FlowOf(e)' /\ arrived'[e] = arrived[e]
<1> DEFINE m == [type |-> Script(e)[pos[e]], id |-> pos[e]]
           R == Ids(recvs[Peer(e)])
           W == Ids(wire[e])
           U == Waiting(e)
           L == Ids(send_task_list[e])
<1>1. /\ m \in Msg /\ m.id = pos[e] /\ m.id # 0
  BY Enqueued, FlowTypes
<1>2. /\ UNCHANGED <<recvs, wire, arrived, posted>> /\ pos'[e] = pos[e] + 1
      /\ \/ /\ send_task_list'[e] = Append(send_task_list[e], m)
            /\ dropped'[e] = dropped[e]
         \/ LosesMessage(e, pos[e])
  BY DEF MainEnqueue, Insert, ListAddTail, LosesMessage, qpVars, TypeInv, TypeOK,
         TransTypeOK, ThreadTypeOK, HistoryTypeOK
<1>3. /\ Rising(recvs[Peer(e)]) /\ Rising(wire[e]) /\ Rising(send_task_list[e])
      /\ Ordered(R, W, U, L, Gone(e), pos[e])
      /\ Working(e) => Complete(R, W, U, Gone(e), pos[e])
  BY DEF FlowOf
<1>4. /\ R \in SUBSET Nat /\ W \in SUBSET Nat /\ U \in SUBSET Nat /\ L \in SUBSET Nat
      /\ Gone(e) \in SUBSET Nat /\ pos[e] \in Nat \ {0} /\ U \subseteq L
  BY FlowTypes
<1>5. CASE send_task_list'[e] = Append(send_task_list[e], m) /\ dropped'[e] = dropped[e]
  <2>1. Waiting(e)' = U \cup {pos[e]}
    BY <1>1, <1>2, <1>5, FlowTypes, WaitingAppend DEF PostedInv
  <2>2. Ids(send_task_list'[e]) = L \cup {pos[e]} /\ Rising(send_task_list'[e])
    <3>1. \A i \in L : i < pos[e]
      BY <1>3 DEF Ordered
    <3> QED
      BY <1>1, <1>3, <1>5, <3>1, FlowTypes, IdsAppend
  <2>3. Gone(e)' = Gone(e)
    BY <1>2, <1>5 DEF Gone
  <2>4. /\ Ordered(R, W, U \cup {pos[e]}, L \cup {pos[e]}, Gone(e), pos[e] + 1)
        /\ Working(e) => Complete(R, W, U \cup {pos[e]}, Gone(e), pos[e] + 1)
    <3> HIDE DEF R, W, U, L
    <3> QED
      BY <1>3, <1>4, OrderedEnqueue
  <2> QED
    BY <1>2, <1>3, <2>1, <2>2, <2>3, <2>4 DEF FlowOf
<1>6. CASE LosesMessage(e, pos[e])
  <2>1. send_task_list'[e] = send_task_list[e] /\ dropped'[e] = dropped[e] \cup {pos[e]}
    BY <1>6 DEF LosesMessage
  <2>2. Waiting(e)' = U /\ Gone(e)' = Gone(e) \cup {pos[e]}
    BY <1>2, <2>1 DEF Waiting, Gone
  <2>3. /\ Ordered(R, W, U, L, Gone(e) \cup {pos[e]}, pos[e] + 1)
        /\ Working(e) => Complete(R, W, U, Gone(e) \cup {pos[e]}, pos[e] + 1)
    <3> HIDE DEF R, W, U, L
    <3> QED
      BY <1>3, <1>4, OrderedLost
  <2> QED
    BY <1>2, <1>3, <2>1, <2>2, <2>3 DEF FlowOf
<1> QED
  BY <1>2, <1>5, <1>6

\* The timer puts on the wire what waits, behind what is there.
LEMMA FlowPost ==
  ASSUME TypeInv, PostedInv, NEW e \in End, FlowOf(e), TimerPost(e)
  PROVE  FlowOf(e)' /\ arrived'[e] = arrived[e]
<1> DEFINE R == Ids(recvs[Peer(e)])
           W == Ids(wire[e])
           U == Waiting(e)
           L == Ids(send_task_list[e])
<1>0. /\ R \in SUBSET Nat /\ W \in SUBSET Nat /\ U \in SUBSET Nat /\ L \in SUBSET Nat
      /\ Gone(e) \in SUBSET Nat /\ pos[e] \in Nat \ {0} /\ U \subseteq L
  BY FlowTypes
<1>1. /\ UNCHANGED <<recvs, send_task_list, arrived, dropped, pos, qp, cm>>
      /\ posted'[e] = Len(send_task_list[e]) /\ posted[e] = 0
  BY DEF TimerPost, Posts, cmVars, PostedInv, TypeInv, TypeOK, ThreadTypeOK
<1>2. \/ qp[e] = "ready" /\ wire'[e] = wire[e] \o send_task_list[e]
      \/ qp[e] # "ready" /\ wire'[e] = wire[e]
  BY DEF TimerPost, Posts, TypeInv, TypeOK, QpTypeOK
<1>3. /\ Rising(recvs[Peer(e)]) /\ Rising(wire[e]) /\ Rising(send_task_list[e])
      /\ Ordered(R, W, U, L, Gone(e), pos[e])
      /\ Working(e) => Complete(R, W, U, Gone(e), pos[e])
  BY DEF FlowOf
<1>4. U = L /\ Waiting(e)' = {}
  <2>1. U = L
    BY <1>1, FlowTypes, WaitingFacts
  <2>2. Waiting(e)' = {}
    <3>1. posted'[e] + 1 .. Len(send_task_list'[e]) = {}
      BY <1>1, FlowTypes
    <3> QED
      BY <3>1 DEF Waiting
  <2> QED
    BY <2>1, <2>2
<1>5. Gone(e)' = Gone(e)
  BY <1>1 DEF Gone
<1>6. CASE qp[e] = "ready"
  <2>1. Ids(wire'[e]) = W \cup U /\ Rising(wire'[e])
    <3>1. Less(W, L)
      BY <1>3, <1>4 DEF Ordered
    <3>2. /\ Ids(wire[e] \o send_task_list[e]) = W \cup L
          /\ Rising(wire[e] \o send_task_list[e])
      BY <1>3, <3>1, FlowTypes, IdsConcat
    <3> QED
      BY <1>2, <1>4, <1>6, <3>2
  <2>2. /\ Ordered(R, W \cup U, {}, L, Gone(e), pos[e])
        /\ Working(e) => Complete(R, W \cup U, {}, Gone(e), pos[e])
    <3> HIDE DEF R, W, U, L
    <3> QED
      BY <1>0, <1>3, OrderedPost
  <2> QED
    BY <1>1, <1>3, <1>4, <1>5, <2>1, <2>2 DEF FlowOf, Working
<1>7. CASE qp[e] # "ready"
  <2>1. Ordered(R, W, {}, L, Gone(e), pos[e])
    <3> HIDE DEF R, W, U, L
    <3> QED
      BY <1>0, <1>3, OrderedPost
  <2>2. ~Working(e)'
    BY <1>1, <1>7 DEF Working
  <2> QED
    BY <1>1, <1>2, <1>3, <1>4, <1>5, <1>7, <2>1, <2>2 DEF FlowOf
<1> QED
  BY <1>1, <1>6, <1>7

\* The timer drops what main has added since, and only that.
LEMMA FlowUnlink ==
  ASSUME TypeInv, TypeInv', PostedInv, NEW e \in End, FlowOf(e), TimerUnlink(e)
  PROVE  FlowOf(e)' /\ arrived'[e] = arrived[e]
<1> DEFINE R == Ids(recvs[Peer(e)])
           W == Ids(wire[e])
           U == Waiting(e)
           L == Ids(send_task_list[e])
<1>0. /\ R \in SUBSET Nat /\ W \in SUBSET Nat /\ U \in SUBSET Nat /\ L \in SUBSET Nat
      /\ Gone(e) \in SUBSET Nat /\ pos[e] \in Nat \ {0} /\ U \subseteq L
      /\ \A i \in R \cup W \cup U : i > 0
  BY FlowTypes
<1>1. /\ UNCHANGED <<recvs, wire, arrived, pos, qp, cm>>
      /\ send_task_list'[e] = << >> /\ posted'[e] = 0
      /\ dropped'[e] = dropped[e] \cup
           {send_task_list[e][i].id : i \in posted[e] + 1 .. Len(send_task_list[e])}
  BY DEF TimerUnlink, ListAfterUnlink, qpVars, cmVars, TypeInv, TypeOK, TransTypeOK,
         ThreadTypeOK, HistoryTypeOK
<1>3. /\ Rising(recvs[Peer(e)]) /\ Rising(wire[e])
      /\ Ordered(R, W, U, L, Gone(e), pos[e])
      /\ Working(e) => Complete(R, W, U, Gone(e), pos[e])
  BY DEF FlowOf
<1>4. Waiting(e)' = {} /\ Ids(send_task_list'[e]) = {} /\ Rising(send_task_list'[e])
  BY <1>1, IdsEmpty DEF Waiting
<1>5. Gone(e)' \ {0} = (Gone(e) \ {0}) \cup U
  BY <1>1 DEF Gone, Waiting
<1>6. Gone(e)' \in SUBSET Nat
  BY DEF Gone, TypeInv, TypeOK, HistoryTypeOK
<1>7. /\ Ordered(R, W, {}, {}, Gone(e)', pos[e])
      /\ Working(e) => Complete(R, W, {}, Gone(e)', pos[e])
  <2> DEFINE H == Gone(e)'
  <2>1. H \in SUBSET Nat /\ H \ {0} = (Gone(e) \ {0}) \cup U
    BY <1>5, <1>6
  <2> HIDE DEF R, W, U, L, H
  <2>2. /\ Ordered(R, W, {}, {}, H, pos[e])
        /\ Working(e) => Complete(R, W, {}, H, pos[e])
    BY <1>0, <1>3, <2>1, OrderedUnlink
  <2> QED
    BY <2>2 DEF H
<1> QED
  BY <1>1, <1>3, <1>4, <1>7 DEF FlowOf, Working

\* A message goes from the head of the wire to the end of what is received.
LEMMA FlowDeliver ==
  ASSUME TypeInv, EventsInv, QuietInv, NEW e \in End, FlowOf(e), DeliverSend(e)
  PROVE  FlowOf(e)' /\ arrived'[e] = arrived[e]
<1> DEFINE R == Ids(recvs[Peer(e)])
           W == Ids(wire[e])
           U == Waiting(e)
           L == Ids(send_task_list[e])
<1>0. /\ R \in SUBSET Nat /\ W \in SUBSET Nat /\ U \in SUBSET Nat /\ L \in SUBSET Nat
      /\ Gone(e) \in SUBSET Nat /\ pos[e] \in Nat \ {0} /\ U \subseteq L
      /\ \A i \in R \cup W \cup U : i > 0
      /\ send_task_list[e] \in Seq(Msg) /\ wire[e] \in Seq(Msg)
      /\ recvs[Peer(e)] \in Seq(Msg) /\ Peer(e) \in End /\ Peer(Peer(e)) = e
  BY FlowTypes
<1>1. /\ UNCHANGED <<send_task_list, posted, pos, arrived, dropped, qp, cm>>
      /\ wire[e] # << >> /\ wire'[e] = Tail(wire[e])
      /\ recvs'[Peer(e)] = Append(recvs[Peer(e)], Head(wire[e]))
      /\ qp[e] = "ready" /\ qp[Peer(e)] = "ready"
  BY <1>0 DEF DeliverSend, Linked, transVars, threadVars, cmVars, history, TypeInv, TypeOK,
              QpTypeOK
<1>2. Working(e) /\ Working(e)'
  BY <1>1 DEF Working, QuietInv, Quiet
<1>3. /\ Rising(recvs[Peer(e)]) /\ Rising(wire[e]) /\ Rising(send_task_list[e])
      /\ Ordered(R, W, U, L, Gone(e), pos[e])
      /\ Working(e) => Complete(R, W, U, Gone(e), pos[e])
  BY DEF FlowOf
<1>4. Waiting(e)' = U /\ Gone(e)' = Gone(e)
  BY <1>1 DEF Waiting, Gone
<1>5. Head(wire[e]) \in Msg /\ Head(wire[e]).id \in Nat
  <2>1. Head(wire[e]) \in Msg
    BY <1>0, <1>1
  <2> QED
    BY <2>1 DEF Msg
<1>6. /\ W = Ids(Tail(wire[e])) \cup ({Head(wire[e]).id} \ {0})
      /\ Rising(Tail(wire[e]))
      /\ Head(wire[e]).id # 0 => \A i \in Ids(Tail(wire[e])) : Head(wire[e]).id < i
  BY <1>0, <1>1, <1>3, IdsTail
<1>7. /\ Ids(recvs'[Peer(e)]) = R \cup ({Head(wire[e]).id} \ {0})
      /\ Rising(recvs'[Peer(e)])
  <2>1. Head(wire[e]).id # 0 => \A i \in R : i < Head(wire[e]).id
    BY <1>3, <1>6 DEF Ordered, Less
  <2> QED
    BY <1>0, <1>1, <1>3, <1>5, <2>1, IdsAppend
<1>8. CASE Head(wire[e]).id = 0
  <2>1. Ids(wire'[e]) = W /\ Ids(recvs'[Peer(e)]) = R
    BY <1>1, <1>6, <1>7, <1>8
  <2> QED
    BY <1>1, <1>2, <1>3, <1>4, <1>6, <1>7, <2>1 DEF FlowOf
<1>9. CASE Head(wire[e]).id # 0
  <2> DEFINE i == Head(wire[e]).id
             V == Ids(Tail(wire[e]))
  <2>1. /\ i \in Nat \ {0} /\ W = V \cup {i} /\ V \in SUBSET Nat
        /\ \A k \in V : i < k
    BY <1>0, <1>5, <1>6, <1>9
  <2>2. Ids(wire'[e]) = V /\ Ids(recvs'[Peer(e)]) = R \cup {i}
    BY <1>1, <1>7, <1>9
  <2>3. /\ Ordered(R \cup {i}, V, U, L, Gone(e), pos[e])
        /\ Complete(R \cup {i}, V, U, Gone(e), pos[e])
    <3>1. Ordered(R, W, U, L, Gone(e), pos[e]) /\ Complete(R, W, U, Gone(e), pos[e])
      BY <1>2, <1>3
    <3> HIDE DEF R, W, U, L, i, V
    <3> QED
      BY <1>0, <2>1, <3>1, OrderedDeliver
  <2> HIDE DEF i, V
  <2> QED
    BY <1>1, <1>2, <1>3, <1>4, <1>6, <1>7, <2>2, <2>3 DEF FlowOf
<1> QED
  BY <1>1, <1>8, <1>9

\* An RDMA write arrives without being received: the one step that may take a
\* message past those in front of it.
LEMMA FlowWrite ==
  ASSUME TypeInv, ValidInv, NEW e \in End, FlowOf(e), DeliverWrite(e)
  PROVE  /\ FlowOf(e)'
         /\ \E i : Script(e)[i] = "WRITE" /\ arrived'[e] = arrived[e] \cup {i}
<1> DEFINE R == Ids(recvs[Peer(e)])
           W == Ids(wire[e])
           U == Waiting(e)
           L == Ids(send_task_list[e])
<1>0. /\ R \in SUBSET Nat /\ W \in SUBSET Nat /\ U \in SUBSET Nat /\ L \in SUBSET Nat
      /\ Gone(e) \in SUBSET Nat /\ pos[e] \in Nat \ {0} /\ U \subseteq L
      /\ \A i \in R \cup W \cup U : i > 0
      /\ send_task_list[e] \in Seq(Msg) /\ wire[e] \in Seq(Msg)
      /\ recvs[Peer(e)] \in Seq(Msg) /\ Peer(e) \in End /\ Peer(Peer(e)) = e
  BY FlowTypes
<1> DEFINE i == Head(wire[e]).id
           V == Ids(Tail(wire[e]))
<1>1. /\ UNCHANGED <<send_task_list, recvs, posted, pos, dropped, qp, cm>>
      /\ wire[e] # << >> /\ wire'[e] = Tail(wire[e])
      /\ arrived'[e] = arrived[e] \cup {i}
      /\ Head(wire[e]).type = "WRITE"
  <2>1. Head(wire[e]) \in Msg /\ Head(wire[e]).type \in MsgType
    <3>1. wire[e] # << >>
      BY DEF DeliverWrite, Linked
    <3>2. Head(wire[e]) \in Msg
      BY <1>0, <3>1
    <3> QED
      BY <3>2 DEF Msg
  <2>2. Head(wire[e]).type = "WRITE"
    BY <2>1 DEF DeliverWrite, IsWrite, Opcode, MsgType, AppType
  <2> QED
    BY <2>2 DEF DeliverWrite, Linked, transVars, threadVars, cmVars, TypeInv, TypeOK,
                QpTypeOK, HistoryTypeOK
<1>2. i \in Nat \ {0} /\ Script(e)[i] = "WRITE"
  <2>1. Head(wire[e]) \in Valid(e)
    BY <1>1 DEF ValidInv
  <2> QED
    BY <1>1, <2>1, ValidFacts
<1>3. /\ Rising(recvs[Peer(e)]) /\ Rising(wire[e]) /\ Rising(send_task_list[e])
      /\ Ordered(R, W, U, L, Gone(e), pos[e])
      /\ Working(e) => Complete(R, W, U, Gone(e), pos[e])
  BY DEF FlowOf
<1>4. Waiting(e)' = U /\ Gone(e)' = Gone(e) \cup {i}
  BY <1>1 DEF Waiting, Gone
<1>5. /\ W = V \cup {i} /\ V \in SUBSET Nat /\ Rising(Tail(wire[e]))
      /\ \A k \in V : i < k
  <2>1. /\ W = V \cup ({i} \ {0}) /\ Rising(Tail(wire[e])) /\ \A k \in V : i < k
    BY <1>0, <1>1, <1>2, <1>3, IdsTail
  <2> QED
    BY <1>0, <1>2, <2>1
<1>6. Ids(wire'[e]) = V
  BY <1>1
<1>7. /\ Ordered(R, V, U, L, Gone(e) \cup {i}, pos[e])
      /\ Working(e) => Complete(R, V, U, Gone(e) \cup {i}, pos[e])
  <2> HIDE DEF R, W, U, L, i, V
  <2> QED
    BY <1>0, <1>2, <1>3, <1>5, OrderedWrite
<1>8. FlowOf(e)'
  <2> HIDE DEF i, V
  <2>1. Ids(recvs'[Peer(e)]) = R /\ Ids(send_task_list'[e]) = L
    BY <1>1
  <2> QED
    BY <1>1, <1>3, <1>4, <1>5, <1>6, <1>7, <2>1 DEF FlowOf, Working
<1> QED
  BY <1>1, <1>2, <1>8

\* A handled message is the first of those received, and all before it are gone.
LEMMA FlowPoll ==
  ASSUME TypeInv, ValidInv, NEW e \in End, FlowOf(e),
         RecvNormal(Peer(e)) \/ RecvFinish(Peer(e))
  PROVE  /\ FlowOf(e)'
         /\ \E i : /\ arrived'[e] = arrived[e] \cup {i}
                   /\ \A j \in 1 .. i - 1 : j \in Gone(e)
<1> DEFINE R == Ids(recvs[Peer(e)])
           W == Ids(wire[e])
           U == Waiting(e)
           L == Ids(send_task_list[e])
<1>0. /\ R \in SUBSET Nat /\ W \in SUBSET Nat /\ U \in SUBSET Nat /\ L \in SUBSET Nat
      /\ Gone(e) \in SUBSET Nat /\ pos[e] \in Nat \ {0} /\ U \subseteq L
      /\ \A i \in R \cup W \cup U : i > 0
      /\ send_task_list[e] \in Seq(Msg) /\ wire[e] \in Seq(Msg)
      /\ recvs[Peer(e)] \in Seq(Msg) /\ Peer(e) \in End /\ Peer(Peer(e)) = e
  BY FlowTypes
<1> DEFINE i == Head(recvs[Peer(e)]).id
           Q == Ids(Tail(recvs[Peer(e)]))
<1>1. /\ UNCHANGED <<wire, posted, pos, qp, cm>>
      /\ send_task_list'[e] = send_task_list[e] /\ dropped'[e] = dropped[e]
      /\ recvs[Peer(e)] # << >> /\ recvs'[Peer(e)] = Tail(recvs[Peer(e)])
      /\ arrived'[e] = arrived[e] \cup {i}
      /\ Head(recvs[Peer(e)]).type \in {"NORMAL", "FINISH"}
  <2>1. Peer(e) # e
    BY PeerIsEnd
  <2>2. CASE RecvNormal(Peer(e))
    BY <1>0, <2>2 DEF RecvNormal, TakeRecv, Arrives, transVars, threadVars, cmVars, TypeInv,
                      TypeOK, QpTypeOK, HistoryTypeOK
  <2>3. CASE RecvFinish(Peer(e))
    <3>1. /\ UNCHANGED <<wire, posted, pos, qp, cm>>
          /\ send_task_list'[e] = send_task_list[e] /\ dropped'[e] = dropped[e]
      BY <1>0, <2>1, <2>3 DEF RecvFinish, Insert, cmVars, TypeInv, TypeOK, TransTypeOK,
                              HistoryTypeOK
    <3>2. /\ recvs[Peer(e)] # << >> /\ recvs'[Peer(e)] = Tail(recvs[Peer(e)])
          /\ arrived'[e] = arrived[e] \cup {i}
          /\ Head(recvs[Peer(e)]).type = "FINISH"
      BY <1>0, <2>3 DEF RecvFinish, TakeRecv, Arrives, TypeInv, TypeOK, QpTypeOK, HistoryTypeOK
    <3> QED
      BY <3>1, <3>2
  <2> QED
    BY <2>2, <2>3
<1>2. i \in Nat \ {0}
  <2>1. Head(recvs[Peer(e)]) \in Valid(e)
    BY <1>1 DEF ValidInv
  <2> QED
    BY <1>1, <2>1, ValidFacts
<1>3. /\ Rising(recvs[Peer(e)]) /\ Rising(wire[e]) /\ Rising(send_task_list[e])
      /\ Ordered(R, W, U, L, Gone(e), pos[e])
      /\ Working(e) => Complete(R, W, U, Gone(e), pos[e])
  BY DEF FlowOf
<1>4. Waiting(e)' = U /\ Gone(e)' = Gone(e) \cup {i}
  BY <1>1 DEF Waiting, Gone
<1>5. /\ R = Q \cup {i} /\ Q \in SUBSET Nat /\ Rising(Tail(recvs[Peer(e)]))
      /\ \A k \in Q : i < k
  <2>1. /\ R = Q \cup ({i} \ {0}) /\ Rising(Tail(recvs[Peer(e)])) /\ \A k \in Q : i < k
    BY <1>0, <1>1, <1>2, <1>3, IdsTail
  <2> QED
    BY <1>0, <1>2, <2>1
<1>6. Ids(recvs'[Peer(e)]) = Q
  BY <1>1
<1>7. /\ Ordered(Q, W, U, L, Gone(e) \cup {i}, pos[e])
      /\ Working(e) => Complete(Q, W, U, Gone(e) \cup {i}, pos[e])
      /\ \A j \in 1 .. i - 1 : j \in Gone(e)
  <2> DEFINE G == Gone(e)
             p == pos[e]
  <2>1. /\ R \in SUBSET Nat /\ Q \in SUBSET Nat /\ W \in SUBSET Nat /\ U \in SUBSET Nat
        /\ L \in SUBSET Nat /\ G \in SUBSET Nat /\ p \in Nat \ {0} /\ i \in Nat \ {0}
        /\ R = Q \cup {i} /\ (\A k \in Q : i < k) /\ Ordered(R, W, U, L, G, p)
    BY <1>0, <1>2, <1>3, <1>5
  <2>2. Working(e) => Complete(R, W, U, G, p)
    BY <1>3
  <2> HIDE DEF R, W, U, L, i, Q, G, p
  <2>3. /\ Ordered(Q, W, U, L, G \cup {i}, p)
        /\ Complete(R, W, U, G, p) => Complete(Q, W, U, G \cup {i}, p)
        /\ \A j \in 1 .. i - 1 : j \in G
    BY <2>1, OrderedPoll
  <2> QED
    BY <2>2, <2>3 DEF G, p
<1>8. FlowOf(e)'
  <2> HIDE DEF i, Q
  <2>1. Ids(wire'[e]) = W /\ Ids(send_task_list'[e]) = L
    BY <1>1
  <2> QED
    BY <1>1, <1>3, <1>4, <1>5, <1>6, <1>7, <2>1 DEF FlowOf, Working
<1> QED
  BY <1>1, <1>7, <1>8

\* Every other step leaves the messages where they are, or loses all that are on
\* the wire or received with the QP they belong to.
LEMMA FlowOther ==
  ASSUME TypeInv, EventsInv, ValidInv, PostedInv, FailInv, [Next]_vars, cm \in Answered,
         NEW e \in End, FlowOf(e),
         ~MainEnqueue(e), ~TimerPost(e), ~TimerUnlink(e), ~DeliverSend(e), ~DeliverWrite(e),
         ~RecvNormal(Peer(e)), ~RecvFinish(Peer(e)), NoneTwice'
  PROVE  FlowOf(e)' /\ arrived'[e] = arrived[e]
<1> DEFINE R == Ids(recvs[Peer(e)])
           W == Ids(wire[e])
           U == Waiting(e)
           L == Ids(send_task_list[e])
<1>0. /\ R \in SUBSET Nat /\ W \in SUBSET Nat /\ U \in SUBSET Nat /\ L \in SUBSET Nat
      /\ Gone(e) \in SUBSET Nat /\ pos[e] \in Nat \ {0} /\ U \subseteq L
      /\ \A i \in R \cup W \cup U : i > 0
      /\ send_task_list[e] \in Seq(Msg) /\ wire[e] \in Seq(Msg)
      /\ recvs[Peer(e)] \in Seq(Msg) /\ Peer(e) \in End /\ Peer(Peer(e)) = e
  BY FlowTypes
<1>1. /\ posted'[e] = posted[e] /\ arrived'[e] = arrived[e] /\ pos'[e] = pos[e]
      /\ dropped'[e] = dropped[e] \/ dropped'[e] = dropped[e] \cup {0}
  BY PlacesEffects DEF FailInv, LosesMessage
<1>2. /\ Waiting(e)' = U /\ Ids(send_task_list'[e]) = L /\ Rising(send_task_list'[e])
  <2>1. Rising(send_task_list[e])
    BY DEF FlowOf
  <2>2. CASE send_task_list'[e] = send_task_list[e]
    BY <1>1, <2>1, <2>2 DEF Waiting
  <2>3. CASE send_task_list'[e] = Append(send_task_list[e], Done)
    <3>1. Done \in Msg /\ Done.id = 0 /\ posted[e] \in Nat /\ posted[e] <= Len(send_task_list[e])
      BY MessageTypes, FlowTypes DEF Done, PostedInv
    <3>2. Waiting(e)' = U \cup ({Done.id} \ {0})
      BY <1>0, <1>1, <2>3, <3>1, WaitingAppend
    <3>3. /\ Ids(Append(send_task_list[e], Done)) = L \cup ({Done.id} \ {0})
          /\ Rising(send_task_list[e]) => Rising(Append(send_task_list[e], Done))
      BY <1>0, <3>1, IdsAppend
    <3> QED
      BY <2>1, <2>3, <3>1, <3>2, <3>3
  <2> QED
    BY <2>2, <2>3, ListEffects
<1>3. /\ Ids(wire'[e]) \in {W, {}} /\ Rising(wire'[e])
      /\ qp'[e] = "ready" => Ids(wire'[e]) = W
  <2>1. Rising(wire[e])
    BY DEF FlowOf
  <2>2. CASE wire'[e] = wire[e]
    BY <2>1, <2>2
  <2>3. CASE wire'[e] = << >> /\ qp'[e] # "ready"
    BY <2>3, IdsEmpty
  <2>4. CASE wire'[e] = Append(wire[e], Mr)
    <3>1. Mr \in Msg /\ Mr.id = 0
      BY MessageTypes DEF Mr
    <3>2. /\ Ids(Append(wire[e], Mr)) = W \cup ({Mr.id} \ {0})
          /\ Rising(wire[e]) => Rising(Append(wire[e], Mr))
      BY <1>0, <3>1, IdsAppend
    <3> QED
      BY <2>1, <2>4, <3>1, <3>2
  <2>5. e \notin twice'
    BY DEF NoneTwice
  <2> QED
    BY <2>2, <2>3, <2>4, <2>5, WireEffects
<1>4. /\ Ids(recvs'[Peer(e)]) \in {R, {}} /\ Rising(recvs'[Peer(e)])
      /\ qp'[Peer(e)] = "ready" => Ids(recvs'[Peer(e)]) = R
  <2>1. Rising(recvs[Peer(e)])
    BY DEF FlowOf
  <2>2. CASE recvs'[Peer(e)] = recvs[Peer(e)]
    BY <2>1, <2>2
  <2>3. CASE Disconnected(Peer(e)) /\ recvs'[Peer(e)] = << >>
    <3>1. qp'[Peer(e)] = "destroyed"
      BY <1>0, <2>3, Stopped DEF Disconnected
    <3> QED
      BY <2>3, <3>1, IdsEmpty
  <2>4. CASE /\ RecvDone(Peer(e)) \/ RecvMr(Peer(e))
             /\ recvs[Peer(e)] # << >> /\ recvs'[Peer(e)] = Tail(recvs[Peer(e)])
    <3>1. Head(recvs[Peer(e)]) \in Valid(e)
      BY <2>4 DEF ValidInv
    <3>2. Head(recvs[Peer(e)]).type \in {"MR", "DONE"}
      BY <2>4 DEF RecvDone, RecvMr, TakeRecv
    <3>3. Head(recvs[Peer(e)]).id = 0
      BY <3>1, <3>2, ValidFacts
    <3>4. /\ R = Ids(Tail(recvs[Peer(e)])) \cup ({Head(recvs[Peer(e)]).id} \ {0})
          /\ Rising(recvs[Peer(e)]) => Rising(Tail(recvs[Peer(e)]))
      BY <1>0, <2>4, IdsTail
    <3> QED
      BY <2>1, <2>4, <3>3, <3>4
  <2> QED
    BY <1>0, <2>2, <2>3, <2>4, RecvsEffects
<1>5. Working(e)' => Working(e) /\ qp'[e] = "ready" /\ qp'[Peer(e)] = "ready"
  BY <1>0, QpEffects DEF Working
<1>6. PICK H \in {Gone(e), Gone(e) \cup {0}} : Gone(e)' = H
  BY <1>1 DEF Gone
<1>7. /\ Ordered(R, W, U, L, H, pos[e])
      /\ Working(e) => Complete(R, W, U, H, pos[e])
  <2>1. /\ Ordered(R, W, U, L, Gone(e), pos[e])
        /\ Working(e) => Complete(R, W, U, Gone(e), pos[e])
    BY DEF FlowOf
  <2> HIDE DEF R, W, U, L
  <2>2. /\ Ordered(R, W, U, L, Gone(e) \cup {0}, pos[e])
        /\ Working(e) => Complete(R, W, U, Gone(e) \cup {0}, pos[e])
    BY <1>0, <2>1, OrderedDoneLost
  <2> QED
    BY <2>1, <2>2
<1>8. \A S \in {R, {}}, V \in {W, {}} : Ordered(S, V, U, L, H, pos[e])
  <2> DEFINE G == H
             p == pos[e]
  <2>1. /\ R \in SUBSET Nat /\ W \in SUBSET Nat /\ U \in SUBSET Nat /\ L \in SUBSET Nat
        /\ G \in SUBSET Nat /\ p \in Nat \ {0}
        /\ Ordered(R, W, U, L, G, p)
    BY <1>0, <1>7
  <2> HIDE DEF R, W, U, L, G, p
  <2>2. /\ Ordered({}, W, U, L, G, p) /\ Ordered(R, {}, U, L, G, p)
        /\ Ordered({}, {}, U, L, G, p)
    BY <2>1, OrderedLose
  <2> QED
    BY <2>1, <2>2 DEF G, p
<1>9. Ordered(Ids(recvs'[Peer(e)]), Ids(wire'[e]), Waiting(e)', Ids(send_task_list'[e]),
              Gone(e)', pos'[e])
  BY <1>1, <1>2, <1>3, <1>4, <1>6, <1>8
<1>10. Working(e)' =>
         Complete(Ids(recvs'[Peer(e)]), Ids(wire'[e]), Waiting(e)', Gone(e)', pos'[e])
  BY <1>1, <1>2, <1>3, <1>4, <1>5, <1>6, <1>7
<1> QED
  BY <1>1, <1>2, <1>3, <1>4, <1>9, <1>10 DEF FlowOf

\* Every step keeps FlowInv and InOrder.
LEMMA FlowStep ==
  ASSUME TypeInv, TypeInv', EventsInv, QuietInv, QuietInv', ValidInv, PostedInv,
         FailInv, FailInv', NoneTwice => FlowInv, InOrder, [Next]_vars
  PROVE  (NoneTwice' => FlowInv') /\ InOrder'
<1> SUFFICES ASSUME NoneTwice' PROVE FlowInv' /\ InOrder'
  BY DEF InOrder
<1>0. NoneTwice /\ FlowInv
  BY TwiceStays
<1>1. ASSUME NEW e \in End
      PROVE  /\ FlowOf(e)'
             /\ \/ arrived'[e] = arrived[e]
                \/ \E i : /\ arrived'[e] = arrived[e] \cup {i}
                          /\ \/ Script(e)[i] = "WRITE"
                             \/ \A j \in 1 .. i - 1 : j \in Gone(e)
  <2>1. FlowOf(e)
    BY <1>0 DEF FlowInv
  <2>2. CASE cm \notin Answered
    BY <2>2, FlowUnanswered
  <2>3. ASSUME cm \in Answered PROVE Working(e)' => Working(e)
    BY <2>3, PeerIsEnd, QpEffects DEF Working
  <2>4. CASE cm \in Answered /\ MainEnqueue(e)
    BY <2>1, <2>3, <2>4, FlowEnqueue
  <2>5. CASE TimerPost(e)
    BY <2>1, <2>5, FlowPost
  <2>6. CASE TimerUnlink(e)
    BY <2>1, <2>6, FlowUnlink
  <2>7. CASE DeliverSend(e)
    BY <2>1, <2>7, FlowDeliver
  <2>8. CASE DeliverWrite(e)
    BY <2>1, <2>8, FlowWrite
  <2>9. CASE RecvNormal(Peer(e)) \/ RecvFinish(Peer(e))
    BY <2>1, <2>9, FlowPoll
  <2> QED
    BY <2>1, <2>2, <2>4, <2>5, <2>6, <2>7, <2>8, <2>9, FlowOther
<1>2. ASSUME NEW e \in End PROVE dropped[e] \subseteq dropped'[e]
  <2>1. TimerUnlink(e) => dropped[e] \subseteq dropped'[e]
    BY DEF TimerUnlink, TypeInv, TypeOK, HistoryTypeOK
  <2> QED
    BY <2>1, PlacesEffects DEF LosesMessage
<1>3. InOrder'
  <2> SUFFICES ASSUME NEW e \in End, NEW i \in arrived'[e], Script(e)[i] # "WRITE",
                      NEW j \in 1 .. i - 1
               PROVE  j \in arrived'[e] \cup dropped'[e]
    BY DEF InOrder
  <2>1. CASE i \in arrived[e]
    BY <1>0, <1>1, <1>2, <2>1 DEF InOrder
  <2>2. CASE i \notin arrived[e]
    BY <1>1, <1>2, <2>2 DEF Gone
  <2> QED
    BY <2>1, <2>2
<1> QED
  BY <1>1, <1>3 DEF FlowInv

-----------------------------------------------------------------------------
(* DoneInv. *)

\* Nobody has sent DONE at the start.
LEMMA DoneInit == Init => DoneInv
BY DEF Init, DoneInv, NoType, End, Answered

\* What has arrived stays so, and with it FINISH.
LEMMA ArrivedGrows ==
  ASSUME TypeInv, [Next]_vars
  PROVE  /\ \A e \in End : arrived[e] \subseteq arrived'[e]
         /\ Finished => Finished'
<1>1. ASSUME NEW e \in End PROVE arrived[e] \subseteq arrived'[e]
  <2>1. Peer(e) \in End /\ Peer(Peer(e)) = e
    BY PeerIsEnd
  <2>2. DeliverWrite(e) => arrived[e] \subseteq arrived'[e]
    BY DEF DeliverWrite, TypeInv, TypeOK, HistoryTypeOK
  <2>3. RecvNormal(Peer(e)) \/ RecvFinish(Peer(e)) => arrived[e] \subseteq arrived'[e]
    BY <2>1 DEF RecvNormal, RecvFinish, Arrives, TypeInv, TypeOK, HistoryTypeOK
  <2> QED
    BY <2>2, <2>3, PlacesEffects
<1> QED
  BY <1>1 DEF Finished, End

\* The server's handling of FINISH is what Finished says, and the client is never
\* sent one.
LEMMA FinishHandled ==
  ASSUME TypeInv, ValidInv, ServerListInv
  PROVE  /\ ~RecvFinish("client")
         /\ RecvFinish("server") => Finished'
<1>0. /\ "client" \in End /\ "server" \in End
      /\ Peer("client") = "server" /\ Peer("server") = "client"
  BY DEF End, Peer
<1>1. ~RecvFinish("client")
  <2> SUFFICES ASSUME RecvFinish("client") PROVE FALSE
    OBVIOUS
  <2>1. recvs["client"] # << >> /\ Head(recvs["client"]).type = "FINISH"
    BY DEF RecvFinish, TakeRecv
  <2>2. recvs["client"] \in Seq(Msg) /\ NoType(recvs["client"], "FINISH")
    BY <1>0 DEF TypeInv, TypeOK, QpTypeOK, ServerListInv
  <2> QED
    BY <2>1, <2>2, TypeSequences
<1>2. ASSUME RecvFinish("server") PROVE Finished'
  <2> DEFINE m == Head(recvs["server"])
  <2>1. m \in Valid("client") /\ m.type = "FINISH"
    BY <1>0, <1>2 DEF RecvFinish, TakeRecv, ValidInv
  <2>2. m.id \in IdsOf("client") /\ Script("client")[m.id] = "FINISH"
    BY <1>0, <2>1, ValidFacts
  <2>3. arrived'["client"] = arrived["client"] \cup {m.id}
    BY <1>0, <1>2 DEF RecvFinish, Arrives, TypeInv, TypeOK, HistoryTypeOK
  <2> QED
    BY <2>2, <2>3 DEF Finished, Script
<1> QED
  BY <1>1, <1>2

\* DONE is on no way from an end that did not handle FINISH.
LEMMA NoDoneStep ==
  ASSUME TypeInv, [Next]_vars, NEW e \in End, ~RecvFinish(e),
         NoType(send_task_list[e], "DONE"), NoType(wire[e], "DONE"),
         NoType(sent[e], "DONE"), NoType(recvs[Peer(e)], "DONE")
  PROVE  /\ NoType(send_task_list'[e], "DONE") /\ NoType(wire'[e], "DONE")
         /\ NoType(sent'[e], "DONE") /\ NoType(recvs'[Peer(e)], "DONE")
<1>0. Peer(e) \in End /\ Peer(Peer(e)) = e
  BY PeerIsEnd
<1>1. /\ wire[e] \in Seq(Msg) /\ recvs[Peer(e)] \in Seq(Msg) /\ sent[e] \in Seq(Msg)
      /\ send_task_list[e] \in Seq(Msg) /\ Mr \in Msg
  BY <1>0, MessageTypes DEF TypeInv, TypeOK, TransTypeOK, QpTypeOK
<1>2. NoType(<< >>, "DONE")
  BY DEF NoType
<1>3. NoType(send_task_list'[e], "DONE")
  <2>1. ASSUME MainEnqueue(e),
               send_task_list'[e] = Append(send_task_list[e],
                                           [type |-> Script(e)[pos[e]], id |-> pos[e]])
        PROVE  NoType(send_task_list'[e], "DONE")
    <3> DEFINE m == [type |-> Script(e)[pos[e]], id |-> pos[e]]
    <3>1. m \in Msg /\ m.type # "DONE"
      BY <2>1, Enqueued DEF AppType
    <3>2. NoType(Append(send_task_list[e], m), "DONE")
      BY <1>1, <3>1, TypeSequences
    <3> QED
      BY <2>1, <3>2
  <2> QED
    BY <1>2, <2>1, ListEffects
<1>4. wire[e] # << >> => Head(wire[e]) \in Msg /\ Head(wire[e]).type # "DONE"
  BY <1>1, TypeSequences
<1>5. NoType(wire'[e], "DONE")
  <2>1. /\ NoType(Append(wire[e], Mr), "DONE")
        /\ NoType(wire[e] \o send_task_list[e], "DONE")
        /\ wire[e] # << >> => NoType(Tail(wire[e]), "DONE")
    BY <1>1, TypeSequences DEF Mr
  <2>2. \A n \in 0 .. Len(send_task_list[e]) :
          NoType(wire[e] \o SubSeq(send_task_list[e], 1, n), "DONE")
    BY <1>1, FirstOfType, TypeSequences
  <2> QED
    BY <1>2, <2>1, <2>2, WireEffects
<1>6. NoType(sent'[e], "DONE")
  <2>1. /\ sent[e] # << >> => NoType(Tail(sent[e]), "DONE")
        /\ wire[e] # << >> => NoType(Append(sent[e], Head(wire[e])), "DONE")
    BY <1>1, <1>4, TypeSequences
  <2> QED
    BY <1>2, <2>1, SentEffects
<1>7. NoType(recvs'[Peer(e)], "DONE")
  <2>1. /\ recvs[Peer(e)] # << >> => NoType(Tail(recvs[Peer(e)]), "DONE")
        /\ wire[e] # << >> => NoType(Append(recvs[Peer(e)], Head(wire[e])), "DONE")
    BY <1>1, <1>4, TypeSequences
  <2>2. \/ recvs'[Peer(e)] = recvs[Peer(e)] \/ recvs'[Peer(e)] = << >>
        \/ recvs[Peer(e)] # << >> /\ recvs'[Peer(e)] = Tail(recvs[Peer(e)])
        \/ wire[e] # << >> /\ recvs'[Peer(e)] = Append(recvs[Peer(e)], Head(wire[e]))
    BY <1>0, RecvsEffects
  <2> QED
    BY <1>2, <2>1, <2>2
<1> QED
  BY <1>3, <1>5, <1>6, <1>7

\* The connection manager is told to disconnect by an end that sees DONE.
LEMMA Disconnecting ==
  ASSUME TypeInv, EventsInv, [Next]_vars, cm # "disconnecting", cm' = "disconnecting"
  PROVE  \E e \in End : \/ sent[e] # << >> /\ Head(sent[e]).type = "DONE"
                        \/ recvs[e] # << >> /\ Head(recvs[e]).type = "DONE"
<1>1. cm \in Answered
  <2> SUFFICES ASSUME cm \notin Answered PROVE FALSE
    OBVIOUS
  <2>1. Established("client") /\ cm = "responded"
    BY AnsweredSteps DEF Answered
  <2> QED
    BY <2>1 DEF Established
<1>2. AnsweredNext
  BY <1>1, AnsweredSteps
<1>3. ASSUME NEW f \in End, CqHandler(f)
      PROVE  \/ sent[f] # << >> /\ Head(sent[f]).type = "DONE"
             \/ recvs[f] # << >> /\ Head(recvs[f]).type = "DONE"
  BY <1>3 DEF CqHandler, SentMr, SentOther, TakeSent, SendCloses, RecvNormal, RecvFinish,
              RecvDone, TakeRecv, RecvMr, cmVars
<1>4. ASSUME NEW f \in End, Main(f) \/ Network(f) \/ RnrExhausted(f) \/ TimerHandler(f)
                             \/ LoopExit(f) \/ Disconnected(f)
      PROVE  UNCHANGED cm
  BY <1>4 DEF Main, MainCheck, MainEnqueue, MainSent, MainJoin, Network, DeliverSend,
              DeliverWrite, CmHangup, RnrExhausted, TimerHandler, TimerPost, TimerRefused, Posts,
              TimerUnlink, StaleExpires, LoopExit, Disconnected, cmVars
<1>5. UNCHANGED vars \/ SetConnecting \/ Established("server") \/ Prepare => UNCHANGED cm
  BY DEF vars, cmVars, SetConnecting, Established, Prepare
<1>6. CmProgress => cm' # "disconnecting"
  BY DEF CmProgress, CmNotifies
<1> QED
  BY <1>2, <1>3, <1>4, <1>5, <1>6 DEF AnsweredNext

\* DONE, and the disconnection it brings, come after FINISH.
LEMMA DoneStep ==
  ASSUME TypeInv, EventsInv, ServerListInv, ValidInv, FailInv, DoneInv, [Next]_vars
  PROVE  DoneInv'
<1>0. /\ "client" \in End /\ "server" \in End
      /\ Peer("client") = "server" /\ Peer("server") = "client"
  BY DEF End, Peer
<1>1. /\ NoType(send_task_list'["client"], "DONE") /\ NoType(wire'["client"], "DONE")
      /\ NoType(sent'["client"], "DONE") /\ NoType(recvs'["server"], "DONE")
  <2>1. /\ NoType(send_task_list["client"], "DONE") /\ NoType(wire["client"], "DONE")
        /\ NoType(sent["client"], "DONE") /\ NoType(recvs["server"], "DONE")
    BY DEF DoneInv
  <2> QED
    BY <1>0, <2>1, FinishHandled, NoDoneStep
<1>2. NoType(send_task_list'["client"], "MR")
  <2>1. NoType(send_task_list["client"], "MR") /\ send_task_list["client"] \in Seq(Msg)
    BY <1>0 DEF DoneInv, TypeInv, TypeOK, TransTypeOK
  <2> DEFINE m == [type |-> Script("client")[pos["client"]], id |-> pos["client"]]
  <2>2. MainEnqueue("client") => NoType(Append(send_task_list["client"], m), "MR")
    <3> SUFFICES ASSUME MainEnqueue("client")
                 PROVE  NoType(Append(send_task_list["client"], m), "MR")
      OBVIOUS
    <3>1. m \in Msg /\ m.type # "MR"
      BY <1>0, Enqueued DEF AppType
    <3> QED
      BY <2>1, <3>1, TypeSequences
  <2>3. NoType(<< >>, "MR")
    BY DEF NoType
  <2>4. ~RecvFinish("client")
    BY FinishHandled
  <2> QED
    BY <1>0, <2>1, <2>2, <2>3, <2>4, ListEffects
<1>3. ASSUME ~Finished'
      PROVE  /\ \A s \in {send_task_list'["server"], wire'["server"], sent'["server"],
                          recvs'["client"]} : NoType(s, "DONE")
             /\ cm' # "disconnecting"
             /\ cm' \in Answered => qp'["client"] # "destroyed"
  <2>1. ~Finished /\ ~RecvFinish("server")
    BY <1>3, ArrivedGrows, FinishHandled
  <2>2. /\ NoType(send_task_list["server"], "DONE") /\ NoType(wire["server"], "DONE")
        /\ NoType(sent["server"], "DONE") /\ NoType(recvs["client"], "DONE")
        /\ NoType(sent["client"], "DONE") /\ NoType(recvs["server"], "DONE")
        /\ cm # "disconnecting" /\ (cm \in Answered => qp["client"] # "destroyed")
    BY <2>1 DEF DoneInv
  <2>3. /\ NoType(send_task_list'["server"], "DONE") /\ NoType(wire'["server"], "DONE")
        /\ NoType(sent'["server"], "DONE") /\ NoType(recvs'["client"], "DONE")
    BY <1>0, <2>1, <2>2, NoDoneStep
  <2>4. cm' # "disconnecting"
    <3>1. \A e \in End : /\ sent[e] # << >> => Head(sent[e]).type # "DONE"
                         /\ recvs[e] # << >> => Head(recvs[e]).type # "DONE"
      <4>1. \A e \in End : sent[e] \in Seq(Msg) /\ recvs[e] \in Seq(Msg)
        BY DEF TypeInv, TypeOK, QpTypeOK
      <4>2. \A e \in End : NoType(sent[e], "DONE") /\ NoType(recvs[e], "DONE")
        BY <2>2 DEF End
      <4> QED
        BY <4>1, <4>2, TypeSequences
    <3> QED
      BY <2>2, <3>1, Disconnecting
  <2>5. ASSUME cm' \in Answered PROVE qp'["client"] # "destroyed"
    <3>1. CASE cm \in Answered
      <4>1. ~Disconnected("client")
        BY <1>0, <2>2, EventTaken DEF Disconnected
      <4> QED
        BY <1>0, <2>2, <3>1, <4>1, QpEffects
    <3>2. CASE cm \notin Answered
      <4>1. Established("client") /\ cm = "responded"
        BY <2>5, <3>2, AnsweredSteps
      <4> QED
        BY <1>0, <4>1 DEF Established, FailInv, Answered
    <3> QED
      BY <3>1, <3>2
  <2> QED
    BY <2>3, <2>4, <2>5
<1> QED
  BY <1>1, <1>2, <1>3 DEF DoneInv

-----------------------------------------------------------------------------
(* The invariant of the delivery. *)

DeliveryInv ==
  /\ TypeInv /\ ExchangeInv
  /\ ValidInv /\ PostedInv /\ FailInv /\ (NoneTwice => FlowInv) /\ InOrder /\ DoneInv

\* DeliveryInv holds at the start.
LEMMA DeliveryInit == Init => DeliveryInv
BY ExchangeInit, ValidInit, PostedInit, FailInit, FlowInit, DoneInit DEF DeliveryInv

\* Every step keeps DeliveryInv.
LEMMA DeliveryStep == DeliveryInv /\ [Next]_vars => DeliveryInv'
<1> SUFFICES ASSUME DeliveryInv, [Next]_vars PROVE DeliveryInv'
  OBVIOUS
<1>1. /\ TypeInv /\ ExchangeInv
      /\ ValidInv /\ PostedInv /\ FailInv /\ (NoneTwice => FlowInv) /\ InOrder /\ DoneInv
  BY DEF DeliveryInv
<1>2. EventsInv /\ QuietInv /\ ServerListInv
  BY <1>1 DEF ExchangeInv
<1>3. TypeInv' /\ ExchangeInv'
  BY <1>1, ExchangeStep
<1>4. QuietInv'
  BY <1>3 DEF ExchangeInv
<1>5. ValidInv'
  BY <1>1, ValidStep
<1>6. PostedInv'
  BY <1>1, <1>2, <1>4, PostedStep
<1>7. FailInv'
  BY <1>1, <1>2, FailStep
<1>8. (NoneTwice' => FlowInv') /\ InOrder'
  BY <1>1, <1>2, <1>3, <1>4, <1>7, FlowStep
<1>9. DoneInv'
  BY <1>1, <1>2, DoneStep
<1> QED
  BY <1>3, <1>5, <1>6, <1>7, <1>8, <1>9 DEF DeliveryInv

\* The invariant that says where every message of main is.
THEOREM DeliveryCorrect == Spec => []DeliveryInv
BY DeliveryInit, DeliveryStep, PTL DEF Spec

\* When the server handles a message every earlier one has been handled, written
\* or dropped by the unlink loop or in a race of insertions, and the same on the
\* client: the list, the QP and the completions keep the order of hmr_rdma_send,
\* for all scripts and with all failures, until a refused post takes part of a list.
THEOREM InOrderHolds == Spec => []InOrder
<1>1. DeliveryInv => InOrder
  BY DEF DeliveryInv
<1> QED
  BY <1>1, DeliveryCorrect, PTL

-----------------------------------------------------------------------------
(* GracefulClose. *)

\* FINISH is the last message of the client's script, so after it all are gone,
\* and main has nothing more to send.
LEMMA FinishedAll ==
  ASSUME TypeInv, FlowInv, InOrder, NoneTwice, Finished
  PROVE  IdsOf("client") \subseteq Gone("client") /\ Len(ClientScript) < pos["client"]
<1>0. "client" \in End /\ Script("client") = ClientScript /\ Len(ClientScript) \in Nat
  BY ScriptAssumption DEF End, Script
<1>1. PICK i \in arrived["client"] : i \in IdsOf("client") /\ ClientScript[i] = "FINISH"
  BY DEF Finished
<1>2. i \in 1..Len(ClientScript)
  BY <1>0, <1>1 DEF IdsOf
<1>3. i = Len(ClientScript)
  BY <1>1, <1>2, ScriptAssumption
<1>4. \A j \in 1 .. i - 1 : j \in arrived["client"] \cup dropped["client"]
  BY <1>0, <1>1, <1>2 DEF InOrder
<1>5. \A j \in 1..Len(ClientScript) : j \in 1 .. i - 1 \/ j = i
  BY <1>0, <1>3
<1>6. IdsOf("client") \subseteq Gone("client")
  BY <1>0, <1>1, <1>4, <1>5 DEF IdsOf, Gone
<1>7. i < pos["client"]
  BY <1>0, <1>1 DEF FlowInv, FlowOf, Ordered, Gone
<1> QED
  BY <1>3, <1>6, <1>7

\* The client's QP is destroyed by on_cm_disconnected only after DONE, that is
\* after the server has handled FINISH: all that the client sent is there, but for
\* what was dropped before it was posted, until a refused post takes part of a list.
THEOREM GracefulCloseHolds == Spec => []GracefulClose
<1>1. DeliveryInv => GracefulClose
  <2> SUFFICES ASSUME DeliveryInv, NoneTwice, qp["client"] = "destroyed",
                      trans_state["client"] # "ERROR"
               PROVE  IdsOf("client") \subseteq arrived["client"] \cup dropped["client"]
    BY DEF GracefulClose
  <2>1. cm \in Answered
    BY DEF DeliveryInv, FailInv, End
  <2>2. Finished
    BY <2>1 DEF DeliveryInv, DoneInv
  <2> QED
    BY <2>2, FinishedAll DEF DeliveryInv, Gone
<1> QED
  BY <1>1, DeliveryCorrect, PTL

-----------------------------------------------------------------------------
(* ClientResourcesLive. *)

\* No step of a client uses what it has released.
LEMMA ResourcesStep == DeliveryInv /\ ClientResourcesLive /\ [Next]_vars => ClientResourcesLive'
<1> SUFFICES ASSUME DeliveryInv, ClientResourcesLive, [Next]_vars, NoneTwice'
             PROVE  misuse'["client"] = {}
  BY DEF ClientResourcesLive
<1>0. "client" \in End /\ Script("client") = ClientScript
  BY DEF End, Script
<1>1. /\ TypeInv /\ QuietInv
      /\ ValidInv /\ PostedInv /\ FailInv /\ FlowInv /\ InOrder /\ DoneInv /\ NoneTwice
  BY TwiceStays DEF DeliveryInv, ExchangeInv
<1>2. ~(MainEnqueue("client") /\ normal_mempool["client"] # "live")
  <2> SUFFICES ASSUME MainEnqueue("client"), normal_mempool["client"] # "live" PROVE FALSE
    OBVIOUS
  <2>1. cm \in Answered
    BY <1>0, <1>1 DEF QuietInv, Quiet, MainEnqueue
  <2>2. cm = "disconnecting"
    BY <1>1, <2>1 DEF FailInv, Answered
  <2>3. Finished
    BY <1>1, <2>2 DEF DoneInv
  <2>4. Len(ClientScript) < pos["client"]
    BY <1>1, <2>3, FinishedAll
  <2>5. pos["client"] \in 1..Len(ClientScript)
    BY <1>0, <1>1 DEF MainEnqueue, TypeInv, PosOK, IdsOf
  <2>6. Len(ClientScript) \in Nat /\ pos["client"] \in Nat
    BY <1>0, <1>1, ScriptAssumption DEF TypeInv, TypeOK, ThreadTypeOK
  <2> QED
    BY <2>4, <2>5, <2>6
<1>3. ~((TimerPost("client") \/ TimerRefused("client")) /\ qp["client"] = "destroyed")
  <2> SUFFICES ASSUME TimerPost("client") \/ TimerRefused("client"), qp["client"] = "destroyed"
               PROVE  FALSE
    OBVIOUS
  <2>1. send_task_list["client"] # << >> /\ stage["client"] = "idle"
    BY DEF TimerPost, TimerRefused, Posts
  <2>2. cm \in Answered
    BY <1>0, <1>1, <2>1 DEF QuietInv, Quiet
  <2>3. Finished
    BY <1>1, <2>2 DEF DoneInv
  <2> DEFINE s == send_task_list["client"]
             m == s[1]
  <2>4. s \in Seq(Msg) /\ s \in Seq(Valid("client")) /\ posted["client"] \in Nat
    BY <1>0, <1>1 DEF TypeInv, TypeOK, TransTypeOK, ThreadTypeOK, ValidInv
  <2>5. 1 \in 1..Len(s) /\ m \in Valid("client")
    BY <2>1, <2>4
  <2>6. m.type \notin {"MR", "DONE"}
    BY <1>1, <2>5 DEF DoneInv, NoType
  <2>7. m.id \in IdsOf("client") /\ m.id \in Nat \ {0}
    BY <1>0, <2>5, <2>6, ValidFacts
  <2>8. m.id \in Ids(s)
    BY <2>5, <2>7 DEF Ids
  <2>9. m.id \in Waiting("client")
    <3>1. posted["client"] = 0
      BY <1>0, <1>1, <2>1 DEF PostedInv
    <3> QED
      BY <1>0, <2>4, <2>8, <3>1, WaitingFacts
  <2>10. m.id \notin Gone("client")
    BY <1>0, <1>1, <2>9 DEF FlowInv, FlowOf, Ordered
  <2> QED
    BY <1>1, <2>3, <2>7, <2>10, FinishedAll
<1> QED
  BY <1>0, <1>1, <1>2, <1>3, MisuseEffects DEF ClientResourcesLive

\* hmr_rdma_send never copies into the pool that on_cm_disconnected released, and
\* the send timer never posts on the QP that it destroyed, on the client: the
\* disconnection comes after all that main had to send, until a refused post takes
\* part of a list.
THEOREM ClientResourcesLiveHolds == Spec => []ClientResourcesLive
<1>1. Init => ClientResourcesLive
  BY DEF Init, ClientResourcesLive, End
<1> QED
  BY <1>1, DeliveryCorrect, ResourcesStep, PTL DEF Spec

-----------------------------------------------------------------------------
(* OneCopy. *)

\* A set of positions of which no two differ.
LEMMA AtMostOne ==
  ASSUME NEW S, \A j, k \in S : j = k
  PROVE  Cardinality(S) \in {0, 1} /\ (S = {} => Cardinality(S) = 0)
<1>1. CASE S = {}
  BY <1>1, FS_EmptySet
<1>2. CASE S # {}
  <2>1. PICK x : x \in S
    BY <1>2
  <2>2. S = {x}
    BY <2>1
  <2> QED
    BY <1>2, <2>2, FS_Singleton
<1> QED
  BY <1>1, <1>2

\* A message occurs once in a sequence that is in order, if it is in it at all.
LEMMA OneInRising ==
  ASSUME NEW s \in Seq(Msg), Rising(s), NEW i \in Nat \ {0}
  PROVE  /\ \A j, k \in 1..Len(s) : s[j].id = i /\ s[k].id = i => j = k
         /\ LET In == {k \in 1..Len(s) : s[k].id = i}
            IN  Cardinality(In) \in {0, 1} /\ (i \notin Ids(s) => Cardinality(In) = 0)
<1> DEFINE In == {k \in 1..Len(s) : s[k].id = i}
<1>1. ASSUME NEW j \in 1..Len(s), NEW k \in 1..Len(s), s[j].id = i, s[k].id = i
      PROVE  j = k
  <2>1. ~(j < k) /\ ~(k < j)
    BY <1>1 DEF Rising
  <2>2. j \in Nat /\ k \in Nat
    OBVIOUS
  <2> QED
    BY <2>1, <2>2
<1>2. \A j, k \in In : j = k
  BY <1>1
<1>3. i \notin Ids(s) => In = {}
  BY DEF Ids
<1> HIDE DEF In
<1>4. Cardinality(In) \in {0, 1} /\ (i \notin Ids(s) => Cardinality(In) = 0)
  BY <1>2, <1>3, AtMostOne
<1> QED
  BY <1>1, <1>4 DEF In

\* A message is at one place of the list, the wire and the peer, so its task is
\* posted once and hmr_wc_success_handler frees it once, until a refused post takes
\* part of a list.
THEOREM OneCopyHolds == Spec => []OneCopy
<1>1. DeliveryInv => OneCopy
  <2> SUFFICES ASSUME DeliveryInv, NoneTwice, NEW e \in End, NEW i \in IdsOf(e)
               PROVE  Copies(e, i) <= 1
    BY DEF OneCopy
  <2> DEFINE In(s) == {k \in 1..Len(s) : s[k].id = i}
             Listed == {k \in In(send_task_list[e]) : k > posted[e]}
             l == Cardinality(Listed)
             w == Cardinality(In(wire[e]))
             r == Cardinality(In(recvs[Peer(e)]))
             a == IF i \in arrived[e] THEN 1 ELSE 0
  <2>1. TypeInv /\ FlowOf(e)
    BY DEF DeliveryInv, FlowInv
  <2>2. /\ send_task_list[e] \in Seq(Msg) /\ wire[e] \in Seq(Msg)
        /\ recvs[Peer(e)] \in Seq(Msg) /\ posted[e] \in Nat
    BY <2>1, PeerIsEnd DEF TypeInv, TypeOK, TransTypeOK, ThreadTypeOK, QpTypeOK
  <2>3. i \in Nat \ {0}
    <3>1. Len(Script(e)) \in Nat
      BY ScriptAssumption DEF Script
    <3> QED
      BY <3>1 DEF IdsOf
  <2>4. w \in {0, 1} /\ (i \notin Ids(wire[e]) => w = 0)
    BY <2>1, <2>2, <2>3, OneInRising DEF FlowOf
  <2>5. r \in {0, 1} /\ (i \notin Ids(recvs[Peer(e)]) => r = 0)
    BY <2>1, <2>2, <2>3, OneInRising DEF FlowOf
  <2>6. l \in {0, 1} /\ (i \notin Waiting(e) => l = 0)
    <3>1. \A j, k \in Listed : j = k
      <4>1. Rising(send_task_list[e])
        BY <2>1 DEF FlowOf
      <4>2. \A j, k \in 1..Len(send_task_list[e]) :
              send_task_list[e][j].id = i /\ send_task_list[e][k].id = i => j = k
        BY <2>2, <2>3, <4>1, OneInRising
      <4> QED
        BY <4>2
    <3>2. i \notin Waiting(e) => Listed = {}
      <4>1. \A k \in Listed : k \in posted[e] + 1 .. Len(send_task_list[e])
        BY <2>2
      <4> QED
        BY <2>3, <4>1 DEF Waiting
    <3> HIDE DEF Listed
    <3> QED
      BY <3>1, <3>2, AtMostOne
  <2>7. /\ i \in Ids(wire[e]) => i \notin Waiting(e) /\ i \notin Ids(recvs[Peer(e)])
        /\ i \in Waiting(e) => i \notin Ids(recvs[Peer(e)])
        /\ i \in arrived[e] => /\ i \notin Ids(wire[e]) /\ i \notin Waiting(e)
                               /\ i \notin Ids(recvs[Peer(e)])
    <3>1. Ordered(Ids(recvs[Peer(e)]), Ids(wire[e]), Waiting(e), Ids(send_task_list[e]),
                  Gone(e), pos[e])
      BY <2>1 DEF FlowOf
    <3>2. ~(i < i)
      BY <2>3
    <3> QED
      BY <3>1, <3>2 DEF Ordered, Less, Gone
  <2>8. Copies(e, i) = l + w + (r + a)
    BY DEF Copies
  <2>9. a \in {0, 1} /\ (a = 1 <=> i \in arrived[e])
    OBVIOUS
  <2> HIDE DEF l, w, r, a
  <2> QED
    BY <2>4, <2>5, <2>6, <2>7, <2>8, <2>9
<1> QED
  BY <1>1, DeliveryCorrect, PTL

-----------------------------------------------------------------------------
(* The refinement of HmrChannel. *)

\* The client's program has closed the connection.
Closed == qp["client"] = "destroyed" /\ trans_state["client"] # "ERROR"

\* No write waits to be polled by the peer's epoll thread, and a destroyed QP has
\* nothing to poll, so that no completion comes to set it to error.
PolledInv ==
  \A e \in End : /\ NoWrite(recvs[e])
                 /\ qp[e] = "destroyed" => sent[e] = << >> /\ recvs[e] = << >>

\* What HmrConnection keeps of HmrChannel's view of it.
RefinementInv == DeliveryInv /\ PolledInv

\* Nothing has been received at the start.
LEMMA PolledInit == Init => PolledInv
BY DEF Init, PolledInv, NoWrite

\* A QP is destroyed once, and its completions with it.
LEMMA Destroyed ==
  ASSUME TypeInv, EventsInv, PolledInv, [Next]_vars, cm \in Answered, NEW e \in End
  PROVE  /\ qp[e] = "destroyed" => qp'[e] = "destroyed"
         /\ qp'[e] = "destroyed" => qp[e] = "destroyed" \/ Disconnected(e)
<1>1. qp'[e] = "destroyed" => qp[e] = "destroyed" \/ Disconnected(e)
  BY QpEffects
<1>2. ASSUME qp[e] = "destroyed" PROVE qp'[e] = "destroyed"
  <2>0. sent[e] = << >> /\ recvs[e] = << >>
    BY <1>2 DEF PolledInv
  <2>1. AnsweredNext
    BY AnsweredSteps
  <2>2. \/ UNCHANGED qp
        \/ \E f \in End : \/ f # e /\ QpStops(f, "error")
                          \/ QpStops(f, "destroyed")
    <3>1. ASSUME NEW f \in End, CqHandler(f) \/ TimerHandler(f) \/ LoopExit(f)
          PROVE  UNCHANGED qp \/ (f # e /\ QpStops(f, "error"))
      BY <2>0, <3>1
         DEF CqHandler, SentMr, SentOther, TakeSent, RecvNormal, RecvFinish, RecvDone, TakeRecv,
             RecvMr, TimerHandler, TimerPost, TimerRefused, Posts, TimerUnlink, StaleExpires, LoopExit, Disconnect,
             transVars
    <3>2. ASSUME NEW f \in End, Main(f) \/ Network(f) \/ RnrExhausted(f)
          PROVE  UNCHANGED qp \/ (f # e /\ QpStops(f, "error"))
      BY <1>2, <3>2
         DEF Main, MainCheck, MainEnqueue, MainSent, MainJoin, Network, DeliverSend,
             DeliverWrite, CmHangup, RnrExhausted, Linked, transVars
    <3>3. CASE UNCHANGED vars \/ Prepare \/ CmProgress \/ SetConnecting \/ Established("server")
      BY <3>3 DEF vars, transVars, Prepare, CmProgress, SetConnecting, Established
    <3>4. ASSUME NEW f \in End, Disconnected(f) PROVE QpStops(f, "destroyed")
      BY <3>4 DEF Disconnected
    <3> QED
      BY <2>1, <3>1, <3>2, <3>3, <3>4 DEF AnsweredNext
  <2>3. ASSUME NEW f \in End, NEW state, QpStops(f, state)
        PROVE  qp'[e] = qp[e] \/ (f = e /\ qp'[e] = state)
    BY <2>3, Stopped
  <2> QED
    BY <1>2, <2>2, <2>3
<1> QED
  BY <1>1, <1>2

\* Every step keeps PolledInv.
LEMMA PolledStep ==
  ASSUME TypeInv, EventsInv, QuietInv', PostedInv, PolledInv, [Next]_vars
  PROVE  PolledInv'
<1>1. ASSUME NEW e \in End PROVE NoWrite(recvs'[e])
  <2>1. recvs[e] \in Seq(Msg) /\ NoWrite(recvs[e])
    BY <1>1 DEF TypeInv, TypeOK, QpTypeOK, PolledInv
  <2>2. CASE recvs'[e] = recvs[e] \/ recvs'[e] = << >>
    BY <2>1, <2>2 DEF NoWrite
  <2>3. CASE recvs[e] # << >> /\ recvs'[e] = Tail(recvs[e])
    BY <2>1, <2>3, NoWriteSequences
  <2>4. CASE /\ DeliverSend(Peer(e)) /\ wire[Peer(e)] # << >>
             /\ recvs'[e] = Append(recvs[e], Head(wire[Peer(e)]))
    <3>1. wire[Peer(e)] \in Seq(Msg)
      BY PeerIsEnd DEF TypeInv, TypeOK, QpTypeOK
    <3>2. Head(wire[Peer(e)]) \in Msg
      BY <2>4, <3>1
    <3>3. Head(wire[Peer(e)]).type # "WRITE"
      BY <2>4 DEF DeliverSend, IsWrite, Opcode
    <3> QED
      BY <2>1, <2>4, <3>2, <3>3, NoWriteSequences
  <2> QED
    BY <2>2, <2>3, <2>4, RecvsEffects
<1>2. ASSUME NEW e \in End, qp'[e] = "destroyed" PROVE sent'[e] = << >> /\ recvs'[e] = << >>
  <2>1. CASE cm' \notin Answered
    BY <2>1 DEF QuietInv, Quiet
  <2>2. CASE cm' \in Answered /\ cm \notin Answered
    <3>1. Established("client") /\ cm = "responded"
      BY <2>2, AnsweredSteps
    <3>2. UNCHANGED <<qp, sent, recvs>>
      BY <3>1 DEF Established
    <3> QED
      BY <1>2, <3>2 DEF PolledInv
  <2>3. CASE cm \in Answered /\ Disconnected(e)
    BY <2>3 DEF Disconnected, TypeInv, TypeOK, QpTypeOK
  <2>4. CASE cm \in Answered /\ ~Disconnected(e)
    <3>1. qp[e] = "destroyed"
      BY <1>2, <2>4, Destroyed
    <3>2. sent[e] = << >> /\ recvs[e] = << >>
      BY <3>1 DEF PolledInv
    <3>3. ~DeliverSend(e) /\ ~DeliverWrite(e) /\ ~DeliverSend(Peer(e))
      BY <3>1, PeerIsEnd DEF DeliverSend, DeliverWrite, Linked
    <3>4. recvs'[e] = << >>
      BY <3>2, <3>3, RecvsEffects
    <3>5. sent'[e] = << >>
      <4>1. wire[e] = << >>
        BY <3>1 DEF PostedInv
      <4> QED
        BY <3>2, <4>1, SentEffects
    <3> QED
      BY <3>4, <3>5
  <2> QED
    BY <2>1, <2>2, <2>3, <2>4
<1> QED
  BY <1>1, <1>2 DEF PolledInv

\* A step that is about another end leaves this end's messages.
LEMMA QueueSame ==
  ASSUME NEW e \in End, recvs'[Peer(e)] = recvs[Peer(e)], wire'[e] = wire[e],
         send_task_list'[e] = send_task_list[e], posted'[e] = posted[e]
  PROVE  ChannelQueue(e)' = ChannelQueue(e)
BY DEF ChannelQueue, Ids, Waiting

\* A message of the epoll thread that joins the list is not in the channel.
LEMMA QueueDone ==
  ASSUME TypeInv, PostedInv, NEW e \in End,
         posted'[e] = posted[e], send_task_list'[e] = Append(send_task_list[e], Done)
  PROVE  Waiting(e)' = Waiting(e)
<1>1. Done \in Msg /\ Done.id = 0
  BY MessageTypes DEF Done
<1>2. Waiting(e)' = Waiting(e) \cup ({Done.id} \ {0})
  BY <1>1, FlowTypes, WaitingAppend DEF PostedInv
<1> QED
  BY <1>1, <1>2

\* No step but main's adds a message to the channel.
LEMMA QueueShrinks ==
  ASSUME TypeInv, PostedInv, [Next]_vars, NoneTwice', NEW e \in End, ~MainEnqueue(e)
  PROVE  ChannelQueue(e)' \subseteq ChannelQueue(e)
<1>0. /\ Peer(e) \in End /\ Peer(Peer(e)) = e
      /\ send_task_list[e] \in Seq(Msg) /\ wire[e] \in Seq(Msg)
      /\ recvs[Peer(e)] \in Seq(Msg) /\ posted[e] \in Nat
  BY FlowTypes
<1>1. TimerPost(e) => /\ posted[e] = 0 /\ posted'[e] = Len(send_task_list[e])
                      /\ send_task_list'[e] = send_task_list[e]
  BY DEF TimerPost, Posts, PostedInv, TypeInv, TypeOK, ThreadTypeOK
<1>2. Waiting(e)' \subseteq Waiting(e)
  <2>1. CASE TimerPost(e)
    <3>1. posted'[e] + 1 .. Len(send_task_list'[e]) = {}
      BY <1>0, <1>1, <2>1
    <3> QED
      BY <3>1 DEF Waiting
  <2>2. CASE TimerUnlink(e) /\ send_task_list'[e] = << >>
    <3>1. posted'[e] = 0
      BY <2>2 DEF TimerUnlink, TypeInv, TypeOK, ThreadTypeOK
    <3>2. posted'[e] + 1 .. Len(send_task_list'[e]) = {}
      BY <2>2, <3>1
    <3> QED
      BY <3>2 DEF Waiting
  <2>3. CASE posted'[e] = posted[e] /\ send_task_list'[e] = send_task_list[e]
    BY <2>3 DEF Waiting
  <2>4. CASE posted'[e] = posted[e] /\ send_task_list'[e] = Append(send_task_list[e], Done)
    BY <2>4, QueueDone
  <2>5. TimerUnlink(e) => send_task_list'[e] = << >>
    BY DEF TimerUnlink, ListAfterUnlink, TypeInv, TypeOK, TransTypeOK
  <2> QED
    BY <2>1, <2>2, <2>3, <2>4, <2>5, ListEffects, PlacesEffects
<1>3. Ids(wire'[e]) \subseteq Ids(wire[e]) \cup Waiting(e)
  <2>1. CASE wire'[e] \in {wire[e], << >>}
    BY <2>1, IdsEmpty
  <2>2. CASE wire'[e] = Append(wire[e], Mr)
    <3>1. Mr \in Msg /\ Mr.id = 0
      BY MessageTypes DEF Mr
    <3>2. Ids(Append(wire[e], Mr)) = Ids(wire[e]) \cup ({Mr.id} \ {0})
      BY <1>0, <3>1, IdsAppend
    <3> QED
      BY <2>2, <3>1, <3>2
  <2>3. CASE TimerPost(e) /\ wire'[e] = wire[e] \o send_task_list[e]
    <3>1. Ids(wire[e] \o send_task_list[e]) = Ids(wire[e]) \cup Ids(send_task_list[e])
      BY <1>0, IdsConcat
    <3>2. Waiting(e) = Ids(send_task_list[e])
      BY <1>0, <1>1, <2>3, WaitingFacts
    <3> QED
      BY <2>3, <3>1, <3>2
  <2>4. CASE wire[e] # << >> /\ wire'[e] = Tail(wire[e])
    BY <1>0, <2>4, IdsTail
  <2>5. e \notin twice'
    BY DEF NoneTwice
  <2> QED
    BY <2>1, <2>2, <2>3, <2>4, <2>5, WireEffects
<1>4. Ids(recvs'[Peer(e)]) \subseteq Ids(recvs[Peer(e)]) \cup Ids(wire[e])
  <2>1. CASE recvs'[Peer(e)] \in {recvs[Peer(e)], << >>}
    BY <2>1, IdsEmpty
  <2>2. CASE recvs[Peer(e)] # << >> /\ recvs'[Peer(e)] = Tail(recvs[Peer(e)])
    BY <1>0, <2>2, IdsTail
  <2>3. CASE wire[e] # << >> /\ recvs'[Peer(e)] = Append(recvs[Peer(e)], Head(wire[e]))
    <3>1. Head(wire[e]) \in Msg
      BY <1>0, <2>3
    <3>2. Ids(recvs'[Peer(e)]) = Ids(recvs[Peer(e)]) \cup ({Head(wire[e]).id} \ {0})
      BY <1>0, <2>3, <3>1, IdsAppend
    <3>3. {Head(wire[e]).id} \ {0} \subseteq Ids(wire[e])
      BY <1>0, <2>3, IdsTail
    <3> QED
      BY <3>2, <3>3
  <2> QED
    BY <1>0, <2>1, <2>2, <2>3, RecvsEffects
<1> QED
  BY <1>2, <1>3, <1>4 DEF ChannelQueue

\* Main adds its next message to the channel, and to its end's messages alone, or
\* loses it.
LEMMA QueueEnqueue ==
  ASSUME TypeInv, PostedInv, NEW e \in End, MainEnqueue(e)
  PROVE  /\ pos[e] <= Len(Script(e)) /\ UNCHANGED arrived
         /\ pos' = [pos EXCEPT ![e] = @ + 1]
         /\ \/ \A f \in End : ChannelQueue(f)' = ChannelQueue(f)
            \/ \A f \in End : ChannelQueue(f)' =
                 IF f = e THEN ChannelQueue(e) \cup {pos[e]} ELSE ChannelQueue(f)
<1> DEFINE m == [type |-> Script(e)[pos[e]], id |-> pos[e]]
<1>1. /\ m \in Msg /\ m.id = pos[e] /\ m.id # 0
  BY Enqueued, FlowTypes
<1>2. /\ UNCHANGED <<recvs, wire, arrived, posted>> /\ pos' = [pos EXCEPT ![e] = @ + 1]
      /\ send_task_list'[e] \in {send_task_list[e], Append(send_task_list[e], m)}
      /\ \A f \in End \ {e} : send_task_list'[f] = send_task_list[f]
  BY DEF MainEnqueue, Insert, ListAddTail, qpVars, TypeInv, TypeOK, TransTypeOK
<1>3. pos[e] <= Len(Script(e))
  <2>1. Len(Script(e)) \in Nat
    BY ScriptAssumption DEF Script
  <2>2. pos[e] \in 1 .. Len(Script(e))
    BY DEF MainEnqueue, TypeInv, PosOK, IdsOf
  <2> QED
    BY <2>1, <2>2
<1>4. CASE send_task_list'[e] = send_task_list[e]
  BY <1>2, <1>3, <1>4, QueueSame
<1>5. ASSUME send_task_list'[e] = Append(send_task_list[e], m)
      PROVE  ChannelQueue(e)' = ChannelQueue(e) \cup {pos[e]}
  <2>1. Waiting(e)' = Waiting(e) \cup {pos[e]}
    BY <1>1, <1>2, <1>5, FlowTypes, WaitingAppend DEF PostedInv
  <2> QED
    BY <1>2, <2>1 DEF ChannelQueue
<1>6. \A f \in End \ {e} : ChannelQueue(f)' = ChannelQueue(f)
  BY <1>2, QueueSame
<1> QED
  BY <1>2, <1>3, <1>4, <1>5, <1>6

\* A write takes its message from behind the sends that the peer has not handled.
LEMMA QueueWrite ==
  ASSUME TypeInv, ValidInv, PolledInv, NEW e \in End, FlowOf(e), DeliverWrite(e)
  PROVE  \E i \in ChannelQueue(e) :
           /\ \A j \in ChannelQueue(e) :
                j < i => Script(e)[i] = "WRITE" /\ Script(e)[j] # "WRITE"
           /\ arrived' = [arrived EXCEPT ![e] = @ \cup {i}] /\ UNCHANGED pos
           /\ \A f \in End : ChannelQueue(f)' =
                IF f = e THEN ChannelQueue(e) \ {i} ELSE ChannelQueue(f)
<1> DEFINE R == Ids(recvs[Peer(e)])
           W == Ids(wire[e])
           U == Waiting(e)
           i == Head(wire[e]).id
           V == Ids(Tail(wire[e]))
<1>0. /\ R \in SUBSET Nat /\ W \in SUBSET Nat /\ U \in SUBSET Nat
      /\ send_task_list[e] \in Seq(Msg) /\ wire[e] \in Seq(Msg)
      /\ recvs[Peer(e)] \in Seq(Msg) /\ Peer(e) \in End /\ Peer(Peer(e)) = e
  BY FlowTypes
<1>1. /\ UNCHANGED <<send_task_list, recvs, posted, pos>>
      /\ wire[e] # << >> /\ wire' = [wire EXCEPT ![e] = Tail(@)]
      /\ arrived' = [arrived EXCEPT ![e] = @ \cup {i}]
  BY DEF DeliverWrite, Linked, transVars, threadVars
<1>2. wire'[e] = Tail(wire[e]) /\ \A f \in End \ {e} : wire'[f] = wire[f]
  BY <1>1 DEF TypeInv, TypeOK, QpTypeOK
<1>3. i \in Nat \ {0} /\ Script(e)[i] = "WRITE"
  <2>1. Head(wire[e]) \in Valid(e)
    BY <1>1 DEF ValidInv
  <2>2. Head(wire[e]).type \in MsgType
    BY <2>1, ValidFacts DEF Msg
  <2>3. Head(wire[e]).type = "WRITE"
    BY <2>2 DEF DeliverWrite, IsWrite, Opcode, MsgType, AppType
  <2> QED
    BY <2>1, <2>3, ValidFacts
<1>4. W = V \cup {i} /\ \A k \in V : i < k
  <2>1. Rising(wire[e])
    BY DEF FlowOf
  <2> QED
    BY <1>0, <1>1, <1>3, <2>1, IdsTail
<1>5. Less(R, W) /\ Less(R, U) /\ Less(W, U)
  BY DEF FlowOf, Ordered
<1>6. i \in W /\ i \notin V /\ i \notin R /\ i \notin U
  <2>1. ~(i < i)
    BY <1>3
  <2> QED
    BY <1>4, <1>5, <2>1 DEF Less
<1>7. ASSUME NEW j \in ChannelQueue(e), j < i PROVE Script(e)[j] # "WRITE"
  <2>1. j \in R
    <3>1. j \notin V /\ j \notin U /\ j # i
      BY <1>0, <1>3, <1>4, <1>5, <1>6, <1>7 DEF Less
    <3> QED
      BY <1>4, <3>1 DEF ChannelQueue
  <2>2. PICK k \in 1..Len(recvs[Peer(e)]) : recvs[Peer(e)][k].id = j /\ j # 0
    BY <2>1 DEF Ids
  <2>3. recvs[Peer(e)][k] \in Valid(e)
    BY DEF ValidInv
  <2>4. recvs[Peer(e)][k].type # "WRITE"
    BY <1>0 DEF PolledInv, NoWrite
  <2> QED
    BY <2>2, <2>3, <2>4, ValidFacts
<1>8. ChannelQueue(e)' = ChannelQueue(e) \ {i}
  <2>1. ChannelQueue(e)' = R \cup V \cup U
    BY <1>1, <1>2 DEF ChannelQueue, Waiting
  <2> HIDE DEF i, V
  <2> QED
    BY <1>4, <1>6, <2>1 DEF ChannelQueue
<1>9. \A f \in End \ {e} : ChannelQueue(f)' = ChannelQueue(f)
  BY <1>1, <1>2, QueueSame
<1> HIDE DEF i
<1>10. i \in ChannelQueue(e)
  BY <1>6 DEF ChannelQueue
<1> QED
  BY <1>1, <1>3, <1>7, <1>8, <1>9, <1>10

\* A message is handled when no other is before it in the channel.
LEMMA QueuePoll ==
  ASSUME TypeInv, ValidInv, PostedInv, NEW e \in End, FlowOf(e),
         RecvNormal(Peer(e)) \/ RecvFinish(Peer(e))
  PROVE  \E i \in ChannelQueue(e) :
           /\ \A j \in ChannelQueue(e) : ~(j < i)
           /\ arrived' = [arrived EXCEPT ![e] = @ \cup {i}] /\ UNCHANGED pos
           /\ \A f \in End : ChannelQueue(f)' =
                IF f = e THEN ChannelQueue(e) \ {i} ELSE ChannelQueue(f)
<1> DEFINE R == Ids(recvs[Peer(e)])
           W == Ids(wire[e])
           U == Waiting(e)
           i == Head(recvs[Peer(e)]).id
           Q == Ids(Tail(recvs[Peer(e)]))
<1>0. /\ R \in SUBSET Nat /\ W \in SUBSET Nat /\ U \in SUBSET Nat
      /\ send_task_list[e] \in Seq(Msg) /\ wire[e] \in Seq(Msg)
      /\ recvs[Peer(e)] \in Seq(Msg) /\ Peer(e) \in End /\ Peer(Peer(e)) = e /\ Peer(e) # e
  BY FlowTypes, PeerIsEnd
<1>1. /\ UNCHANGED <<wire, posted, pos>>
      /\ recvs[Peer(e)] # << >> /\ recvs' = [recvs EXCEPT ![Peer(e)] = Tail(@)]
      /\ arrived' = [arrived EXCEPT ![e] = @ \cup {i}]
      /\ Head(recvs[Peer(e)]).type \in {"NORMAL", "FINISH"}
      /\ \/ UNCHANGED send_task_list
         \/ send_task_list' = [send_task_list EXCEPT ![Peer(e)] = Append(@, Done)]
  <2>1. CASE RecvNormal(Peer(e))
    BY <1>0, <2>1 DEF RecvNormal, TakeRecv, Arrives, transVars, threadVars
  <2>2. CASE RecvFinish(Peer(e))
    <3>1. UNCHANGED <<wire, posted, pos>>
      BY <2>2 DEF RecvFinish
    <3>2. /\ recvs[Peer(e)] # << >> /\ recvs' = [recvs EXCEPT ![Peer(e)] = Tail(@)]
          /\ arrived' = [arrived EXCEPT ![e] = @ \cup {i}]
          /\ Head(recvs[Peer(e)]).type = "FINISH"
      BY <1>0, <2>2 DEF RecvFinish, TakeRecv, Arrives
    <3>3. \/ UNCHANGED send_task_list
          \/ send_task_list' = [send_task_list EXCEPT ![Peer(e)] = Append(@, Done)]
      BY <2>2 DEF RecvFinish, Insert, ListAddTail
    <3> QED
      BY <3>1, <3>2, <3>3
  <2> QED
    BY <2>1, <2>2
<1>2. /\ recvs'[Peer(e)] = Tail(recvs[Peer(e)]) /\ recvs'[e] = recvs[e]
      /\ send_task_list'[e] = send_task_list[e]
      /\ \/ send_task_list'[Peer(e)] = send_task_list[Peer(e)]
         \/ send_task_list'[Peer(e)] = Append(send_task_list[Peer(e)], Done)
  BY <1>0, <1>1 DEF TypeInv, TypeOK, QpTypeOK, TransTypeOK
<1>3. i \in Nat \ {0}
  <2>1. Head(recvs[Peer(e)]) \in Valid(e)
    BY <1>1 DEF ValidInv
  <2> QED
    BY <1>1, <2>1, ValidFacts
<1>4. R = Q \cup {i} /\ \A k \in Q : i < k
  <2>1. Rising(recvs[Peer(e)])
    BY DEF FlowOf
  <2> QED
    BY <1>0, <1>1, <1>3, <2>1, IdsTail
<1>5. Less(R, W) /\ Less(R, U)
  BY DEF FlowOf, Ordered
<1>6. i \in R /\ i \notin Q /\ i \notin W /\ i \notin U
  <2>1. ~(i < i)
    BY <1>3
  <2> QED
    BY <1>4, <1>5, <2>1 DEF Less
<1>7. \A j \in ChannelQueue(e) : ~(j < i)
  <2>1. \A j \in ChannelQueue(e) : j \in Nat /\ (j = i \/ i < j)
    BY <1>0, <1>3, <1>4, <1>5, <1>6 DEF ChannelQueue, Less
  <2> QED
    BY <1>3, <2>1
<1>8. ChannelQueue(e)' = ChannelQueue(e) \ {i}
  <2>1. ChannelQueue(e)' = Q \cup W \cup U
    BY <1>1, <1>2 DEF ChannelQueue, Waiting
  <2> HIDE DEF i, Q
  <2> QED
    BY <1>4, <1>6, <2>1 DEF ChannelQueue
<1>9. ASSUME NEW f \in End, f # e PROVE ChannelQueue(f)' = ChannelQueue(f)
  <2>1. f = Peer(e)
    BY <1>9 DEF End, Peer
  <2>2. recvs'[Peer(f)] = recvs[Peer(f)] /\ wire'[f] = wire[f] /\ posted'[f] = posted[f]
    BY <1>0, <1>1, <1>2, <2>1
  <2>3. CASE send_task_list'[f] = send_task_list[f]
    BY <2>2, <2>3, QueueSame
  <2>4. CASE send_task_list'[f] = Append(send_task_list[f], Done)
    <3>1. Waiting(f)' = Waiting(f)
      BY <2>2, <2>4, QueueDone
    <3> QED
      BY <2>2, <3>1 DEF ChannelQueue
  <2> QED
    BY <1>2, <2>1, <2>3, <2>4
<1> HIDE DEF i
<1>10. i \in ChannelQueue(e)
  BY <1>6 DEF ChannelQueue
<1> QED
  BY <1>1, <1>7, <1>8, <1>9, <1>10

\* The client's program has closed when its QP is gone after the handshake.
LEMMA ClosedIs ==
  ASSUME FailInv
  PROVE  Closed <=> qp["client"] = "destroyed" /\ cm \in Answered
BY DEF Closed, FailInv, End

\* It closes by on_cm_disconnected, after the server has handled FINISH, and
\* stays closed.
LEMMA ClosedStep ==
  ASSUME TypeInv, EventsInv, FailInv, FailInv', DoneInv', PolledInv, [Next]_vars
  PROVE  \/ Closed' = Closed
         \/ Disconnected("client") /\ Closed' /\ Finished
<1>0. "client" \in End
  BY DEF End
<1>1. Closed <=> qp["client"] = "destroyed" /\ cm \in Answered
  BY ClosedIs
<1>2. Closed' <=> qp'["client"] = "destroyed" /\ cm' \in Answered
  BY DEF Closed, FailInv, End
<1>3. CASE cm \notin Answered
  <2>1. ~Closed
    BY <1>1, <1>3
  <2>2. ~Closed'
    <3> SUFFICES ASSUME cm' \in Answered PROVE qp'["client"] # "destroyed"
      BY <1>2
    <3>1. Established("client") /\ cm = "responded"
      BY <1>3, AnsweredSteps
    <3>2. UNCHANGED qp
      BY <3>1 DEF Established
    <3> QED
      BY <1>0, <3>1, <3>2 DEF FailInv, Answered
  <2> QED
    BY <2>1, <2>2 DEF Closed
<1>4. CASE cm \in Answered
  <2>1. cm' \in Answered
    BY <1>4, AnsweredSteps
  <2>2. Closed => Closed'
    BY <1>0, <1>1, <1>2, <1>4, <2>1, Destroyed
  <2>3. ASSUME Closed', ~Closed PROVE Disconnected("client") /\ Finished
    <3>1. Disconnected("client")
      BY <1>0, <1>1, <1>2, <1>4, <2>3, Destroyed
    <3>2. Finished'
      BY <1>2, <2>3 DEF DoneInv
    <3>3. UNCHANGED arrived
      BY <3>1 DEF Disconnected
    <3> QED
      BY <3>1, <3>2, <3>3 DEF Finished
  <2> QED
    BY <2>2, <2>3 DEF Closed
<1> QED
  BY <1>3, <1>4

\* Where the channel begins.
LEMMA ChannelInit == Init => Channel!Init
<1> SUFFICES ASSUME Init PROVE Channel!Init
  OBVIOUS
<1>1. ASSUME NEW e \in End PROVE ChannelQueue(e) = {}
  <2>1. Peer(e) \in End
    BY PeerIsEnd
  <2>2. /\ recvs[Peer(e)] = << >> /\ wire[e] = << >> /\ send_task_list[e] = << >>
        /\ posted[e] = 0
    BY <2>1 DEF Init
  <2>3. Waiting(e) = {}
    BY <2>2 DEF Waiting
  <2> QED
    BY <2>2, <2>3, IdsEmpty DEF ChannelQueue
<1>2. [e \in End |-> ChannelQueue(e)] = [e \in End |-> {}]
  BY <1>1
<1>3. ~(qp["client"] = "destroyed" /\ trans_state["client"] # "ERROR")
  BY DEF Init, End
<1>4. (~NoneTwice) = FALSE
  BY DEF Init, NoneTwice
<1> QED
  BY <1>2, <1>3, <1>4 DEF Init, Channel!Init

\* Every step is one of the channel, or leaves what the programs see of it.
LEMMA ChannelWorks ==
  RefinementInv /\ RefinementInv' /\ [Next]_vars /\ NoneTwice' => Channel!Works
<1> SUFFICES ASSUME RefinementInv, RefinementInv', [Next]_vars, NoneTwice' PROVE Channel!Works
  OBVIOUS
<1> DEFINE queue == [e \in End |-> ChannelQueue(e)]
<1>1. /\ TypeInv /\ EventsInv /\ QuietInv /\ ValidInv /\ PostedInv /\ FailInv /\ PolledInv
      /\ FailInv' /\ DoneInv' /\ \A e \in End : FlowOf(e)
  BY TwiceStays DEF RefinementInv, DeliveryInv, ExchangeInv, FlowInv
<1>2. \/ Closed' = Closed
      \/ Disconnected("client") /\ Closed' /\ Finished
  BY <1>1, ClosedStep
<1>3. ASSUME NEW e \in End, MainEnqueue(e) PROVE Channel!Send(e)
  <2>1. /\ pos[e] <= Len(Script(e)) /\ UNCHANGED arrived
        /\ pos' = [pos EXCEPT ![e] = @ + 1]
        /\ \/ \A f \in End : ChannelQueue(f)' = ChannelQueue(f)
           \/ \A f \in End : ChannelQueue(f)' =
                IF f = e THEN ChannelQueue(e) \cup {pos[e]} ELSE ChannelQueue(f)
    BY <1>1, <1>3, QueueEnqueue
  <2>2. queue' \in {queue, [queue EXCEPT ![e] = @ \cup {pos[e]}]}
    BY <2>1
  <2>3. Closed' = Closed
    BY <1>3 DEF MainEnqueue, Closed
  <2> QED
    BY <2>1, <2>2, <2>3 DEF Channel!Send, Closed
<1>4. ASSUME NEW e \in End, MainCheck(e), trans_state[e] = "ERROR",
             pos'[e] = pos[e] + 1
      PROVE  Channel!Send(e)
  <2>1. /\ pos' = [pos EXCEPT ![e] = @ + 1] /\ pos[e] \in 1 .. Len(Script(e))
        /\ UNCHANGED <<arrived, recvs, wire, send_task_list, posted, qp, trans_state>>
    BY <1>1, <1>4 DEF MainCheck, IdsOf, transVars, qpVars, history, TypeInv, TypeOK, ThreadTypeOK
  <2>2. pos[e] <= Len(Script(e))
    BY <2>1, ScriptAssumption DEF Script
  <2>3. queue' = queue
    <3>1. \A f \in End : ChannelQueue(f)' = ChannelQueue(f)
      BY <2>1, QueueSame
    <3> QED
      BY <3>1
  <2> QED
    BY <2>1, <2>2, <2>3 DEF Channel!Send
<1>5. ASSUME NEW e \in End,
             DeliverWrite(e) \/ RecvNormal(Peer(e)) \/ RecvFinish(Peer(e))
      PROVE  \E i \in ChannelQueue(e) : Channel!Arrive(e, i)
  <2>1. PICK i \in ChannelQueue(e) :
          /\ \A j \in ChannelQueue(e) :
               j < i => Script(e)[i] = "WRITE" /\ Script(e)[j] # "WRITE"
          /\ arrived' = [arrived EXCEPT ![e] = @ \cup {i}] /\ UNCHANGED pos
          /\ \A f \in End : ChannelQueue(f)' =
               IF f = e THEN ChannelQueue(e) \ {i} ELSE ChannelQueue(f)
    <3>1. CASE DeliverWrite(e)
      BY <1>1, <3>1, QueueWrite
    <3>2. CASE RecvNormal(Peer(e)) \/ RecvFinish(Peer(e))
      BY <1>1, <3>2, QueuePoll
    <3> QED
      BY <1>5, <3>1, <3>2
  <2>2. queue' = [queue EXCEPT ![e] = @ \ {i}]
    BY <2>1
  <2>3. Closed' = Closed
    BY <1>5 DEF DeliverWrite, RecvNormal, RecvFinish, transVars, Closed
  <2>4. queue[e] = ChannelQueue(e)
    OBVIOUS
  <2> QED
    BY <2>1, <2>2, <2>3, <2>4 DEF Channel!Arrive, Channel!Type, Closed
<1>6. ASSUME \A e \in End : /\ pos'[e] = pos[e] /\ arrived'[e] = arrived[e]
                            /\ ~MainEnqueue(e)
      PROVE  Channel!Lose /\ Channel!Close
  <2>1. UNCHANGED <<pos, arrived>>
    BY <1>1, <1>6 DEF RefinementInv, DeliveryInv, TypeInv, TypeOK, ThreadTypeOK, HistoryTypeOK
  <2>2. \A e \in End : ChannelQueue(e)' \subseteq ChannelQueue(e)
    BY <1>1, <1>6, QueueShrinks
  <2>3. /\ queue' \in [End -> SUBSET UNION {queue[e] : e \in End}]
        /\ \A e \in End : queue'[e] \subseteq queue[e]
    BY <2>2
  <2>4. Channel!Lose
    BY <2>1, <2>3 DEF Channel!Lose
  <2>5. Channel!Close
    BY <1>2 DEF Channel!Close, Channel!Type, Closed, Finished, Script, IdsOf
  <2> QED
    BY <2>4, <2>5
<1>7. \/ \E e \in End : \/ MainEnqueue(e)
                        \/ MainCheck(e) /\ trans_state[e] = "ERROR" /\ pos'[e] = pos[e] + 1
                        \/ DeliverWrite(e) \/ RecvNormal(Peer(e)) \/ RecvFinish(Peer(e))
      \/ \A e \in End : /\ pos'[e] = pos[e] /\ arrived'[e] = arrived[e]
                        /\ ~MainEnqueue(e)
  BY <1>1, PlacesEffects
<1>8. \A e \in End : queue[e] = ChannelQueue(e)
  OBVIOUS
<1> QED
  BY <1>3, <1>4, <1>5, <1>6, <1>7, <1>8 DEF Channel!Works

\* Every step is one of the channel, or breaks it.
LEMMA ChannelStep == RefinementInv /\ RefinementInv' /\ [Next]_vars => Channel!Next
<1> SUFFICES ASSUME RefinementInv, RefinementInv', [Next]_vars PROVE Channel!Next
  OBVIOUS
<1>1. CASE NoneTwice'
  <2>1. Channel!Works /\ NoneTwice
    BY <1>1, ChannelWorks, TwiceStays
  <2>2. UNCHANGED (~NoneTwice)
    BY <1>1, <2>1
  <2> QED
    BY <2>1, <2>2 DEF Channel!Next
<1>2. CASE ~NoneTwice'
  <2>1. (~NoneTwice)' = TRUE
    BY <1>2
  <2> QED
    BY <2>1 DEF Channel!Next, Channel!Breaks
<1> QED
  BY <1>1, <1>2

\* The two threads per end and what lies between them give the programs the
\* channel, for all scripts and with all failures: every step of HmrConnection
\* sends, brings or loses messages in order, closes after FINISH, is not seen, or
\* is the refused post of a list of which the QP has taken a part.
THEOREM ImplementsChannelHolds == Spec => ImplementsChannel
<1>1. Init => RefinementInv
  BY DeliveryInit, PolledInit DEF RefinementInv
<1>2. RefinementInv /\ [Next]_vars => RefinementInv'
  <2> SUFFICES ASSUME RefinementInv, [Next]_vars PROVE RefinementInv'
    OBVIOUS
  <2>1. DeliveryInv /\ DeliveryInv'
    BY DeliveryStep DEF RefinementInv
  <2>2. TypeInv /\ EventsInv /\ QuietInv' /\ PostedInv /\ PolledInv
    BY <2>1 DEF RefinementInv, DeliveryInv, ExchangeInv
  <2> QED
    BY <2>1, <2>2, PolledStep DEF RefinementInv
<1>3. RefinementInv /\ RefinementInv' /\ [Next]_vars => [Channel!Next]_(Channel!vars)
  BY ChannelStep
<1> QED
  BY <1>1, <1>2, <1>3, ChannelInit, PTL DEF Spec, ImplementsChannel, Channel!Spec
=============================================================================
