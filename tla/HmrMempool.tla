----------------------------- MODULE HmrMempool -----------------------------
(***************************************************************************)
(* A transport's memory pool: the receive region and the send region, from *)
(* which hmr_send_task_create takes a message's buffer until the           *)
(* completion of its send.  Main allocates for the program, the epoll      *)
(* thread for MR and DONE, on one cursor and with no lock, in steps of one *)
(* access as in HmrServerRecv.  The send region is a client's: a server's  *)
(* main sends when it has posted its receives, and then does as a client.  *)
(***************************************************************************)
EXTENDS HmrServerRecv, SequencesExt

CONSTANTS
  AllocMemSize,  \* ALLOC_MEM_SIZE, scaled
  Lengths        \* per thread: the lengths of the messages it sends, in order

ASSUME LengthsAssumption ==
  /\ AllocMemSize \in Nat
  /\ Lengths \in [Thread -> Seq(1 .. AllocMemSize)]

VARIABLES
  role,              \* whose pool it is
  used_send_region,  \* the cursor, in bytes
  step,              \* where hmr_mempool_alloc_saddr is, per thread
  loaded,            \* the cursor as read by the addition, per thread
  sends,             \* messages each thread has created
  buffers,           \* since the oldest in use, in the order of their addresses
  raced              \* history: both threads were allocating at once

sendVars == <<used_send_region, step, loaded, sends, buffers, raced>>

Longest == Max({0} \cup UNION {ToSet(Lengths[t]) : t \in Thread})
Length(t) == Lengths[t][sends[t]]

PoolTypeOK ==
  /\ HeldTypeOK
  /\ role = "client" => TypeOK
  /\ role \in {"client", "server"}
  /\ used_send_region \in Nat
  /\ step \in [Thread -> {"no", "check", "reset", "addr", "load", "store"}]
  /\ loaded \in [Thread -> Nat]
  /\ sends \in [Thread -> Nat]
  /\ buffers \in Seq([addr : Nat, length : Nat, of : Thread, in_use : BOOLEAN])
  /\ raced \in BOOLEAN

PoolInit ==
  /\ Init /\ HeldInit
  /\ role \in {"client", "server"}
  /\ used_send_region = 0
  /\ step = [t \in Thread |-> "no"]
  /\ loaded = [t \in Thread |-> 0]
  /\ sends = [t \in Thread |-> 0]
  /\ buffers = << >>
  /\ raced = FALSE

BugFitsIfStarts(cursor, length) == cursor <= AllocMemSize

\* Whether what is left of the region holds the message.
Fits(cursor, length) == cursor + length <= AllocMemSize

-----------------------------------------------------------------------------
Goto(t, from, to) == step[t] = from /\ step' = [step EXCEPT ![t] = to]

\* hmr_send_task_create.  The epoll thread is in on_cm_established or in the
\* handler of a receive, and has posted its first receives.  (Bound: nothing
\* is created after two allocations at once, when the cursor may be anywhere.)
Create(t) ==
  /\ Goto(t, "no", "check")
  /\ ~raced
  /\ sends[t] < Len(Lengths[t])
  /\ t = "epoll" => to_post = 0 /\ handling # "SEND"
  /\ sends' = [sends EXCEPT ![t] = @ + 1]
  /\ raced' = (raced \/ \E u \in Thread \ {t} : step[u] # "no")
  /\ UNCHANGED <<used_send_region, loaded, buffers>>

\* "mr memory is full.": the cursor goes back to zero whatever is in use there.
Check(t) ==
  /\ Goto(t, "check", IF Fits(used_send_region, Length(t)) THEN "addr" ELSE "reset")
  /\ UNCHANGED <<used_send_region, loaded, sends, buffers, raced>>

Reset(t) ==
  /\ Goto(t, "reset", "addr")
  /\ used_send_region' = 0
  /\ UNCHANGED <<loaded, sends, buffers, raced>>

Addr(t) ==
  /\ Goto(t, "addr", "load")
  /\ buffers' = Append(buffers,
       [addr |-> used_send_region, length |-> Length(t), of |-> t, in_use |-> TRUE])
  /\ UNCHANGED <<used_send_region, loaded, sends, raced>>

\* used_send_region += length, in two accesses.
Load(t) ==
  /\ Goto(t, "load", "store")
  /\ loaded' = [loaded EXCEPT ![t] = used_send_region]
  /\ UNCHANGED <<used_send_region, sends, buffers, raced>>

Store(t) ==
  /\ Goto(t, "store", "no")
  /\ used_send_region' = loaded[t] + Length(t)
  /\ loaded' = [loaded EXCEPT ![t] = 0]
  /\ UNCHANGED <<sends, buffers, raced>>

\* The message is written and queued when the allocation is over.
Queued(i) ==
  /\ buffers[i].in_use
  /\ \/ step[buffers[i].of] \notin {"load", "store"}
     \/ \E j \in i + 1 .. Len(buffers) : buffers[j].of = buffers[i].of

\* The completion of a send ends the use of its buffer.  MR overtakes the
\* messages in the list, so the oldest is not always the first.
Sent ==
  /\ handling = "SEND"
  /\ \E i \in DOMAIN buffers :
       /\ Queued(i)
       /\ LET done == [buffers EXCEPT ![i].in_use = FALSE]
              oldest == Min({j \in DOMAIN done : done[j].in_use} \cup {Len(done) + 1})
          IN  buffers' = SubSeq(done, oldest, Len(done))
  /\ UNCHANGED <<used_send_region, step, loaded, sends, raced>>

-----------------------------------------------------------------------------
Alloc(t) == Create(t) \/ Check(t) \/ Reset(t) \/ Addr(t) \/ Load(t) \/ Store(t)

\* The epoll thread handles nothing else while it allocates, and a completion
\* of a send is one of a buffer in use.
Handler ==
  /\ step["epoll"] = "no"
  /\ \/ PollRecv \/ (PollSent /\ \E i \in DOMAIN buffers : Queued(i))
     \/ (handling # "SEND" /\ Handled)

ClientNext ==
  \/ (PrePost \/ Fill \/ Handler) /\ UNCHANGED sendVars
  \/ Handled /\ Sent
  \/ \E t \in Thread : Alloc(t) /\ UNCHANGED vars

PoolNext ==
  \/ role = "client" /\ ClientNext /\ UNCHANGED <<role, heldVars>>
  \/ role = "server" /\ ServerRecvNext /\ UNCHANGED <<role, sendVars>>

PoolSpec == PoolInit /\ [][PoolNext]_<<role, vars, heldVars, sendVars>>

-----------------------------------------------------------------------------
(* Properties. *)

\* On a client, where one thread posts all receives, no receive buffer is handed
\* to the device while it is in use, although the cursor wraps without asking.
ClientBuffersExclusive == role = "client" => BuffersExclusive

Overlap(b, c) == b.addr < c.addr + c.length /\ c.addr < b.addr + b.length

\* The lengths of the buffers since the oldest in use.
Window ==
  LET upto[i \in 0 .. Len(buffers)] ==
        IF i = 0 THEN 0 ELSE upto[i - 1] + buffers[i].length
  IN  upto[Len(buffers)]

\* As long as the two threads never allocate at once, and what was sent since
\* the oldest message in use leaves the longest one free, the cursor that wraps
\* to zero without asking keeps every message in the region and to itself.
SendBuffersExclusive ==
  ~raced /\ Window + Longest <= AllocMemSize =>
    \A i \in DOMAIN buffers : buffers[i].in_use =>
      /\ buffers[i].addr + buffers[i].length <= AllocMemSize
      /\ \A j \in DOMAIN buffers \ {i} :
           buffers[j].in_use => ~Overlap(buffers[i], buffers[j])
=============================================================================
