------------------------------ MODULE HmrList ------------------------------
(***************************************************************************)
(* The operations of linux/list.h on circular lists, as functions from the *)
(* pointers of every struct list_head to the pointers afterwards.  These   *)
(* are the operations of one thread; HmrSendQueue takes two of them apart. *)
(* The program adds, deletes, walks and tests for empty; the rest of the   *)
(* header is here because HmrListProofs is about all of it.                *)
(***************************************************************************)
EXTENDS Naturals, Sequences, FiniteSets

\* struct list_head of every node in a set.
List(Node) == [next : [Node -> Node], prev : [Node -> Node]]

Link(l, before, after) ==
  [next |-> [l.next EXCEPT ![before] = after],
   prev |-> [l.prev EXCEPT ![after] = before]]

InitListHead(l, x) ==
  [next |-> [l.next EXCEPT ![x] = x], prev |-> [l.prev EXCEPT ![x] = x]]

-----------------------------------------------------------------------------
(* One entry. *)

\* __list_add, list_add and list_add_tail.
BugAddBetween(l, new, before, after) == [Link(l, before, new) EXCEPT !.next[new] = after]
AddBetween(l, new, before, after) == Link(Link(l, new, after), before, new)
ListAdd(l, new, head) == AddBetween(l, new, head, l.next[head])
AddTail(l, new, head) == AddBetween(l, new, l.prev[head], head)

\* __list_del_entry, list_del with its poison, and list_del_init.
DelEntry(l, x) == Link(l, l.prev[x], l.next[x])
ListDel(l, x, poison) ==
  LET d == DelEntry(l, x)
  IN  [next |-> [d.next EXCEPT ![x] = poison], prev |-> [d.prev EXCEPT ![x] = poison]]
ListDelInit(l, x) == InitListHead(DelEntry(l, x), x)

\* list_replace reads old->prev after its first two writes, which in an empty
\* list have already made it the new head.
ListReplace(l, old, new) ==
  LET m == Link(l, new, l.next[old])
  IN  Link(m, m.prev[old], new)
ListReplaceInit(l, old, new) == InitListHead(ListReplace(l, old, new), old)

ListMove(l, x, head) == ListAdd(DelEntry(l, x), x, head)
ListMoveTail(l, x, head) == AddTail(DelEntry(l, x), x, head)

-----------------------------------------------------------------------------
(* Tests. *)

ListIsLast(l, x, head) == l.next[x] = head
ListEmpty(l, head) == l.next[head] = head
ListEmptyCareful(l, head) == l.next[head] = head /\ l.prev[head] = head
ListIsSingular(l, head) == ~ListEmpty(l, head) /\ l.next[head] = l.prev[head]

-----------------------------------------------------------------------------
(* Whole lists. *)

ListRotateLeft(l, head) ==
  IF ListEmpty(l, head) THEN l ELSE ListMoveTail(l, l.next[head], head)

\* __list_cut_position: the entries up to entry go to list.
CutAfter(l, list, head, entry) ==
  Link(Link(Link(l, list, l.next[head]), entry, list), head, l.next[entry])

ListCutPosition(l, list, head, entry) ==
  IF \/ ListEmpty(l, head)
     \/ ListIsSingular(l, head) /\ entry \notin {head, l.next[head]}
  THEN l
  ELSE IF entry = head THEN InitListHead(l, list) ELSE CutAfter(l, list, head, entry)

\* __list_splice: the entries of list go between two nodes.
SpliceBetween(l, list, before, after) ==
  Link(Link(l, before, l.next[list]), l.prev[list], after)

ListSplice(l, list, head) ==
  IF ListEmpty(l, list) THEN l ELSE SpliceBetween(l, list, head, l.next[head])
ListSpliceTail(l, list, head) ==
  IF ListEmpty(l, list) THEN l ELSE SpliceBetween(l, list, l.prev[head], head)
ListSpliceInit(l, list, head) ==
  IF ListEmpty(l, list) THEN l ELSE InitListHead(ListSplice(l, list, head), list)
ListSpliceTailInit(l, list, head) ==
  IF ListEmpty(l, list) THEN l ELSE InitListHead(ListSpliceTail(l, list, head), list)

-----------------------------------------------------------------------------
(* Entries and loops.  A node stands for the structure it is a member of. *)

FirstEntry(l, head) == l.next[head]
LastEntry(l, head) == l.prev[head]
FirstEntryOrNull(l, head, null) == IF ListEmpty(l, head) THEN null ELSE l.next[head]
NextOf(l, pos) == l.next[pos]
PrevOf(l, pos) == l.prev[pos]
PrepareEntry(pos, head, null) == IF pos = null THEN head ELSE pos

\* The node that list_for_each_entry is at after i turns from the head.
Nth(l, head, i) ==
  LET at[k \in 0 .. i] == IF k = 0 THEN head ELSE l.next[at[k - 1]]
  IN  at[i]

\* The entries of a list of at most max.
Entries(l, head, max) ==
  {Nth(l, head, i) : i \in {k \in 1 .. max :
     \A j \in 1 .. k : Nth(l, head, j) # head}}

\* The nodes that a loop with no removal is at, one turn after the other, from
\* start up to the head, at most max of them; step is l.next or l.prev.
Visited(step, start, head, max) ==
  LET at[k \in 1 .. max] == IF k = 1 THEN start ELSE step[at[k - 1]]
      turns == Cardinality({k \in 1 .. max : \A j \in 1 .. k : at[j] # head})
  IN  SubSeq(at, 1, turns)

ForEach(l, head, max) == Visited(l.next, FirstEntry(l, head), head, max)
ForEachReverse(l, head, max) == Visited(l.prev, LastEntry(l, head), head, max)
ForEachContinue(l, pos, head, max) == Visited(l.next, NextOf(l, pos), head, max)
ForEachContinueReverse(l, pos, head, max) == Visited(l.prev, PrevOf(l, pos), head, max)
ForEachFrom(l, pos, head, max) == Visited(l.next, pos, head, max)

\* The cursors of a loop that is safe against removal: its entry, and the next
\* one, read before the body; where it starts, and what a turn makes of them on
\* the list that the body has left.
SafeStart(l, head) == [pos |-> FirstEntry(l, head), n |-> NextOf(l, FirstEntry(l, head))]
SafeTurn(l, at) == [pos |-> at.n, n |-> NextOf(l, at.n)]
SafeStartReverse(l, head) ==
  [pos |-> LastEntry(l, head), n |-> PrevOf(l, LastEntry(l, head))]
SafeTurnReverse(l, at) == [pos |-> at.n, n |-> PrevOf(l, at.n)]
SafeContinue(l, pos) == [pos |-> NextOf(l, pos), n |-> NextOf(l, NextOf(l, pos))]
SafeFrom(l, pos) == [pos |-> pos, n |-> NextOf(l, pos)]
SafeReset(l, at) == [at EXCEPT !.n = NextOf(l, at.pos)]
=============================================================================
