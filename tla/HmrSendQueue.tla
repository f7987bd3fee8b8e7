---------------------------- MODULE HmrSendQueue ----------------------------
(***************************************************************************)
(* send_task_list pointer by pointer.  Main adds tasks to it, the epoll    *)
(* thread adds DONE, and the send timer, on the epoll thread, walks it,    *)
(* posts it and unlinks it, all with the operations of linux/list.h and no *)
(* lock.  A step makes one access to a pointer that both threads use; the  *)
(* build (gcc -Wall -g, no optimisation) makes them in the order they are  *)
(* written.  The memory of a freed task is not given out again.            *)
(***************************************************************************)
EXTENDS Naturals, Sequences

CONSTANTS
  NumTasks,   \* bound: tasks that main adds
  Prefixes    \* how many requests an ibv_post_send that fails may have taken

ASSUME NumTasksAssumption == NumTasks \in Nat
ASSUME PrefixesAssumption == Prefixes \subseteq Nat

ListHead == 0                   \* &rdma_trans->send_task_list
MainTask == 1 .. NumTasks       \* in the order main creates them
DoneTask == NumTasks + 1
Task == 1 .. NumTasks + 1
Node == {ListHead} \cup Task    \* each has a struct list_head
Thread == {"main", "epoll"}

VARIABLES
  next, prev,      \* of every struct list_head
  created,         \* tasks created so far
  new, last,       \* list_add_tail, per thread: the task and head->prev
  adding,          \* where list_add_tail is, per thread
  handler,         \* where hmr_send_task_handler is
  pos, n,          \* its loops' send_task and st_next
  before, after,   \* the arguments of its __list_del
  send_wr,         \* the requests it has filled in
  posts,           \* history: the tasks given to the QP, in order
  freed,           \* tasks freed by the handler of their completion
  touched          \* history: freed tasks that the timer's handler went to

addVars == <<created, new, last, adding>>
timerVars == <<handler, pos, n, before, after, send_wr, touched>>
vars == <<next, prev, addVars, timerVars, posts, freed>>

TypeOK ==
  /\ next \in [Node -> Node]
  /\ prev \in [Node -> Node]
  /\ created \in SUBSET Task
  /\ new \in [Thread -> Node]
  /\ last \in [Thread -> Node]
  /\ adding \in [Thread -> {"no", "back", "front"}]
  /\ handler \in {"idle", "walk", "save", "del", "del_back", "del_front", "init"}
  /\ {pos, n, before, after} \subseteq Node
  /\ send_wr \in Seq(Task)
  /\ posts \in Seq(Task)
  /\ freed \in SUBSET Task
  /\ touched \in SUBSET Task

\* INIT_LIST_HEAD of the list, and of each task.
Init ==
  /\ next = [x \in Node |-> x]
  /\ prev = [x \in Node |-> x]
  /\ created = {}
  /\ new = [t \in Thread |-> ListHead]
  /\ last = [t \in Thread |-> ListHead]
  /\ adding = [t \in Thread |-> "no"]
  /\ handler = "idle"
  /\ pos = ListHead /\ n = ListHead
  /\ before = ListHead /\ after = ListHead
  /\ send_wr = << >>
  /\ posts = << >>
  /\ freed = {}
  /\ touched = {}

-----------------------------------------------------------------------------
(* list_add_tail, on either thread. *)

\* hmr_rdma_send creates a task and list_add_tail reads head->prev.  Main's come
\* one after the other; the epoll thread sends DONE between two other handlers.
Add(t, task) ==
  /\ adding[t] = "no"
  /\ task \notin created
  /\ \/ t = "main" /\ task \in MainTask /\ 1 .. task - 1 \subseteq created
     \/ t = "epoll" /\ task = DoneTask /\ handler = "idle"
  /\ created' = created \cup {task}
  /\ new' = [new EXCEPT ![t] = task]
  /\ last' = [last EXCEPT ![t] = prev[ListHead]]
  /\ adding' = [adding EXCEPT ![t] = "back"]
  /\ UNCHANGED <<next, prev, timerVars, posts, freed>>

\* __list_add: head->prev = new.
LinkBack(t) ==
  /\ adding[t] = "back"
  /\ prev' = [prev EXCEPT ![ListHead] = new[t]]
  /\ adding' = [adding EXCEPT ![t] = "front"]
  /\ UNCHANGED <<next, created, new, last, timerVars, posts, freed>>

\* __list_add: the new entry's pointers, then prev->next = new.
LinkFront(t) ==
  /\ adding[t] = "front"
  /\ prev' = [prev EXCEPT ![new[t]] = last[t]]
  /\ next' = [next EXCEPT ![new[t]] = ListHead, ![last[t]] = new[t]]
  /\ adding' = [adding EXCEPT ![t] = "no"]
  /\ UNCHANGED <<created, new, last, timerVars, posts, freed>>

-----------------------------------------------------------------------------
(* hmr_send_task_handler. *)

\* The definitions called Bug... are faults put in place of the definition that
\* follows them, to see that a property notices.
BugUnlinksNothing(ok) == "idle"
BugNotSafe(saved, here) == here
BugNoEnd(x) == TRUE

\* Only tasks whose ibv_post_send succeeded are unlinked.
AfterPost(ok) == IF ok THEN "save" ELSE "idle"

\* The condition of list_for_each_entry.
InLoop(x) == x # ListHead

\* list_for_each_entry_safe goes on with the entry it saved before the deletion.
NextEntry(saved, here) == saved

Touch(x) == touched' = touched \cup (freed \cap {x})

\* The timer fires; with an empty list the handler returns.
Fire ==
  /\ handler = "idle"
  /\ adding["epoll"] = "no"
  /\ next[ListHead] # ListHead
  /\ handler' = "walk"
  /\ pos' = next[ListHead]
  /\ send_wr' = << >>
  /\ UNCHANGED <<next, prev, addVars, n, before, after, touched, posts, freed>>

\* list_for_each_entry: a request for each task.
Walk ==
  /\ handler = "walk"
  /\ InLoop(pos)
  /\ send_wr' = Append(send_wr, pos)
  /\ pos' = next[pos]
  /\ Touch(pos)
  /\ UNCHANGED <<next, prev, addVars, handler, n, before, after, posts, freed>>

\* ibv_post_send takes all requests, or fails and has taken the first k.
Post ==
  /\ handler = "walk"
  /\ pos = ListHead
  /\ \E ok \in BOOLEAN, k \in Prefixes \cup {Len(send_wr)} :
       /\ IF ok THEN k = Len(send_wr) ELSE k \in Prefixes /\ k < Len(send_wr)
       /\ posts' = posts \o SubSeq(send_wr, 1, k)
       /\ handler' = AfterPost(ok)
  /\ pos' = next[ListHead]
  /\ UNCHANGED <<next, prev, addVars, n, before, after, send_wr, touched, freed>>

\* list_for_each_entry_safe saves the next entry before the body.
Save ==
  /\ handler = "save"
  /\ n' = next[pos]
  /\ handler' = IF pos = ListHead THEN "idle" ELSE "del"
  /\ Touch(pos)
  /\ UNCHANGED <<next, prev, addVars, pos, before, after, send_wr, posts, freed>>

\* list_del_init: the arguments of __list_del, its two assignments, and
\* INIT_LIST_HEAD; the loop goes on.
Del ==
  /\ handler = "del"
  /\ before' = prev[pos]
  /\ after' = next[pos]
  /\ handler' = "del_back"
  /\ Touch(pos)
  /\ UNCHANGED <<next, prev, addVars, pos, n, send_wr, posts, freed>>

DelBack ==
  /\ handler = "del_back"
  /\ prev' = [prev EXCEPT ![after] = before]
  /\ handler' = "del_front"
  /\ Touch(after)
  /\ UNCHANGED <<next, addVars, pos, n, before, after, send_wr, posts, freed>>

DelFront ==
  /\ handler = "del_front"
  /\ next' = [next EXCEPT ![before] = after]
  /\ handler' = "init"
  /\ Touch(before)
  /\ UNCHANGED <<prev, addVars, pos, n, before, after, send_wr, posts, freed>>

InitEntry ==
  /\ handler = "init"
  /\ next' = [next EXCEPT ![pos] = pos]
  /\ prev' = [prev EXCEPT ![pos] = pos]
  /\ pos' = NextEntry(n, pos)
  /\ handler' = "save"
  /\ Touch(pos)
  /\ UNCHANGED <<addVars, n, before, after, send_wr, posts, freed>>

\* The end of hmr_wc_success_handler, on the same thread: the completions come
\* in the order of the posts and each frees its task.
Complete ==
  /\ handler = "idle"
  /\ adding["epoll"] = "no"
  /\ \E i \in 1 .. Len(posts) :
       /\ posts[i] \notin freed
       /\ \A j \in 1 .. i - 1 : posts[j] \in freed
       /\ freed' = freed \cup {posts[i]}
  /\ UNCHANGED <<next, prev, addVars, timerVars, posts>>

-----------------------------------------------------------------------------
Adding(t) == LinkBack(t) \/ LinkFront(t) \/ \E task \in Task : Add(t, task)

Timer == Walk \/ Post \/ Save \/ Del \/ DelBack \/ DelFront \/ InitEntry

Next == Timer \/ Fire \/ Complete \/ \E t \in Thread : Adding(t)

Spec == Init /\ [][Next]_vars

\* The epoll thread, once in the handler, runs on.
FairSpec == Spec /\ WF_vars(Timer)

-----------------------------------------------------------------------------
(* Properties. *)

\* Whatever the two threads do to the pointers, a task is given to the QP at
\* most once, since its completion frees it (free(task)), and main's tasks in
\* the order main added them.  It takes an ibv_post_send that takes none of the
\* requests it refuses.
PostedOnceInOrder ==
  \A i, j \in 1 .. Len(posts) : i < j =>
    /\ posts[i] # posts[j]
    /\ {posts[i], posts[j]} \subseteq MainTask => posts[i] < posts[j]

\* The timer's handler never goes to the memory of a task whose completion has
\* freed it, though list_add_tail on main may still be writing behind it.
TimerTouchesLive == touched = {}

\* The two loops of the handler end: with both threads at its pointers the list
\* never becomes a circle without its head.
HandlerEnds == handler # "idle" ~> handler = "idle"

\* linux/list.h: "list_empty - tests whether a list is empty".  When neither
\* thread is at the list, a list that tests empty has no last entry.
ListEmptyTells ==
  handler = "idle" /\ (\A t \in Thread : adding[t] = "no") =>
    (next[ListHead] = ListHead <=> prev[ListHead] = ListHead)
=============================================================================
