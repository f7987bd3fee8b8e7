------------------------- MODULE HmrSendQueueProofs -------------------------
(***************************************************************************)
(* Whatever main does to the pointers of send_task_list while the timer    *)
(* walks, posts and unlinks it, a task is posted at most once, main's in   *)
(* order, and the timer never goes to a freed one: for every number of     *)
(* tasks, provided that a refused ibv_post_send takes no request.          *)
(***************************************************************************)
EXTENDS HmrSendQueue, TLAPS

Posted == {posts[i] : i \in 1 .. Len(posts)}

\* Tasks that are not linked yet: not created, or in the hands of a thread.
Fresh == {x \in Task : \/ x \notin created
                       \/ \E t \in Thread : adding[t] # "no" /\ new[t] = x}

\* The pointers as they are once the deletion the timer is at has ended: it
\* counts as done when it has read its arguments.  Only what LinkFront writes to
\* an entry that is being deleted is overwritten by the rest of the deletion.
Deleting == handler \in {"del_back", "del_front"}
Unlinking == handler \in {"del_back", "del_front", "init"}

Next1(x) == IF Deleting /\ x = before THEN after
            ELSE IF Unlinking /\ x = pos THEN pos ELSE next[x]

Prev1(x) == IF handler = "del_back" /\ x = after THEN before
            ELSE IF Unlinking /\ x = pos THEN pos ELSE prev[x]

\* The order in which the pointers run through the tasks: main's by number, DONE
\* behind the d of them that are created before it.
Earlier(d, x, y) ==
  IF x = DoneTask THEN y # DoneTask /\ d < y
  ELSE IF y = DoneTask THEN x <= d ELSE x < y

\* Main has created c tasks.  What list_add_tail has read as the last entry was
\* created before the new one.
Creation(c, d) ==
  /\ created \cap MainTask = 1 .. c
  /\ DoneTask \in created => d <= c
  /\ adding["main"] # "no" =>
       /\ c > 0 /\ new["main"] = c
       /\ last["main"] \in {ListHead} \cup created
       /\ last["main"] # c
       /\ last["main"] = DoneTask => d < c
  /\ adding["epoll"] # "no" =>
       /\ handler = "idle" /\ new["epoll"] = DoneTask /\ DoneTask \in created
       /\ last["epoll"] \in {ListHead} \cup 1 .. d

\* Nothing points to a task that is not linked yet.
Pointing ==
  /\ prev[ListHead] \in {ListHead} \cup created
  /\ \A x \in Task \ created : next[x] = x /\ prev[x] = x
  /\ \A x \in Task : prev[x] \in {ListHead, x} \cup created
  /\ \A x \in Node : next[x] # x => next[x] \notin Fresh

\* Both directions respect the order.
Ordered(d) ==
  /\ \A x \in Task : next[x] \in {ListHead, x} \/ Earlier(d, x, next[x])
  /\ \A x \in Task : prev[x] \in {ListHead, x} \/ Earlier(d, prev[x], x)

\* The same of the arguments of the deletion.
Arguments(d) ==
  Deleting => /\ before = ListHead \/ after = ListHead \/ Earlier(d, before, after)
              /\ before \notin Fresh \cup freed \cup {pos}
              /\ after \notin Fresh \cup freed \cup {pos}

\* An entry that is pointed to points back, so it is pointed to once, and it is
\* not one that has been initialized.
Back ==
  \A x \in Node, y \in Task :
    Next1(x) = y /\ x # y => Prev1(y) = x /\ Next1(y) # y

\* F has the tasks linked since the last post that have not been unlinked: what
\* follows one of them is one of them, and they come after what was posted.
Unposted(F) ==
  /\ F \cap (Posted \cup Fresh) = {}
  /\ \A x \in F : Next1(x) \in F \cup {ListHead} /\ Next1(x) # x
  /\ \A x \in F \cap MainTask : \A p \in Posted \cap MainTask : p < x

\* What the head points to is in F, or is where the unlinking loop is.
AtHead(F) ==
  /\ handler \in {"idle", "walk"} => next[ListHead] \in F \cup {ListHead}
  /\ handler \in {"save", "del"} => next[ListHead] \in F \cup {ListHead, pos}
  /\ handler = "del" => next[pos] \in F \cup {ListHead, n}
  /\ Unlinking => Next1(ListHead) \in F \cup {ListHead, n}

\* The requests are a chain of tasks of F, in order, that ends before pos.
Walked(d, F) ==
  handler = "walk" =>
    /\ pos \in F \cup {ListHead}
    /\ \A i \in 1 .. Len(send_wr) :
         /\ send_wr[i] \in F
         /\ prev[send_wr[i]] = IF i = 1 THEN ListHead ELSE send_wr[i - 1]
         /\ \A j \in 1 .. i - 1 : Earlier(d, send_wr[j], send_wr[i])
         /\ pos # ListHead => Earlier(d, send_wr[i], pos)
    /\ pos # ListHead =>
         prev[pos] = IF Len(send_wr) = 0 THEN ListHead ELSE send_wr[Len(send_wr)]

\* What is before a posted task in the list was posted before it.
BeforePosted ==
  /\ Posted \cap Fresh = {}
  /\ \A i \in 1 .. Len(posts) :
       Prev1(posts[i]) \in {ListHead, posts[i]} \cup {posts[j] : j \in 1 .. i - 1}

\* An entry that the unlinking loop may take up: linked and not freed, and what
\* it points back to neither is freed nor, unless it is itself, one of F.
Removable(F, x) ==
  x # ListHead =>
    /\ x \notin Fresh \cup freed
    /\ Next1(x) # x /\ Prev1(x) # x
    /\ Prev1(x) \notin Fresh \cup freed
    /\ x \notin F => Prev1(x) \notin F

\* Where the unlinking loop is and where it goes on.
AtCursor(F) ==
  /\ handler \in {"save", "del"} => Removable(F, pos)
  /\ handler = "del" =>
       /\ pos # ListHead
       /\ n # ListHead => /\ n \notin Fresh \cup freed /\ n # pos
                          /\ next[n] # n /\ prev[n] = pos
  /\ Unlinking =>
       /\ pos # ListHead /\ pos \notin F \cup Fresh \cup freed
       /\ Removable(F, n) /\ n # pos

\* From a task that is not freed the timer comes to none that is.
Live ==
  /\ freed \subseteq Posted
  /\ \A x \in Task \ freed : Next1(x) \notin freed
  /\ touched = {}

Chain(c, d, F) ==
  /\ Creation(c, d) /\ Pointing /\ Ordered(d) /\ Arguments(d) /\ Back
  /\ Unposted(F) /\ AtHead(F) /\ Walked(d, F) /\ BeforePosted /\ AtCursor(F) /\ Live

Inv == /\ TypeOK /\ PostedOnceInOrder
       /\ \E c, d \in 0 .. NumTasks, F \in SUBSET Task : Chain(c, d, F)

-----------------------------------------------------------------------------
\* The nodes, the tasks and the threads.
LEMMA Kinds ==
  /\ ListHead \notin Task /\ DoneTask \in Task /\ DoneTask \notin MainTask
  /\ Task = MainTask \cup {DoneTask}
  /\ Node = {ListHead} \cup Task
  /\ "main" # "epoll" /\ Thread = {"main", "epoll"}
  /\ MainTask \subseteq Nat \ {0} /\ DoneTask \in Nat
  /\ \A x \in MainTask : x <= NumTasks
BY NumTasksAssumption DEF ListHead, DoneTask, MainTask, Task, Node, Thread

\* Earlier is a strict order, and on main's tasks the order of their numbers.
LEMMA EarlierOrder ==
  ASSUME NEW d \in 0 .. NumTasks, NEW x \in Task, NEW y \in Task, NEW z \in Task
  PROVE  /\ ~Earlier(d, x, x)
         /\ Earlier(d, x, y) => x # y /\ ~Earlier(d, y, x)
         /\ Earlier(d, x, y) /\ Earlier(d, y, z) => Earlier(d, x, z)
         /\ x \in MainTask /\ y \in MainTask => (Earlier(d, x, y) <=> x < y)
BY NumTasksAssumption DEF Task, MainTask, DoneTask, Earlier

\* Back, in steps that move no pointer.
LEMMA BackKept ==
  ASSUME Back, \A x \in Node : Next1(x)' = Next1(x) /\ Prev1(x)' = Prev1(x)
  PROVE  Back'
<1> SUFFICES ASSUME NEW x \in Node, NEW y \in Task, Next1(x)' = y, x # y
             PROVE  Prev1(y)' = x /\ Next1(y)' # y
  BY DEF Back
<1>1. y \in Node
  BY Kinds
<1>2. Prev1(y) = x /\ Next1(y) # y
  BY DEF Back
<1> QED
  BY <1>1, <1>2

\* The types need no more than themselves.
LEMMA TypeStep == TypeOK /\ [Next]_vars => TypeOK'
<1> SUFFICES ASSUME TypeOK, [Next]_vars PROVE TypeOK'
  OBVIOUS
<1> USE DEF TypeOK
<1>0. ListHead \in Node /\ Task \subseteq Node
  BY DEF Node
<1>1. ASSUME NEW t \in Thread, NEW task \in Task, Add(t, task) PROVE TypeOK'
  BY <1>0, <1>1 DEF Add, timerVars
<1>2. ASSUME NEW t \in Thread, LinkBack(t) PROVE TypeOK'
  BY <1>0, <1>2 DEF LinkBack, timerVars
<1>3. ASSUME NEW t \in Thread, LinkFront(t) PROVE TypeOK'
  BY <1>0, <1>3 DEF LinkFront, timerVars
<1>4. CASE Fire
  BY <1>0, <1>4 DEF Fire, addVars
<1>5. CASE Walk
  <2>1. pos \in Task
    BY <1>5 DEF Walk, InLoop, Node
  <2> QED
    BY <1>0, <1>5, <2>1 DEF Walk, Touch, addVars
<1>6. CASE Post
  <2>1. posts' \in Seq(Task)
    <3>0. Len(send_wr) \in Nat
      OBVIOUS
    <3>1. PICK k \in Prefixes \cup {Len(send_wr)} :
            k <= Len(send_wr) /\ posts' = posts \o SubSeq(send_wr, 1, k)
      <4>1. PICK ok \in BOOLEAN, k \in Prefixes \cup {Len(send_wr)} :
              /\ IF ok THEN k = Len(send_wr) ELSE k \in Prefixes /\ k < Len(send_wr)
              /\ posts' = posts \o SubSeq(send_wr, 1, k)
        BY <1>6 DEF Post
      <4>2. k <= Len(send_wr)
        BY <3>0, <4>1, PrefixesAssumption
      <4> QED
        BY <4>1, <4>2
    <3>2. k \in Nat
      BY PrefixesAssumption
    <3>3. SubSeq(send_wr, 1, k) \in Seq(Task)
      BY <3>1, <3>2
    <3> QED
      BY <3>1, <3>3
  <2>2. handler' \in {"save", "idle"}
    BY <1>6 DEF Post, AfterPost
  <2> QED
    BY <1>0, <1>6, <2>1, <2>2 DEF Post, addVars
<1>7. CASE Save
  BY <1>0, <1>7 DEF Save, Touch, addVars
<1>8. CASE Del
  BY <1>0, <1>8 DEF Del, Touch, addVars
<1>9. CASE DelBack
  BY <1>0, <1>9 DEF DelBack, Touch, addVars
<1>10. CASE DelFront
  BY <1>0, <1>10 DEF DelFront, Touch, addVars
<1>11. CASE InitEntry
  BY <1>0, <1>11 DEF InitEntry, Touch, NextEntry, addVars
<1>12. CASE Complete
  BY <1>0, <1>12 DEF Complete, addVars, timerVars
<1>13. CASE UNCHANGED vars
  BY <1>13 DEF vars, addVars, timerVars
<1> QED
  BY <1>1, <1>2, <1>3, <1>4, <1>5, <1>6, <1>7, <1>8, <1>9, <1>10, <1>11, <1>12, <1>13
     DEF Next, Timer, Adding

\* An empty list satisfies the invariant.
LEMMA InvInit == Init => Inv
<1> SUFFICES ASSUME Init PROVE Inv
  OBVIOUS
<1> USE Kinds
<1>1. TypeOK /\ Len(posts) = 0
  BY DEF Init, TypeOK
<1>2. PostedOnceInOrder
  BY <1>1 DEF PostedOnceInOrder
<1>3. /\ Posted = {} /\ Fresh = Task
      /\ \A x \in Node : Next1(x) = x /\ Prev1(x) = x
  BY <1>1 DEF Init, Posted, Fresh, Next1, Prev1, Deleting, Unlinking
<1>4. 0 \in 0 .. NumTasks /\ 1 .. 0 = {}
  BY NumTasksAssumption
<1>5. Chain(0, 0, {})
  <2>1. Creation(0, 0) /\ Pointing /\ Ordered(0) /\ Arguments(0)
    BY <1>3, <1>4 DEF Init, Creation, Pointing, Ordered, Arguments, Deleting
  <2>2. Back /\ Unposted({}) /\ AtHead({}) /\ Walked(0, {})
    BY <1>3 DEF Init, Back, Unposted, AtHead, Walked, Unlinking
  <2>3. BeforePosted /\ AtCursor({}) /\ Live
    BY <1>1, <1>3 DEF Init, BeforePosted, AtCursor, Live, Unlinking
  <2> QED
    BY <2>1, <2>2, <2>3 DEF Chain
<1> QED
  BY <1>1, <1>2, <1>4, <1>5 DEF Inv

-----------------------------------------------------------------------------
(* list_add_tail. *)

\* DONE gets its place in the order when it is created, behind main's tasks.
LEMMA AddStep ==
  ASSUME TypeOK, TypeOK',
         NEW c \in 0 .. NumTasks, NEW d \in 0 .. NumTasks, NEW F \in SUBSET Task,
         Chain(c, d, F), NEW t \in Thread, NEW task \in Task, Add(t, task)
  PROVE  \E a, b \in 0 .. NumTasks : Chain(a, b, F)'
<1> USE Kinds DEF Chain
<1>1. /\ adding[t] = "no" /\ task \notin created
      /\ created' = created \cup {task}
      /\ new' = [new EXCEPT ![t] = task]
      /\ last' = [last EXCEPT ![t] = prev[ListHead]]
      /\ adding' = [adding EXCEPT ![t] = "back"]
      /\ UNCHANGED <<next, prev, handler, pos, n, before, after, send_wr, touched>>
      /\ UNCHANGED <<posts, freed>>
  BY DEF Add, timerVars
<1>2. Fresh' = Fresh /\ Posted' = Posted
  BY <1>1 DEF Fresh, Posted, TypeOK
<1>3. \A x \in Node : Next1(x)' = Next1(x) /\ Prev1(x)' = Prev1(x)
  BY <1>1 DEF Next1, Prev1, Deleting, Unlinking
<1>4. Pointing'
  BY <1>1, <1>2 DEF Pointing
<1>5. Back'
  BY <1>3 DEF Back
<1>6. Unposted(F)' /\ AtHead(F)'
  BY <1>1, <1>2, <1>3 DEF Unposted, AtHead, Unlinking
<1>7. BeforePosted' /\ AtCursor(F)' /\ Live'
  <2>1. BeforePosted'
    BY <1>1, <1>2, <1>3 DEF BeforePosted, TypeOK
  <2>2. AtCursor(F)'
    BY <1>1, <1>2, <1>3 DEF AtCursor, Removable, Unlinking, TypeOK
  <2>3. Live'
    BY <1>1, <1>2, <1>3 DEF Live
  <2> QED
    BY <2>1, <2>2, <2>3
<1>8. CASE t = "main"
  <2>1. task \in MainTask /\ 1 .. task - 1 \subseteq created
    BY <1>8 DEF Add
  <2>2. task = c + 1 /\ c + 1 \in 0 .. NumTasks
    <3>1. created \cap MainTask = 1 .. c
      BY DEF Creation
    <3>2. task > c
      BY <1>1, <2>1, <3>1
    <3>3. task - 1 \in 0 .. c
      <4>1. CASE task = 1
        BY <4>1
      <4>2. CASE task # 1
        <5>1. task - 1 \in 1 .. task - 1 /\ task - 1 \in MainTask
          BY <2>1, <4>2, NumTasksAssumption DEF MainTask
        <5> QED
          BY <2>1, <3>1, <5>1
      <4> QED
        BY <4>1, <4>2
    <3> QED
      BY <2>1, <3>2, <3>3
  <2>3. Creation(c + 1, d)'
    BY <1>1, <1>8, <2>1, <2>2 DEF Creation, Pointing, TypeOK
  <2>4. Ordered(d)' /\ Arguments(d)' /\ Walked(d, F)'
    BY <1>1, <1>2 DEF Ordered, Arguments, Deleting, Walked
  <2> QED
    BY <1>4, <1>5, <1>6, <1>7, <2>2, <2>3, <2>4
<1>9. CASE t = "epoll"
  <2>1. task = DoneTask /\ handler = "idle"
    BY <1>9 DEF Add
  <2>2. Creation(c, c)'
    BY <1>1, <1>9, <2>1 DEF Creation, Pointing, TypeOK
  <2>3. \A x \in Task : next[x] # x => x # DoneTask /\ next[x] # DoneTask
    BY <1>1, <2>1 DEF Pointing, Fresh
  <2>4. \A x \in Task : prev[x] # x => x # DoneTask /\ prev[x] # DoneTask
    BY <1>1, <2>1 DEF Pointing, TypeOK
  <2>5. Ordered(c)'
    BY <1>1, <2>3, <2>4 DEF Ordered, Earlier
  <2>6. Arguments(c)' /\ Walked(c, F)'
    BY <1>1, <2>1 DEF Arguments, Deleting, Walked
  <2> QED
    BY <1>4, <1>5, <1>6, <1>7, <2>2, <2>5, <2>6
<1> QED
  BY <1>8, <1>9

\* head->prev, which is all this writes, is in no part of the chain.
LEMMA LinkBackStep ==
  ASSUME TypeOK, TypeOK',
         NEW c \in 0 .. NumTasks, NEW d \in 0 .. NumTasks, NEW F \in SUBSET Task,
         Chain(c, d, F), NEW t \in Thread, LinkBack(t)
  PROVE  Chain(c, d, F)'
<1> USE Kinds DEF Chain
<1>1. /\ adding[t] = "back"
      /\ prev' = [prev EXCEPT ![ListHead] = new[t]]
      /\ adding' = [adding EXCEPT ![t] = "front"]
      /\ UNCHANGED <<next, created, new, last>>
      /\ UNCHANGED <<handler, pos, n, before, after, send_wr, touched, posts, freed>>
  BY DEF LinkBack, timerVars
<1>2. Fresh' = Fresh /\ Posted' = Posted
  BY <1>1 DEF Fresh, Posted, TypeOK
<1>3. /\ \A x \in Node : Next1(x)' = Next1(x)
      /\ \A x \in Task : prev'[x] = prev[x] /\ Prev1(x)' = Prev1(x)
      /\ prev'[ListHead] = new[t]
  BY <1>1 DEF Next1, Prev1, Deleting, Unlinking, TypeOK
<1>4. Creation(c, d)'
  BY <1>1 DEF Creation, TypeOK
<1>5. Pointing'
  <2>1. new[t] \in created
    BY <1>1 DEF Creation
  <2> QED
    BY <1>1, <1>2, <1>3, <2>1 DEF Pointing
<1>6. Ordered(d)' /\ Arguments(d)'
  BY <1>1, <1>2, <1>3 DEF Ordered, Arguments, Deleting
<1>7. Back' /\ Unposted(F)' /\ AtHead(F)'
  BY <1>1, <1>2, <1>3 DEF Back, Unposted, AtHead, Unlinking
<1>8. Walked(d, F)'
  BY <1>1, <1>3 DEF Walked
<1>9. BeforePosted'
  <2>1. ASSUME NEW i \in 1 .. Len(posts)
        PROVE  Prev1(posts[i])' = Prev1(posts[i])
    <3>1. posts[i] \in Task /\ posts' = posts
      BY <1>1 DEF TypeOK
    <3> QED
      BY <1>3, <3>1
  <2> QED
    BY <1>1, <1>2, <2>1 DEF BeforePosted
<1>10. AtCursor(F)' /\ Live'
  <2>1. \A x \in Node : Removable(F, x) => Removable(F, x)'
    BY <1>1, <1>2, <1>3 DEF Removable
  <2>2. AtCursor(F)'
    BY <1>1, <1>2, <1>3, <2>1 DEF AtCursor, Unlinking, TypeOK
  <2>3. Live'
    BY <1>1, <1>2, <1>3 DEF Live
  <2> QED
    BY <2>2, <2>3
<1> QED
  BY <1>4, <1>5, <1>6, <1>7, <1>8, <1>9, <1>10

\* The new entry joins F whether it is behind an entry of F or lost behind another:
\* it is later than whatever has been posted and nothing comes after it.
LEMMA LinkFrontStep ==
  ASSUME TypeOK, TypeOK',
         NEW c \in 0 .. NumTasks, NEW d \in 0 .. NumTasks, NEW F \in SUBSET Task,
         Chain(c, d, F), NEW t \in Thread, LinkFront(t)
  PROVE  \E G \in SUBSET Task : Chain(c, d, G)'
<1> USE Kinds DEF Chain
<1>0. PICK w \in Node, l \in Node : w = new[t] /\ l = last[t]
  BY DEF TypeOK
<1> DEFINE G == F \cup {w}
<1>1. /\ adding[t] = "front"
      /\ prev' = [prev EXCEPT ![w] = l]
      /\ next' = [next EXCEPT ![w] = ListHead, ![l] = w]
      /\ adding' = [adding EXCEPT ![t] = "no"]
      /\ UNCHANGED <<created, new, last>>
      /\ UNCHANGED <<handler, pos, n, before, after, send_wr, touched, posts, freed>>
  BY <1>0 DEF LinkFront, timerVars
<1>2. /\ w \in Task /\ w \in created /\ w \in Fresh
      /\ l \in {ListHead} \cup created /\ l \in Node /\ l # w
      /\ l # ListHead => Earlier(d, l, w)
  <2>1. CASE t = "main"
    <3>1. w = c /\ c > 0 /\ w \in created /\ w \in MainTask
      BY <1>0, <1>1, <2>1 DEF Creation
    <3>2. l \in {ListHead} \cup created /\ l # c
      BY <1>0, <1>1, <2>1 DEF Creation
    <3>3. l \in MainTask => l < c
      BY <1>0, <3>1, <3>2 DEF Creation
    <3>4. l # ListHead => Earlier(d, l, w)
      BY <1>0, <1>1, <2>1, <3>1, <3>2, <3>3 DEF Creation, Earlier, TypeOK
    <3> QED
      BY <1>0, <1>1, <3>1, <3>2, <3>4 DEF Fresh, TypeOK
  <2>2. CASE t = "epoll"
    <3>1. w = DoneTask /\ w \in created /\ l \in {ListHead} \cup 1 .. d /\ d <= c
      BY <1>0, <1>1, <2>2 DEF Creation
    <3>2. l # ListHead => l \in MainTask /\ l \in created /\ l <= d
      BY <3>1 DEF Creation
    <3>3. l # ListHead => Earlier(d, l, w)
      BY <3>1, <3>2 DEF Earlier
    <3>4. w \in Fresh
      BY <1>0, <1>1, <3>1 DEF Fresh
    <3> QED
      BY <3>1, <3>2, <3>3, <3>4
  <2> QED
    BY <2>1, <2>2
<1>3. /\ next'[w] = ListHead /\ next'[l] = w /\ prev'[w] = l
      /\ \A x \in Node : x \notin {w, l} => next'[x] = next[x]
      /\ \A x \in Node : x # w => prev'[x] = prev[x]
  BY <1>1, <1>2 DEF TypeOK
<1>4. Fresh' = Fresh \ {w} /\ Posted' = Posted
  <2>1. \A u \in Thread : u # t /\ adding[u] # "no" => new[u] # w
    BY <1>0, <1>1 DEF Creation
  <2> QED
    BY <1>0, <1>1, <1>2, <2>1 DEF Fresh, Posted, TypeOK
<1>5. /\ Deleting => w # before /\ w # after
      /\ handler \in {"save", "del"} \/ Unlinking => w # pos
      /\ handler = "del" \/ Unlinking => w # n
      /\ Deleting' = Deleting /\ Unlinking' = Unlinking
  <2>1. /\ Deleting => w # before /\ w # after
        /\ Deleting' = Deleting /\ Unlinking' = Unlinking
    BY <1>1, <1>2 DEF Arguments, Deleting, Unlinking
  <2> QED
    BY <1>1, <1>2, <2>1 DEF AtCursor, Removable
<1>6. /\ Next1(w)' = ListHead
      /\ Next1(l)' \in {Next1(l), w}
      /\ \A x \in Node : x \notin {w, l} => Next1(x)' = Next1(x)
      /\ Prev1(w)' = l
      /\ \A x \in Node : x # w => Prev1(x)' = Prev1(x)
  <2>1. Unlinking => w # pos
    BY <1>5
  <2>2. handler = "del_back" => Deleting /\ Unlinking
    BY DEF Deleting, Unlinking
  <2>3. UNCHANGED <<handler, pos, before, after>>
    BY <1>1
  <2> QED
    BY <1>2, <1>3, <1>5, <2>1, <2>2, <2>3 DEF Next1, Prev1
<1>7. \A x \in Node : x # w => next[x] # w /\ Next1(x) # w
  BY <1>2, <1>5 DEF Pointing, Next1
<1>8. G \in SUBSET Task
  BY <1>2
<1>9. Creation(c, d)'
  BY <1>0, <1>1 DEF Creation, TypeOK, Pointing
<1>10. Pointing'
  <2>1. prev'[ListHead] \in {ListHead} \cup created'
    BY <1>1, <1>2, <1>3 DEF Pointing
  <2>2. \A x \in Task \ created : x \notin {w, l}
    BY <1>2
  <2>3. \A x \in Task : prev'[x] \in {ListHead, x} \cup created
    BY <1>2, <1>3 DEF Pointing
  <2>4. \A x \in Node : next'[x] \in {next[x], ListHead, w}
    BY <1>2, <1>3
  <2>5. \A x \in Node : next'[x] # x => next'[x] \notin Fresh'
    BY <1>2, <1>3, <1>4, <2>4 DEF Pointing, Fresh
  <2> QED
    BY ZenonT(60), <1>1, <1>3, <2>1, <2>2, <2>3, <2>5 DEF Pointing
<1>11. Ordered(d)' /\ Arguments(d)'
  <2>1. Ordered(d)'
    BY <1>2, <1>3 DEF Ordered
  <2>2. Arguments(d)'
    BY <1>1, <1>4, <1>5 DEF Arguments
  <2> QED
    BY <2>1, <2>2
<1>12. Back'
  BY <1>2, <1>6, <1>7 DEF Back
<1>13. Unposted(G)'
  <2>1. w \notin Posted
    BY <1>2 DEF BeforePosted
  <2>2. w \in MainTask => \A p \in Posted \cap MainTask : p < w
    <3>1. SUFFICES ASSUME w \in MainTask, NEW p \in Posted \cap MainTask PROVE p < w
      OBVIOUS
    <3>2. p \in created
      BY DEF BeforePosted, Fresh
    <3>3. w = c /\ p \in 1 .. c
      BY <1>0, <1>1, <3>1, <3>2 DEF Creation
    <3> QED
      BY <2>1, <3>3
  <2>3. \A x \in G : Next1(x)' \in G \cup {ListHead} /\ Next1(x)' # x
    BY <1>2, <1>6 DEF Unposted
  <2> QED
    BY <1>4, <2>1, <2>2, <2>3 DEF Unposted
<1>14. AtHead(G)'
  <2>1. next'[ListHead] \in {next[ListHead], w} /\ next'[pos] \in {next[pos], w, ListHead}
    BY <1>2, <1>3 DEF TypeOK
  <2>2. Next1(ListHead)' \in {Next1(ListHead), w}
    BY <1>2, <1>6
  <2> QED
    BY <1>1, <1>5, <2>1, <2>2 DEF AtHead
<1>15. Walked(d, G)'
  <2> SUFFICES ASSUME handler = "walk" PROVE Walked(d, G)'
    BY <1>1 DEF Walked
  <2>1. F \cap Fresh = {}
    BY DEF Unposted
  <2>2. pos # ListHead => pos \in Node /\ pos # w
    BY ZenonT(60), <1>2, <2>1 DEF Walked
  <2>3. \A i \in 1 .. Len(send_wr) : send_wr[i] \in Node /\ send_wr[i] # w
    BY <1>2, <2>1 DEF Walked
  <2> QED
    BY <1>1, <1>3, <2>2, <2>3 DEF Walked
<1>16. BeforePosted'
  <2>1. ASSUME NEW i \in 1 .. Len(posts)
        PROVE  Prev1(posts[i])' = Prev1(posts[i])
    <3>1. posts[i] \in Task /\ posts[i] # w /\ posts' = posts
      BY <1>1, <1>2 DEF TypeOK, BeforePosted, Posted
    <3> QED
      BY <1>6, <3>1
  <2> QED
    BY <1>1, <1>4, <2>1 DEF BeforePosted
<1>17. AtCursor(G)'
  <2>1. ASSUME NEW x \in Node, Removable(F, x), x # w PROVE Removable(G, x)'
    <3>1. x # ListHead => Prev1(x) # w
      BY <1>2, <2>1 DEF Removable
    <3>2. Next1(x)' \in {Next1(x), w} /\ Prev1(x)' = Prev1(x)
      BY <1>6, <2>1
    <3> QED
      BY <1>1, <1>4, <2>1, <3>1, <3>2 DEF Removable
  <2>2. handler \in {"save", "del"} => Removable(G, pos)'
    BY <1>1, <1>5, <2>1 DEF AtCursor, TypeOK
  <2>3. Unlinking => Removable(G, n)'
    BY <1>1, <1>5, <2>1 DEF AtCursor, TypeOK
  <2>4. handler = "del" /\ n # ListHead => next'[n] # n /\ prev'[n] = pos
    BY <1>1, <1>2, <1>3, <1>5 DEF AtCursor, TypeOK
  <2> QED
    BY <1>1, <1>4, <1>5, <2>2, <2>3, <2>4 DEF AtCursor
<1>18. Live'
  <2>1. w \notin freed /\ ListHead \notin freed
    BY <1>2 DEF Live, BeforePosted, TypeOK
  <2> QED
    BY <1>1, <1>2, <1>4, <1>6, <2>1 DEF Live
<1> QED
  BY <1>8, <1>9, <1>10, <1>11, <1>12, <1>13, <1>14, <1>15, <1>16, <1>17, <1>18

-----------------------------------------------------------------------------
(* hmr_send_task_handler. *)

\* The first request will be of a task of F, which points back to the head.
LEMMA FireStep ==
  ASSUME TypeOK, TypeOK',
         NEW c \in 0 .. NumTasks, NEW d \in 0 .. NumTasks, NEW F \in SUBSET Task,
         Chain(c, d, F), Fire
  PROVE  Chain(c, d, F)'
<1> USE Kinds DEF Chain
<1>1. /\ handler = "idle" /\ adding["epoll"] = "no" /\ next[ListHead] # ListHead
      /\ handler' = "walk" /\ pos' = next[ListHead] /\ send_wr' = << >>
      /\ UNCHANGED <<next, prev, created, new, last, adding>>
      /\ UNCHANGED <<n, before, after, touched, posts, freed>>
  BY DEF Fire, addVars
<1>2. Fresh' = Fresh /\ Posted' = Posted
  BY <1>1 DEF Fresh, Posted
<1>3. \A x \in Node : /\ Next1(x)' = next[x] /\ Prev1(x)' = prev[x]
                      /\ Next1(x) = next[x] /\ Prev1(x) = prev[x]
  BY <1>1 DEF Next1, Prev1, Deleting, Unlinking
<1>4. Creation(c, d)' /\ Pointing' /\ Ordered(d)' /\ Arguments(d)'
  BY <1>1, <1>2 DEF Creation, Pointing, Ordered, Arguments, Deleting
<1>5. Back' /\ Unposted(F)' /\ AtHead(F)'
  <2>1. Back'
    BY <1>3, BackKept
  <2>2. Unposted(F)' /\ AtHead(F)'
    BY <1>1, <1>2, <1>3 DEF Unposted, AtHead, Unlinking
  <2> QED
    BY <2>1, <2>2
<1>6. Walked(d, F)'
  <2>1. pos' \in F /\ pos' \in Task
    BY <1>1 DEF AtHead
  <2>2. prev[pos'] = ListHead
    BY <1>1, <1>3, <2>1 DEF Back
  <2>3. Len(send_wr') = 0
    BY <1>1
  <2> QED
    BY <1>1, <2>1, <2>2, <2>3 DEF Walked
<1>7. BeforePosted' /\ AtCursor(F)' /\ Live'
  <2>1. ASSUME NEW i \in 1 .. Len(posts)
        PROVE  Prev1(posts[i])' = Prev1(posts[i])
    <3>1. posts[i] \in Task /\ posts' = posts
      BY <1>1 DEF TypeOK
    <3> QED
      BY <1>1, <3>1 DEF Prev1, Unlinking
  <2>2. BeforePosted'
    BY <1>1, <1>2, <2>1 DEF BeforePosted
  <2>3. AtCursor(F)'
    BY <1>1 DEF AtCursor, Unlinking
  <2>4. Live'
    BY <1>1, <1>2, <1>3 DEF Live
  <2> QED
    BY <2>2, <2>3, <2>4
<1> QED
  BY <1>4, <1>5, <1>6, <1>7

\* Each request is of the task that the one before it points to.
LEMMA WalkStep ==
  ASSUME TypeOK, TypeOK',
         NEW c \in 0 .. NumTasks, NEW d \in 0 .. NumTasks, NEW F \in SUBSET Task,
         Chain(c, d, F), Walk
  PROVE  Chain(c, d, F)'
<1> USE Kinds DEF Chain
<1>1. /\ handler = "walk" /\ handler' = "walk" /\ pos # ListHead
      /\ send_wr' = Append(send_wr, pos) /\ pos' = next[pos]
      /\ touched' = touched \cup (freed \cap {pos})
      /\ UNCHANGED <<next, prev, created, new, last, adding>>
      /\ UNCHANGED <<n, before, after, posts, freed>>
  BY DEF Walk, InLoop, Touch, addVars
<1>2. Fresh' = Fresh /\ Posted' = Posted
  BY <1>1 DEF Fresh, Posted
<1>3. \A x \in Node : /\ Next1(x)' = next[x] /\ Prev1(x)' = prev[x]
                      /\ Next1(x) = next[x] /\ Prev1(x) = prev[x]
  BY <1>1 DEF Next1, Prev1, Deleting, Unlinking
<1>4. Creation(c, d)' /\ Pointing' /\ Ordered(d)' /\ Arguments(d)'
  BY <1>1, <1>2 DEF Creation, Pointing, Ordered, Arguments, Deleting
<1>5. Back' /\ Unposted(F)' /\ AtHead(F)'
  BY <1>1, <1>2, <1>3 DEF Back, Unposted, AtHead, Unlinking
<1>6. pos \in F /\ pos \in Task
  BY <1>1 DEF Walked
<1>7. Walked(d, F)'
  <2> DEFINE k == Len(send_wr)
  <2>1. next[pos] \in F \cup {ListHead} /\ next[pos] # pos
    BY <1>3, <1>6 DEF Unposted
  <2>2. next[pos] # ListHead => prev[next[pos]] = pos /\ Earlier(d, pos, next[pos])
    <3>1. next[pos] # ListHead => next[pos] \in Task /\ prev[next[pos]] = pos
      <4>1. next[pos] # ListHead => next[pos] \in Task /\ next[pos] \in Node
        BY <2>1
      <4>2. Next1(pos) = next[pos] /\ pos \in Node
        BY <1>3, <1>6
      <4>3. next[pos] # ListHead => Prev1(next[pos]) = pos
        BY <2>1, <4>1, <4>2 DEF Back
      <4> QED
        BY <1>3, <4>1, <4>3
    <3>2. next[pos] # ListHead => Earlier(d, pos, next[pos])
      BY <1>6, <2>1 DEF Ordered
    <3> QED
      BY <3>1, <3>2
  <2>3. /\ k \in Nat /\ Len(send_wr') = k + 1
        /\ send_wr'[k + 1] = pos
        /\ \A i \in 1 .. k : send_wr'[i] = send_wr[i]
    BY <1>1, <1>6 DEF TypeOK
  <2>4. ASSUME NEW i \in 1 .. k + 1
        PROVE  /\ send_wr'[i] \in F
               /\ prev[send_wr'[i]] = IF i = 1 THEN ListHead ELSE send_wr'[i - 1]
               /\ \A j \in 1 .. i - 1 : Earlier(d, send_wr'[j], send_wr'[i])
               /\ next[pos] # ListHead => Earlier(d, send_wr'[i], next[pos])
    <3>1. CASE i = k + 1
      <4>1. prev[pos] = IF k = 0 THEN ListHead ELSE send_wr[k]
        BY <1>1 DEF Walked
      <4>2. i = 1 <=> k = 0
        BY <2>3, <3>1
      <4>3. k # 0 => k \in 1 .. k /\ i - 1 = k
        BY <2>3, <3>1
      <4>4. \A j \in 1 .. i - 1 : j \in 1 .. k
        BY <2>3, <3>1
      <4>5. \A j \in 1 .. k : Earlier(d, send_wr[j], pos)
        BY <1>1 DEF Walked
      <4> QED
        BY <1>6, <2>2, <2>3, <3>1, <4>1, <4>2, <4>3, <4>4, <4>5
    <3>2. CASE i \in 1 .. k
      <4>1. /\ send_wr[i] \in F /\ Earlier(d, send_wr[i], pos)
            /\ prev[send_wr[i]] = IF i = 1 THEN ListHead ELSE send_wr[i - 1]
            /\ \A j \in 1 .. i - 1 : Earlier(d, send_wr[j], send_wr[i])
        BY <1>1, <3>2 DEF Walked
      <4>2. \A j \in 1 .. i - 1 : j \in 1 .. k
        BY <2>3, <3>2
      <4>3. i # 1 => i - 1 \in 1 .. k
        BY <2>3, <3>2
      <4>4. next[pos] # ListHead => Earlier(d, send_wr[i], next[pos])
        BY ZenonT(60), <1>6, <2>1, <2>2, <4>1, EarlierOrder
      <4> QED
        BY <2>3, <3>2, <4>1, <4>2, <4>3, <4>4
    <3> QED
      BY <2>3, <3>1, <3>2
  <2>5. Len(send_wr') # 0 /\ send_wr'[Len(send_wr')] = pos
    BY <2>3
  <2> QED
    BY <1>1, <2>1, <2>2, <2>3, <2>4, <2>5 DEF Walked
<1>8. BeforePosted' /\ AtCursor(F)' /\ Live'
  <2>1. ASSUME NEW i \in 1 .. Len(posts)
        PROVE  Prev1(posts[i])' = Prev1(posts[i])
    <3>1. posts[i] \in Task /\ posts' = posts
      BY <1>1 DEF TypeOK
    <3> QED
      BY <1>1, <3>1 DEF Prev1, Unlinking
  <2>2. BeforePosted'
    BY <1>1, <1>2, <2>1 DEF BeforePosted
  <2>3. AtCursor(F)'
    BY <1>1 DEF AtCursor, Unlinking
  <2>4. pos \notin freed
    BY <1>6 DEF Unposted, Live
  <2>5. Live'
    BY <1>1, <1>2, <1>3, <2>4 DEF Live
  <2> QED
    BY <2>2, <2>3, <2>5
<1> QED
  BY <1>4, <1>5, <1>7, <1>8

\* What is posted leaves F.  What is linked from now on is in F again, so that in
\* the end the head points into F, however much the unlinking loop finds.
LEMMA PostStep ==
  ASSUME Prefixes \subseteq {0}, TypeOK, TypeOK', PostedOnceInOrder,
         NEW c \in 0 .. NumTasks, NEW d \in 0 .. NumTasks, NEW F \in SUBSET Task,
         Chain(c, d, F), Post
  PROVE  PostedOnceInOrder' /\ \E G \in SUBSET Task : Chain(c, d, G)'
<1> USE Kinds DEF Chain
<1>1. /\ handler = "walk" /\ pos = ListHead /\ pos' = next[ListHead]
      /\ UNCHANGED <<next, prev, created, new, last, adding>>
      /\ UNCHANGED <<n, before, after, send_wr, touched, freed>>
  BY DEF Post, addVars
<1>2. PICK ok \in BOOLEAN, k \in Prefixes \cup {Len(send_wr)} :
        /\ IF ok THEN k = Len(send_wr) ELSE k \in Prefixes /\ k < Len(send_wr)
        /\ posts' = posts \o SubSeq(send_wr, 1, k)
        /\ handler' = AfterPost(ok)
  BY DEF Post
<1>3. Fresh' = Fresh
  BY <1>1 DEF Fresh
<1>4. handler' \in {"save", "idle"}
  BY <1>2 DEF AfterPost
<1>5. \A x \in Node : /\ Next1(x)' = next[x] /\ Prev1(x)' = prev[x]
                      /\ Next1(x) = next[x] /\ Prev1(x) = prev[x]
  BY <1>1, <1>4 DEF Next1, Prev1, Deleting, Unlinking
<1>6. Creation(c, d)' /\ Pointing' /\ Ordered(d)' /\ Arguments(d)'
  BY <1>1, <1>3, <1>4 DEF Creation, Pointing, Ordered, Arguments, Deleting
<1>7. Back'
  BY <1>5, BackKept
<1>8. CASE ~ok
  <2>1. posts' = posts /\ handler' = "idle"
    <3>1. k = 0
      BY <1>2, <1>8
    <3>2. SubSeq(send_wr, 1, 0) = << >>
      BY DEF TypeOK
    <3>3. posts \o << >> = posts
      BY DEF TypeOK
    <3> QED
      BY <1>2, <1>8, <3>1, <3>2, <3>3 DEF AfterPost
  <2>2. Posted' = Posted
    BY <2>1 DEF Posted
  <2>3. Unposted(F)' /\ AtHead(F)' /\ Walked(d, F)' /\ AtCursor(F)'
    BY <1>1, <1>3, <1>5, <2>1, <2>2 DEF Unposted, AtHead, Walked, AtCursor, Unlinking
  <2>4. BeforePosted'
    <3>1. ASSUME NEW i \in 1 .. Len(posts)
          PROVE  Prev1(posts[i])' = Prev1(posts[i])
      <4>1. posts[i] \in Task
        BY DEF TypeOK
      <4> QED
        BY <1>1, <2>1, <4>1 DEF Prev1, Unlinking
    <3> QED
      BY <1>3, <2>1, <2>2, <3>1 DEF BeforePosted
  <2>5. Live'
    BY <1>1, <1>5, <2>2 DEF Live
  <2>6. PostedOnceInOrder'
    BY <2>1 DEF PostedOnceInOrder
  <2> QED
    BY <1>6, <1>7, <2>3, <2>4, <2>5, <2>6
<1>9. CASE ok
  <2> DEFINE m == Len(posts)
             h == Len(send_wr)
  <2>1. posts' = posts \o send_wr /\ handler' = "save"
    <3>1. k = Len(send_wr) /\ SubSeq(send_wr, 1, Len(send_wr)) = send_wr
      BY <1>2, <1>9 DEF TypeOK
    <3> QED
      BY <1>2, <1>9, <3>1 DEF AfterPost
  <2>2. /\ m \in Nat /\ h \in Nat /\ Len(posts') = m + h
        /\ \A i \in 1 .. m : posts'[i] = posts[i] /\ posts[i] \in Task
        /\ \A i \in 1 .. h : posts'[m + i] = send_wr[i] /\ send_wr[i] \in Task
    BY <2>1 DEF TypeOK
  <2>3. \A i \in 1 .. m + h : i \in 1 .. m \/ (i > m /\ i - m \in 1 .. h /\ m + (i - m) = i)
    BY <2>2
  <2>4. \A i \in 1 .. h :
          /\ send_wr[i] \in F /\ send_wr[i] \notin Posted \cup Fresh
          /\ prev[send_wr[i]] = IF i = 1 THEN ListHead ELSE send_wr[i - 1]
          /\ \A j \in 1 .. i - 1 : Earlier(d, send_wr[j], send_wr[i])
    BY <1>1 DEF Walked, Unposted
  <2>5. Posted' = Posted \cup {send_wr[i] : i \in 1 .. h}
    <3>1. Posted' = {posts'[i] : i \in 1 .. m + h}
      BY <2>2 DEF Posted
    <3>2. \A i \in 1 .. m : i \in 1 .. m + h
      BY <2>2
    <3>3. \A i \in 1 .. h : m + i \in 1 .. m + h
      BY <2>2
    <3>4. ASSUME NEW x \in Posted' PROVE x \in Posted \cup {send_wr[i] : i \in 1 .. h}
      <4>1. PICK i \in 1 .. m + h : x = posts'[i]
        BY <3>1
      <4>2. CASE i \in 1 .. m
        BY <2>2, <4>1, <4>2 DEF Posted
      <4>3. CASE i - m \in 1 .. h /\ m + (i - m) = i
        <5>1. posts'[m + (i - m)] = send_wr[i - m]
          BY <2>2, <4>3
        <5> QED
          BY <4>1, <4>3, <5>1
      <4> QED
        BY <2>3, <4>2, <4>3
    <3>5. \A x \in Posted : x \in Posted'
      BY <2>2, <3>1, <3>2 DEF Posted
    <3>6. \A i \in 1 .. h : send_wr[i] \in Posted'
      BY <2>2, <3>1, <3>3
    <3> QED
      BY <3>4, <3>5, <3>6
  <2>6. PostedOnceInOrder'
    <3>1. SUFFICES ASSUME NEW i \in 1 .. m + h, NEW j \in 1 .. m + h, i < j
          PROVE  /\ posts'[i] # posts'[j]
                 /\ {posts'[i], posts'[j]} \subseteq MainTask => posts'[i] < posts'[j]
      BY <2>2 DEF PostedOnceInOrder
    <3>2. CASE j \in 1 .. m
      <4>1. i \in 1 .. m
        BY <2>2, <3>1, <3>2
      <4> QED
        BY <2>2, <3>1, <3>2, <4>1 DEF PostedOnceInOrder
    <3>3. CASE i \in 1 .. m /\ j - m \in 1 .. h /\ m + (j - m) = j
      <4>1. posts'[i] \in Posted
        BY <2>2, <3>3 DEF Posted
      <4>2. posts'[j] \in F /\ posts'[j] \notin Posted
        <5>1. posts'[m + (j - m)] = send_wr[j - m]
          BY <2>2, <3>3
        <5> QED
          BY <2>4, <3>3, <5>1
      <4> QED
        BY <4>1, <4>2 DEF Unposted
    <3>4. CASE i > m /\ i - m \in 1 .. h /\ m + (i - m) = i /\ j - m \in 1 .. h /\ m + (j - m) = j
      <4>1. posts'[i] = send_wr[i - m] /\ posts'[j] = send_wr[j - m]
        BY <2>2, <3>4
      <4>2. i - m \in 1 .. (j - m) - 1
        BY <2>2, <3>1, <3>4
      <4>3. Earlier(d, send_wr[i - m], send_wr[j - m])
        BY <2>4, <3>4, <4>2
      <4>4. send_wr[i - m] \in Task /\ send_wr[j - m] \in Task
        BY <2>2, <3>4
      <4> QED
        BY <4>1, <4>3, <4>4, EarlierOrder
    <3> QED
      BY <2>2, <2>3, <3>1, <3>2, <3>3, <3>4
  <2>7. BeforePosted'
    <3>1. Posted' \cap Fresh' = {}
      BY <1>3, <2>4, <2>5 DEF BeforePosted
    <3>2. ASSUME NEW i \in 1 .. m + h
          PROVE  prev[posts'[i]] \in {ListHead, posts'[i]} \cup {posts'[j] : j \in 1 .. i - 1}
      <4>1. CASE i \in 1 .. m
        <5>1. prev[posts[i]] \in {ListHead, posts[i]} \cup {posts[j] : j \in 1 .. i - 1}
          BY <1>5, <2>2, <4>1 DEF BeforePosted
        <5>2. \A j \in 1 .. i - 1 : j \in 1 .. m
          BY <2>2, <4>1
        <5> QED
          BY <2>2, <4>1, <5>1, <5>2
      <4>2. CASE i - m \in 1 .. h /\ m + (i - m) = i
        <5>1. posts'[i] = send_wr[i - m]
          BY <2>2, <4>2
        <5>2. prev[posts'[i]] = IF i - m = 1 THEN ListHead ELSE send_wr[(i - m) - 1]
          BY <2>4, <4>2, <5>1
        <5>3. CASE i - m = 1
          BY <5>2, <5>3
        <5>4. CASE i - m # 1
          <6>1. (i - m) - 1 \in 1 .. h /\ m + ((i - m) - 1) = i - 1 /\ i - 1 \in 1 .. i - 1
            BY <2>2, <4>2, <5>4
          <6>2. posts'[i - 1] = send_wr[(i - m) - 1]
            BY <2>2, <6>1
          <6> QED
            BY <5>2, <5>4, <6>1, <6>2
        <5> QED
          BY <5>3, <5>4
      <4> QED
        BY <2>3, <4>1, <4>2
    <3>3. \A i \in 1 .. m + h : Prev1(posts[i])' = prev[posts'[i]]
      BY <1>1, <2>1 DEF Prev1, Unlinking
    <3>4. ASSUME NEW i \in 1 .. Len(posts')
          PROVE  Prev1(posts[i])' \in {ListHead, posts'[i]} \cup {posts'[j] : j \in 1 .. i - 1}
      <4>1. i \in 1 .. m + h
        BY <2>2
      <4>2. Prev1(posts[i])' = prev[posts'[i]]
        BY <3>3, <4>1
      <4>3. prev[posts'[i]] \in {ListHead, posts'[i]} \cup {posts'[j] : j \in 1 .. i - 1}
        BY <3>2, <4>1
      <4> QED
        BY <4>2, <4>3
    <3> QED
      BY <3>1, <3>4 DEF BeforePosted
  <2>8. Unposted({})' /\ AtHead({})' /\ Walked(d, {})'
    BY <1>1, <2>1 DEF Unposted, AtHead, Walked, Unlinking
  <2>9. AtCursor({})'
    <3>1. CASE pos' = ListHead
      BY <2>1, <3>1 DEF AtCursor, Removable, Unlinking
    <3>2. CASE pos' # ListHead
      <4>1. pos' \in F /\ pos' \in Task /\ next[ListHead] = pos'
        BY <1>1, <3>2 DEF AtHead
      <4>2. pos' \notin Fresh \cup freed
        BY <4>1 DEF Unposted, Live
      <4>3. Next1(ListHead) = pos' /\ ListHead # pos'
        BY <1>5, <4>1
      <4>4. Prev1(pos') = ListHead /\ Next1(pos') # pos'
        BY <4>1, <4>3 DEF Back
      <4>5. prev[pos'] = ListHead /\ next[pos'] # pos'
        BY <1>5, <4>1, <4>4
      <4>6. ListHead \notin Fresh' \cup freed'
        BY <1>1, <1>3 DEF Fresh, Live, BeforePosted, TypeOK
      <4>7. Next1(pos)' = next[pos'] /\ Prev1(pos)' = prev[pos']
        BY <1>1, <2>1 DEF Next1, Prev1, Unlinking, Deleting
      <4> QED
        BY <1>1, <1>3, <2>1, <3>2, <4>2, <4>5, <4>6, <4>7 DEF AtCursor, Removable, Unlinking
    <3> QED
      BY <3>1, <3>2
  <2>10. Live'
    BY ZenonT(60), <1>1, <1>5, <2>5 DEF Live
  <2> QED
    BY <1>6, <1>7, <2>6, <2>7, <2>8, <2>9, <2>10
<1> QED
  BY <1>8, <1>9

\* The saved entry points back to the cursor, which is not freed.
LEMMA SaveStep ==
  ASSUME TypeOK, TypeOK',
         NEW c \in 0 .. NumTasks, NEW d \in 0 .. NumTasks, NEW F \in SUBSET Task,
         Chain(c, d, F), Save
  PROVE  Chain(c, d, F)'
<1> USE Kinds DEF Chain
<1>1. /\ handler = "save" /\ n' = next[pos]
      /\ handler' = IF pos = ListHead THEN "idle" ELSE "del"
      /\ touched' = touched \cup (freed \cap {pos})
      /\ UNCHANGED <<next, prev, created, new, last, adding>>
      /\ UNCHANGED <<pos, before, after, send_wr, posts, freed>>
  BY DEF Save, Touch, addVars
<1>2. Fresh' = Fresh /\ Posted' = Posted
  BY <1>1 DEF Fresh, Posted
<1>3. \A x \in Node : /\ Next1(x)' = next[x] /\ Prev1(x)' = prev[x]
                      /\ Next1(x) = next[x] /\ Prev1(x) = prev[x]
  BY <1>1 DEF Next1, Prev1, Deleting, Unlinking
<1>4. Creation(c, d)' /\ Pointing' /\ Ordered(d)' /\ Arguments(d)'
  BY <1>1, <1>2 DEF Creation, Pointing, Ordered, Arguments, Deleting
<1>5. Back'
  BY <1>3, BackKept
<1>6. Unposted(F)' /\ AtHead(F)' /\ Walked(d, F)'
  BY <1>1, <1>2, <1>3 DEF Unposted, AtHead, Walked, Unlinking
<1>7. BeforePosted'
  <2>1. ASSUME NEW i \in 1 .. Len(posts)
        PROVE  Prev1(posts[i])' = Prev1(posts[i])
    <3>1. posts[i] \in Task /\ posts' = posts
      BY <1>1 DEF TypeOK
    <3> QED
      BY <1>1, <3>1 DEF Prev1, Unlinking
  <2> QED
    BY <1>1, <1>2, <2>1 DEF BeforePosted
<1>8. pos \notin freed
  BY <1>1 DEF AtCursor, Removable, Live, BeforePosted, TypeOK
<1>9. Live'
  BY <1>1, <1>2, <1>3, <1>8 DEF Live
<1>10. AtCursor(F)'
  <2>1. CASE pos = ListHead
    BY <1>1, <2>1 DEF AtCursor, Unlinking
  <2>2. CASE pos # ListHead
    <3>1. handler' = "del" /\ pos \in Task /\ pos' = pos
      BY <1>1, <2>2 DEF TypeOK
    <3>2. Removable(F, pos)
      BY <1>1 DEF AtCursor
    <3>3. Removable(F, pos)'
      BY <1>1, <1>2, <1>3, <3>1, <3>2 DEF Removable
    <3>4. ASSUME next[pos] # ListHead
          PROVE  /\ next[pos] \notin Fresh \cup freed /\ next[pos] # pos
                 /\ next[next[pos]] # next[pos] /\ prev[next[pos]] = pos
      <4>1. next[pos] \in Task /\ next[pos] # pos /\ Next1(pos) = next[pos]
        BY <1>3, <2>2, <3>1, <3>2, <3>4 DEF TypeOK, Removable
      <4>2. Prev1(next[pos]) = pos /\ Next1(next[pos]) # next[pos]
        BY <3>1, <4>1 DEF Back
      <4>3. next[pos] \notin Fresh
        BY <3>1, <4>1 DEF Pointing
      <4>4. next[pos] \notin freed
        BY <1>8, <3>1, <4>1 DEF Live
      <4> QED
        BY <1>3, <4>1, <4>2, <4>3, <4>4
    <3> QED
      BY <1>1, <1>2, <2>2, <3>1, <3>3, <3>4 DEF AtCursor, Unlinking
  <2> QED
    BY <2>1, <2>2
<1> QED
  BY <1>4, <1>5, <1>6, <1>7, <1>9, <1>10

\* Only the entry at the cursor leaves F.  What points to it is what it points
\* back to, so nothing of F does when the deletion has its arguments.
LEMMA DelStep ==
  ASSUME TypeOK, TypeOK',
         NEW c \in 0 .. NumTasks, NEW d \in 0 .. NumTasks, NEW F \in SUBSET Task,
         Chain(c, d, F), Del
  PROVE  \E G \in SUBSET Task : Chain(c, d, G)'
<1> USE Kinds DEF Chain
<1>0. PICK b \in Node, a \in Node : b = prev[pos] /\ a = next[pos]
  BY DEF TypeOK
<1> DEFINE G == F \ {pos}
<1>1. /\ handler = "del" /\ handler' = "del_back" /\ before' = b /\ after' = a
      /\ touched' = touched \cup (freed \cap {pos})
      /\ UNCHANGED <<next, prev, created, new, last, adding>>
      /\ UNCHANGED <<pos, n, send_wr, posts, freed>>
  BY <1>0 DEF Del, Touch, addVars
<1>2. Fresh' = Fresh /\ Posted' = Posted
  BY <1>1 DEF Fresh, Posted
<1>3. \A x \in Node : Next1(x) = next[x] /\ Prev1(x) = prev[x]
  BY <1>1 DEF Next1, Prev1, Deleting, Unlinking
<1>4. ListHead \notin Fresh \cup freed
  BY DEF Fresh, Live, BeforePosted, TypeOK
<1>5. /\ pos \in Task /\ pos \notin Fresh \cup freed
      /\ a # pos /\ b # pos /\ b \notin Fresh \cup freed
      /\ pos \notin F => b \notin F
  <2>1. pos \in Task /\ Removable(F, pos)
    BY <1>1 DEF AtCursor, TypeOK
  <2> QED
    BY <1>0, <1>3, <2>1 DEF Removable
<1>6. /\ a \notin Fresh \cup freed
      /\ a # ListHead => prev[a] = pos /\ next[a] # a
  <2>1. a # ListHead => a \in Task /\ a \notin Fresh
    BY <1>0, <1>5 DEF Pointing
  <2>2. a \notin freed
    BY <1>0, <1>3, <1>5 DEF Live
  <2>3. a # ListHead => Prev1(a) = pos /\ Next1(a) # a
    BY <1>0, <1>3, <1>5, <2>1 DEF Back
  <2> QED
    BY <1>3, <1>4, <2>1, <2>2, <2>3
<1>7. /\ b = ListHead \/ a = ListHead \/ Earlier(d, b, a)
      /\ a = b => a = ListHead
  <2>1. b # ListHead => b \in Task /\ Earlier(d, b, pos)
    BY <1>0, <1>5 DEF Ordered
  <2>2. a # ListHead => a \in Task /\ Earlier(d, pos, a)
    BY <1>0, <1>5 DEF Ordered
  <2> QED
    BY <1>5, <2>1, <2>2, EarlierOrder
<1>8. /\ Next1(b)' = a /\ Prev1(a)' = b
      /\ \A x \in Node : x = pos => Next1(x)' = x /\ Prev1(x)' = x
      /\ \A x \in Node : x \notin {b, pos} => Next1(x)' = next[x]
      /\ \A x \in Node : x \notin {a, pos} => Prev1(x)' = prev[x]
  BY <1>0, <1>1, <1>5 DEF Next1, Prev1, Deleting, Unlinking
<1>9. \A x \in Node : x # b => next[x] # pos \/ x = pos
  BY <1>0, <1>3, <1>5 DEF Back
<1>10. G \in SUBSET Task
  OBVIOUS
<1>11. Creation(c, d)' /\ Pointing' /\ Ordered(d)' /\ Walked(d, G)'
  BY <1>1, <1>2 DEF Creation, Pointing, Ordered, Walked
<1>12. Arguments(d)'
  BY <1>1, <1>2, <1>5, <1>6, <1>7 DEF Arguments
<1>13. Back'
  <2> SUFFICES ASSUME NEW x \in Node, NEW y \in Task, Next1(x)' = y, x # y
               PROVE  Prev1(y)' = x /\ Next1(y)' # y
    BY DEF Back
  <2>1. CASE x = b
    BY <1>5, <1>6, <1>7, <1>8, <2>1
  <2>2. CASE x = pos
    BY <1>8, <2>2
  <2>3. CASE x \notin {b, pos}
    <3>1. next[x] = y /\ y # pos
      BY <1>8, <1>9, <2>3
    <3>2. prev[y] = x /\ next[y] # y
      BY <1>3, <3>1 DEF Back
    <3>3. y # a
      BY <1>6, <2>3, <3>2
    <3> QED
      BY <1>7, <1>8, <3>1, <3>2, <3>3
  <2> QED
    BY <2>1, <2>2, <2>3
<1>14. Unposted(G)'
  <2> SUFFICES ASSUME NEW x \in G PROVE Next1(x)' \in G \cup {ListHead} /\ Next1(x)' # x
    BY <1>1, <1>2 DEF Unposted
  <2>1. next[x] \in F \cup {ListHead} /\ next[x] # x
    BY <1>3 DEF Unposted
  <2>2. CASE x = b
    <3>1. pos \in F /\ a \in F \cup {ListHead}
      BY <1>0, <1>3, <1>5, <2>2 DEF Unposted
    <3> QED
      BY <1>5, <1>7, <1>8, <2>2, <3>1
  <2>3. CASE x # b
    BY <1>8, <1>9, <2>1, <2>3
  <2> QED
    BY <2>2, <2>3
<1>15. AtHead(G)'
  <2>1. next[ListHead] \in F \cup {ListHead, pos} /\ a \in F \cup {ListHead, n}
    BY <1>0, <1>1 DEF AtHead
  <2>2. Next1(ListHead)' \in G \cup {ListHead, n}
    <3>1. CASE b = ListHead
      BY <1>5, <1>8, <2>1, <3>1
    <3>2. CASE b # ListHead
      BY <1>5, <1>8, <1>9, <2>1, <3>2
    <3> QED
      BY <3>1, <3>2
  <2> QED
    BY <1>1, <2>2 DEF AtHead
<1>16. BeforePosted'
  <2>1. ASSUME NEW i \in 1 .. Len(posts)
        PROVE  Prev1(posts[i])' \in {ListHead, posts[i]} \cup {posts[j] : j \in 1 .. i - 1}
    <3>1. posts[i] \in Task /\ posts' = posts
      BY <1>1 DEF TypeOK
    <3>2. prev[posts[i]] \in {ListHead, posts[i]} \cup {posts[j] : j \in 1 .. i - 1}
      BY <1>3, <3>1 DEF BeforePosted
    <3>3. CASE posts[i] = a
      <4>1. PICK j \in 1 .. i - 1 : posts[j] = pos
        BY <1>5, <1>6, <3>1, <3>2, <3>3
      <4>2. j \in 1 .. Len(posts)
        OBVIOUS
      <4>3. b \in {ListHead, pos} \cup {posts[k] : k \in 1 .. j - 1}
        BY <1>0, <1>3, <1>5, <4>1, <4>2 DEF BeforePosted
      <4>4. \A k \in 1 .. j - 1 : k \in 1 .. i - 1
        OBVIOUS
      <4> QED
        BY <1>8, <3>1, <3>3, <4>1, <4>3, <4>4
    <3>4. CASE posts[i] = pos
      BY <1>8, <3>1, <3>4
    <3>5. CASE posts[i] \notin {a, pos}
      BY <1>8, <3>1, <3>2, <3>5
    <3> QED
      BY <3>3, <3>4, <3>5
  <2> QED
    BY <1>1, <1>2, <2>1 DEF BeforePosted
<1>17. AtCursor(G)'
  <2>0. PICK e \in Node : e = n
    BY DEF TypeOK
  <2>1. /\ e # pos
        /\ e # ListHead => e \in Task /\ e \notin Fresh \cup freed /\ next[e] # e /\ prev[e] = pos
    BY <1>1, <1>5, <2>0 DEF AtCursor
  <2>2. ASSUME e # ListHead
        PROVE  /\ Next1(e)' # e /\ Prev1(e)' # e
               /\ Prev1(e)' \notin Fresh \cup freed
               /\ e \notin G => Prev1(e)' \notin G
    <3>1. Next1(e)' # e
      BY <1>7, <1>8, <2>1, <2>2
    <3>2. CASE e = a
      <4>1. pos \in F => a \in F
        BY <1>0, <1>3, <2>2, <3>2 DEF Unposted
      <4>2. Prev1(e)' = b
        BY <1>8, <3>2
      <4> QED
        BY <1>5, <1>7, <2>1, <2>2, <3>1, <3>2, <4>1, <4>2
    <3>3. CASE e # a
      <4>1. Prev1(e)' = pos
        BY <1>8, <2>1, <2>2, <3>3
      <4> QED
        BY <1>5, <2>1, <2>2, <3>1, <3>3, <4>1
    <3> QED
      BY <3>2, <3>3
  <2>3. Removable(G, n)'
    <3>1. Next1(n)' = Next1(e)' /\ Prev1(n)' = Prev1(e)' /\ n' = e
      BY <1>1, <2>0
    <3> QED
      BY <1>1, <1>2, <2>0, <2>1, <2>2, <3>1 DEF Removable
  <2> QED
    BY <1>1, <1>2, <1>5, <2>0, <2>1, <2>3 DEF AtCursor
<1>18. Live'
  <2>1. ASSUME NEW x \in Task \ freed PROVE Next1(x)' \notin freed
    <3>1. next[x] \notin freed
      BY <1>3 DEF Live
    <3>2. Next1(x)' \in {a, x, next[x]}
      BY <1>8
    <3> QED
      BY <1>6, <3>1, <3>2
  <2> QED
    BY <1>1, <1>2, <1>5, <2>1 DEF Live
<1> QED
  BY <1>10, <1>11, <1>12, <1>13, <1>14, <1>15, <1>16, <1>17, <1>18

\* The two assignments of __list_del do what Del has settled.
LEMMA DelBackStep ==
  ASSUME TypeOK, TypeOK',
         NEW c \in 0 .. NumTasks, NEW d \in 0 .. NumTasks, NEW F \in SUBSET Task,
         Chain(c, d, F), DelBack
  PROVE  Chain(c, d, F)'
<1> USE Kinds DEF Chain
<1>1. /\ handler = "del_back" /\ handler' = "del_front"
      /\ prev' = [prev EXCEPT ![after] = before]
      /\ touched' = touched \cup (freed \cap {after})
      /\ UNCHANGED <<next, created, new, last, adding>>
      /\ UNCHANGED <<pos, n, before, after, send_wr, posts, freed>>
  BY DEF DelBack, Touch, addVars
<1>2. Fresh' = Fresh /\ Posted' = Posted
  BY <1>1 DEF Fresh, Posted
<1>3. /\ before = ListHead \/ after = ListHead \/ Earlier(d, before, after)
      /\ before \notin Fresh \cup freed \cup {pos}
      /\ after \notin Fresh \cup freed \cup {pos}
      /\ before \in Node /\ after \in Node
  BY <1>1 DEF Arguments, Deleting, TypeOK
<1>4. /\ prev'[after] = before
      /\ \A x \in Node : x # after => prev'[x] = prev[x]
  BY <1>1, <1>3 DEF TypeOK
<1>5. \A x \in Node : Next1(x)' = Next1(x) /\ Prev1(x)' = Prev1(x)
  BY <1>1, <1>3, <1>4 DEF Next1, Prev1, Deleting, Unlinking
<1>6. before \in {ListHead} \cup created /\ after \in {ListHead} \cup created
  BY <1>3 DEF Fresh
<1>7. Creation(c, d)' /\ Pointing' /\ Ordered(d)' /\ Arguments(d)'
  <2>1. Creation(c, d)' /\ Arguments(d)'
    BY <1>1, <1>2, <1>3 DEF Creation, Arguments
  <2>2. Pointing'
    BY <1>1, <1>2, <1>3, <1>4, <1>6 DEF Pointing
  <2>3. Ordered(d)'
    BY <1>1, <1>3, <1>4 DEF Ordered
  <2> QED
    BY <2>1, <2>2, <2>3
<1>8. Back'
  BY <1>5, BackKept
<1>9. Unposted(F)' /\ AtHead(F)' /\ Walked(d, F)'
  BY <1>1, <1>2, <1>5 DEF Unposted, AtHead, Walked, Unlinking
<1>10. BeforePosted'
  <2>1. \A i \in 1 .. Len(posts) : Prev1(posts[i])' = Prev1(posts[i])
    <3>1. \A i \in 1 .. Len(posts) : posts[i] \in Node
      BY DEF TypeOK
    <3>2. posts' = posts
      BY <1>1
    <3> QED
      BY <1>5, <3>1, <3>2
  <2> QED
    BY <1>1, <1>2, <2>1 DEF BeforePosted
<1>11. AtCursor(F)' /\ Live'
  <2>1. Removable(F, n) => Removable(F, n)'
    BY <1>1, <1>2, <1>5 DEF Removable, TypeOK
  <2>2. AtCursor(F)'
    BY <1>1, <1>2, <2>1 DEF AtCursor, Unlinking
  <2>3. Live'
    BY <1>1, <1>2, <1>3, <1>5 DEF Live
  <2> QED
    BY <2>2, <2>3
<1> QED
  BY <1>7, <1>8, <1>9, <1>10, <1>11

LEMMA DelFrontStep ==
  ASSUME TypeOK, TypeOK',
         NEW c \in 0 .. NumTasks, NEW d \in 0 .. NumTasks, NEW F \in SUBSET Task,
         Chain(c, d, F), DelFront
  PROVE  Chain(c, d, F)'
<1> USE Kinds DEF Chain
<1>1. /\ handler = "del_front" /\ handler' = "init"
      /\ next' = [next EXCEPT ![before] = after]
      /\ touched' = touched \cup (freed \cap {before})
      /\ UNCHANGED <<prev, created, new, last, adding>>
      /\ UNCHANGED <<pos, n, before, after, send_wr, posts, freed>>
  BY DEF DelFront, Touch, addVars
<1>2. Fresh' = Fresh /\ Posted' = Posted
  BY <1>1 DEF Fresh, Posted
<1>3. /\ before = ListHead \/ after = ListHead \/ Earlier(d, before, after)
      /\ before \notin Fresh \cup freed \cup {pos}
      /\ after \notin Fresh \cup freed \cup {pos}
      /\ before \in Node /\ after \in Node
  BY <1>1 DEF Arguments, Deleting, TypeOK
<1>4. /\ next'[before] = after
      /\ \A x \in Node : x # before => next'[x] = next[x]
  BY <1>1, <1>3 DEF TypeOK
<1>5. \A x \in Node : Next1(x)' = Next1(x) /\ Prev1(x)' = Prev1(x)
  BY <1>1, <1>3, <1>4 DEF Next1, Prev1, Deleting, Unlinking
<1>6. Creation(c, d)' /\ Pointing' /\ Ordered(d)' /\ Arguments(d)'
  <2>1. Creation(c, d)' /\ Arguments(d)'
    BY <1>1, <1>2 DEF Creation, Arguments, Deleting
  <2>2. \A x \in Task \ created : x \in Fresh
    BY DEF Fresh
  <2>3. Pointing'
    BY <1>1, <1>2, <1>3, <1>4, <2>2 DEF Pointing
  <2>4. Ordered(d)'
    BY <1>1, <1>3, <1>4 DEF Ordered
  <2> QED
    BY <2>1, <2>3, <2>4
<1>7. Back'
  BY <1>5, BackKept
<1>8. Unposted(F)' /\ AtHead(F)' /\ Walked(d, F)'
  BY <1>1, <1>2, <1>5 DEF Unposted, AtHead, Walked, Unlinking
<1>9. BeforePosted'
  <2>1. \A i \in 1 .. Len(posts) : Prev1(posts[i])' = Prev1(posts[i])
    <3>1. \A i \in 1 .. Len(posts) : posts[i] \in Node
      BY DEF TypeOK
    <3>2. posts' = posts
      BY <1>1
    <3> QED
      BY <1>5, <3>1, <3>2
  <2> QED
    BY <1>1, <1>2, <2>1 DEF BeforePosted
<1>10. AtCursor(F)' /\ Live'
  <2>1. Removable(F, n) => Removable(F, n)'
    BY <1>1, <1>2, <1>5 DEF Removable, TypeOK
  <2>2. AtCursor(F)'
    BY <1>1, <1>2, <2>1 DEF AtCursor, Unlinking
  <2>3. Live'
    BY <1>1, <1>2, <1>3, <1>5 DEF Live
  <2> QED
    BY <2>2, <2>3
<1> QED
  BY <1>6, <1>7, <1>8, <1>9, <1>10

\* The entry becomes a list of its own, also when main has linked one behind it
\* meanwhile, and the loop goes on with the saved one.
LEMMA InitEntryStep ==
  ASSUME TypeOK, TypeOK',
         NEW c \in 0 .. NumTasks, NEW d \in 0 .. NumTasks, NEW F \in SUBSET Task,
         Chain(c, d, F), InitEntry
  PROVE  Chain(c, d, F)'
<1> USE Kinds DEF Chain
<1>1. /\ handler = "init" /\ handler' = "save" /\ pos' = n
      /\ next' = [next EXCEPT ![pos] = pos]
      /\ prev' = [prev EXCEPT ![pos] = pos]
      /\ touched' = touched \cup (freed \cap {pos})
      /\ UNCHANGED <<created, new, last, adding>>
      /\ UNCHANGED <<n, before, after, send_wr, posts, freed>>
  BY DEF InitEntry, Touch, NextEntry, addVars
<1>2. Fresh' = Fresh /\ Posted' = Posted
  BY <1>1 DEF Fresh, Posted
<1>3. /\ pos \in Task /\ pos \notin F \cup Fresh \cup freed
      /\ Removable(F, n)
  BY <1>1 DEF AtCursor, Unlinking, TypeOK
<1>4. /\ next'[pos] = pos /\ prev'[pos] = pos
      /\ \A x \in Node : x # pos => next'[x] = next[x] /\ prev'[x] = prev[x]
  BY <1>1, <1>3 DEF TypeOK
<1>5. \A x \in Node : /\ next'[x] = Next1(x) /\ prev'[x] = Prev1(x)
                      /\ Next1(x)' = Next1(x) /\ Prev1(x)' = Prev1(x)
  BY <1>1, <1>4 DEF Next1, Prev1, Deleting, Unlinking
<1>6. Creation(c, d)' /\ Pointing' /\ Ordered(d)' /\ Arguments(d)'
  <2>1. Creation(c, d)' /\ Arguments(d)'
    BY <1>1, <1>2 DEF Creation, Arguments, Deleting
  <2>2. Pointing'
    BY <1>1, <1>2, <1>3, <1>4 DEF Pointing, Fresh
  <2>3. Ordered(d)'
    BY <1>1, <1>3, <1>4 DEF Ordered
  <2> QED
    BY <2>1, <2>2, <2>3
<1>7. Back'
  BY <1>5, BackKept
<1>8. Unposted(F)' /\ AtHead(F)' /\ Walked(d, F)'
  <2>1. next'[ListHead] \in F \cup {ListHead, n}
    BY <1>1, <1>5 DEF AtHead, Unlinking
  <2> QED
    BY <1>1, <1>2, <1>5, <2>1 DEF Unposted, AtHead, Walked, Unlinking
<1>9. BeforePosted'
  <2>1. \A i \in 1 .. Len(posts) : Prev1(posts[i])' = Prev1(posts[i])
    <3>1. \A i \in 1 .. Len(posts) : posts[i] \in Node
      BY DEF TypeOK
    <3>2. posts' = posts
      BY <1>1
    <3> QED
      BY <1>5, <3>1, <3>2
  <2> QED
    BY <1>1, <1>2, <2>1 DEF BeforePosted
<1>10. AtCursor(F)' /\ Live'
  <2>1. n \in Node
    BY DEF TypeOK
  <2>2. Removable(F, pos)'
    <3>1. Next1(pos)' = Next1(n) /\ Prev1(pos)' = Prev1(n)
      <4>1. Next1(pos)' = next'[n] /\ Prev1(pos)' = prev'[n]
        BY <1>1 DEF Next1, Prev1, Deleting, Unlinking
      <4> QED
        BY <1>5, <2>1, <4>1
    <3> QED
      BY <1>1, <1>2, <1>3, <2>1, <3>1 DEF Removable
  <2>3. AtCursor(F)'
    BY <1>1, <2>2 DEF AtCursor, Unlinking
  <2>4. Live'
    BY <1>1, <1>2, <1>3, <1>5 DEF Live
  <2> QED
    BY <2>3, <2>4
<1> QED
  BY <1>6, <1>7, <1>8, <1>9, <1>10

\* The completions come in the order of the posts, so what pointed to a task
\* that is freed has been freed before.
LEMMA CompleteStep ==
  ASSUME TypeOK, TypeOK',
         NEW c \in 0 .. NumTasks, NEW d \in 0 .. NumTasks, NEW F \in SUBSET Task,
         Chain(c, d, F), Complete
  PROVE  Chain(c, d, F)'
<1> USE Kinds DEF Chain
<1>1. /\ handler = "idle"
      /\ UNCHANGED <<next, prev, created, new, last, adding>>
      /\ UNCHANGED <<handler, pos, n, before, after, send_wr, touched, posts>>
  BY DEF Complete, addVars, timerVars
<1>2. PICK i \in 1 .. Len(posts) :
        /\ \A j \in 1 .. i - 1 : posts[j] \in freed
        /\ freed' = freed \cup {posts[i]}
  BY DEF Complete
<1>3. Fresh' = Fresh /\ Posted' = Posted
  BY <1>1 DEF Fresh, Posted
<1>4. \A x \in Node : /\ Next1(x)' = next[x] /\ Prev1(x)' = prev[x]
                      /\ Next1(x) = next[x] /\ Prev1(x) = prev[x]
  BY <1>1 DEF Next1, Prev1, Deleting, Unlinking
<1>5. Creation(c, d)' /\ Pointing' /\ Ordered(d)' /\ Arguments(d)'
  BY <1>1, <1>3 DEF Creation, Pointing, Ordered, Arguments, Deleting
<1>6. Back'
  BY <1>4, BackKept
<1>7. Unposted(F)' /\ AtHead(F)' /\ Walked(d, F)' /\ AtCursor(F)'
  BY <1>1, <1>3, <1>4 DEF Unposted, AtHead, Walked, AtCursor, Unlinking
<1>8. BeforePosted'
  <2>1. ASSUME NEW k \in 1 .. Len(posts)
        PROVE  Prev1(posts[k])' = Prev1(posts[k])
    <3>1. posts[k] \in Node /\ posts' = posts
      BY <1>1 DEF TypeOK
    <3> QED
      BY <1>1, <3>1 DEF Prev1, Unlinking
  <2> QED
    BY <1>1, <1>3, <2>1 DEF BeforePosted
<1>9. Live'
  <2>1. posts[i] \in Posted /\ posts[i] \in Task
    BY DEF Posted, TypeOK
  <2>2. ASSUME NEW x \in Task \ freed', next[x] = posts[i] PROVE FALSE
    <3>1. x # posts[i] /\ x \notin freed
      BY <1>2, <2>2
    <3>2. prev[posts[i]] = x
      <4>1. Next1(x) = posts[i]
        BY <1>4, <2>2
      <4>2. Prev1(posts[i]) = x
        BY <2>1, <3>1, <4>1 DEF Back
      <4> QED
        BY <1>4, <2>1, <4>2
    <3>3. x \in {ListHead, posts[i]} \cup {posts[j] : j \in 1 .. i - 1}
      BY <1>4, <2>1, <3>2 DEF BeforePosted
    <3> QED
      BY <1>2, <3>1, <3>3
  <2>3. \A x \in Task \ freed' : Next1(x)' \notin freed'
    BY <1>2, <1>4, <2>2 DEF Live
  <2> QED
    BY <1>1, <1>2, <1>3, <2>1, <2>3 DEF Live
<1> QED
  BY <1>5, <1>6, <1>7, <1>8, <1>9

\* Nothing changes.
LEMMA StutterStep ==
  ASSUME TypeOK, TypeOK',
         NEW c \in 0 .. NumTasks, NEW d \in 0 .. NumTasks, NEW F \in SUBSET Task,
         Chain(c, d, F), UNCHANGED vars
  PROVE  Chain(c, d, F)'
<1> USE Kinds DEF Chain
<1>1. /\ UNCHANGED <<next, prev, created, new, last, adding>>
      /\ UNCHANGED <<handler, pos, n, before, after, send_wr, touched, posts, freed>>
  BY DEF vars, addVars, timerVars
<1>2. Creation(c, d)' /\ Pointing' /\ Ordered(d)' /\ Arguments(d)'
  BY <1>1 DEF Creation, Pointing, Ordered, Arguments, Deleting, Fresh
<1>3. Back' /\ Unposted(F)' /\ AtHead(F)' /\ Walked(d, F)'
  BY <1>1 DEF Back, Unposted, AtHead, Walked, Next1, Prev1, Deleting, Unlinking, Fresh, Posted
<1>4. BeforePosted' /\ AtCursor(F)' /\ Live'
  BY <1>1 DEF BeforePosted, AtCursor, Removable, Live, Next1, Prev1, Deleting, Unlinking,
              Fresh, Posted
<1> QED
  BY <1>2, <1>3, <1>4

-----------------------------------------------------------------------------
\* Every step of either thread keeps the invariant.
LEMMA InvStep == Prefixes \subseteq {0} /\ Inv /\ [Next]_vars => Inv'
<1> SUFFICES ASSUME Prefixes \subseteq {0}, Inv, [Next]_vars PROVE Inv'
  OBVIOUS
<1>1. TypeOK /\ PostedOnceInOrder /\ TypeOK'
  BY TypeStep DEF Inv
<1>2. PICK c \in 0 .. NumTasks, d \in 0 .. NumTasks, F \in SUBSET Task : Chain(c, d, F)
  BY DEF Inv
<1>3. ASSUME UNCHANGED posts PROVE PostedOnceInOrder'
  BY <1>1, <1>3 DEF PostedOnceInOrder
<1>4. ASSUME NEW t \in Thread, NEW task \in Task, Add(t, task) PROVE Inv'
  <2>1. \E a, b \in 0 .. NumTasks : Chain(a, b, F)'
    BY <1>1, <1>2, <1>4, AddStep
  <2> QED
    BY <1>1, <1>3, <1>4, <2>1 DEF Inv, Add
<1>5. ASSUME NEW t \in Thread, LinkBack(t) PROVE Inv'
  <2>1. Chain(c, d, F)'
    BY <1>1, <1>2, <1>5, LinkBackStep
  <2> QED
    BY <1>1, <1>3, <1>5, <2>1 DEF Inv, LinkBack
<1>6. ASSUME NEW t \in Thread, LinkFront(t) PROVE Inv'
  <2>1. \E G \in SUBSET Task : Chain(c, d, G)'
    BY <1>1, <1>2, <1>6, LinkFrontStep
  <2> QED
    BY <1>1, <1>3, <1>6, <2>1 DEF Inv, LinkFront
<1>7. CASE Fire
  <2>1. Chain(c, d, F)'
    BY <1>1, <1>2, <1>7, FireStep
  <2> QED
    BY <1>1, <1>3, <1>7, <2>1 DEF Inv, Fire
<1>8. CASE Walk
  <2>1. Chain(c, d, F)'
    BY <1>1, <1>2, <1>8, WalkStep
  <2> QED
    BY <1>1, <1>3, <1>8, <2>1 DEF Inv, Walk
<1>9. CASE Post
  <2>1. PostedOnceInOrder' /\ \E G \in SUBSET Task : Chain(c, d, G)'
    BY <1>1, <1>2, <1>9, PostStep
  <2> QED
    BY <1>1, <2>1 DEF Inv
<1>10. CASE Save
  <2>1. Chain(c, d, F)'
    BY <1>1, <1>2, <1>10, SaveStep
  <2> QED
    BY <1>1, <1>3, <1>10, <2>1 DEF Inv, Save
<1>11. CASE Del
  <2>1. \E G \in SUBSET Task : Chain(c, d, G)'
    BY <1>1, <1>2, <1>11, DelStep
  <2> QED
    BY <1>1, <1>3, <1>11, <2>1 DEF Inv, Del
<1>12. CASE DelBack
  <2>1. Chain(c, d, F)'
    BY <1>1, <1>2, <1>12, DelBackStep
  <2> QED
    BY <1>1, <1>3, <1>12, <2>1 DEF Inv, DelBack
<1>13. CASE DelFront
  <2>1. Chain(c, d, F)'
    BY <1>1, <1>2, <1>13, DelFrontStep
  <2> QED
    BY <1>1, <1>3, <1>13, <2>1 DEF Inv, DelFront
<1>14. CASE InitEntry
  <2>1. Chain(c, d, F)'
    BY <1>1, <1>2, <1>14, InitEntryStep
  <2> QED
    BY <1>1, <1>3, <1>14, <2>1 DEF Inv, InitEntry
<1>15. CASE Complete
  <2>1. Chain(c, d, F)'
    BY <1>1, <1>2, <1>15, CompleteStep
  <2> QED
    BY <1>1, <1>3, <1>15, <2>1 DEF Inv, Complete
<1>16. CASE UNCHANGED vars
  <2>1. Chain(c, d, F)'
    BY <1>1, <1>2, <1>16, StutterStep
  <2> QED
    BY <1>1, <1>3, <1>16, <2>1 DEF Inv, vars
<1> QED
  BY <1>4, <1>5, <1>6, <1>7, <1>8, <1>9, <1>10, <1>11, <1>12, <1>13, <1>14, <1>15, <1>16
     DEF Next, Timer, Adding

\* The pointers, the loop variables and the requests always have their types.
THEOREM QueueTypes == Spec => []TypeOK
<1>1. Init => TypeOK
  BY InvInit DEF Inv
<1> QED
  BY <1>1, TypeStep, PTL DEF Spec

\* However many tasks main adds, and wherever it is in list_add_tail when the
\* timer walks and unlinks the list, no task is given to the QP twice and main's
\* are in order, as long as an ibv_post_send that is refused has taken nothing.
THEOREM PostsOnceInOrder == Prefixes \subseteq {0} => (Spec => []PostedOnceInOrder)
<1> SUFFICES ASSUME Prefixes \subseteq {0} PROVE Spec => []PostedOnceInOrder
  OBVIOUS
<1>1. Inv /\ [Next]_vars => Inv'
  BY InvStep
<1>2. Inv => PostedOnceInOrder
  BY DEF Inv
<1> QED
  BY <1>1, <1>2, InvInit, PTL DEF Spec

\* Nor does its handler go to a task that the handler of a completion has freed,
\* although main may write to one and what it adds behind that is lost.
THEOREM TimerStaysLive == Prefixes \subseteq {0} => (Spec => []TimerTouchesLive)
<1> SUFFICES ASSUME Prefixes \subseteq {0} PROVE Spec => []TimerTouchesLive
  OBVIOUS
<1>1. Inv /\ [Next]_vars => Inv'
  BY InvStep
<1>2. Inv => TimerTouchesLive
  BY DEF Inv, Chain, Live, TimerTouchesLive
<1> QED
  BY <1>1, <1>2, InvInit, PTL DEF Spec

=============================================================================
