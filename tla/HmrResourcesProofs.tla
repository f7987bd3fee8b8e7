------------------------- MODULE HmrResourcesProofs -------------------------
(***************************************************************************)
(* What the two programs own, for every sequence of contexts and whatever  *)
(* call fails: nothing is used once it is released, what a failed step     *)
(* left is cleaned up, and what is left at the exit is known.              *)
(*                                                                         *)
(* The list of devices comes first: built out of the devices that          *)
(* initialize and taken apart again, it stays well linked.  The objects    *)
(* follow: what a sequence of calls leaves, what each step keeps of the    *)
(* invariant, and the theorems.                                            *)
(***************************************************************************)
EXTENDS HmrResources, HmrListProofs, TLAPS

\* The pointers agree, and only a node that has been deleted has poison.
Linked(l) ==
  /\ l \in List(Node)
  /\ \A x \in Node :
       /\ l.next[x] # Poison => l.prev[l.next[x]] = x
       /\ l.prev[x] # Poison => l.next[l.prev[x]] = x
       /\ l.next[x] = Poison <=> l.prev[x] = Poison
  /\ l.next[ListHead] # Poison
  /\ l.next[Poison] = Poison

\* The devices still to be initialized are in no list, and the release is
\* always at the first entry.
LinkInv ==
  /\ i \in Nat
  /\ Linked(dev_list)
  /\ main = "init" =>
       \A n \in DOMAIN Verbs : n >= i =>
         dev_list.next[Verbs[n]] = Verbs[n] /\ dev_list.prev[Verbs[n]] = Verbs[n]
  /\ main = "release" => pos = dev_list.next[ListHead]

-----------------------------------------------------------------------------
(* The objects of a heap, and how a call may change them. *)

\* A heap: three sets of objects, and the names of the calls that failed.
HeapWith(names) ==
  [live : SUBSET Object, ptr : SUBSET Object, failed : SUBSET names, misuse : SUBSET Object]

IsHeap(h) == \E names : h \in HeapWith(names)

\* What the first k - 1 of a sequence of calls make, and what the failure of
\* the k-th one releases.
Made(calls, k) == UNION {calls[n].makes : n \in 1 .. k - 1}

Cleaned(calls, k) == IF Done(calls, k) THEN {} ELSE calls[k].cleans

\* Every call makes and releases objects of t.
BuildsObjects(calls, t) ==
  \A n \in 1..Len(calls) : Of(t, calls[n].makes) \cup Of(t, calls[n].cleans) \subseteq Object

\* The heap g that a sequence of calls leaves of h, object by object.
Leaves(g, h, t, calls, k) ==
  /\ IsHeap(g)
  /\ g.ptr = h.ptr
  /\ g.failed = IF Done(calls, k) THEN h.failed ELSE h.failed \cup {calls[k].name}
  /\ \A x, kind : <<x, kind>> \in g.live <=>
       /\ <<x, kind>> \in h.live \/ (x = t /\ kind \in Made(calls, k))
       /\ ~(x = t /\ kind \in Cleaned(calls, k))
  /\ \A o : o \in g.misuse <=>
       \/ o \in h.misuse
       \/ /\ o \notin h.live
          /\ \E kind \in Cleaned(calls, k) : kind \notin Made(calls, k) /\ o = <<t, kind>>

\* Nothing but objects of t of these kinds has come, gone or been pointed to.
Touches(g, h, t, kinds) ==
  /\ IsHeap(g)
  /\ h.failed \subseteq g.failed
  /\ \A x, kind : x # t \/ kind \notin kinds =>
       /\ <<x, kind>> \in g.live <=> <<x, kind>> \in h.live
       /\ <<x, kind>> \in g.ptr <=> <<x, kind>> \in h.ptr

CreatedKind == {"trans", "event_channel", "event_fd", "timerfd"}

-----------------------------------------------------------------------------
(* The invariant. *)

\* Where main is before the epoll thread runs, and where the connection manager
\* is once the connected transport has its QP.
Starting == {"init", "context", "create", "connect", "thread"}

Joined == {"accepted", "ESTABLISHED", "CONNECT_ERROR", "up", "DISCONNECTED"}

\* How main, the epoll thread and the connection manager move together.
Control ==
  /\ main \in Starting => epoll = "off" /\ ~is_stop /\ closed = "no"
  /\ main \in Starting \ {"thread"} => cm = "none"
  /\ main \in {"run", "pool"} => role = "server" /\ epoll # "off"
  /\ main \in {"send", "join"} => epoll # "off"
  /\ main = "release" => epoll = "exited"
  /\ main = "exited" => epoll # "on" /\ (epoll = "off" => heap.failed # {})
  /\ epoll # "on" => batch = {}
  /\ epoll = "exited" => is_stop
  /\ role = "server" /\ main \in {"join", "release", "exited"} => heap.failed # {}
  /\ closed # "no" => cm = "none"
  /\ trans_state = "CONNECTED" => Connects \/ closed # "no"
  /\ role = "client" => cm \notin {"listening", "CONNECT_REQUEST", "requested", "accepted"}
  /\ role = "client" /\ is_stop => cm = "none"
  /\ role = "server" => cm \notin {"ADDR_RESOLVED", "ROUTE_RESOLVED"}
  /\ cm \in {"listening", "CONNECT_REQUEST"} => main \in {"thread", "run", "exited"}
  /\ cm = "requested" => main = "run"
  /\ cm \in Joined => main \notin Starting

\* Nothing of these kinds is live, pointed to or in the batch.
Absent(t, kinds) == \A kind \in kinds : <<t, kind>> \notin heap.live \cup heap.ptr \cup batch

\* What is not there yet, or never.
Before ==
  /\ main \in {"init", "context", "create"} => Absent("own", TransKind)
  /\ main \in Starting \/ role = "server" \/ cm \in {"ADDR_RESOLVED", "ROUTE_RESOLVED"} =>
       Absent("own", QpKind)
  /\ main \in Starting \/ role = "server" \/ cm = "ADDR_RESOLVED" => Absent("own", PoolKind)
  /\ main \in Starting \/ role = "client" \/ cm \in {"listening", "CONNECT_REQUEST"} =>
       Absent("accepted", TransKind)
  /\ cm = "requested" \/ main = "pool" => Absent("accepted", PoolKind)

\* A handler's data lives as long as its descriptor or an event of it does, and
\* a QP has all that it rests on.
Ties ==
  \A t \in Trans :
    /\ <<t, "event_fd">> \in heap.live \cup batch => <<t, "event_channel">> \in heap.live
    /\ <<t, "timer_fd">> \in heap.live \cup batch => <<t, "trans">> \in heap.live
    /\ <<t, "timerfd">> \in heap.ptr => <<t, "trans">> \in heap.live
    /\ <<t, "comp_fd">> \in batch \/ <<t, "qp">> \in heap.live =>
         \A kind \in {"hcq", "comp_channel", "cq"} : <<t, kind>> \in heap.live

\* What main and the handlers go through: the program still has its transport
\* once it is made and the connected one until it is closed, whose timer is in
\* the epoll set from on_cm_established on.
Held ==
  /\ heap.misuse = {} /\ main \notin {"init", "context", "create"} =>
       <<"own", "trans">> \in heap.ptr
  /\ cm \in Joined \cup {"requested"} \/ main = "pool" => <<Connected, "trans">> \in heap.ptr
  /\ \A t \in Trans : <<t, "timer_fd">> \in heap.live \cup batch =>
       t = Connected /\ (cm \in {"up", "DISCONNECTED"} \/ closed # "no")

\* The connected transport has a QP until it is disconnected, and a pool that
\* is pointed to has all its parts.
Connection ==
  /\ cm \in Joined \cup {"requested"} => <<Connected, "qp">> \in heap.live
  /\ cm # "none" /\ <<Connected, "mempool">> \in heap.ptr =>
       \A kind \in PoolKind : <<Connected, kind>> \in heap.live
  /\ cm = "requested" \/ main = "pool" => <<verbs, "pd">> \in heap.live

\* Unless a failure was not noticed, or a client left too early, what main
\* and the handlers use is there.
Noticed == closed # "early" /\ heap.failed \cap Unchecked = {}

UsedIsThere ==
  Noticed =>
    /\ closed = "no" => heap.misuse = {}
    /\ closed = "yes" => heap.misuse \subseteq AfterClose
    /\ main \notin {"init", "context"} => Ctx \in heap.live
    /\ main \notin {"init", "context", "create"} =>
         <<"own", "trans">> \in heap.live /\ <<"own", "event_channel">> \in heap.live
    /\ role = "client" /\ cm \in Joined \cup {"ROUTE_RESOLVED"} => <<"own", "mempool">> \in heap.live
    /\ role = "server" /\ cm \in Joined \cup {"requested"} =>
         <<"accepted", "event_channel">> \in heap.live
    /\ role = "server" /\ cm \in Joined /\ main # "pool" => <<"accepted", "mempool">> \in heap.live
    /\ main = "pool" => <<"accepted", "qp">> \in heap.live
    /\ closed = "yes" => <<Connected, "mempool">> \in heap.live

\* A device has a protection domain; one that outlives its device is in use.
Domains ==
  \A d \in Device :
    /\ <<d, "device">> \in heap.live => <<d, "pd">> \in heap.live
    /\ <<d, "pd">> \in heap.live =>
         \/ <<d, "device">> \in heap.live
         \/ /\ main \in {"release", "exited"}
            /\ \E t \in Trans, kind \in MrKind \cup {"qp"} : <<t, kind>> \in heap.live

\* Where nothing has failed, the client's regions go with its QP, and with it
\* its descriptors leave the epoll set.
ClientReleases ==
  role = "client" /\ heap.failed = {} =>
    /\ \A kind \in MrKind \cup {"send_region"} : <<"own", kind>> \in heap.live =>
         cm = "ROUTE_RESOLVED" \/ <<"own", "qp">> \in heap.live
    /\ is_stop /\ <<"own", "qp">> \notin heap.live =>
         \A kind \in FdKind : <<"own", kind>> \notin heap.live

\* The list of devices holds those that live, and they are among the contexts
\* that have been initialized; at the end none is left.
DeviceList(s) ==
  /\ dev_list \in List(Node) /\ Ring(dev_list, ListHead, s)
  /\ Nodes(s) = {d \in Device : <<d, "device">> \in heap.live}
  /\ Len(s) < i
  /\ main = "init" => \A n \in DOMAIN Verbs : Verbs[n] \in Nodes(s) => n < i
  /\ main = "exited" /\ epoll = "exited" => s = << >>

DevInv == \E s \in Seq(Node) : DeviceList(s)

TypeInv == TypeOK /\ IsHeap(heap)

ResInv ==
  /\ TypeInv /\ Control /\ Before /\ Ties /\ Held /\ Connection /\ UsedIsThere
  /\ Domains /\ ClientReleases /\ FailuresKeepNothing /\ DevInv

-----------------------------------------------------------------------------
(* The operations of the list. *)

\* A device is neither the head of the list nor poison, and no two contexts
\* are one device.
LEMMA Devices ==
  /\ \A n \in DOMAIN Verbs :
       Verbs[n] \in Node /\ Verbs[n] # ListHead /\ Verbs[n] # Poison
  /\ \A m, n \in DOMAIN Verbs : Verbs[m] = Verbs[n] => m = n
  /\ ListHead \in Node /\ Poison \in Node /\ ListHead # Poison
<1>1. \A n \in DOMAIN Verbs : Verbs[n] \in STRING \ {"dev_list", "poison"}
  BY VerbsAssumption
<1>2. \A n \in DOMAIN Verbs : Verbs[n] \in Device
  BY DEF Device
<1> QED
  BY <1>1, <1>2, VerbsAssumption DEF Node, ListHead, Poison

\* __list_del's two writes, on any two nodes.
LEMMA LinkPointers ==
  ASSUME NEW N, NEW l \in List(N), NEW b \in N, NEW a \in N
  PROVE  /\ Link(l, b, a) \in List(N)
         /\ \A y \in N : Link(l, b, a).next[y] = IF y = b THEN a ELSE l.next[y]
         /\ \A y \in N : Link(l, b, a).prev[y] = IF y = a THEN b ELSE l.prev[y]
BY DEF Link, List

\* INIT_LIST_HEAD's two writes are the same of one node.
LEMMA InitPointers ==
  ASSUME NEW l, NEW x
  PROVE  InitListHead(l, x) = Link(l, x, x)
BY DEF InitListHead, Link

\* list_add puts a node that is in no list behind the head.
LEMMA AddPointers ==
  ASSUME NEW N, NEW l \in List(N), NEW x \in N, NEW h \in N,
         l.next[x] = x, l.prev[x] = x, x # h, l.next[h] # x
  PROVE  LET m == ListAdd(InitListHead(l, x), x, h)
         IN  /\ m \in List(N)
             /\ \A y \in N : m.next[y] = IF y = h THEN x
                                         ELSE IF y = x THEN l.next[h] ELSE l.next[y]
             /\ \A y \in N : m.prev[y] = IF y = x THEN h
                                         ELSE IF y = l.next[h] THEN x ELSE l.prev[y]
<1> DEFINE k == InitListHead(l, x)
           n == Link(k, x, k.next[h])
<1>1. /\ k \in List(N)
      /\ \A y \in N : k.next[y] = l.next[y] /\ k.prev[y] = l.prev[y]
  BY LinkPointers, InitPointers, SMTT(30)
<1>2. k.next[h] \in N /\ k.next[h] = l.next[h]
  BY <1>1 DEF List
<1>3. /\ n \in List(N)
      /\ \A y \in N : n.next[y] = IF y = x THEN l.next[h] ELSE l.next[y]
      /\ \A y \in N : n.prev[y] = IF y = l.next[h] THEN x ELSE l.prev[y]
  <2> HIDE DEF k
  <2> DEFINE a == k.next[h]
  <2>1. n = Link(k, x, a)
    OBVIOUS
  <2>2. a \in N /\ a = l.next[h]
    BY <1>2
  <2> HIDE DEF a, n
  <2>3. /\ n \in List(N)
        /\ \A y \in N : n.next[y] = IF y = x THEN a ELSE k.next[y]
        /\ \A y \in N : n.prev[y] = IF y = a THEN x ELSE k.prev[y]
    BY <1>1, <2>1, <2>2 DEF Link, List
  <2> QED
    BY <1>1, <2>2, <2>3
<1>4. ListAdd(k, x, h) = Link(n, h, x)
  BY DEF ListAdd, AddBetween
<1>5. /\ Link(n, h, x) \in List(N)
      /\ \A y \in N : Link(n, h, x).next[y] = IF y = h THEN x ELSE n.next[y]
      /\ \A y \in N : Link(n, h, x).prev[y] = IF y = x THEN h ELSE n.prev[y]
  <2> HIDE DEF n
  <2> QED
    BY <1>3, LinkPointers
<1>6. /\ ListAdd(k, x, h) \in List(N)
      /\ \A y \in N : ListAdd(k, x, h).next[y] = IF y = h THEN x
                                  ELSE IF y = x THEN l.next[h] ELSE l.next[y]
      /\ \A y \in N : ListAdd(k, x, h).prev[y] = IF y = x THEN h
                                  ELSE IF y = l.next[h] THEN x ELSE l.prev[y]
  <2> HIDE DEF k, n
  <2> QED
    BY <1>3, <1>4, <1>5
<1> QED
  BY <1>6

\* list_del_init and list_del of the first entry take it out and poison it.
LEMMA DeletePointers ==
  ASSUME NEW N, NEW l \in List(N), NEW x \in N, NEW p \in N,
         l.prev[x] # x, l.next[x] # x
  PROVE  LET m == ListDel(ListDelInit(l, x), x, p)
         IN  /\ m \in List(N)
             /\ \A y \in N : m.next[y] = IF y = x THEN p
                                         ELSE IF y = l.prev[x] THEN l.next[x] ELSE l.next[y]
             /\ \A y \in N : m.prev[y] = IF y = x THEN p
                                         ELSE IF y = l.next[x] THEN l.prev[x] ELSE l.prev[y]
<1> DEFINE d == DelEntry(l, x)
           e == ListDelInit(l, x)
           f == DelEntry(e, x)
<1>1. l.prev[x] \in N /\ l.next[x] \in N
  BY DEF List
<1>2. /\ d \in List(N)
      /\ \A y \in N : d.next[y] = IF y = l.prev[x] THEN l.next[x] ELSE l.next[y]
      /\ \A y \in N : d.prev[y] = IF y = l.next[x] THEN l.prev[x] ELSE l.prev[y]
  BY <1>1 DEF DelEntry, Link, List
<1>3. e = Link(d, x, x)
  <2>1. e = InitListHead(d, x)
    BY DEF ListDelInit
  <2> HIDE DEF d, e
  <2> QED
    BY <2>1, InitPointers
<1>4. /\ e \in List(N)
      /\ \A y \in N : e.next[y] = IF y = x THEN x ELSE d.next[y]
      /\ \A y \in N : e.prev[y] = IF y = x THEN x ELSE d.prev[y]
  <2> HIDE DEF d
  <2>1. /\ Link(d, x, x) \in List(N)
        /\ \A y \in N : Link(d, x, x).next[y] = IF y = x THEN x ELSE d.next[y]
        /\ \A y \in N : Link(d, x, x).prev[y] = IF y = x THEN x ELSE d.prev[y]
    BY <1>2, LinkPointers
  <2> HIDE DEF e
  <2> QED
    BY <1>3, <2>1
<1>5. f = Link(e, x, x)
  <2> HIDE DEF e
  <2>1. f = Link(e, e.prev[x], e.next[x])
    BY DEF DelEntry
  <2> QED
    BY <1>4, <2>1
<1>6. /\ f \in List(N)
      /\ \A y \in N : f.next[y] = e.next[y] /\ f.prev[y] = e.prev[y]
  <2> HIDE DEF e
  <2>1. /\ Link(e, x, x) \in List(N)
        /\ \A y \in N : Link(e, x, x).next[y] = IF y = x THEN x ELSE e.next[y]
        /\ \A y \in N : Link(e, x, x).prev[y] = IF y = x THEN x ELSE e.prev[y]
    BY <1>4, LinkPointers
  <2> HIDE DEF f
  <2> QED
    BY <1>4, <1>5, <2>1
<1> HIDE DEF d, e
<1>7. ListDel(e, x, p) = [next |-> [f.next EXCEPT ![x] = p], prev |-> [f.prev EXCEPT ![x] = p]]
  BY DEF ListDel
<1> HIDE DEF f
<1>8. /\ ListDel(e, x, p) \in List(N)
      /\ \A y \in N : ListDel(e, x, p).next[y] = IF y = x THEN p ELSE f.next[y]
      /\ \A y \in N : ListDel(e, x, p).prev[y] = IF y = x THEN p ELSE f.prev[y]
  BY <1>6, <1>7 DEF List
<1> QED
  BY <1>2, <1>4, <1>6, <1>8 DEF e

\* The pointers of a well-linked list lead from node to node.
LEMMA PointersAreNodes ==
  ASSUME NEW l, Linked(l), NEW x \in Node
  PROVE  /\ l.next[x] \in Node /\ l.prev[x] \in Node
         /\ x # Poison /\ l.next[x] # Poison =>
              l.next[x] # Poison /\ l.prev[l.next[x]] = x
BY DEF Linked, List

\* A device that is linked only to itself joins the list.
LEMMA AddLinked ==
  ASSUME NEW l, Linked(l), NEW x \in Node, x # ListHead, x # Poison,
         l.next[x] = x, l.prev[x] = x
  PROVE  LET m == ListAdd(InitListHead(l, x), x, ListHead)
         IN  /\ Linked(m)
             /\ \A y \in Node : y # x /\ y # ListHead /\ l.next[y] = y /\ l.prev[y] = y =>
                  m.next[y] = y /\ m.prev[y] = y
<1> DEFINE m == ListAdd(InitListHead(l, x), x, ListHead)
           first == l.next[ListHead]
<1>1. ListHead \in Node /\ Poison \in Node /\ ListHead # Poison
  BY Devices
<1>2. l \in List(Node)
  BY DEF Linked
<1>3. first \in Node /\ first # Poison /\ l.prev[first] = ListHead /\ first # x
  BY <1>1, <1>2 DEF Linked, List
<1>4. /\ m \in List(Node)
      /\ \A y \in Node : m.next[y] = IF y = ListHead THEN x
                                      ELSE IF y = x THEN first ELSE l.next[y]
      /\ \A y \in Node : m.prev[y] = IF y = x THEN ListHead
                                      ELSE IF y = first THEN x ELSE l.prev[y]
  BY <1>1, <1>2, <1>3, AddPointers
<1>5. /\ l.next[Poison] = Poison
      /\ \A y \in Node : /\ l.next[y] # Poison => l.prev[l.next[y]] = y
                         /\ l.prev[y] # Poison => l.next[l.prev[y]] = y
                         /\ l.next[y] = Poison <=> l.prev[y] = Poison
                         /\ l.next[y] \in Node /\ l.prev[y] \in Node
  BY <1>2 DEF Linked, List
<1>a. first = l.next[ListHead]
  OBVIOUS
<1> HIDE DEF m, first
<1>6. ASSUME NEW y \in Node, m.next[y] # Poison PROVE m.prev[m.next[y]] = y
  <2>1. CASE y = ListHead \/ y = x
    BY <1>1, <1>3, <1>4, <1>5, <1>a, <2>1
  <2>2. CASE y # ListHead /\ y # x
    <3>1. m.next[y] = l.next[y] /\ l.prev[l.next[y]] = y /\ l.next[y] \in Node
      BY <1>4, <1>5, <1>6, <2>2
    <3>2. l.next[y] # x /\ l.next[y] # first
      BY <1>3, <2>2, <3>1
    <3> QED
      BY <1>4, <3>1, <3>2
  <2> QED
    BY <2>1, <2>2
<1>7. ASSUME NEW y \in Node, m.prev[y] # Poison PROVE m.next[m.prev[y]] = y
  <2>1. CASE y = first \/ y = x
    BY <1>1, <1>3, <1>4, <1>5, <1>a, <2>1
  <2>2. CASE y # first /\ y # x
    <3>1. m.prev[y] = l.prev[y] /\ l.next[l.prev[y]] = y /\ l.prev[y] \in Node
      BY <1>4, <1>5, <1>7, <2>2
    <3>2. l.prev[y] # x /\ l.prev[y] # ListHead
      BY <1>a, <2>2, <3>1
    <3> QED
      BY <1>4, <3>1, <3>2
  <2> QED
    BY <2>1, <2>2
<1>8. ASSUME NEW y \in Node PROVE m.next[y] = Poison <=> m.prev[y] = Poison
  <2>1. CASE y = ListHead \/ y = x
    <3>1. l.prev[ListHead] # Poison
      BY <1>1, <1>3, <1>5, <1>a
    <3> QED
      BY <1>1, <1>3, <1>4, <2>1, <3>1
  <2>2. CASE y = first /\ y # ListHead
    <3>1. l.next[y] # Poison
      BY <1>1, <1>3, <1>5, <2>2
    <3> QED
      BY <1>3, <1>4, <2>2, <3>1
  <2>3. CASE y # ListHead /\ y # x /\ y # first
    BY <1>4, <1>5, <2>3
  <2> QED
    BY <2>1, <2>2, <2>3
<1>9. m.next[ListHead] # Poison /\ m.next[Poison] = Poison
  BY <1>1, <1>4, <1>5
<1>10. \A y \in Node : y # x /\ y # ListHead /\ l.next[y] = y /\ l.prev[y] = y =>
         m.next[y] = y /\ m.prev[y] = y
  BY <1>3, <1>4
<1> QED
  BY <1>4, <1>6, <1>7, <1>8, <1>9, <1>10 DEF Linked, m

\* The first device leaves the list, and the next one is then the first.
LEMMA DeleteLinked ==
  ASSUME NEW l, Linked(l), NEW x \in Node, x = l.next[ListHead], x # ListHead
  PROVE  LET m == ListDel(ListDelInit(l, x), x, Poison)
         IN  Linked(m) /\ m.next[ListHead] = l.next[x]
<1> DEFINE m == ListDel(ListDelInit(l, x), x, Poison)
           second == l.next[x]
<1>1. ListHead \in Node /\ Poison \in Node /\ ListHead # Poison
  BY Devices
<1>2. l \in List(Node)
  BY DEF Linked
<1>3. /\ l.next[Poison] = Poison
      /\ \A y \in Node : /\ l.next[y] # Poison => l.prev[l.next[y]] = y
                         /\ l.prev[y] # Poison => l.next[l.prev[y]] = y
                         /\ l.next[y] = Poison <=> l.prev[y] = Poison
                         /\ l.next[y] \in Node /\ l.prev[y] \in Node
  BY <1>2 DEF Linked, List
<1>4. x # Poison /\ l.prev[x] = ListHead
  BY <1>1, <1>3 DEF Linked
<1>a. second = l.next[x]
  OBVIOUS
<1>5. second \in Node /\ second # Poison /\ l.prev[second] = x /\ second # x
  <2> HIDE DEF second, m
  <2>1. second \in Node /\ second # Poison
    BY <1>1, <1>3, <1>4, <1>a
  <2>2. l.prev[second] = x
    BY <1>3, <1>a, <2>1
  <2> QED
    BY <1>4, <2>1, <2>2
<1>6. /\ m \in List(Node)
      /\ \A y \in Node : m.next[y] = IF y = x THEN Poison
                                      ELSE IF y = ListHead THEN second ELSE l.next[y]
      /\ \A y \in Node : m.prev[y] = IF y = x THEN Poison
                                      ELSE IF y = second THEN ListHead ELSE l.prev[y]
  BY <1>1, <1>2, <1>4, <1>5, DeletePointers
<1> HIDE DEF m, second
<1>7. ASSUME NEW y \in Node, m.next[y] # Poison PROVE m.prev[m.next[y]] = y
  <2>1. CASE y = ListHead \/ y = x
    BY <1>1, <1>4, <1>5, <1>6, <1>7, <2>1
  <2>2. CASE y # ListHead /\ y # x
    <3>1. m.next[y] = l.next[y] /\ l.prev[l.next[y]] = y /\ l.next[y] \in Node
      BY <1>3, <1>6, <1>7, <2>2
    <3>2. l.next[y] # x /\ l.next[y] # second
      BY <1>4, <1>5, <2>2, <3>1
    <3> QED
      BY <1>6, <3>1, <3>2
  <2> QED
    BY <2>1, <2>2
<1>8. ASSUME NEW y \in Node, m.prev[y] # Poison PROVE m.next[m.prev[y]] = y
  <2>1. CASE y = second \/ y = x
    BY <1>1, <1>4, <1>5, <1>6, <1>8, <2>1
  <2>2. CASE y # second /\ y # x
    <3>1. m.prev[y] = l.prev[y] /\ l.next[l.prev[y]] = y /\ l.prev[y] \in Node
      BY <1>3, <1>6, <1>8, <2>2
    <3>2. l.prev[y] # x /\ l.prev[y] # ListHead
      BY <1>a, <2>2, <3>1
    <3> QED
      BY <1>6, <3>1, <3>2
  <2> QED
    BY <2>1, <2>2
<1>9. ASSUME NEW y \in Node PROVE m.next[y] = Poison <=> m.prev[y] = Poison
  <2>1. CASE y = ListHead \/ y = x
    <3>1. l.prev[ListHead] # Poison
      BY <1>1, <1>3, <1>4
    <3> QED
      BY <1>1, <1>5, <1>6, <2>1, <3>1
  <2>2. CASE y = second /\ y # ListHead
    <3>1. l.next[y] # Poison
      BY <1>3, <1>4, <1>5, <2>2
    <3> QED
      BY <1>1, <1>5, <1>6, <2>2, <3>1
  <2>3. CASE y # ListHead /\ y # x /\ y # second
    BY <1>3, <1>6, <2>3
  <2> QED
    BY <2>1, <2>2, <2>3
<1>10. m.next[ListHead] = second /\ m.next[Poison] = Poison
  BY <1>1, <1>3, <1>4, <1>6
<1> QED
  BY <1>5, <1>6, <1>7, <1>8, <1>9, <1>10 DEF Linked, m, second

\* An entry that is linked to itself only is deleted: no other node is touched.
LEMMA AloneDeleted ==
  ASSUME NEW N, NEW l \in List(N), NEW x \in N, Ring(l, x, << >>), NEW poison \in N
  PROVE  /\ ListDel(l, x, poison) \in List(N)
         /\ Same(l, ListDel(l, x, poison), N \ {x})
<1> DEFINE e == Link(l, x, x)
           m == ListDel(l, x, poison)
<1>1. l.next[x] = x /\ l.prev[x] = x
  <2>1. <<x>> \o << >> = <<x>> /\ Len(<<x>>) = 1 /\ <<x>>[1] = x
    BY One, ConcatEmptySeq
  <2>2. Cycle(l, <<x>>)
    BY <2>1 DEF Ring
  <2> QED
    BY <2>1, <2>2 DEF Cycle, Adj
<1>2. /\ e \in List(N)
      /\ \A z \in N : /\ e.next[z] = IF z = x THEN x ELSE l.next[z]
                      /\ e.prev[z] = IF z = x THEN x ELSE l.prev[z]
  BY LinkFacts
<1>3. m = [next |-> [e.next EXCEPT ![x] = poison], prev |-> [e.prev EXCEPT ![x] = poison]]
  BY <1>1 DEF ListDel, DelEntry
<1> HIDE DEF e, m
<1>4. m \in List(N) /\ \A z \in N : z # x => m.next[z] = e.next[z] /\ m.prev[z] = e.prev[z]
  BY <1>2, <1>3 DEF List
<1> QED
  BY <1>2, <1>4 DEF Same, m

\* The list m at h holds what the sequence s does, but for x.
HoldsRest(m, N, h, s, x) ==
  /\ x \in N /\ m \in List(N)
  /\ \E t \in Seq(N) :
       /\ Ring(m, h, t) /\ Nodes(t) = Nodes(s) \ {x} /\ x \in Nodes(s)
       /\ Len(t) = Len(s) - 1

\* The first entry of a list is unlinked, twice, and the rest of it stays.
LEMMA TakenOut ==
  ASSUME NEW N, NEW l \in List(N), NEW h \in N, NEW s \in Seq(N), Ring(l, h, s), s # << >>,
         NEW poison \in N, NEW x, x = l.next[h],
         NEW m, m = ListDel(ListDelInit(l, x), x, poison)
  PROVE  HoldsRest(m, N, h, s, x)
<1> DEFINE t == Tail(s)
           d == ListDelInit(l, x)
<1>1. /\ t \in Seq(N) /\ Len(t) = Len(s) - 1 /\ Len(s) \in Nat \ {0}
      /\ \A k \in 1..Len(t) : t[k] = s[k + 1]
  BY HeadTailProperties, HeadFacts
<1>2. x = s[1] /\ x \in N
  BY HeadFacts
<1> HIDE DEF t
<1>3. /\ <<x>> \in Seq(N) /\ Len(<<x>>) = 1 /\ <<x>>[1] = x /\ Nodes(<<x>>) = {x}
      /\ <<x>> # << >>
  BY <1>2, One
<1>4. s = <<x>> \o t
  <2> DEFINE r == <<x>> \o t
  <2>1. /\ r \in Seq(N) /\ Len(r) = 1 + Len(t) /\ r[1] = x
        /\ \A k \in 1..Len(t) : r[1 + k] = t[k]
    BY <1>1, <1>3, ConcatProperties
  <2> HIDE DEF r
  <2>2. ASSUME NEW k \in 1..Len(s) PROVE s[k] = r[k]
    <3>1. CASE k = 1
      BY <1>2, <2>1, <3>1
    <3>2. CASE k # 1
      <4>1. k - 1 \in 1..Len(t) /\ 1 + (k - 1) = k /\ (k - 1) + 1 = k
        BY <1>1, <3>2
      <4> QED
        BY <1>1, <2>1, <4>1
    <3> QED
      BY <3>1, <3>2
  <2>3. Len(r) = Len(s)
    BY <1>1, <2>1
  <2>4. s = r
    BY <2>1, <2>2, <2>3, SeqEqual
  <2> QED
    BY <2>4 DEF r
<1>5. /\ << >> \in Seq(N) /\ << >> \o t = t /\ << >> \o <<x>> = <<x>>
      /\ (<< >> \o <<x>>) \o t = s
  BY <1>1, <1>3, <1>4, ConcatEmptySeq
<1>6. /\ d \in List(N) /\ Ring(d, h, t) /\ Ring(d, x, << >>)
  <2>1. Ring(l, h, (<< >> \o <<x>>) \o t)
    BY <1>5
  <2>2. /\ d \in List(N) /\ Ring(d, h, << >> \o t) /\ Ring(d, x, << >>)
    BY <1>1, <1>2, <1>5, <2>1, DelInitRemoves
  <2> QED
    BY <1>5, <2>2
<1>7. m = ListDel(d, x, poison)
  OBVIOUS
<1> HIDE DEF d
<1>9. m \in List(N) /\ Same(d, m, N \ {x})
  BY <1>2, <1>6, <1>7, AloneDeleted
<1>10. /\ Nodes(s) = {x} \cup Nodes(t) /\ x \notin Nodes(t) /\ x # h
  <2>1. Nodes(s) = Nodes(<<x>>) \cup Nodes(t)
        /\ (Distinct(s) => Nodes(<<x>>) \cap Nodes(t) = {})
    <3>1. /\ Nodes(<<x>> \o t) = Nodes(<<x>>) \cup Nodes(t)
          /\ Distinct(<<x>> \o t) <=>
               Distinct(<<x>>) /\ Distinct(t) /\ Nodes(<<x>>) \cap Nodes(t) = {}
      BY <1>1, <1>3, NodesConcat
    <3> QED
      BY <1>4, <3>1
  <2>2. Distinct(s) /\ h \notin Nodes(s)
    BY HeadFacts
  <2> QED
    BY <1>3, <2>1, <2>2
<1>11. Ring(m, h, t)
  <2> DEFINE p == <<h>> \o t
  <2>1. p \in Seq(N) /\ p # << >> /\ Nodes(p) = {h} \cup Nodes(t)
    BY <1>1, RingFacts
  <2>2. Cycle(d, p)
    BY <1>6 DEF Ring
  <2> HIDE DEF p
  <2>3. Nodes(p) \subseteq N
    BY <2>1, ElementOfSeq DEF Nodes
  <2>4. Same(d, m, Nodes(p))
    BY <1>9, <1>10, <2>1, <2>3 DEF Same
  <2>5. Cycle(m, p)
    BY <2>1, <2>2, <2>4, CycleSame
  <2> QED
    BY <2>5 DEF Ring, p
<1> QED
  BY <1>1, <1>2, <1>9, <1>10, <1>11 DEF HoldsRest

-----------------------------------------------------------------------------
(* The list of devices stays linked. *)

LEMMA LinkInit == Init => LinkInv
<1> SUFFICES ASSUME Init PROVE LinkInv
  OBVIOUS
<1>1. Linked(dev_list)
  BY Devices DEF Init, Linked, List
<1>2. \A n \in DOMAIN Verbs : dev_list.next[Verbs[n]] = Verbs[n] /\ dev_list.prev[Verbs[n]] = Verbs[n]
  BY Devices DEF Init
<1> QED
  BY <1>1, <1>2 DEF Init, LinkInv

\* Main enters its two loops once, and nothing else touches the list.
LEMMA LinkQuiet ==
  ASSUME LinkInv, UNCHANGED <<dev_list, i, pos>>, main' = "init" => main = "init",
         main' = "release" => main = "release"
  PROVE  LinkInv'
BY DEF LinkInv

LEMMA LinkNext == LinkInv /\ [Next]_vars => LinkInv'
<1> SUFFICES ASSUME LinkInv, [Next]_vars PROVE LinkInv'
  OBVIOUS
<1>1. ASSUME InitDevice PROVE LinkInv'
  <2>1. CASE i \in DOMAIN Verbs
    <3> DEFINE x == Verbs[i]
    <3>1. /\ i' = i + 1 /\ main' = main /\ main = "init"
          /\ \/ dev_list' = ListAdd(InitListHead(dev_list, x), x, ListHead)
             \/ dev_list' = dev_list
      BY <1>1, <2>1 DEF InitDevice
    <3>2. /\ x \in Node /\ x # ListHead /\ x # Poison
          /\ dev_list.next[x] = x /\ dev_list.prev[x] = x
      BY <2>1, <3>1, Devices DEF LinkInv
    <3>3. \A n \in DOMAIN Verbs : n >= i' =>
            /\ n >= i /\ Verbs[n] # x /\ Verbs[n] \in Node /\ Verbs[n] # ListHead
            /\ dev_list.next[Verbs[n]] = Verbs[n] /\ dev_list.prev[Verbs[n]] = Verbs[n]
      <4> SUFFICES ASSUME NEW n \in DOMAIN Verbs, n >= i'
                   PROVE  /\ n >= i /\ Verbs[n] # x /\ Verbs[n] \in Node /\ Verbs[n] # ListHead
                          /\ dev_list.next[Verbs[n]] = Verbs[n]
                          /\ dev_list.prev[Verbs[n]] = Verbs[n]
        OBVIOUS
      <4>1. n \in Nat /\ i \in Nat
        BY VerbsAssumption DEF LinkInv
      <4>2. n >= i /\ n # i
        BY <3>1, <4>1
      <4> QED
        BY <2>1, <3>1, <4>2, Devices DEF LinkInv
    <3>4. Linked(dev_list)
      BY DEF LinkInv
    <3> HIDE DEF x
    <3>5. Linked(dev_list')
      BY <3>1, <3>2, <3>4, AddLinked
    <3>6. \A n \in DOMAIN Verbs : n >= i' =>
            dev_list'.next[Verbs[n]] = Verbs[n] /\ dev_list'.prev[Verbs[n]] = Verbs[n]
      BY <3>1, <3>2, <3>3, <3>4, AddLinked
    <3> QED
      BY <3>1, <3>5, <3>6 DEF LinkInv
  <2>2. CASE i \notin DOMAIN Verbs
    BY <1>1, <2>2, LinkQuiet DEF InitDevice
  <2> QED
    BY <2>1, <2>2
<1>2. ASSUME Join PROVE LinkInv'
  BY <1>2 DEF Join, LinkInv
<1>3. ASSUME ReleaseDevice PROVE LinkInv'
  <2>1. CASE pos # ListHead
    <3>1. /\ main = "release" /\ main' = main /\ i' = i
          /\ pos' = dev_list.next[pos]
          /\ dev_list' = ListDel(ListDelInit(dev_list, pos), pos, Poison)
      BY <1>3, <2>1 DEF ReleaseDevice
    <3>2. Linked(dev_list) /\ pos = dev_list.next[ListHead] /\ pos \in Node
      BY <3>1, PointersAreNodes, Devices DEF LinkInv
    <3>3. Linked(dev_list') /\ dev_list'.next[ListHead] = pos'
      BY <2>1, <3>1, <3>2, DeleteLinked
    <3> QED
      BY <3>1, <3>3 DEF LinkInv
  <2>2. CASE pos = ListHead
    BY <1>3, <2>2, LinkQuiet DEF ReleaseDevice
  <2> QED
    BY <2>1, <2>2
<1>4. ASSUME CreateContext \/ CreateTrans \/ ConnectOrListen \/ StartThread \/ Accept
               \/ Prepare \/ Send
      PROVE  LinkInv'
  BY <1>4, LinkQuiet DEF CreateContext, CreateTrans, ConnectOrListen, StartThread, Accept,
                         Prepare, Send
<1>5. ASSUME Epoll \/ CmEvents \/ UNCHANGED vars PROVE LinkInv'
  <2>1. UNCHANGED <<dev_list, i, pos, main>>
    BY <1>5 DEF Epoll, EpollWait, LoopExit, AddrResolved, RouteResolved, ConnectRequest,
                Established, ConnectError, Disconnected, Completion, Timer, CmEvents, vars
  <2> QED
    BY <2>1, LinkQuiet
<1> QED
  BY <1>1, <1>2, <1>3, <1>4, <1>5 DEF Next, Main

\* For every sequence of contexts and whichever of them fail, the list of
\* devices is well linked, and its release never follows a deleted entry.
THEOREM DevicesLinked == Spec => []DevListLinked
<1>1. LinkInv => DevListLinked
  BY DEF LinkInv, Linked, DevListLinked
<1> QED
  BY <1>1, LinkInit, LinkNext, PTL DEF Spec

-----------------------------------------------------------------------------
(* What a sequence of calls leaves. *)

LEMMA Objects ==
  /\ \A x, k : <<x, k>> \in Object <=>
       \/ x \in Device /\ k \in {"device", "pd"}
       \/ x = "ctx" /\ k \in {"ctx", "epfd"}
       \/ x \in Trans /\ k \in TransKind
  /\ \A o \in Object : \E x, k : o = <<x, k>>
  /\ \A t, kinds : \A x, k : <<x, k>> \in Of(t, kinds) <=> x = t /\ k \in kinds
  /\ \A t, kinds : \A o \in Of(t, kinds) : \E k \in kinds : o = <<t, k>>
BY DEF Object, Of

\* The objects in a heap after a sequence of calls that may have failed.
LEMMA RunLeaves ==
  ASSUME NEW h, IsHeap(h), NEW t, NEW calls, Len(calls) \in Nat,
         NEW k \in 1 .. Len(calls) + 1,
         BuildsObjects(calls, t)
  PROVE  Leaves(Run(h, t, calls, k), h, t, calls, k)
<1> DEFINE objs == UNION {Of(t, calls[n].makes) : n \in 1 .. k - 1}
           g0 == [h EXCEPT !.live = @ \cup objs]
           c == Of(t, Cleaned(calls, k))
<1>1. \A x, kind : <<x, kind>> \in objs <=> x = t /\ kind \in Made(calls, k)
  BY DEF Of, Made
<1>2. objs \subseteq Object /\ c \subseteq Object
  <2>1. \A n \in 1 .. k - 1 : n \in 1..Len(calls)
    OBVIOUS
  <2>2. k > Len(calls) \/ k \in 1..Len(calls)
    OBVIOUS
  <2> QED
    BY <2>1, <2>2 DEF Cleaned, Done, Of, BuildsObjects
<1>3. /\ IsHeap(g0) /\ g0.ptr = h.ptr /\ g0.failed = h.failed /\ g0.misuse = h.misuse
      /\ g0.live = h.live \cup objs
  <2> HIDE DEF objs
  <2>1. PICK names : h \in HeapWith(names)
    BY DEF IsHeap
  <2>2. /\ g0 \in HeapWith(names) /\ g0.ptr = h.ptr /\ g0.failed = h.failed
        /\ g0.misuse = h.misuse /\ g0.live = h.live \cup objs
    BY <1>2, <2>1 DEF HeapWith
  <2> HIDE DEF g0
  <2> QED
    BY <2>2 DEF IsHeap
<1> DEFINE g == Run(h, t, calls, k)
<1>4. g = IF Done(calls, k) THEN g0
          ELSE Free([g0 EXCEPT !.failed = @ \cup {calls[k].name}], Of(t, calls[k].cleans))
  BY DEF Run
<1>5. Done(calls, k) => c = {}
  BY DEF Cleaned, Of
<1> HIDE DEF g, g0, objs
<1>6. /\ IsHeap(g) /\ g.ptr = h.ptr
      /\ g.failed = IF Done(calls, k) THEN h.failed ELSE h.failed \cup {calls[k].name}
      /\ g.live = (h.live \cup objs) \ c
      /\ g.misuse = h.misuse \cup (c \ (h.live \cup objs))
  <2>1. CASE Done(calls, k)
    BY <1>3, <1>4, <1>5, <2>1
  <2>2. CASE ~Done(calls, k)
    <3> DEFINE g1 == [g0 EXCEPT !.failed = @ \cup {calls[k].name}]
    <3>1. /\ IsHeap(g1) /\ g1.ptr = h.ptr /\ g1.failed = h.failed \cup {calls[k].name}
          /\ g1.misuse = h.misuse /\ g1.live = h.live \cup objs
      <4>1. PICK names : g0 \in HeapWith(names)
        BY <1>3 DEF IsHeap
      <4> DEFINE more == names \cup {calls[k].name}
      <4>2. /\ g1 \in HeapWith(more) /\ g1.ptr = g0.ptr
            /\ g1.failed = g0.failed \cup {calls[k].name}
            /\ g1.misuse = g0.misuse /\ g1.live = g0.live
        BY <4>1 DEF HeapWith
      <4> HIDE DEF g1, more
      <4> QED
        BY <1>3, <4>2 DEF IsHeap
    <3>2. g = Free(g1, c)
      BY <1>4, <2>2 DEF Cleaned
    <3> HIDE DEF g1, c
    <3>3. /\ IsHeap(g) /\ g.ptr = g1.ptr /\ g.failed = g1.failed /\ g.live = g1.live \ c
          /\ g.misuse = g1.misuse \cup (c \ g1.live)
      <4>1. PICK names : g1 \in HeapWith(names)
        BY <3>1 DEF IsHeap
      <4>2. /\ g \in HeapWith(names) /\ g.ptr = g1.ptr /\ g.failed = g1.failed
            /\ g.live = g1.live \ c /\ g.misuse = g1.misuse \cup (c \ g1.live)
        BY <1>2, <3>2, <4>1 DEF Free, Use, HeapWith
      <4> QED
        BY <4>2 DEF IsHeap
    <3> QED
      BY <2>2, <3>1, <3>3
  <2> QED
    BY <2>1, <2>2
<1>7. ASSUME NEW x, NEW kind
      PROVE  <<x, kind>> \in g.live <=>
               /\ <<x, kind>> \in h.live \/ (x = t /\ kind \in Made(calls, k))
               /\ ~(x = t /\ kind \in Cleaned(calls, k))
  <2>1. <<x, kind>> \in c <=> x = t /\ kind \in Cleaned(calls, k)
    BY DEF Of
  <2> HIDE DEF c
  <2>2. <<x, kind>> \in objs <=> x = t /\ kind \in Made(calls, k)
    BY <1>1
  <2>3. <<x, kind>> \in g.live <=>
          (<<x, kind>> \in h.live \/ <<x, kind>> \in objs) /\ <<x, kind>> \notin c
    BY <1>6
  <2> QED
    BY <2>1, <2>2, <2>3, Zenon
<1>8. ASSUME NEW o
      PROVE  o \in g.misuse <=>
               \/ o \in h.misuse
               \/ /\ o \notin h.live
                  /\ \E kind \in Cleaned(calls, k) : kind \notin Made(calls, k) /\ o = <<t, kind>>
  <2>1. o \in c <=> \E kind \in Cleaned(calls, k) : o = <<t, kind>>
    BY DEF Of
  <2> HIDE DEF c
  <2> QED
    BY <1>1, <1>6, <2>1
<1> QED
  BY <1>6, <1>7, <1>8 DEF g, Leaves

\* What is made grows call by call.
LEMMA MadeGrows ==
  ASSUME NEW calls
  PROVE  /\ Made(calls, 1) = {}
         /\ \A m, n \in Nat : m # 0 /\ n = m + 1 =>
              Made(calls, n) = Made(calls, m) \cup calls[m].makes
<1>1. Made(calls, 1) = {}
  BY DEF Made
<1>2. ASSUME NEW m \in Nat, NEW n \in Nat, m # 0, n = m + 1
      PROVE  Made(calls, n) = Made(calls, m) \cup calls[m].makes
  <2>1. \A j : j \in 1 .. n - 1 <=> j \in 1 .. m - 1 \/ j = m
    BY <1>2
  <2> QED
    BY <2>1 DEF Made
<1> QED
  BY <1>1, <1>2

\* hmr_mempool_create makes the whole pool, or fails with a call that no caller
\* checks and leaves of it at most a registration.
LEMMA PoolRun ==
  ASSUME NEW h, IsHeap(h), NEW t \in Trans,
         NEW k \in DOMAIN MempoolCreate \cup {Len(MempoolCreate) + 1}
  PROVE  LET g == Run(h, t, MempoolCreate, k)
         IN  /\ Touches(g, h, t, PoolKind) /\ g.ptr = h.ptr
             /\ Done(MempoolCreate, k) =>
                  /\ g.failed = h.failed /\ g.misuse = h.misuse
                  /\ \A kind \in PoolKind : <<t, kind>> \in g.live
             /\ ~Done(MempoolCreate, k) =>
                  /\ g.failed \cap Unchecked # {}
                  /\ \A kind \in PoolKind : <<t, kind>> \in g.live =>
                       \/ <<t, kind>> \in h.live
                       \/ kind = "recv_mr" /\ "reg_rdma_mr" \in g.failed
<1> DEFINE c == MempoolCreate
           g == Run(h, t, c, k)
<1>1. /\ Len(c) = 5 /\ DOMAIN c = 1..5
      /\ c[1].name = "calloc_mempool" /\ c[1].makes = {"mempool"} /\ c[1].cleans = {}
      /\ c[2].name = "malloc_region" /\ c[2].makes = {"send_region"} /\ c[2].cleans = {"mempool"}
      /\ c[3].name = "reg_send_mr" /\ c[3].makes = {"send_mr"} /\ c[3].cleans = {"send_region", "mempool"}
      /\ c[4].name = "reg_recv_mr" /\ c[4].makes = {"recv_mr"} /\ c[4].cleans = {"send_region", "mempool", "send_mr"}
      /\ c[5].name = "reg_rdma_mr" /\ c[5].makes = {"rdma_mr"} /\ c[5].cleans = {"send_region", "mempool", "send_mr", "rdma_mr"}
  BY DEF MempoolCreate, Call, RegionCleanup
<1>2. k = 1 \/ k = 2 \/ k = 3 \/ k = 4 \/ k = 5 \/ k = 6
  BY <1>1
<1>a. k # 6 => c[k].name \in Unchecked
  BY <1>1 DEF Unchecked
<1> HIDE DEF c
<1>3. /\ Made(c, 1) = {}
      /\ Made(c, 2) = {"mempool"}
      /\ Made(c, 3) = {"mempool", "send_region"}
      /\ Made(c, 4) = {"mempool", "send_region", "send_mr"}
      /\ Made(c, 5) = {"mempool", "send_region", "send_mr", "recv_mr"}
      /\ Made(c, 6) = PoolKind
  <2>1. /\ Made(c, 1) = {}
        /\ Made(c, 2) = Made(c, 1) \cup c[1].makes
        /\ Made(c, 3) = Made(c, 2) \cup c[2].makes
        /\ Made(c, 4) = Made(c, 3) \cup c[3].makes
        /\ Made(c, 5) = Made(c, 4) \cup c[4].makes
        /\ Made(c, 6) = Made(c, 5) \cup c[5].makes
    BY MadeGrows
  <2> QED
    BY <1>1, <2>1 DEF PoolKind, MrKind
<1>4. /\ k = 6 => Done(c, k) /\ Cleaned(c, k) = {}
      /\ k # 6 => ~Done(c, k) /\ Cleaned(c, k) = c[k].cleans
  BY <1>1, <1>2 DEF Done, Cleaned
<1>5. BuildsObjects(c, t)
  <2>1. \A n \in 1..5 : n = 1 \/ n = 2 \/ n = 3 \/ n = 4 \/ n = 5
    OBVIOUS
  <2>2. \A n \in 1..5 : c[n].makes \cup c[n].cleans \subseteq PoolKind
    BY <1>1, <2>1 DEF PoolKind, MrKind
  <2>3. \A kind \in PoolKind : <<t, kind>> \in Object
    BY Objects DEF PoolKind, TransKind, MrKind
  <2> QED
    BY <1>1, <2>2, <2>3 DEF BuildsObjects, Of
<1>6. Leaves(g, h, t, c, k)
  <2>1. Len(c) \in Nat /\ k \in 1 .. Len(c) + 1
    BY <1>1, <1>2
  <2> QED
    BY <1>5, <2>1, RunLeaves
<1> HIDE DEF g
<1>7. Touches(g, h, t, PoolKind) /\ g.ptr = h.ptr
  <2>1. Made(c, k) \subseteq PoolKind /\ Cleaned(c, k) \subseteq PoolKind
    BY <1>1, <1>2, <1>3, <1>4 DEF PoolKind, MrKind
  <2> QED
    BY <1>6, <2>1 DEF Leaves, Touches
<1>8. CASE k = 6
  BY <1>2, <1>3, <1>4, <1>6, <1>7, <1>8 DEF Leaves, g, c
<1>9. CASE k # 6
  <2>1. \A kind \in PoolKind : kind \in Made(c, k) /\ kind \notin Cleaned(c, k) =>
        kind = "recv_mr" /\ c[k].name = "reg_rdma_mr"
    BY <1>1, <1>2, <1>3, <1>4, <1>9 DEF PoolKind, MrKind
  <2> QED
    BY <1>a, <1>4, <1>6, <1>7, <1>9, <2>1 DEF Leaves, g, c
<1> QED
  BY <1>8, <1>9

\* hmr_qp_create makes a queue and what it rests on, or fails and leaves what its
\* labels forget.
LEMMA QpRun ==
  ASSUME NEW h, IsHeap(h), NEW t \in Trans,
         NEW k \in DOMAIN QpCreate \cup {Len(QpCreate) + 1}
  PROVE  LET g == Run(h, t, QpCreate, k)
         IN  /\ Touches(g, h, t, QpKind) /\ g.ptr = h.ptr
             /\ g.misuse = h.misuse
             /\ Done(QpCreate, k) =>
                  /\ g.failed = h.failed
                  /\ \A kind \in QpKind : <<t, kind>> \in g.live
             /\ ~Done(QpCreate, k) =>
                  /\ g.failed \cap QpCalls # {}
                  /\ \A kind \in QpKind : <<t, kind>> \in g.live =>
                       \/ <<t, kind>> \in h.live
                       \/ kind = "cq" /\ "req_notify_cq" \in g.failed
                       \/ kind \in {"cq", "comp_channel", "comp_fd"} /\ "create_qp" \in g.failed
<1> DEFINE c == QpCreate
           g == Run(h, t, c, k)
<1>1. /\ Len(c) = 7 /\ DOMAIN c = 1..7
      /\ c[1].name = "calloc_hcq" /\ c[1].makes = {"hcq"} /\ c[1].cleans = {}
      /\ c[2].name = "create_comp_channel" /\ c[2].makes = {"comp_channel"} /\ c[2].cleans = {"hcq"}
      /\ c[3].name = "comp_fcntl" /\ c[3].makes = {} /\ c[3].cleans = {"comp_channel", "hcq"}
      /\ c[4].name = "add_comp_fd" /\ c[4].makes = {"comp_fd"} /\ c[4].cleans = {"comp_channel", "hcq"}
      /\ c[5].name = "create_cq" /\ c[5].makes = {"cq"} /\ c[5].cleans = {"comp_fd", "comp_channel", "hcq"}
      /\ c[6].name = "req_notify_cq" /\ c[6].makes = {} /\ c[6].cleans = {"comp_fd", "comp_channel", "hcq"}
      /\ c[7].name = "create_qp" /\ c[7].makes = {"qp"} /\ c[7].cleans = {"hcq"}
  BY DEF QpCreate, Call, QpCleanup
<1>2. k = 1 \/ k = 2 \/ k = 3 \/ k = 4 \/ k = 5 \/ k = 6 \/ k = 7 \/ k = 8
  BY <1>1
<1> HIDE DEF c
<1>3. /\ Made(c, 1) = {}
      /\ Made(c, 2) = {"hcq"}
      /\ Made(c, 3) = {"hcq", "comp_channel"}
      /\ Made(c, 4) = {"hcq", "comp_channel"}
      /\ Made(c, 5) = {"hcq", "comp_channel", "comp_fd"}
      /\ Made(c, 6) = {"hcq", "comp_channel", "comp_fd", "cq"}
      /\ Made(c, 7) = {"hcq", "comp_channel", "comp_fd", "cq"}
      /\ Made(c, 8) = QpKind
  <2>1. /\ Made(c, 1) = {}
        /\ Made(c, 2) = Made(c, 1) \cup c[1].makes
        /\ Made(c, 3) = Made(c, 2) \cup c[2].makes
        /\ Made(c, 4) = Made(c, 3) \cup c[3].makes
        /\ Made(c, 5) = Made(c, 4) \cup c[4].makes
        /\ Made(c, 6) = Made(c, 5) \cup c[5].makes
        /\ Made(c, 7) = Made(c, 6) \cup c[6].makes
        /\ Made(c, 8) = Made(c, 7) \cup c[7].makes
    BY MadeGrows
  <2> QED
    BY <1>1, <2>1 DEF QpKind
<1>4. /\ k = 8 => Done(c, k) /\ Cleaned(c, k) = {}
      /\ k # 8 => ~Done(c, k) /\ Cleaned(c, k) = c[k].cleans
  BY <1>1, <1>2 DEF Done, Cleaned
<1>5. BuildsObjects(c, t)
  <2>1. \A n \in 1..7 : n = 1 \/ n = 2 \/ n = 3 \/ n = 4 \/ n = 5 \/ n = 6 \/ n = 7
    OBVIOUS
  <2>2. \A n \in 1..7 : c[n].makes \cup c[n].cleans \subseteq QpKind
    BY <1>1, <2>1 DEF QpKind
  <2>3. \A kind \in QpKind : <<t, kind>> \in Object
    BY Objects DEF QpKind, TransKind, FdKind
  <2> QED
    BY <1>1, <2>2, <2>3 DEF BuildsObjects, Of
<1>6. Leaves(g, h, t, c, k)
  <2>1. Len(c) \in Nat /\ k \in 1 .. Len(c) + 1
    BY <1>1, <1>2
  <2> QED
    BY <1>5, <2>1, RunLeaves
<1> HIDE DEF g
<1>7. Touches(g, h, t, QpKind) /\ g.ptr = h.ptr
  <2>1. Made(c, k) \subseteq QpKind /\ Cleaned(c, k) \subseteq QpKind
    BY <1>1, <1>2, <1>3, <1>4 DEF QpKind
  <2> QED
    BY <1>6, <2>1 DEF Leaves, Touches
<1>8. CASE k = 8
  BY <1>2, <1>3, <1>4, <1>6, <1>7, <1>8 DEF Leaves, g, c
<1>9. CASE k # 8
  <2>1. Cleaned(c, k) \subseteq Made(c, k)
    BY <1>1, <1>2, <1>3, <1>4, <1>9
  <2>2. \A kind \in QpKind : kind \in Made(c, k) /\ kind \notin Cleaned(c, k) =>
        \/ kind = "cq" /\ c[k].name = "req_notify_cq"
        \/ kind \in {"cq", "comp_channel", "comp_fd"} /\ c[k].name = "create_qp"
    BY <1>1, <1>2, <1>3, <1>4, <1>9 DEF QpKind
  <2>3. c[k].name \in QpCalls
    <3>1. QpCalls = {c[n].name : n \in DOMAIN c}
      BY DEF QpCalls, c
    <3> QED
      BY <1>1, <1>2, <1>9, <3>1
  <2> QED
    BY <1>4, <1>6, <1>7, <1>9, <2>1, <2>2, <2>3 DEF Leaves, g, c
<1> QED
  BY <1>8, <1>9

\* hmr_rdma_dev_init makes a device with its protection domain, or nothing.
LEMMA DevRun ==
  ASSUME NEW h, IsHeap(h), NEW t \in Device,
         NEW k \in DOMAIN DevInit \cup {Len(DevInit) + 1}
  PROVE  LET g == Run(h, t, DevInit, k)
         IN  /\ Touches(g, h, t, {"device", "pd"}) /\ g.ptr = h.ptr
             /\ g.misuse = h.misuse
             /\ Done(DevInit, k) =>
                  /\ g.failed = h.failed
                  /\ <<t, "device">> \in g.live /\ <<t, "pd">> \in g.live
             /\ ~Done(DevInit, k) =>
                  /\ g.failed # {}
                  /\ \A kind \in {"device", "pd"} : <<t, kind>> \in g.live => <<t, kind>> \in h.live
<1> DEFINE c == DevInit
           g == Run(h, t, c, k)
<1>1. /\ Len(c) = 3 /\ DOMAIN c = 1..3
      /\ c[1].name = "calloc_device" /\ c[1].makes = {"device"} /\ c[1].cleans = {}
      /\ c[2].name = "query_device" /\ c[2].makes = {} /\ c[2].cleans = {"device"}
      /\ c[3].name = "alloc_pd" /\ c[3].makes = {"pd"} /\ c[3].cleans = {"device"}
  BY DEF DevInit, Call
<1>2. k = 1 \/ k = 2 \/ k = 3 \/ k = 4
  BY <1>1
<1> HIDE DEF c
<1>3. /\ Made(c, 1) = {}
      /\ Made(c, 2) = {"device"}
      /\ Made(c, 3) = {"device"}
      /\ Made(c, 4) = {"device", "pd"}
  <2>1. /\ Made(c, 1) = {}
        /\ Made(c, 2) = Made(c, 1) \cup c[1].makes
        /\ Made(c, 3) = Made(c, 2) \cup c[2].makes
        /\ Made(c, 4) = Made(c, 3) \cup c[3].makes
    BY MadeGrows
  <2> QED
    BY <1>1, <2>1
<1>4. /\ k = 4 => Done(c, k) /\ Cleaned(c, k) = {}
      /\ k # 4 => ~Done(c, k) /\ Cleaned(c, k) = c[k].cleans
  BY <1>1, <1>2 DEF Done, Cleaned
<1>5. BuildsObjects(c, t)
  <2>1. \A n \in 1..3 : n = 1 \/ n = 2 \/ n = 3
    OBVIOUS
  <2>2. \A n \in 1..3 : c[n].makes \cup c[n].cleans \subseteq {"device", "pd"}
    BY <1>1, <2>1
  <2>3. \A kind \in {"device", "pd"} : <<t, kind>> \in Object
    BY Objects
  <2> QED
    BY <1>1, <2>2, <2>3 DEF BuildsObjects, Of
<1>6. Leaves(g, h, t, c, k)
  <2>1. Len(c) \in Nat /\ k \in 1 .. Len(c) + 1
    BY <1>1, <1>2
  <2> QED
    BY <1>5, <2>1, RunLeaves
<1> HIDE DEF g
<1>7. Touches(g, h, t, {"device", "pd"}) /\ g.ptr = h.ptr
  <2>1. Made(c, k) \subseteq {"device", "pd"} /\ Cleaned(c, k) \subseteq {"device", "pd"}
    BY <1>1, <1>2, <1>3, <1>4
  <2> QED
    BY <1>6, <2>1 DEF Leaves, Touches
<1>8. CASE k = 4
  BY <1>2, <1>3, <1>4, <1>6, <1>7, <1>8 DEF Leaves, g, c
<1>9. CASE k # 4
  <2>1. Cleaned(c, k) \subseteq Made(c, k)
    BY <1>1, <1>2, <1>3, <1>4, <1>9
  <2>2. \A kind \in Made(c, k) : kind \in Cleaned(c, k)
    BY <1>1, <1>2, <1>3, <1>4, <1>9
  <2> QED
    BY <1>4, <1>6, <1>7, <1>9, <2>1, <2>2 DEF Leaves, g, c
<1> QED
  BY <1>8, <1>9

\* hmr_context_create; nobody checks whether it has failed.
LEMMA ContextRun ==
  ASSUME NEW h, IsHeap(h), NEW t, t = "ctx",
         NEW k \in DOMAIN ContextCreate \cup {Len(ContextCreate) + 1}
  PROVE  LET g == Run(h, t, ContextCreate, k)
         IN  /\ Touches(g, h, t, {"ctx", "epfd"}) /\ g.ptr = h.ptr
             /\ g.misuse = h.misuse
             /\ Done(ContextCreate, k) => g.failed = h.failed /\ <<t, "ctx">> \in g.live
             /\ ~Done(ContextCreate, k) => g.failed \cap Unchecked # {}
<1> DEFINE c == ContextCreate
           g == Run(h, t, c, k)
<1>1. /\ Len(c) = 2 /\ DOMAIN c = 1..2
      /\ c[1].name = "calloc_ctx" /\ c[1].makes = {"ctx"} /\ c[1].cleans = {}
      /\ c[2].name = "epoll_create" /\ c[2].makes = {"epfd"} /\ c[2].cleans = {"ctx"}
  BY DEF ContextCreate, Call
<1>2. k = 1 \/ k = 2 \/ k = 3
  BY <1>1
<1> HIDE DEF c
<1>3. /\ Made(c, 1) = {}
      /\ Made(c, 2) = {"ctx"}
      /\ Made(c, 3) = {"ctx", "epfd"}
  <2>1. /\ Made(c, 1) = {}
        /\ Made(c, 2) = Made(c, 1) \cup c[1].makes
        /\ Made(c, 3) = Made(c, 2) \cup c[2].makes
    BY MadeGrows
  <2> QED
    BY <1>1, <2>1
<1>4. /\ k = 3 => Done(c, k) /\ Cleaned(c, k) = {}
      /\ k # 3 => ~Done(c, k) /\ Cleaned(c, k) = c[k].cleans
  BY <1>1, <1>2 DEF Done, Cleaned
<1>5. BuildsObjects(c, t)
  <2>1. \A n \in 1..2 : n = 1 \/ n = 2
    OBVIOUS
  <2>2. \A n \in 1..2 : c[n].makes \cup c[n].cleans \subseteq {"ctx", "epfd"}
    BY <1>1, <2>1
  <2>3. \A kind \in {"ctx", "epfd"} : <<t, kind>> \in Object
    BY Objects
  <2> QED
    BY <1>1, <2>2, <2>3 DEF BuildsObjects, Of
<1>6. Leaves(g, h, t, c, k)
  <2>1. Len(c) \in Nat /\ k \in 1 .. Len(c) + 1
    BY <1>1, <1>2
  <2> QED
    BY <1>5, <2>1, RunLeaves
<1> HIDE DEF g
<1>7. Touches(g, h, t, {"ctx", "epfd"}) /\ g.ptr = h.ptr
  <2>1. Made(c, k) \subseteq {"ctx", "epfd"} /\ Cleaned(c, k) \subseteq {"ctx", "epfd"}
    BY <1>1, <1>2, <1>3, <1>4
  <2> QED
    BY <1>6, <2>1 DEF Leaves, Touches
<1>8. CASE k = 3
  BY <1>2, <1>3, <1>4, <1>6, <1>7, <1>8 DEF Leaves, g, c
<1>9. CASE k # 3
  <2>1. Cleaned(c, k) \subseteq Made(c, k)
    BY <1>1, <1>2, <1>3, <1>4, <1>9
  <2>2. c[k].name \in Unchecked
    BY <1>1, <1>2, <1>9 DEF Unchecked
  <2> QED
    BY <1>4, <1>6, <1>7, <1>9, <2>1, <2>2 DEF Leaves, g, c
<1> QED
  BY <1>8, <1>9

\* hmr_rdma_event_channel_init makes a channel, with or without its place in the
\* epoll set; nobody checks whether it has failed.
LEMMA ChannelRun ==
  ASSUME NEW h, IsHeap(h), NEW t \in Trans,
         NEW k \in DOMAIN EventChannelInit \cup {Len(EventChannelInit) + 1}
  PROVE  LET g == Run(h, t, EventChannelInit, k)
         IN  /\ Touches(g, h, t, {"event_channel", "event_fd"}) /\ g.ptr = h.ptr
             /\ g.misuse = h.misuse
             /\ k > 2 => <<t, "event_channel">> \in g.live
             /\ ~(k > 2) =>
                  /\ g.failed \cap Unchecked # {}
                  /\ <<t, "event_fd">> \in g.live => <<t, "event_fd">> \in h.live
                  /\ <<t, "event_channel">> \in g.live => <<t, "event_channel">> \in h.live
             /\ k \in {1, 2, 3, 4}
<1> DEFINE c == EventChannelInit
           g == Run(h, t, c, k)
<1>1. /\ Len(c) = 3 /\ DOMAIN c = 1..3
      /\ c[1].name = "create_event_channel" /\ c[1].makes = {"event_channel"} /\ c[1].cleans = {}
      /\ c[2].name = "event_fcntl" /\ c[2].makes = {} /\ c[2].cleans = {"event_channel"}
      /\ c[3].name = "add_event_fd" /\ c[3].makes = {"event_fd"} /\ c[3].cleans = {}
  BY DEF EventChannelInit, Call
<1>2. k = 1 \/ k = 2 \/ k = 3 \/ k = 4
  BY <1>1
<1> HIDE DEF c
<1>3. /\ Made(c, 1) = {}
      /\ Made(c, 2) = {"event_channel"}
      /\ Made(c, 3) = {"event_channel"}
      /\ Made(c, 4) = {"event_channel", "event_fd"}
  <2>1. /\ Made(c, 1) = {}
        /\ Made(c, 2) = Made(c, 1) \cup c[1].makes
        /\ Made(c, 3) = Made(c, 2) \cup c[2].makes
        /\ Made(c, 4) = Made(c, 3) \cup c[3].makes
    BY MadeGrows
  <2> QED
    BY <1>1, <2>1
<1>4. /\ k = 4 => Done(c, k) /\ Cleaned(c, k) = {}
      /\ k # 4 => ~Done(c, k) /\ Cleaned(c, k) = c[k].cleans
  BY <1>1, <1>2 DEF Done, Cleaned
<1>5. BuildsObjects(c, t)
  <2>1. \A n \in 1..3 : n = 1 \/ n = 2 \/ n = 3
    OBVIOUS
  <2>2. \A n \in 1..3 : c[n].makes \cup c[n].cleans \subseteq {"event_channel", "event_fd"}
    BY <1>1, <2>1
  <2>3. \A kind \in {"event_channel", "event_fd"} : <<t, kind>> \in Object
    BY Objects DEF TransKind, FdKind
  <2> QED
    BY <1>1, <2>2, <2>3 DEF BuildsObjects, Of
<1>6. Leaves(g, h, t, c, k)
  <2>1. Len(c) \in Nat /\ k \in 1 .. Len(c) + 1
    BY <1>1, <1>2
  <2> QED
    BY <1>5, <2>1, RunLeaves
<1> HIDE DEF g
<1>7. Touches(g, h, t, {"event_channel", "event_fd"}) /\ g.ptr = h.ptr
  <2>1. Made(c, k) \subseteq {"event_channel", "event_fd"} /\ Cleaned(c, k) \subseteq {"event_channel", "event_fd"}
    BY <1>1, <1>2, <1>3, <1>4
  <2> QED
    BY <1>6, <2>1 DEF Leaves, Touches
<1>8. CASE k = 4
  BY <1>2, <1>3, <1>4, <1>6, <1>7, <1>8 DEF Leaves, g, c
<1>9. CASE k # 4
  <2>1. Cleaned(c, k) \subseteq Made(c, k)
    BY <1>1, <1>2, <1>3, <1>4, <1>9
  <2>2. k # 3 => c[k].name \in Unchecked /\ ~(k > 2)
    BY <1>1, <1>2, <1>9 DEF Unchecked
  <2>3. \A kind \in Made(c, k) : k # 3 => kind \in Cleaned(c, k)
    BY <1>1, <1>2, <1>3, <1>4, <1>9
  <2>4. k = 3 => k > 2 /\ "event_channel" \in Made(c, k) /\ "event_channel" \notin Cleaned(c, k)
    BY <1>1, <1>2, <1>3, <1>4, <1>9
  <2>5. "event_fd" \notin Made(c, k)
    BY <1>1, <1>2, <1>3, <1>4, <1>9
  <2> QED
    BY <1>2, <1>4, <1>6, <1>7, <1>9, <2>1, <2>2, <2>3, <2>4, <2>5 DEF Leaves, g, c
<1> QED
  BY <1>8, <1>9

\* hmr_timerfd_create may leave a timer that is not set.
LEMMA TimerRun ==
  ASSUME NEW h, IsHeap(h), NEW t \in Trans,
         NEW k \in DOMAIN TimerfdCreate \cup {Len(TimerfdCreate) + 1}
  PROVE  LET g == Run(h, t, TimerfdCreate, k)
         IN  /\ Touches(g, h, t, {"timerfd"}) /\ g.ptr = h.ptr
             /\ g.misuse = h.misuse
             /\ Done(TimerfdCreate, k) => g.failed = h.failed /\ <<t, "timerfd">> \in g.live
             /\ ~Done(TimerfdCreate, k) /\ <<t, "timerfd">> \in g.live =>
                  <<t, "timerfd">> \in h.live \/ "settime" \in g.failed
<1> DEFINE c == TimerfdCreate
           g == Run(h, t, c, k)
<1>1. /\ Len(c) = 2 /\ DOMAIN c = 1..2
      /\ c[1].name = "timerfd_create" /\ c[1].makes = {"timerfd"} /\ c[1].cleans = {}
      /\ c[2].name = "settime" /\ c[2].makes = {} /\ c[2].cleans = {}
  BY DEF TimerfdCreate, Call
<1>2. k = 1 \/ k = 2 \/ k = 3
  BY <1>1
<1> HIDE DEF c
<1>3. /\ Made(c, 1) = {}
      /\ Made(c, 2) = {"timerfd"}
      /\ Made(c, 3) = {"timerfd"}
  <2>1. /\ Made(c, 1) = {}
        /\ Made(c, 2) = Made(c, 1) \cup c[1].makes
        /\ Made(c, 3) = Made(c, 2) \cup c[2].makes
    BY MadeGrows
  <2> QED
    BY <1>1, <2>1
<1>4. /\ k = 3 => Done(c, k) /\ Cleaned(c, k) = {}
      /\ k # 3 => ~Done(c, k) /\ Cleaned(c, k) = c[k].cleans
  BY <1>1, <1>2 DEF Done, Cleaned
<1>5. BuildsObjects(c, t)
  <2>1. \A n \in 1..2 : n = 1 \/ n = 2
    OBVIOUS
  <2>2. \A n \in 1..2 : c[n].makes \cup c[n].cleans \subseteq {"timerfd"}
    BY <1>1, <2>1
  <2>3. \A kind \in {"timerfd"} : <<t, kind>> \in Object
    BY Objects DEF TransKind
  <2> QED
    BY <1>1, <2>2, <2>3 DEF BuildsObjects, Of
<1>6. Leaves(g, h, t, c, k)
  <2>1. Len(c) \in Nat /\ k \in 1 .. Len(c) + 1
    BY <1>1, <1>2
  <2> QED
    BY <1>5, <2>1, RunLeaves
<1> HIDE DEF g
<1>7. Touches(g, h, t, {"timerfd"}) /\ g.ptr = h.ptr
  <2>1. Made(c, k) \subseteq {"timerfd"} /\ Cleaned(c, k) \subseteq {"timerfd"}
    BY <1>1, <1>2, <1>3, <1>4
  <2> QED
    BY <1>6, <2>1 DEF Leaves, Touches
<1>8. CASE k = 3
  BY <1>2, <1>3, <1>4, <1>6, <1>7, <1>8 DEF Leaves, g, c
<1>9. CASE k # 3
  <2>1. Cleaned(c, k) \subseteq Made(c, k)
    BY <1>1, <1>2, <1>3, <1>4, <1>9
  <2>2. "timerfd" \in Made(c, k) => c[k].name = "settime"
    BY <1>1, <1>2, <1>3, <1>4, <1>9
  <2> QED
    BY <1>4, <1>6, <1>7, <1>9, <2>1, <2>2 DEF Leaves, g, c
<1> QED
  BY <1>8, <1>9

\* hmr_rdma_connect keeps the id when nothing fails.
LEMMA ConnectRun ==
  ASSUME NEW h, IsHeap(h), NEW t \in Trans,
         NEW k \in DOMAIN Connect \cup {Len(Connect) + 1}
  PROVE  LET g == Run(h, t, Connect, k)
         IN  /\ Touches(g, h, t, {"cm_id"}) /\ g.ptr = h.ptr
             /\ g.misuse = h.misuse
             /\ Done(Connect, k) => g.failed = h.failed
             /\ ~Done(Connect, k) /\ <<t, "cm_id">> \in g.live => <<t, "cm_id">> \in h.live
<1> DEFINE c == Connect
           g == Run(h, t, c, k)
<1>1. /\ Len(c) = 3 /\ DOMAIN c = 1..3
      /\ c[1].name = "peer_address" /\ c[1].makes = {} /\ c[1].cleans = {}
      /\ c[2].name = "create_id" /\ c[2].makes = {"cm_id"} /\ c[2].cleans = {}
      /\ c[3].name = "resolve_addr" /\ c[3].makes = {} /\ c[3].cleans = {"cm_id"}
  BY DEF Connect, Call
<1>2. k = 1 \/ k = 2 \/ k = 3 \/ k = 4
  BY <1>1
<1> HIDE DEF c
<1>3. /\ Made(c, 1) = {}
      /\ Made(c, 2) = {}
      /\ Made(c, 3) = {"cm_id"}
      /\ Made(c, 4) = {"cm_id"}
  <2>1. /\ Made(c, 1) = {}
        /\ Made(c, 2) = Made(c, 1) \cup c[1].makes
        /\ Made(c, 3) = Made(c, 2) \cup c[2].makes
        /\ Made(c, 4) = Made(c, 3) \cup c[3].makes
    BY MadeGrows
  <2> QED
    BY <1>1, <2>1
<1>4. /\ k = 4 => Done(c, k) /\ Cleaned(c, k) = {}
      /\ k # 4 => ~Done(c, k) /\ Cleaned(c, k) = c[k].cleans
  BY <1>1, <1>2 DEF Done, Cleaned
<1>5. BuildsObjects(c, t)
  <2>1. \A n \in 1..3 : n = 1 \/ n = 2 \/ n = 3
    OBVIOUS
  <2>2. \A n \in 1..3 : c[n].makes \cup c[n].cleans \subseteq {"cm_id"}
    BY <1>1, <2>1
  <2>3. \A kind \in {"cm_id"} : <<t, kind>> \in Object
    BY Objects DEF TransKind
  <2> QED
    BY <1>1, <2>2, <2>3 DEF BuildsObjects, Of
<1>6. Leaves(g, h, t, c, k)
  <2>1. Len(c) \in Nat /\ k \in 1 .. Len(c) + 1
    BY <1>1, <1>2
  <2> QED
    BY <1>5, <2>1, RunLeaves
<1> HIDE DEF g
<1>7. Touches(g, h, t, {"cm_id"}) /\ g.ptr = h.ptr
  <2>1. Made(c, k) \subseteq {"cm_id"} /\ Cleaned(c, k) \subseteq {"cm_id"}
    BY <1>1, <1>2, <1>3, <1>4
  <2> QED
    BY <1>6, <2>1 DEF Leaves, Touches
<1>8. CASE k = 4
  BY <1>2, <1>3, <1>4, <1>6, <1>7, <1>8 DEF Leaves, g, c
<1>9. CASE k # 4
  <2>1. Cleaned(c, k) \subseteq Made(c, k)
    BY <1>1, <1>2, <1>3, <1>4, <1>9
  <2>2. \A kind \in Made(c, k) : kind \in Cleaned(c, k)
    BY <1>1, <1>2, <1>3, <1>4, <1>9
  <2> QED
    BY <1>4, <1>6, <1>7, <1>9, <2>1, <2>2 DEF Leaves, g, c
<1> QED
  BY <1>8, <1>9

\* hmr_rdma_listen keeps the id when nothing fails.
LEMMA ListenRun ==
  ASSUME NEW h, IsHeap(h), NEW t \in Trans,
         NEW k \in DOMAIN Listen \cup {Len(Listen) + 1}
  PROVE  LET g == Run(h, t, Listen, k)
         IN  /\ Touches(g, h, t, {"cm_id"}) /\ g.ptr = h.ptr
             /\ g.misuse = h.misuse
             /\ Done(Listen, k) => g.failed = h.failed
             /\ ~Done(Listen, k) /\ <<t, "cm_id">> \in g.live => <<t, "cm_id">> \in h.live
<1> DEFINE c == Listen
           g == Run(h, t, c, k)
<1>1. /\ Len(c) = 3 /\ DOMAIN c = 1..3
      /\ c[1].name = "create_id" /\ c[1].makes = {"cm_id"} /\ c[1].cleans = {}
      /\ c[2].name = "bind_addr" /\ c[2].makes = {} /\ c[2].cleans = {"cm_id"}
      /\ c[3].name = "listen" /\ c[3].makes = {} /\ c[3].cleans = {"cm_id"}
  BY DEF Listen, Call
<1>2. k = 1 \/ k = 2 \/ k = 3 \/ k = 4
  BY <1>1
<1> HIDE DEF c
<1>3. /\ Made(c, 1) = {}
      /\ Made(c, 2) = {"cm_id"}
      /\ Made(c, 3) = {"cm_id"}
      /\ Made(c, 4) = {"cm_id"}
  <2>1. /\ Made(c, 1) = {}
        /\ Made(c, 2) = Made(c, 1) \cup c[1].makes
        /\ Made(c, 3) = Made(c, 2) \cup c[2].makes
        /\ Made(c, 4) = Made(c, 3) \cup c[3].makes
    BY MadeGrows
  <2> QED
    BY <1>1, <2>1
<1>4. /\ k = 4 => Done(c, k) /\ Cleaned(c, k) = {}
      /\ k # 4 => ~Done(c, k) /\ Cleaned(c, k) = c[k].cleans
  BY <1>1, <1>2 DEF Done, Cleaned
<1>5. BuildsObjects(c, t)
  <2>1. \A n \in 1..3 : n = 1 \/ n = 2 \/ n = 3
    OBVIOUS
  <2>2. \A n \in 1..3 : c[n].makes \cup c[n].cleans \subseteq {"cm_id"}
    BY <1>1, <2>1
  <2>3. \A kind \in {"cm_id"} : <<t, kind>> \in Object
    BY Objects DEF TransKind
  <2> QED
    BY <1>1, <2>2, <2>3 DEF BuildsObjects, Of
<1>6. Leaves(g, h, t, c, k)
  <2>1. Len(c) \in Nat /\ k \in 1 .. Len(c) + 1
    BY <1>1, <1>2
  <2> QED
    BY <1>5, <2>1, RunLeaves
<1> HIDE DEF g
<1>7. Touches(g, h, t, {"cm_id"}) /\ g.ptr = h.ptr
  <2>1. Made(c, k) \subseteq {"cm_id"} /\ Cleaned(c, k) \subseteq {"cm_id"}
    BY <1>1, <1>2, <1>3, <1>4
  <2> QED
    BY <1>6, <2>1 DEF Leaves, Touches
<1>8. CASE k = 4
  BY <1>2, <1>3, <1>4, <1>6, <1>7, <1>8 DEF Leaves, g, c
<1>9. CASE k # 4
  <2>1. Cleaned(c, k) \subseteq Made(c, k)
    BY <1>1, <1>2, <1>3, <1>4, <1>9
  <2>2. \A kind \in Made(c, k) : kind \in Cleaned(c, k)
    BY <1>1, <1>2, <1>3, <1>4, <1>9
  <2> QED
    BY <1>4, <1>6, <1>7, <1>9, <2>1, <2>2 DEF Leaves, g, c
<1> QED
  BY <1>8, <1>9

\* One call, which makes something or fails.
LEMMA SingleRun ==
  ASSUME NEW h, IsHeap(h), NEW t, NEW name, NEW makes, Of(t, makes) \subseteq Object,
         NEW k \in DOMAIN Single(name, makes) \cup {Len(Single(name, makes)) + 1}
  PROVE  LET g == Run(h, t, Single(name, makes), k)
         IN  /\ Touches(g, h, t, makes) /\ g.ptr = h.ptr /\ g.misuse = h.misuse
             /\ Done(Single(name, makes), k) =>
                  g.failed = h.failed /\ \A kind \in makes : <<t, kind>> \in g.live
             /\ ~Done(Single(name, makes), k) =>
                  /\ name \in g.failed
                  /\ \A x, kind : <<x, kind>> \in g.live <=> <<x, kind>> \in h.live
<1> DEFINE c == Single(name, makes)
           g == Run(h, t, c, k)
<1>1. Len(c) = 1 /\ DOMAIN c = 1..1 /\ c[1].name = name /\ c[1].makes = makes /\ c[1].cleans = {}
  BY DEF Single, Call
<1>2. k = 1 \/ k = 2
  BY <1>1
<1> HIDE DEF c
<1>3. Made(c, 1) = {} /\ Made(c, 2) = makes
  <2>1. Made(c, 1) = {} /\ Made(c, 2) = Made(c, 1) \cup c[1].makes
    BY MadeGrows
  <2> QED
    BY <1>1, <2>1
<1>4. /\ k = 2 => Done(c, k) /\ Cleaned(c, k) = {}
      /\ k # 2 => ~Done(c, k) /\ Cleaned(c, k) = {} /\ c[k].name = name
  BY <1>1, <1>2 DEF Done, Cleaned
<1>5. BuildsObjects(c, t)
  <2>1. \A n \in 1..1 : n = 1
    OBVIOUS
  <2> QED
    BY <1>1, <2>1 DEF BuildsObjects, Of
<1>6. Leaves(g, h, t, c, k)
  <2>1. Len(c) \in Nat /\ k \in 1 .. Len(c) + 1
    BY <1>1, <1>2
  <2> QED
    BY <1>5, <2>1, RunLeaves
<1> HIDE DEF g
<1>7. Touches(g, h, t, makes) /\ g.ptr = h.ptr /\ g.misuse = h.misuse
  <2>1. Made(c, k) \subseteq makes /\ Cleaned(c, k) = {}
    BY <1>1, <1>2, <1>3, <1>4
  <2>2. g.misuse = h.misuse
    BY <1>6, <2>1 DEF Leaves
  <2> QED
    BY <1>6, <2>1, <2>2 DEF Leaves, Touches
<1>8. CASE k = 2
  BY <1>3, <1>4, <1>6, <1>7, <1>8 DEF Leaves, g, c
<1>9. CASE k # 2
  <2>1. Made(c, k) = {} /\ Cleaned(c, k) = {}
    BY <1>2, <1>3, <1>4, <1>9
  <2> QED
    BY <1>4, <1>6, <1>7, <1>9, <2>1 DEF Leaves, g, c
<1> QED
  BY <1>8, <1>9

LEMMA EndsIn ==
  ASSUME NEW h, NEW calls, NEW k \in Ends(h, calls)
  PROVE  k \in DOMAIN calls \cup {Len(calls) + 1}
BY DEF Ends

\* Using objects, and pointing to them, by their effect on the heap.
LEMMA UseLeaves ==
  ASSUME NEW h, IsHeap(h), NEW objs, objs \subseteq Object
  PROVE  /\ IsHeap(Use(h, objs)) /\ Use(h, objs).live = h.live /\ Use(h, objs).ptr = h.ptr
         /\ Use(h, objs).failed = h.failed
         /\ Use(h, objs).misuse = h.misuse \cup (objs \ h.live)
<1>1. PICK names : h \in HeapWith(names)
  BY DEF IsHeap
<1> DEFINE g == Use(h, objs)
<1>2. /\ g \in HeapWith(names) /\ g.live = h.live /\ g.ptr = h.ptr /\ g.failed = h.failed
      /\ g.misuse = h.misuse \cup (objs \ h.live)
  BY <1>1 DEF Use, HeapWith
<1> HIDE DEF g
<1> QED
  BY <1>2 DEF IsHeap, g

LEMMA FreeLeaves ==
  ASSUME NEW h, IsHeap(h), NEW objs, objs \subseteq Object
  PROVE  /\ IsHeap(Free(h, objs)) /\ Free(h, objs).live = h.live \ objs
         /\ Free(h, objs).ptr = h.ptr /\ Free(h, objs).failed = h.failed
         /\ Free(h, objs).misuse = h.misuse \cup (objs \ h.live)
<1>1. PICK names : h \in HeapWith(names)
  BY DEF IsHeap
<1> DEFINE g == Free(h, objs)
<1>2. /\ g \in HeapWith(names) /\ g.live = h.live \ objs /\ g.ptr = h.ptr /\ g.failed = h.failed
      /\ g.misuse = h.misuse \cup (objs \ h.live)
  BY <1>1 DEF Free, Use, HeapWith
<1> HIDE DEF g
<1> QED
  BY <1>2 DEF IsHeap, g

LEMMA PointLeaves ==
  ASSUME NEW h, IsHeap(h), NEW objs, objs \subseteq Object
  PROVE  /\ IsHeap(Point(h, objs)) /\ Point(h, objs).live = h.live
         /\ Point(h, objs).ptr = h.ptr \cup objs /\ Point(h, objs).failed = h.failed
         /\ Point(h, objs).misuse = h.misuse
<1>1. PICK names : h \in HeapWith(names)
  BY DEF IsHeap
<1> DEFINE g == Point(h, objs)
<1>2. /\ g \in HeapWith(names) /\ g.live = h.live /\ g.ptr = h.ptr \cup objs
      /\ g.failed = h.failed /\ g.misuse = h.misuse
  BY <1>1 DEF Point, HeapWith
<1> HIDE DEF g
<1> QED
  BY <1>2 DEF IsHeap, g

LEMMA ForgetLeaves ==
  ASSUME NEW h, IsHeap(h), NEW t
  PROVE  /\ IsHeap(Forget(h, t)) /\ Forget(h, t).live = h.live
         /\ Forget(h, t).ptr = h.ptr \ Of(t, {"trans"}) /\ Forget(h, t).failed = h.failed
         /\ Forget(h, t).misuse = h.misuse
<1>1. PICK names : h \in HeapWith(names)
  BY DEF IsHeap
<1> DEFINE objs == Of(t, {"trans"})
           g == Forget(h, t)
<1>2. g = [h EXCEPT !.ptr = h.ptr \ objs]
  BY DEF Forget
<1> HIDE DEF objs, g
<1>3. /\ g \in HeapWith(names) /\ g.live = h.live /\ g.ptr = h.ptr \ objs
      /\ g.failed = h.failed /\ g.misuse = h.misuse
  BY <1>1, <1>2 DEF HeapWith
<1> QED
  BY <1>3 DEF IsHeap, g, objs

LEMMA FailLeaves ==
  ASSUME NEW h, IsHeap(h), NEW name
  PROVE  /\ IsHeap(Fail(h, name)) /\ Fail(h, name).live = h.live /\ Fail(h, name).ptr = h.ptr
         /\ Fail(h, name).failed = h.failed \cup {name} /\ Fail(h, name).misuse = h.misuse
<1>1. PICK names : h \in HeapWith(names)
  BY DEF IsHeap
<1> DEFINE more == names \cup {name}
           g == Fail(h, name)
<1>2. g = [h EXCEPT !.failed = h.failed \cup {name}]
  BY DEF Fail
<1> HIDE DEF g
<1>3. /\ g \in HeapWith(more) /\ g.live = h.live /\ g.ptr = h.ptr
      /\ g.failed = h.failed \cup {name} /\ g.misuse = h.misuse
  BY <1>1, <1>2 DEF HeapWith
<1> HIDE DEF more
<1> QED
  BY <1>3 DEF IsHeap, g

\* The objects named one by one.
LEMMA OfMembers ==
  ASSUME NEW t, NEW kinds
  PROVE  /\ \A x, kind : <<x, kind>> \in Of(t, kinds) <=> x = t /\ kind \in kinds
         /\ t \in Trans /\ kinds \subseteq TransKind => Of(t, kinds) \subseteq Object
BY DEF Of, Object

\* hmr_rdma_create makes a transport or nothing.  Its timer and its channel may
\* be missing, and what is there of them is pointed to, unless a timer is not set.
LEMMA CreatedLeaves ==
  ASSUME NEW h, IsHeap(h), NEW t \in Trans, NEW g \in Created(h, t),
         \A kind \in CreatedKind : <<t, kind>> \notin h.live \cup h.ptr
  PROVE  /\ Touches(g, h, t, CreatedKind)
         /\ <<t, "event_fd">> \in g.live => <<t, "event_channel">> \in g.live
         /\ <<t, "event_channel">> \in g.live => <<t, "event_channel">> \in g.ptr
         /\ <<t, "trans">> \in g.live => <<t, "trans">> \in g.ptr
         /\ <<t, "trans">> \notin g.live =>
              /\ "calloc_trans" \in g.failed
              /\ \A kind \in CreatedKind : <<t, kind>> \notin g.live
         /\ <<t, "timerfd">> \in g.live => <<t, "timerfd">> \in g.ptr \/ "settime" \in g.failed
         /\ <<t, "timerfd">> \in g.ptr => <<t, "trans">> \in g.live
         /\ g.failed \cap Unchecked = {} =>
              /\ <<t, "trans">> \in g.live
              /\ <<t, "event_channel">> \in g.live /\ <<t, "event_channel">> \in g.ptr
         /\ Ctx \in h.live => g.misuse = h.misuse
<1> DEFINE calloc == Single("calloc_trans", {"trans"})
<1>1. Len(calloc) = 1 /\ DOMAIN calloc = {1}
  BY DEF Single
<1>2. Of(t, {"trans"}) \subseteq Object /\ Of(t, {"event_channel"}) \subseteq Object
      /\ Of(t, {"timerfd"}) \subseteq Object /\ {Ctx} \subseteq Object
  BY OfMembers DEF TransKind, Object, Ctx
<1>3. CASE g = Run(h, t, calloc, 1)
  <2>1. ~Done(calloc, 1) /\ 1 \in DOMAIN calloc \cup {Len(calloc) + 1}
    BY <1>1 DEF Done
  <2> HIDE DEF calloc
  <2>2. /\ Touches(g, h, t, {"trans"}) /\ g.ptr = h.ptr /\ g.misuse = h.misuse
        /\ "calloc_trans" \in g.failed
        /\ \A x, kind : <<x, kind>> \in g.live <=> <<x, kind>> \in h.live
    BY <1>2, <1>3, <2>1, SingleRun DEF calloc
  <2>3. "calloc_trans" \in Unchecked
    BY DEF Unchecked
  <2> QED
    BY <2>2, <2>3 DEF Touches, CreatedKind
<1> DEFINE made == Run(h, t, calloc, 2)
           h0 == Point(made, Of(t, {"trans"}))
           run(k) == Run(h0, t, EventChannelInit, k)
           used(k) == Use(run(k), IF k > 2 THEN {Ctx} ELSE {})
           h1(k) == Point(used(k), IF k > 1 THEN Of(t, {"event_channel"}) ELSE {})
           h2(k, j) == Run(h1(k), t, TimerfdCreate, j)
<1>4. CASE \E k \in Ends(h0, EventChannelInit) : \E j \in Ends(h1(k), TimerfdCreate) :
             g = Point(h2(k, j), IF Done(TimerfdCreate, j) THEN Of(t, {"timerfd"}) ELSE {})
  <2>0. PICK k \in Ends(h0, EventChannelInit) : \E j \in Ends(h1(k), TimerfdCreate) :
               g = Point(h2(k, j), IF Done(TimerfdCreate, j) THEN Of(t, {"timerfd"}) ELSE {})
    BY <1>4
  <2>1. PICK j \in Ends(h1(k), TimerfdCreate) :
               g = Point(h2(k, j), IF Done(TimerfdCreate, j) THEN Of(t, {"timerfd"}) ELSE {})
    BY <2>0
  <2>2. /\ k \in DOMAIN EventChannelInit \cup {Len(EventChannelInit) + 1}
        /\ j \in DOMAIN TimerfdCreate \cup {Len(TimerfdCreate) + 1}
    BY EndsIn
  <2> HIDE DEF calloc
  <2>3. Done(calloc, 2) /\ 2 \in DOMAIN calloc \cup {Len(calloc) + 1}
    BY <1>1 DEF Done
  <2>4. /\ Touches(made, h, t, {"trans"}) /\ made.ptr = h.ptr /\ made.misuse = h.misuse
        /\ made.failed = h.failed /\ <<t, "trans">> \in made.live
    BY <1>2, <2>3, SingleRun DEF calloc
  <2> HIDE DEF made
  <2>5. /\ IsHeap(h0) /\ h0.live = made.live /\ h0.ptr = h.ptr \cup Of(t, {"trans"})
        /\ h0.failed = h.failed /\ h0.misuse = h.misuse
    BY <1>2, <2>4, PointLeaves DEF Touches
  <2> HIDE DEF h0
  <2> DEFINE a == run(k)
  <2>6. /\ Touches(a, h0, t, {"event_channel", "event_fd"}) /\ a.ptr = h0.ptr
        /\ a.misuse = h0.misuse
        /\ k > 2 => <<t, "event_channel">> \in a.live
        /\ ~(k > 2) => /\ a.failed \cap Unchecked # {}
                       /\ <<t, "event_fd">> \in a.live => <<t, "event_fd">> \in h0.live
                       /\ <<t, "event_channel">> \in a.live => <<t, "event_channel">> \in h0.live
        /\ k \in {1, 2, 3, 4}
    BY <2>2, <2>5, ChannelRun
  <2> DEFINE b == used(k)
  <2>7. /\ IsHeap(b) /\ b.live = a.live /\ b.ptr = a.ptr /\ b.failed = a.failed
        /\ b.misuse = a.misuse \cup ((IF k > 2 THEN {Ctx} ELSE {}) \ a.live)
    <3> HIDE DEF a
    <3> QED
      BY <1>2, <2>6, UseLeaves DEF Touches, a
  <2> DEFINE d == h1(k)
  <2>8. /\ IsHeap(d) /\ d.live = b.live /\ d.failed = b.failed /\ d.misuse = b.misuse
        /\ d.ptr = b.ptr \cup (IF k > 1 THEN Of(t, {"event_channel"}) ELSE {})
    <3> DEFINE objs == IF k > 1 THEN Of(t, {"event_channel"}) ELSE {}
    <3>1. objs \subseteq Object
      BY <1>2
    <3> HIDE DEF b, objs
    <3>2. /\ IsHeap(Point(b, objs)) /\ Point(b, objs).live = b.live
          /\ Point(b, objs).ptr = b.ptr \cup objs /\ Point(b, objs).failed = b.failed
          /\ Point(b, objs).misuse = b.misuse
      BY <2>7, <3>1, PointLeaves
    <3> QED
      BY <3>2 DEF b, objs
  <2> HIDE DEF a, b, d
  <2> DEFINE e == h2(k, j)
  <2>9. /\ Touches(e, d, t, {"timerfd"}) /\ e.ptr = d.ptr /\ e.misuse = d.misuse
        /\ Done(TimerfdCreate, j) => e.failed = d.failed /\ <<t, "timerfd">> \in e.live
        /\ ~Done(TimerfdCreate, j) /\ <<t, "timerfd">> \in e.live =>
             <<t, "timerfd">> \in d.live \/ "settime" \in e.failed
    BY <2>2, <2>8, TimerRun DEF d
  <2>10. /\ IsHeap(g) /\ g.live = e.live /\ g.failed = e.failed /\ g.misuse = e.misuse
         /\ g.ptr = e.ptr \cup (IF Done(TimerfdCreate, j) THEN Of(t, {"timerfd"}) ELSE {})
    <3>1. IsHeap(e)
      BY <2>9 DEF Touches
    <3> DEFINE objs == IF Done(TimerfdCreate, j) THEN Of(t, {"timerfd"}) ELSE {}
    <3>2. objs \subseteq Object
      BY <1>2
    <3> HIDE DEF e, objs
    <3>3. /\ IsHeap(Point(e, objs)) /\ Point(e, objs).live = e.live
          /\ Point(e, objs).ptr = e.ptr \cup objs /\ Point(e, objs).failed = e.failed
          /\ Point(e, objs).misuse = e.misuse
      BY <3>1, <3>2, PointLeaves
    <3> QED
      BY <2>1, <3>3 DEF e, objs
  <2> HIDE DEF e
  <2>11. \A kind : <<t, kind>> \in Of(t, {"trans"}) <=> kind = "trans"
    BY OfMembers
  <2>12. \A kind : <<t, kind>> \in Of(t, {"event_channel"}) <=> kind = "event_channel"
    BY OfMembers
  <2>13. \A kind : <<t, kind>> \in Of(t, {"timerfd"}) <=> kind = "timerfd"
    BY OfMembers
  <2>14. \A x, kind, y : <<x, kind>> \in Of(t, {y}) => x = t /\ kind = y
    BY OfMembers
  <2>15. Touches(g, h, t, CreatedKind)
    <3>1. IsHeap(g) /\ h.failed \subseteq g.failed
      BY <2>4, <2>5, <2>6, <2>7, <2>8, <2>9, <2>10 DEF Touches
    <3>2. ASSUME NEW x, NEW kind, x # t \/ kind \notin CreatedKind
          PROVE  /\ <<x, kind>> \in g.live <=> <<x, kind>> \in h.live
                 /\ <<x, kind>> \in g.ptr <=> <<x, kind>> \in h.ptr
      <4>1. /\ x # t \/ kind \notin {"trans"}
            /\ x # t \/ kind \notin {"event_channel", "event_fd"}
            /\ x # t \/ kind \notin {"timerfd"}
        BY <3>2 DEF CreatedKind
      <4>2. /\ <<x, kind>> \notin Of(t, {"trans"}) /\ <<x, kind>> \notin Of(t, {"event_channel"})
            /\ <<x, kind>> \notin Of(t, {"timerfd"})
        BY <2>14, <4>1
      <4>3. <<x, kind>> \in g.live <=> <<x, kind>> \in h.live
        BY <2>4, <2>5, <2>6, <2>7, <2>8, <2>9, <2>10, <4>1 DEF Touches
      <4>4. <<x, kind>> \in g.ptr <=> <<x, kind>> \in h.ptr
        BY <2>4, <2>5, <2>6, <2>7, <2>8, <2>9, <2>10, <4>2
      <4> QED
        BY <4>3, <4>4
    <3> QED
      BY <3>1, <3>2 DEF Touches
  <2>16. /\ <<t, "trans">> \in g.live /\ <<t, "trans">> \in g.ptr
    BY <2>4, <2>5, <2>6, <2>7, <2>8, <2>9, <2>10, <2>11 DEF Touches
  <2>17. /\ <<t, "event_fd">> \in g.live => <<t, "event_channel">> \in g.live
         /\ <<t, "event_channel">> \in g.live => <<t, "event_channel">> \in g.ptr
         /\ g.failed \cap Unchecked = {} =>
              <<t, "event_channel">> \in g.live /\ <<t, "event_channel">> \in g.ptr
    BY <2>4, <2>5, <2>6, <2>7, <2>8, <2>9, <2>10, <2>12 DEF Touches, CreatedKind
  <2>18. <<t, "timerfd">> \in g.live => <<t, "timerfd">> \in g.ptr \/ "settime" \in g.failed
    BY <2>4, <2>5, <2>6, <2>7, <2>8, <2>9, <2>10, <2>13 DEF Touches, CreatedKind
  <2>19. Ctx \in h.live => g.misuse = h.misuse
    <3>1. Ctx = <<"ctx", "ctx">> /\ "ctx" # t
      BY DEF Ctx, Trans
    <3>2. Ctx \in h.live => Ctx \in a.live
      BY <2>4, <2>5, <2>6, <3>1 DEF Touches
    <3> QED
      BY <2>4, <2>5, <2>6, <2>7, <2>8, <2>9, <2>10, <3>2
  <2> QED
    BY <2>15, <2>16, <2>17, <2>18, <2>19
<1>5. \/ g = Run(h, t, calloc, 1)
      \/ \E k \in Ends(h0, EventChannelInit) : \E j \in Ends(h1(k), TimerfdCreate) :
             g = Point(h2(k, j), IF Done(TimerfdCreate, j) THEN Of(t, {"timerfd"}) ELSE {})
  <2>1. \A k \in Ends(h, calloc) \ {2} : k = 1
    <3> HIDE DEF calloc
    <3> QED
      BY <1>1 DEF Ends
  <2> QED
    BY <2>1, SMTT(60) DEF Created
<1> QED
  BY <1>3, <1>4, <1>5

-----------------------------------------------------------------------------
(* What most steps keep. *)

LEMMA Kinds ==
  /\ Trans = {"own", "accepted"} /\ Connected \in Trans
  /\ CreatedKind \subseteq TransKind /\ PoolKind \subseteq TransKind /\ QpKind \subseteq TransKind
  /\ "ctx" \notin Trans
  /\ \A kind \in TransKind : kind \notin {"device", "pd", "ctx", "epfd"} /\ Root(kind) \in TransKind
BY DEF Trans, Connected, CreatedKind, PoolKind, QpKind, TransKind, FdKind, MrKind, Root

\* The pointers that lead to an object, one by one.
Lost(h, t, kind) == <<t, "trans">> \notin h.ptr \/ <<t, Root(kind)>> \notin h.ptr

LEMMA LostNothing ==
  /\ FailuresKeepNothing <=>
       \A t \in Trans, kind \in TransKind : <<t, kind>> \in heap.live /\ Lost(heap, t, kind) =>
         \E call \in heap.failed : kind \in LeftBy(t, call)
  /\ FailuresKeepNothing' <=>
       \A t \in Trans, kind \in TransKind : <<t, kind>> \in heap'.live /\ Lost(heap', t, kind) =>
         \E call \in heap'.failed : kind \in LeftBy(t, call)
<1>1. ASSUME NEW t, NEW kind, NEW p
      PROVE  Of(t, {"trans", Root(kind)}) \subseteq p <=>
               <<t, "trans">> \in p /\ <<t, Root(kind)>> \in p
  BY DEF Of
<1>2. /\ \A t, kind : (Reached(t, kind) <=> ~Lost(heap, t, kind))
      /\ \A t, kind : (Reached(t, kind)' <=> ~Lost(heap', t, kind))
  BY <1>1 DEF Reached, Lost
<1>3. FailuresKeepNothing <=>
        \A t \in Trans, kind \in TransKind : <<t, kind>> \in heap.live /\ Lost(heap, t, kind) =>
          \E call \in heap.failed : kind \in LeftBy(t, call)
  BY <1>2 DEF FailuresKeepNothing
<1>4. FailuresKeepNothing' <=>
        \A t \in Trans, kind \in TransKind : <<t, kind>> \in heap'.live /\ Lost(heap', t, kind) =>
          \E call \in heap'.failed : kind \in LeftBy(t, call)
  BY <1>2 DEF FailuresKeepNothing
<1> QED
  BY <1>3, <1>4

\* An object whose pointers a step keeps is no more lost than before.
LEMMA KeptObject ==
  ASSUME ResInv, heap.failed \subseteq heap'.failed, NEW t \in Trans, NEW kind \in TransKind,
         <<t, kind>> \in heap.live, Lost(heap', t, kind),
         <<t, "trans">> \in heap.ptr => <<t, "trans">> \in heap'.ptr,
         <<t, Root(kind)>> \in heap.ptr => <<t, Root(kind)>> \in heap'.ptr
  PROVE  \E call \in heap'.failed : kind \in LeftBy(t, call)
<1>1. Lost(heap, t, kind)
  BY DEF Lost
<1> QED
  BY <1>1, LostNothing DEF ResInv

\* A step that changes no object of a transport and adds no event.
LEMMA Quiet ==
  ASSUME ResInv, heap.failed \subseteq heap'.failed, batch' \subseteq batch,
         \A t \in Trans, kind \in TransKind :
           /\ <<t, kind>> \in heap'.live <=> <<t, kind>> \in heap.live
           /\ <<t, kind>> \in heap'.ptr <=> <<t, kind>> \in heap.ptr
  PROVE  Ties' /\ FailuresKeepNothing'
<1>1. Ties'
  BY DEF ResInv, Ties, TransKind, FdKind
<1>2. ASSUME NEW t \in Trans, NEW kind \in TransKind, <<t, kind>> \in heap'.live,
             Lost(heap', t, kind)
      PROVE  \E call \in heap'.failed : kind \in LeftBy(t, call)
  <2>1. "trans" \in TransKind
    BY DEF TransKind
  <2> QED
    BY <1>2, <2>1, Kinds, KeptObject
<1> QED
  BY <1>1, <1>2, LostNothing

\* A step that takes no transport away and registers no timer.
LEMMA HeldQuiet ==
  ASSUME ResInv, heap.misuse = {}, UNCHANGED role, batch' \subseteq batch,
         \A t \in Trans :
           /\ <<t, "timer_fd">> \in heap'.live => <<t, "timer_fd">> \in heap.live
           /\ <<t, "trans">> \in heap.ptr => <<t, "trans">> \in heap'.ptr,
         main \in {"init", "context", "create"} => main' \in {"init", "context", "create"},
         cm \in {"up", "DISCONNECTED"} => cm' \in {"up", "DISCONNECTED"} \/ closed' # "no",
         closed # "no" => closed' # "no",
         cm' \in Joined \cup {"requested"} \/ main' = "pool" =>
           cm \in Joined \cup {"requested"} \/ main = "pool"
  PROVE  Held'
BY Kinds DEF ResInv, Held, Connected

\* A step that does not touch the list and frees no device.
LEMMA ListQuiet ==
  ASSUME ResInv, UNCHANGED <<dev_list, i>>, main' = "init" => main = "init",
         main' = "exited" /\ epoll' = "exited" => main = "exited" /\ epoll = "exited",
         \A d \in Device : <<d, "device">> \in heap'.live <=> <<d, "device">> \in heap.live
  PROVE  DevInv'
<1>1. PICK s \in Seq(Node) : DeviceList(s)
  BY DEF ResInv, DevInv
<1>2. DeviceList(s)'
  BY <1>1 DEF DeviceList
<1> QED
  BY <1>2 DEF DevInv

\* A step that touches no object but the id of the connection.
LEMMA OnlyId ==
  ASSUME ResInv, UNCHANGED <<role, verbs, batch>>, IsHeap(heap'),
         heap.failed \subseteq heap'.failed,
         \A x, kind : kind # "cm_id" =>
           /\ <<x, kind>> \in heap'.live <=> <<x, kind>> \in heap.live
           /\ <<x, kind>> \in heap'.ptr <=> <<x, kind>> \in heap.ptr
  PROVE  /\ Ties'
         /\ (main \in {"release", "exited"} => main' \in {"release", "exited"}) => Domains'
         /\ UNCHANGED is_stop /\ (cm = "ROUTE_RESOLVED" => cm' = "ROUTE_RESOLVED") =>
              ClientReleases'
         /\ \A t \in Trans, kind \in TransKind :
              kind # "cm_id" /\ <<t, kind>> \in heap'.live /\ Lost(heap', t, kind) =>
                \E call \in heap'.failed : kind \in LeftBy(t, call)
<1>1. Ties'
  BY DEF ResInv, Ties
<1>2. ASSUME main \in {"release", "exited"} => main' \in {"release", "exited"} PROVE Domains'
  BY <1>2 DEF ResInv, Domains, MrKind
<1>3. ASSUME UNCHANGED is_stop, cm = "ROUTE_RESOLVED" => cm' = "ROUTE_RESOLVED"
      PROVE  ClientReleases'
  BY <1>3 DEF ResInv, ClientReleases, MrKind, FdKind
<1>4. ASSUME NEW t \in Trans, NEW kind \in TransKind, kind # "cm_id",
             <<t, kind>> \in heap'.live, Lost(heap', t, kind)
      PROVE  \E call \in heap'.failed : kind \in LeftBy(t, call)
  <2>1. Root(kind) # "cm_id"
    BY <1>4 DEF Root
  <2> QED
    BY <1>4, <2>1, KeptObject
<1> QED
  BY <1>1, <1>2, <1>3, <1>4

\* A step that only handles events, or moves main or the connection manager on.
LEMMA Still ==
  ASSUME ResInv, UNCHANGED <<role, verbs, dev_list, i>>, batch' \subseteq batch,
         heap'.live = heap.live, heap'.ptr = heap.ptr, heap.failed \subseteq heap'.failed,
         main' = "init" => main = "init",
         main' = "exited" /\ epoll' = "exited" => main = "exited" /\ epoll = "exited",
         main \in {"release", "exited"} => main' \in {"release", "exited"},
         cm = "ROUTE_RESOLVED" => cm' = "ROUTE_RESOLVED" \/ heap'.failed # {},
         is_stop' => is_stop \/ <<Connected, "qp">> \in heap.live \/ role # "client"
  PROVE  Ties' /\ FailuresKeepNothing' /\ Domains' /\ ClientReleases' /\ DevInv'
<1>1. Ties' /\ FailuresKeepNothing'
  BY Quiet
<1>2. Domains'
  BY DEF ResInv, Domains
<1>3. ClientReleases'
  BY DEF ResInv, ClientReleases, Connected
<1>4. DevInv'
  BY ListQuiet
<1> QED
  BY <1>1, <1>2, <1>3, <1>4

\* A call that makes nothing.
LEMMA NothingRun ==
  ASSUME NEW h, IsHeap(h), NEW t, NEW name, NEW calls, calls = Single(name, {}),
         NEW k \in Ends(h, calls), NEW g, g = Run(h, t, calls, k)
  PROVE  /\ IsHeap(g) /\ g.live = h.live /\ g.ptr = h.ptr /\ g.misuse = h.misuse
         /\ h.failed \subseteq g.failed
         /\ Done(calls, k) => g.failed = h.failed
         /\ ~Done(calls, k) => name \in g.failed
<1> DEFINE none == {}
<1>1. k \in DOMAIN calls \cup {Len(calls) + 1}
  BY EndsIn
<1>2. Of(t, none) \subseteq Object
  BY DEF Of
<1>3. calls = Single(name, none)
  OBVIOUS
<1>4. \A kind : kind \notin none
  OBVIOUS
<1> HIDE DEF none
<1>5. /\ Touches(g, h, t, none) /\ g.ptr = h.ptr /\ g.misuse = h.misuse
      /\ Done(calls, k) => g.failed = h.failed
      /\ ~Done(calls, k) => name \in g.failed
  <2>1. k \in DOMAIN Single(name, none) \cup {Len(Single(name, none)) + 1}
    BY <1>1, <1>3
  <2> QED
    BY <1>2, <1>3, <2>1, SingleRun
<1>6. g.live = h.live
  <2>1. \A o \in Object : o \in g.live <=> o \in h.live
    BY <1>4, <1>5, Objects DEF Touches
  <2>2. h.live \subseteq Object /\ g.live \subseteq Object
    BY <1>5 DEF Touches, IsHeap, HeapWith
  <2> QED
    BY <2>1, <2>2
<1> QED
  BY <1>5, <1>6 DEF Touches

\* What is used is there.
LEMMA UseThere ==
  ASSUME NEW h, IsHeap(h), NEW objs, objs \subseteq h.live
  PROVE  Use(h, objs) = h
<1>1. PICK names : h \in HeapWith(names)
  BY DEF IsHeap
<1>2. objs \ h.live = {} /\ h.misuse \cup {} = h.misuse
  OBVIOUS
<1>3. Use(h, objs) = [h EXCEPT !.misuse = h.misuse]
  BY <1>2 DEF Use
<1> QED
  BY <1>1, <1>3 DEF HeapWith

-----------------------------------------------------------------------------
(* The steps of main up to its loop, and accepting. *)

LEMMA InitDeviceStep == ASSUME ResInv, heap.misuse = {}, InitDevice PROVE ResInv'
<1>1. main = "init" /\ UNCHANGED <<role, verbs, trans_state, pos, cm, is_stop, epoll, batch, closed>>
  BY DEF InitDevice
<1>2. /\ cm = "none" /\ epoll = "off" /\ ~is_stop /\ IsHeap(heap)
      /\ Len(Verbs) \in Nat /\ DOMAIN Verbs = 1..Len(Verbs) /\ i \in 1 .. Len(Verbs) + 1
  BY <1>1, VerbsAssumption DEF ResInv, Control, Starting, TypeInv, TypeOK
<1>3. PICK s \in Seq(Node) : DeviceList(s)
  BY DEF ResInv, DevInv
<1>4. CASE i \notin DOMAIN Verbs
  <2>1. main' = "context" /\ UNCHANGED <<heap, dev_list, i>>
    BY <1>4 DEF InitDevice
  <2>2. TypeInv'
    BY <1>1, <2>1 DEF ResInv, TypeInv, TypeOK
  <2>3. Control'
    BY <1>1, <1>2, <2>1 DEF ResInv, Control, Starting, Joined, Connects
  <2>4. Before'
    BY <1>1, <2>1 DEF ResInv, Before, Absent, Starting
  <2>5. Ties' /\ FailuresKeepNothing' /\ Domains' /\ ClientReleases' /\ DevInv'
    BY <1>1, <2>1, Still
  <2>6. Connection' /\ UsedIsThere'
    BY <1>1, <2>1 DEF ResInv, Connection, Connected, UsedIsThere, Noticed, AfterClose
  <2>7. Held'
    BY <1>1, <2>1, HeldQuiet
  <2> QED
    BY <2>2, <2>3, <2>4, <2>5, <2>6, <2>7 DEF ResInv
<1>5. CASE i \in DOMAIN Verbs
  <2> DEFINE d == Verbs[i]
  <2>1. PICK k \in Ends(heap, DevInit) :
          /\ heap' = Run(heap, d, DevInit, k)
          /\ dev_list' = IF AddsDevice(Done(DevInit, k))
                         THEN ListAdd(InitListHead(dev_list, d), d, ListHead)
                         ELSE dev_list
          /\ i' = i + 1
          /\ UNCHANGED main
    BY <1>5 DEF InitDevice
  <2>2. d \in Device /\ d \in Node /\ d # ListHead
    BY <1>5, Devices DEF Device
  <2>3. \A n \in DOMAIN Verbs : Verbs[n] = d => n = i
    BY <1>5, Devices
  <2> HIDE DEF d
  <2>4. /\ Touches(heap', heap, d, {"device", "pd"}) /\ heap'.ptr = heap.ptr
        /\ heap'.misuse = heap.misuse
        /\ Done(DevInit, k) => <<d, "device">> \in heap'.live /\ <<d, "pd">> \in heap'.live
        /\ ~Done(DevInit, k) =>
             \A kind \in {"device", "pd"} : <<d, kind>> \in heap'.live => <<d, kind>> \in heap.live
    <3>1. k \in DOMAIN DevInit \cup {Len(DevInit) + 1}
      BY EndsIn
    <3> QED
      BY <1>2, <2>1, <2>2, <3>1, DevRun
  <2>5. <<d, "device">> \notin heap.live /\ <<d, "pd">> \notin heap.live
    <3>1. d \notin Nodes(s)
      <4>1. \A n \in DOMAIN Verbs : Verbs[n] \in Nodes(s) => n < i
        BY <1>1, <1>3 DEF DeviceList
      <4>2. i \in DOMAIN Verbs /\ d = Verbs[i] /\ ~(i < i)
        BY <1>2, <1>5 DEF d
      <4> QED
        BY <4>1, <4>2
    <3>2. <<d, "device">> \notin heap.live
      BY <1>3, <2>2, <3>1 DEF DeviceList
    <3> QED
      BY <1>1, <2>2, <3>2 DEF ResInv, Domains
  <2>6. /\ heap.failed \subseteq heap'.failed /\ IsHeap(heap')
        /\ \A x, kind : kind \notin {"device", "pd"} =>
             /\ <<x, kind>> \in heap'.live <=> <<x, kind>> \in heap.live
             /\ <<x, kind>> \in heap'.ptr <=> <<x, kind>> \in heap.ptr
        /\ \A x, kind : x # d => (<<x, kind>> \in heap'.live <=> <<x, kind>> \in heap.live)
    BY <2>4 DEF Touches
  <2>7. dev_list' \in List(Node)
        /\ \E u \in Seq(Node) :
             /\ Ring(dev_list', ListHead, u) /\ Len(u) < i'
             /\ Nodes(u) = IF Done(DevInit, k) THEN {d} \cup Nodes(s) ELSE Nodes(s)
    <3>1. /\ dev_list \in List(Node) /\ Ring(dev_list, ListHead, s) /\ Len(s) < i
          /\ Len(s) \in Nat /\ ListHead \in Node /\ d \notin {ListHead} \cup Nodes(s)
      <4>1. d \notin Nodes(s)
        BY <1>3, <2>2, <2>5 DEF DeviceList
      <4>2. Len(s) \in Nat /\ ListHead \in Node
        BY Devices, LenProperties
      <4> QED
        BY <1>3, <2>2, <4>1, <4>2 DEF DeviceList
    <3>2. CASE ~Done(DevInit, k)
      <4>1. dev_list' = dev_list /\ Len(s) < i'
        BY <1>2, <2>1, <3>1, <3>2 DEF AddsDevice
      <4> QED
        BY <3>1, <3>2, <4>1
    <3>3. CASE Done(DevInit, k)
      <4> DEFINE l == InitListHead(dev_list, d)
                 u == <<d>> \o s
      <4>1. dev_list' = ListAdd(l, d, ListHead)
        BY <2>1, <3>3 DEF AddsDevice
      <4>2. l \in List(Node) /\ Ring(l, ListHead, s)
        BY <2>2, <3>1, InitFacts, RingInit
      <4> HIDE DEF l
      <4>3. dev_list' \in List(Node) /\ Ring(dev_list', ListHead, u)
        BY <2>2, <3>1, <4>1, <4>2, AddPrepends
      <4>4. u \in Seq(Node) /\ Nodes(u) = {d} \cup Nodes(s)
        BY <2>2, RingFacts
      <4>5. Len(u) = 1 + Len(s)
        BY <2>2, <3>1, One, ConcatProperties
      <4> HIDE DEF u
      <4>6. Len(u) < i'
        BY <1>2, <2>1, <3>1, <4>5
      <4> QED
        BY <3>3, <4>3, <4>4, <4>6
    <3> QED
      BY <3>2, <3>3
  <2>8. TypeInv'
    <3>1. i' \in 1 .. Len(Verbs) + 1
      BY <1>2, <1>5, <2>1
    <3>2. heap'.live \subseteq Object /\ heap'.ptr \subseteq Object /\ heap'.misuse \subseteq Object
      BY <2>6 DEF IsHeap, HeapWith
    <3> QED
      BY <1>1, <2>1, <2>6, <2>7, <3>1, <3>2 DEF ResInv, TypeInv, TypeOK
  <2>9. Control'
    BY <1>1, <1>2, <2>1, <2>6 DEF ResInv, Control, Starting, Joined, Connects
  <2>10. Before'
    <3>1. \A x, kinds : Absent(x, kinds) /\ kinds \subseteq TransKind => Absent(x, kinds)'
      BY <1>1, <2>6, Kinds DEF Absent
    <3> QED
      BY <1>1, <2>1, <3>1, Kinds DEF ResInv, Before, Starting
  <2>11. Ties' /\ FailuresKeepNothing'
    BY <1>1, <2>6, Kinds, Quiet
  <2>12. Domains'
    <3>1. <<d, "device">> \in heap'.live => <<d, "pd">> \in heap'.live
      BY <2>4, <2>5
    <3>2. <<d, "pd">> \in heap'.live => <<d, "device">> \in heap'.live
      BY <2>4, <2>5
    <3> QED
      BY <1>1, <2>1, <2>6, <3>1, <3>2 DEF ResInv, Domains
  <2>13. Connection'
    BY <1>1, <1>2, <2>1 DEF Connection, Joined
  <2>14. UsedIsThere'
    <3>1. closed' = "no" /\ closed = "no"
      BY <1>1 DEF ResInv, Control, Starting
    <3> QED
      BY <1>1, <1>2, <2>1, <2>4, <2>6, <3>1 DEF ResInv, UsedIsThere, Noticed, Joined
  <2>15. ClientReleases'
    BY <1>1, <2>6 DEF ResInv, ClientReleases, MrKind, FdKind
  <2>16. DevInv'
    <3>1. PICK u \in Seq(Node) :
             /\ Ring(dev_list', ListHead, u) /\ Len(u) < i'
             /\ Nodes(u) = IF Done(DevInit, k) THEN {d} \cup Nodes(s) ELSE Nodes(s)
      BY <2>7
    <3>2. Nodes(s) = {x \in Device : <<x, "device">> \in heap.live}
      BY <1>3 DEF DeviceList
    <3>3. Nodes(u) = {x \in Device : <<x, "device">> \in heap'.live}
      <4>1. CASE Done(DevInit, k)
        BY <2>2, <2>4, <2>6, <3>1, <3>2, <4>1
      <4>2. CASE ~Done(DevInit, k)
        <5>1. <<d, "device">> \notin heap'.live
          BY <2>4, <2>5, <4>2
        <5> QED
          BY <2>5, <2>6, <3>1, <3>2, <4>2, <5>1
      <4> QED
        BY <4>1, <4>2
    <3>4. \A n \in DOMAIN Verbs : Verbs[n] \in Nodes(u) => n < i'
      <4> SUFFICES ASSUME NEW n \in DOMAIN Verbs, Verbs[n] \in Nodes(u) PROVE n < i'
        OBVIOUS
      <4>1. n = i \/ Verbs[n] \in Nodes(s)
        BY <2>3, <3>1
      <4>2. n = i \/ n < i
        BY <1>1, <1>3, <4>1 DEF DeviceList
      <4> QED
        BY <1>2, <2>1, <4>2
    <3> QED
      BY <1>1, <2>1, <2>7, <3>1, <3>3, <3>4 DEF DevInv, DeviceList
  <2>17. Held'
    BY <1>1, <1>2, <2>1, <2>6, HeldQuiet
  <2> QED
    BY <2>8, <2>9, <2>10, <2>11, <2>12, <2>13, <2>14, <2>15, <2>16, <2>17 DEF ResInv
<1> QED
  BY <1>4, <1>5

LEMMA CreateContextStep == ASSUME ResInv, heap.misuse = {}, CreateContext PROVE ResInv'
<1>1. /\ main = "context" /\ main' = "create"
      /\ UNCHANGED <<role, verbs, dev_list, trans_state, i, pos, cm, is_stop, epoll, batch, closed>>
  BY DEF CreateContext
<1>2. /\ Touches(heap', heap, "ctx", {"ctx", "epfd"}) /\ heap'.ptr = heap.ptr
      /\ heap'.misuse = heap.misuse
      /\ heap'.failed \cap Unchecked = {} => <<"ctx", "ctx">> \in heap'.live
  <2>1. IsHeap(heap)
    BY DEF ResInv, TypeInv
  <2>2. PICK k \in Ends(heap, ContextCreate) : heap' = Run(heap, "ctx", ContextCreate, k)
    BY DEF CreateContext
  <2>3. k \in DOMAIN ContextCreate \cup {Len(ContextCreate) + 1}
    BY EndsIn
  <2> QED
    BY <2>1, <2>2, <2>3, ContextRun
<1>3. /\ heap.failed \subseteq heap'.failed
      /\ \A x, kind : kind \notin {"ctx", "epfd"} =>
           /\ <<x, kind>> \in heap'.live <=> <<x, kind>> \in heap.live
           /\ <<x, kind>> \in heap'.ptr <=> <<x, kind>> \in heap.ptr
  BY <1>2 DEF Touches
<1>4. TypeInv'
  BY <1>1, <1>2 DEF ResInv, TypeInv, TypeOK, Touches, IsHeap, HeapWith
<1>5. Control'
  BY <1>1, <1>3 DEF ResInv, Control, Starting, Joined, Connects
<1>6. Before'
  BY <1>1, <1>3, Kinds DEF ResInv, Before, Absent, Starting
<1>7. Ties' /\ FailuresKeepNothing'
  BY <1>1, <1>3, Kinds, Quiet
<1>8. Connection'
  BY <1>1, <1>3, Kinds DEF ResInv, Connection, Connected
<1>9. UsedIsThere'
  BY <1>1, <1>2, <1>3, Kinds DEF ResInv, UsedIsThere, Noticed, Ctx, Joined, Control, Starting
<1>10. Domains'
  BY <1>1, <1>3, Kinds DEF ResInv, Domains, MrKind
<1>11. ClientReleases'
  BY <1>1, <1>3, Kinds DEF ResInv, ClientReleases, MrKind, FdKind
<1>12. DevInv'
  BY <1>1, <1>3, ListQuiet
<1>13. Held'
  BY <1>1, <1>3, HeldQuiet
<1> QED
  BY <1>4, <1>5, <1>6, <1>7, <1>8, <1>9, <1>10, <1>11, <1>12, <1>13 DEF ResInv

LEMMA CreateTransStep == ASSUME ResInv, heap.misuse = {}, CreateTrans PROVE ResInv'
<1>1. /\ main = "create" /\ main' = "connect"
      /\ UNCHANGED <<role, verbs, dev_list, trans_state, i, pos, cm, is_stop, epoll, batch, closed>>
  BY DEF CreateTrans
<1>2. PICK h \in Created(heap, "own") : heap' = Use(h, Of("own", {"trans"}))
  BY DEF CreateTrans
<1>3. /\ Touches(h, heap, "own", CreatedKind)
      /\ <<"own", "event_fd">> \in h.live => <<"own", "event_channel">> \in h.live
      /\ <<"own", "event_channel">> \in h.live => <<"own", "event_channel">> \in h.ptr
      /\ <<"own", "trans">> \in h.live => <<"own", "trans">> \in h.ptr
      /\ <<"own", "trans">> \notin h.live => \A kind \in CreatedKind : <<"own", kind>> \notin h.live
      /\ <<"own", "timerfd">> \in h.live => <<"own", "timerfd">> \in h.ptr \/ "settime" \in h.failed
      /\ <<"own", "timerfd">> \in h.ptr => <<"own", "trans">> \in h.live
      /\ h.failed \cap Unchecked = {} =>
           /\ <<"own", "trans">> \in h.live
           /\ <<"own", "event_channel">> \in h.live /\ <<"own", "event_channel">> \in h.ptr
      /\ Ctx \in heap.live => h.misuse = heap.misuse
  <2>1. IsHeap(heap)
    BY DEF ResInv, TypeInv
  <2>2. \A kind \in CreatedKind : <<"own", kind>> \notin heap.live \cup heap.ptr
    BY <1>1, Kinds DEF ResInv, Before, Absent
  <2> QED
    BY <2>1, <2>2, Kinds, CreatedLeaves
<1>4. /\ IsHeap(heap') /\ heap'.live = h.live /\ heap'.ptr = h.ptr /\ heap'.failed = h.failed
      /\ heap'.misuse = h.misuse \cup (Of("own", {"trans"}) \ h.live)
  <2>1. IsHeap(h) /\ Of("own", {"trans"}) \subseteq Object
    BY <1>3, Kinds, OfMembers DEF Touches, TransKind
  <2> QED
    BY <1>2, <2>1, UseLeaves
<1>5. /\ heap.failed \subseteq heap'.failed
      /\ \A x, kind : x # "own" \/ kind \notin CreatedKind =>
           /\ <<x, kind>> \in heap'.live <=> <<x, kind>> \in heap.live
           /\ <<x, kind>> \in heap'.ptr <=> <<x, kind>> \in heap.ptr
  BY <1>3, <1>4 DEF Touches
<1>6. \A kind \in TransKind : <<"own", kind>> \notin heap.live \cup heap.ptr \cup batch
  BY <1>1 DEF ResInv, Before, Absent
<1>7. /\ \A kind : <<"accepted", kind>> \notin heap.live \cup heap.ptr \cup batch \/ kind \notin TransKind
      /\ batch = {} /\ cm = "none"
  BY <1>1 DEF ResInv, Before, Absent, Starting, Control
<1>8. TypeInv'
  BY <1>1, <1>4 DEF ResInv, TypeInv, TypeOK, IsHeap, HeapWith
<1>9. Control'
  BY <1>1, <1>5 DEF ResInv, Control, Starting, Joined, Connects
<1>10. Before'
  BY <1>1, <1>5, <1>6, Kinds DEF ResInv, Before, Absent, Starting, CreatedKind, QpKind, PoolKind, MrKind
<1>11. Ties'
  BY <1>1, <1>3, <1>4, <1>5, <1>6, <1>7, Kinds DEF Ties, CreatedKind, TransKind, FdKind
<1>12. FailuresKeepNothing'
  <2>1. ASSUME NEW kind \in TransKind, <<"own", kind>> \in heap'.live, Lost(heap', "own", kind)
        PROVE  kind = "timerfd" /\ "settime" \in heap'.failed
    <3>1. kind \in CreatedKind /\ <<"own", kind>> \in h.live /\ Lost(h, "own", kind)
      BY <1>4, <1>5, <1>6, <2>1 DEF Lost
    <3>2. <<"own", "trans">> \in h.live /\ <<"own", "trans">> \in h.ptr
      BY <1>3, <3>1
    <3>3. /\ Root("event_channel") = "event_channel" /\ Root("event_fd") = "event_channel"
          /\ Root("timerfd") = "timerfd" /\ Root("trans") = "trans"
      BY DEF Root, PoolKind, MrKind
    <3> QED
      BY <1>3, <1>4, <3>1, <3>2, <3>3 DEF CreatedKind, Lost
  <2>2. "timerfd" \in LeftBy("own", "settime")
    BY DEF LeftBy, TransKind
  <2>3. ASSUME NEW kind \in TransKind PROVE <<"accepted", kind>> \notin heap'.live
    BY <1>5, <1>7, <2>3
  <2> QED
    BY <2>1, <2>2, <2>3, Kinds, LostNothing
<1>13. Connection'
  BY <1>1, <1>5, <1>7, Kinds DEF Connection, Joined
<1>14. UsedIsThere'
  <2>1. Noticed' => Noticed
    BY <1>1, <1>5 DEF Noticed
  <2>2. Noticed' => heap'.misuse = {}
    <3>1. Noticed => Ctx \in heap.live
      BY <1>1 DEF ResInv, UsedIsThere
    <3>2. <<"own", "trans">> \in h.live => Of("own", {"trans"}) \ h.live = {}
      BY DEF Of
    <3> QED
      BY <1>3, <1>4, <2>1, <3>1, <3>2 DEF Noticed
  <2>3. Ctx \in heap.live => Ctx \in heap'.live
    BY <1>5 DEF Ctx
  <2> QED
    BY <1>1, <1>3, <1>4, <1>7, <2>1, <2>2, <2>3
       DEF ResInv, UsedIsThere, Joined, Noticed, Control, Starting
<1>15. Domains'
  BY <1>1, <1>5, Kinds DEF ResInv, Domains, MrKind, CreatedKind
<1>16. ClientReleases'
  <2>1. ~is_stop
    BY <1>1 DEF ResInv, Control, Starting
  <2> QED
    BY <1>1, <1>5, <1>6, <2>1, Kinds DEF ResInv, ClientReleases, MrKind, PoolKind, CreatedKind,
                                         TransKind
<1>17. DevInv'
  BY <1>1, <1>5, ListQuiet DEF CreatedKind
<1>18. Held'
  <2>1. heap'.misuse = {} => <<"own", "trans">> \in heap'.ptr
    <3>1. <<"own", "trans">> \in Of("own", {"trans"})
      BY OfMembers
    <3> QED
      BY <1>3, <1>4, <3>1
  <2>2. \A t \in Trans : <<t, "timer_fd">> \notin heap'.live \cup batch'
    BY <1>1, <1>5, <1>6, <1>7, Kinds DEF CreatedKind, TransKind, FdKind
  <2> QED
    BY <1>1, <1>7, <2>1, <2>2 DEF Held, Joined
<1> QED
  BY <1>8, <1>9, <1>10, <1>11, <1>12, <1>13, <1>14, <1>15, <1>16, <1>17, <1>18 DEF ResInv

LEMMA ConnectOrListenStep == ASSUME ResInv, heap.misuse = {}, ConnectOrListen PROVE ResInv'
<1> DEFINE calls == IF role = "client" THEN Connect ELSE Listen
           channel == Of("own", {"event_channel"}) \cap heap.ptr
<1>1. /\ main = "connect" /\ main' = "thread"
      /\ UNCHANGED <<role, verbs, dev_list, trans_state, i, pos, is_stop, epoll, batch, closed>>
  BY DEF ConnectOrListen
<1>2. PICK k \in Ends(heap, calls) :
        /\ heap' = LET h == Use(Run(heap, "own", calls, k), channel)
                   IN  IF Done(calls, k) THEN Point(h, Of("own", {"cm_id"})) ELSE h
        /\ cm' = IF Done(calls, k) /\ channel # {}
                 THEN IF role = "client" THEN "ADDR_RESOLVED" ELSE "listening"
                 ELSE "none"
  BY DEF ConnectOrListen
<1> DEFINE g == Run(heap, "own", calls, k)
           h == Use(g, channel)
<1>3. /\ Touches(g, heap, "own", {"cm_id"}) /\ g.ptr = heap.ptr /\ g.misuse = heap.misuse
      /\ Done(calls, k) => g.failed = heap.failed
      /\ ~Done(calls, k) /\ <<"own", "cm_id">> \in g.live => <<"own", "cm_id">> \in heap.live
  <2>1. IsHeap(heap) /\ "own" \in Trans
    BY Kinds DEF ResInv, TypeInv
  <2>2. k \in DOMAIN calls \cup {Len(calls) + 1}
    BY EndsIn
  <2>3. CASE role = "client"
    <3>1. calls = Connect
      BY <2>3
    <3> HIDE DEF calls
    <3> QED
      BY <2>1, <2>2, <3>1, ConnectRun
  <2>4. CASE role # "client"
    <3>1. calls = Listen
      BY <2>4
    <3> HIDE DEF calls
    <3> QED
      BY <2>1, <2>2, <3>1, ListenRun
  <2> QED
    BY <2>3, <2>4
<1> HIDE DEF g, calls
<1>4. /\ IsHeap(h) /\ h.live = g.live /\ h.ptr = g.ptr /\ h.failed = g.failed
      /\ h.misuse = heap.misuse \cup (channel \ g.live)
  <2>1. channel \subseteq Object /\ IsHeap(g)
    BY <1>3, OfMembers, Kinds DEF Touches, TransKind
  <2> HIDE DEF channel
  <2> QED
    BY <1>3, <2>1, UseLeaves
<1>5. heap' = IF Done(calls, k) THEN Point(h, Of("own", {"cm_id"})) ELSE h
  BY <1>2 DEF g
<1> HIDE DEF h
<1>6. /\ IsHeap(heap') /\ heap'.live = g.live /\ heap'.failed = g.failed
      /\ heap'.misuse = heap.misuse \cup (channel \ g.live)
      /\ heap'.ptr = heap.ptr \cup (IF Done(calls, k) THEN Of("own", {"cm_id"}) ELSE {})
  <2>1. Of("own", {"cm_id"}) \subseteq Object
    BY OfMembers, Kinds DEF TransKind
  <2> HIDE DEF channel
  <2>2. CASE Done(calls, k)
    BY <1>3, <1>4, <1>5, <2>1, <2>2, PointLeaves
  <2>3. CASE ~Done(calls, k)
    BY <1>3, <1>4, <1>5, <2>3
  <2> QED
    BY <2>2, <2>3
<1>7. /\ heap.failed \subseteq heap'.failed
      /\ \A x, kind : kind # "cm_id" =>
           /\ <<x, kind>> \in heap'.live <=> <<x, kind>> \in heap.live
           /\ <<x, kind>> \in heap'.ptr <=> <<x, kind>> \in heap.ptr
  <2>1. \A x, kind : <<x, kind>> \in Of("own", {"cm_id"}) => kind = "cm_id"
    BY OfMembers
  <2> QED
    BY <1>3, <1>6, <2>1 DEF Touches
<1>8. \A x, kind : x # "own" =>
        /\ <<x, kind>> \in heap'.live <=> <<x, kind>> \in heap.live
        /\ <<x, kind>> \in heap'.ptr <=> <<x, kind>> \in heap.ptr
  <2>1. \A x, kind : <<x, kind>> \in Of("own", {"cm_id"}) => x = "own"
    BY OfMembers
  <2> QED
    BY <1>3, <1>6, <2>1 DEF Touches
<1>9. \A kind \in TransKind : <<"accepted", kind>> \notin heap.live \cup heap.ptr \cup batch
  BY <1>1 DEF ResInv, Before, Absent, Starting
<1>10. \A kind \in QpKind \cup PoolKind : <<"own", kind>> \notin heap.live \cup heap.ptr \cup batch
  BY <1>1 DEF ResInv, Before, Absent, Starting
<1>11. cm' \in {"none", "ADDR_RESOLVED", "listening"} /\ cm = "none"
  BY <1>1, <1>2 DEF ResInv, Control, Starting
<1>12. TypeInv'
  BY <1>1, <1>6, <1>11 DEF ResInv, TypeInv, TypeOK, IsHeap, HeapWith, CmState
<1>13. Control'
  BY <1>1, <1>2, <1>7, <1>11 DEF ResInv, Control, Starting, Joined, Connects
<1>14. Before'
  <2>1. Absent("own", QpKind)' /\ Absent("own", PoolKind)'
    BY <1>1, <1>7, <1>10 DEF Absent, QpKind, PoolKind, MrKind
  <2>2. Absent("accepted", TransKind)'
    BY <1>1, <1>8, <1>9 DEF Absent
  <2> QED
    BY <1>1, <1>11, <2>1, <2>2 DEF Before
<1>15. Ties' /\ Domains' /\ ClientReleases'
  BY <1>1, <1>6, <1>7, <1>11, OnlyId
<1>16. FailuresKeepNothing'
  <2>1. Root("cm_id") = "cm_id" /\ "cm_id" \in TransKind /\ "trans" \in TransKind
    BY DEF Root, PoolKind, MrKind, TransKind
  <2>2. ASSUME NEW t \in Trans, <<t, "cm_id">> \in heap'.live, Lost(heap', t, "cm_id")
        PROVE  \E call \in heap'.failed : "cm_id" \in LeftBy(t, call)
    <3>1. CASE t = "own"
      <4>1. <<"own", "trans">> \in heap'.ptr
        BY <1>1, <1>7 DEF ResInv, Held
      <4>2. ~Done(calls, k)
        BY <1>6, <2>1, <2>2, <3>1, <4>1, OfMembers DEF Lost
      <4>3. <<"own", "cm_id">> \in heap.live /\ (<<"own", "cm_id">> \in heap.ptr => <<"own", "cm_id">> \in heap'.ptr)
        BY <1>3, <1>6, <2>2, <3>1, <4>2
      <4> QED
        BY <1>7, <2>1, <2>2, <3>1, <4>1, <4>3, KeptObject
    <3>2. CASE t # "own"
      BY <1>8, <1>9, <2>1, <2>2, <3>2, Kinds
    <3> QED
      BY <3>1, <3>2
  <2>3. \A t \in Trans, kind \in TransKind :
          kind # "cm_id" /\ <<t, kind>> \in heap'.live /\ Lost(heap', t, kind) =>
            \E call \in heap'.failed : kind \in LeftBy(t, call)
    BY <1>1, <1>6, <1>7, OnlyId
  <2> QED
    BY <2>2, <2>3, LostNothing
<1>17. Connection'
  BY <1>1, <1>7, <1>10, <1>9, <1>11, Kinds DEF Connection, Joined, Connected, PoolKind, TransKind
<1>18. UsedIsThere'
  <2>1. Noticed' => Noticed
    BY <1>1, <1>7 DEF Noticed
  <2>2. Noticed => channel \subseteq g.live
    BY <1>1, <1>3, OfMembers DEF ResInv, UsedIsThere, Touches, Of
  <2>3. Ctx = <<"ctx", "ctx">>
    BY DEF Ctx
  <2> HIDE DEF channel
  <2>4. Noticed' => heap'.misuse = {}
    BY <1>6, <2>1, <2>2
  <2> QED
    BY <1>1, <1>7, <1>11, <2>1, <2>3, <2>4 DEF ResInv, UsedIsThere, Joined, Control, Starting
<1>19. DevInv'
  BY <1>1, <1>7, ListQuiet
<1>20. Held'
  BY <1>1, <1>7, <1>11, HeldQuiet DEF Joined
<1> QED
  BY <1>12, <1>13, <1>14, <1>15, <1>16, <1>17, <1>18, <1>19, <1>20 DEF ResInv

LEMMA StartThreadStep == ASSUME ResInv, heap.misuse = {}, StartThread PROVE ResInv'
<1> DEFINE calls == Single("pthread_create", {})
<1>1. /\ main = "thread"
      /\ UNCHANGED <<role, verbs, dev_list, trans_state, i, pos, cm, is_stop, batch, closed>>
  BY DEF StartThread
<1>2. PICK k \in Ends(heap, calls) :
        /\ heap' = Use(Run(heap, "ctx", calls, k), {Ctx})
        /\ main' = IF ~Done(calls, k) THEN "exited"
                   ELSE IF role = "client" THEN "send" ELSE "run"
        /\ epoll' = IF Done(calls, k) THEN "on" ELSE "off"
  BY DEF StartThread
<1> DEFINE g == Run(heap, "ctx", calls, k)
<1>3. /\ IsHeap(g) /\ g.live = heap.live /\ g.ptr = heap.ptr /\ g.misuse = heap.misuse
      /\ heap.failed \subseteq g.failed
      /\ ~Done(calls, k) => "pthread_create" \in g.failed
  <2>1. IsHeap(heap) /\ calls = Single("pthread_create", {}) /\ g = Run(heap, "ctx", calls, k)
    BY DEF ResInv, TypeInv
  <2> HIDE DEF g, calls
  <2> QED
    BY <2>1, NothingRun
<1> HIDE DEF g, calls
<1>4. /\ IsHeap(heap') /\ heap'.live = g.live /\ heap'.ptr = g.ptr /\ heap'.failed = g.failed
      /\ heap'.misuse = heap.misuse \cup ({Ctx} \ g.live)
  <2>1. {Ctx} \subseteq Object /\ IsHeap(g)
    BY <1>3 DEF Ctx, Object
  <2> QED
    BY <1>2, <1>3, <2>1, UseLeaves DEF g
<1>5. heap'.live = heap.live /\ heap'.ptr = heap.ptr /\ heap.failed \subseteq heap'.failed
  BY <1>3, <1>4
<1>6. /\ main' \in {"exited", "send", "run"} /\ epoll' \in {"on", "off"}
      /\ role \in {"client", "server"}
  BY <1>2 DEF ResInv, TypeInv, TypeOK
<1>7. TypeInv'
  BY <1>1, <1>4, <1>6 DEF ResInv, TypeInv, TypeOK, IsHeap, HeapWith
<1>8. Control'
  BY <1>1, <1>2, <1>3, <1>4, <1>5, <1>6 DEF ResInv, Control, Starting, Joined, Connects
<1>9. Before'
  BY <1>1, <1>5, <1>6 DEF ResInv, Before, Absent, Starting, Control
<1>10. Ties' /\ FailuresKeepNothing' /\ Domains' /\ ClientReleases' /\ DevInv'
  BY <1>1, <1>5, <1>6, Still
<1>11. Connection'
  BY <1>1, <1>5, <1>6 DEF ResInv, Connection, Connected, Control, Starting
<1>12. UsedIsThere'
  <2>1. Noticed' => Noticed
    BY <1>1, <1>5 DEF Noticed
  <2>2. Noticed => Ctx \in g.live
    BY <1>1, <1>4, <1>5 DEF ResInv, UsedIsThere
  <2> QED
    BY <1>1, <1>4, <1>5, <1>6, <2>1, <2>2 DEF ResInv, UsedIsThere, Control, Starting, Joined
<1>13. Held'
  BY <1>1, <1>5, <1>6, HeldQuiet
<1> QED
  BY <1>7, <1>8, <1>9, <1>10, <1>11, <1>12, <1>13 DEF ResInv

LEMMA AcceptStep == ASSUME ResInv, heap.misuse = {}, Accept PROVE ResInv'
<1> DEFINE calls == Single("accept", {})
<1>1. /\ main = "run" /\ cm = "requested"
      /\ UNCHANGED <<role, verbs, dev_list, trans_state, i, pos, is_stop, epoll, batch, closed>>
  BY DEF Accept
<1>2. PICK k \in Ends(heap, calls) :
        /\ heap' = IF Done(calls, k) THEN heap
                   ELSE Forget(Run(heap, "accepted", calls, k), "accepted")
        /\ main' = IF Done(calls, k) THEN "pool" ELSE "join"
        /\ cm' = IF Done(calls, k) THEN "accepted" ELSE "none"
  BY DEF Accept
<1> DEFINE g == Run(heap, "accepted", calls, k)
<1>3. /\ IsHeap(g) /\ g.live = heap.live /\ g.ptr = heap.ptr
      /\ g.misuse = heap.misuse /\ heap.failed \subseteq g.failed
      /\ ~Done(calls, k) => "accept" \in g.failed
  <2>1. IsHeap(heap) /\ calls = Single("accept", {})
    BY DEF ResInv, TypeInv
  <2> HIDE DEF calls
  <2> QED
    BY <2>1, NothingRun
<1> HIDE DEF calls, g
<1>4. /\ IsHeap(heap') /\ heap'.live = heap.live /\ heap'.misuse = heap.misuse
      /\ heap.failed \subseteq heap'.failed
      /\ heap'.ptr = IF Done(calls, k) THEN heap.ptr ELSE heap.ptr \ Of("accepted", {"trans"})
      /\ ~Done(calls, k) => "accept" \in heap'.failed
  <2>1. IsHeap(heap)
    BY DEF ResInv, TypeInv
  <2>2. CASE Done(calls, k)
    BY <1>2, <2>1, <2>2
  <2>3. CASE ~Done(calls, k)
    <3>1. heap' = Forget(g, "accepted")
      BY <1>2, <2>3 DEF g
    <3> QED
      BY <1>3, <2>3, <3>1, ForgetLeaves
  <2> QED
    BY <2>2, <2>3
<1>5. /\ \/ Done(calls, k) /\ main' = "pool" /\ cm' = "accepted"
         \/ ~Done(calls, k) /\ main' = "join" /\ cm' = "none" /\ heap'.failed # {}
      /\ role = "server" /\ Connected = "accepted" /\ closed = "no"
  <2>1. role = "server" /\ Connected = "accepted" /\ closed = "no"
    BY <1>1 DEF ResInv, Control, Connected
  <2>2. CASE Done(calls, k)
    BY <1>2, <2>1, <2>2
  <2>3. CASE ~Done(calls, k)
    BY <1>2, <1>4, <2>1, <2>3
  <2> QED
    BY <2>2, <2>3
<1>6. TypeInv'
  BY <1>1, <1>4, <1>5 DEF ResInv, TypeInv, TypeOK, CmState, IsHeap, HeapWith
<1>7. Control'
  BY <1>1, <1>4, <1>5 DEF ResInv, Control, Starting, Joined, Connects
<1>8. \A x, kind : kind # "trans" =>
        /\ <<x, kind>> \in heap'.live <=> <<x, kind>> \in heap.live
        /\ <<x, kind>> \in heap'.ptr <=> <<x, kind>> \in heap.ptr
  BY <1>4, OfMembers
<1>9. /\ \A x, kind : <<x, kind>> \in heap'.ptr => <<x, kind>> \in heap.ptr
      /\ \A x, kind : x # "accepted" => (<<x, kind>> \in heap'.ptr <=> <<x, kind>> \in heap.ptr)
  BY <1>4, OfMembers
<1>10. Before'
  BY <1>1, <1>4, <1>5, <1>9 DEF ResInv, Before, Absent, Starting, Control
<1>11. Ties'
  BY <1>1, <1>4, <1>8 DEF ResInv, Ties
<1>12. Domains' /\ ClientReleases'
  BY <1>1, <1>4, <1>5 DEF ResInv, Domains, ClientReleases
<1>13. DevInv'
  BY <1>1, <1>4, <1>5, ListQuiet
<1>14. FailuresKeepNothing'
  <2> SUFFICES ASSUME NEW t \in Trans, NEW kind \in TransKind, <<t, kind>> \in heap'.live,
                      Lost(heap', t, kind)
               PROVE  \E call \in heap'.failed : kind \in LeftBy(t, call)
    BY LostNothing
  <2>1. <<t, kind>> \in heap.live
    BY <1>4
  <2>2. CASE Done(calls, k)
    BY <1>4, <2>1, <2>2, KeptObject
  <2>3. CASE ~Done(calls, k) /\ t # "accepted"
    BY <1>4, <1>9, <2>1, <2>3, KeptObject
  <2>4. CASE ~Done(calls, k) /\ t = "accepted"
    <3>1. kind \notin PoolKind
      BY <1>1, <2>1, <2>4 DEF ResInv, Before, Absent
    <3>2. kind # "timer_fd"
      BY <1>1, <1>5, <2>1, <2>4 DEF ResInv, Held
    <3>3. kind \in NewTrans \cup QpKind
      BY <3>1, <3>2 DEF TransKind, FdKind, NewTrans, QpKind
    <3>4. kind \in LeftBy("accepted", "accept")
      BY <3>3 DEF LeftBy
    <3> QED
      BY <1>4, <2>4, <3>4
  <2> QED
    BY <2>2, <2>3, <2>4
<1>15. Held'
  <2>1. <<"own", "trans">> \in heap'.ptr
    BY <1>1, <1>9 DEF ResInv, Held
  <2>2. Done(calls, k) => <<"accepted", "trans">> \in heap'.ptr
    BY <1>1, <1>4, <1>5 DEF ResInv, Held
  <2>3. \A t \in Trans : <<t, "timer_fd">> \notin heap'.live \cup batch'
    BY <1>1, <1>4, <1>5 DEF ResInv, Held
  <2> QED
    BY <1>1, <1>5, <2>1, <2>2, <2>3 DEF Held, Joined, Connected
<1>16. Connection'
  BY <1>1, <1>4, <1>5, <1>8 DEF ResInv, Connection, Connected, Joined
<1>17. UsedIsThere'
  <2>1. Noticed' => Noticed
    BY <1>1, <1>4 DEF Noticed
  <2>2. <<"accepted", "qp">> \in heap.live
    BY <1>1, <1>5 DEF ResInv, Connection
  <2> QED
    BY <1>1, <1>4, <1>5, <2>1, <2>2 DEF ResInv, UsedIsThere, Joined
<1> QED
  BY <1>6, <1>7, <1>10, <1>11, <1>12, <1>13, <1>14, <1>15, <1>16, <1>17 DEF ResInv

-----------------------------------------------------------------------------
(* The memory pool. *)

\* A device that is found is there, and so is its protection domain.
LEMMA FoundIsThere ==
  ASSUME ResInv, Found
  PROVE  <<verbs, "device">> \in heap.live /\ <<verbs, "pd">> \in heap.live
<1>1. PICK s \in Seq(Node) : DeviceList(s)
  BY DEF ResInv, DevInv
<1>2. Len(Verbs) \in Nat /\ ListHead \in Node
  BY VerbsAssumption, Devices
<1>3. Entries(dev_list, ListHead, Len(Verbs)) \subseteq Nodes(s)
  BY <1>1, <1>2, EntriesAreNodes DEF DeviceList
<1>4. verbs \in Device /\ <<verbs, "device">> \in heap.live
  BY <1>1, <1>3 DEF Found, DeviceList
<1> QED
  BY <1>4 DEF ResInv, Domains

\* The pool of a transport, made from the domain of its device.
LEMMA WithPoolLeaves ==
  ASSUME NEW h, IsHeap(h), NEW t \in Trans, NEW k \in Ends(h, MempoolCreate),
         <<verbs, "pd">> \in h.live, NEW g, g = WithPool(h, t, k),
         \A kind \in PoolKind : <<t, kind>> \notin h.live \cup h.ptr
  PROVE  /\ Touches(g, h, t, PoolKind)
         /\ \A x, kind : <<x, kind>> \in g.ptr =>
              <<x, kind>> \in h.ptr \/ (x = t /\ kind = "mempool" /\ Done(MempoolCreate, k))
         /\ Done(MempoolCreate, k) =>
              /\ g.failed = h.failed /\ g.misuse = h.misuse
              /\ \A kind \in PoolKind : <<t, kind>> \in g.live
              /\ <<t, "mempool">> \in g.ptr
         /\ ~Done(MempoolCreate, k) =>
              /\ g.failed \cap Unchecked # {}
              /\ \A kind \in PoolKind : <<t, kind>> \in g.live =>
                   kind = "recv_mr" /\ "reg_rdma_mr" \in g.failed
<1> DEFINE u == Use(h, {<<verbs, "pd">>})
           r == Run(h, t, MempoolCreate, k)
<1>1. u = h
  BY UseThere
<1>2. g = IF Done(MempoolCreate, k) THEN Point(r, Of(t, {"mempool"})) ELSE r
  BY <1>1 DEF WithPool
<1>3. k \in DOMAIN MempoolCreate \cup {Len(MempoolCreate) + 1}
  BY EndsIn
<1>4. /\ Touches(r, h, t, PoolKind) /\ r.ptr = h.ptr
      /\ Done(MempoolCreate, k) =>
           /\ r.failed = h.failed /\ r.misuse = h.misuse
           /\ \A kind \in PoolKind : <<t, kind>> \in r.live
      /\ ~Done(MempoolCreate, k) =>
           /\ r.failed \cap Unchecked # {}
           /\ \A kind \in PoolKind : <<t, kind>> \in r.live =>
                kind = "recv_mr" /\ "reg_rdma_mr" \in r.failed
  BY <1>3, PoolRun
<1> HIDE DEF r, u
<1>5. CASE Done(MempoolCreate, k)
  <2> DEFINE objs == Of(t, {"mempool"})
  <2>1. /\ objs \subseteq Object
        /\ \A x, kind : <<x, kind>> \in objs <=> x = t /\ kind = "mempool"
    BY OfMembers DEF TransKind, PoolKind
  <2> HIDE DEF objs
  <2>2. g = Point(r, objs)
    BY <1>2, <1>5 DEF objs
  <2>3. /\ IsHeap(g) /\ g.live = r.live /\ g.ptr = r.ptr \cup objs
        /\ g.failed = r.failed /\ g.misuse = r.misuse
    BY <1>4, <2>1, <2>2, PointLeaves DEF Touches
  <2>4. Touches(g, h, t, PoolKind)
    BY <1>4, <2>1, <2>3 DEF Touches, PoolKind
  <2>5. \A x, kind : <<x, kind>> \in g.ptr =>
          <<x, kind>> \in h.ptr \/ (x = t /\ kind = "mempool")
    <3>1. r.ptr = h.ptr
      BY <1>4
    <3> QED
      BY <2>1, <2>3, <3>1
  <2>6. /\ g.failed = h.failed /\ g.misuse = h.misuse
        /\ \A kind \in PoolKind : <<t, kind>> \in g.live
    BY <1>4, <1>5, <2>3
  <2>7. <<t, "mempool">> \in g.ptr
    BY <2>1, <2>3
  <2> QED
    BY <1>5, <2>4, <2>5, <2>6, <2>7
<1>6. CASE ~Done(MempoolCreate, k)
  <2>1. g = r
    BY <1>2, <1>6
  <2>2. Touches(g, h, t, PoolKind)
    BY <1>4, <2>1
  <2>3. \A x, kind : <<x, kind>> \in g.ptr => <<x, kind>> \in h.ptr
    BY <1>4, <2>1
  <2>4. /\ g.failed \cap Unchecked # {}
        /\ \A kind \in PoolKind : <<t, kind>> \in g.live =>
             kind = "recv_mr" /\ "reg_rdma_mr" \in g.failed
    BY <1>4, <1>6, <2>1
  <2> QED
    BY <1>6, <2>2, <2>3, <2>4, Zenon
<1> QED
  BY <1>5, <1>6

\* A pool comes to be, or a part of it.
LEMMA PoolStep ==
  ASSUME ResInv, NEW t \in Trans, Absent(t, PoolKind), Touches(heap', heap, t, PoolKind),
         UNCHANGED <<role, verbs, dev_list, i>>, batch' \subseteq batch,
         main \notin Starting, main' \notin Starting \cup {"exited"},
         main \in {"release", "exited"} => main' \in {"release", "exited"},
         \/ <<t, "mempool">> \in heap'.ptr /\ <<t, "trans">> \in heap.ptr
         \/ \A kind \in PoolKind : <<t, kind>> \in heap'.live =>
              kind = "recv_mr" /\ "reg_rdma_mr" \in heap'.failed
  PROVE  Ties' /\ FailuresKeepNothing' /\ Domains' /\ DevInv'
<1>1. \A x, kind : kind \notin PoolKind =>
        /\ <<x, kind>> \in heap'.live <=> <<x, kind>> \in heap.live
        /\ <<x, kind>> \in heap'.ptr <=> <<x, kind>> \in heap.ptr
  BY DEF Touches
<1>2. \A x, kind : x # t =>
        /\ <<x, kind>> \in heap'.live <=> <<x, kind>> \in heap.live
        /\ <<x, kind>> \in heap'.ptr <=> <<x, kind>> \in heap.ptr
  BY DEF Touches
<1>3. \A kind \in PoolKind : <<t, kind>> \notin heap.live
  BY DEF Absent
<1>4. Ties'
  BY <1>1 DEF ResInv, Ties, PoolKind, MrKind
<1>5. FailuresKeepNothing'
  <2> SUFFICES ASSUME NEW x \in Trans, NEW kind \in TransKind, <<x, kind>> \in heap'.live,
                      Lost(heap', x, kind)
               PROVE  \E call \in heap'.failed : kind \in LeftBy(x, call)
    BY LostNothing
  <2>0. "trans" \notin PoolKind
    BY DEF PoolKind, MrKind
  <2>1. CASE x = t /\ kind \in PoolKind
    <3>1. Root(kind) = "mempool"
      BY <2>1 DEF Root, PoolKind, MrKind
    <3>2. kind = "recv_mr" /\ "reg_rdma_mr" \in heap'.failed
      BY <1>1, <2>0, <2>1, <3>1 DEF Lost
    <3>3. "recv_mr" \in LeftBy(x, "reg_rdma_mr")
      BY DEF LeftBy, TransKind, PoolKind, MrKind
    <3> QED
      BY <3>2, <3>3
  <2>2. CASE ~(x = t /\ kind \in PoolKind)
    <3>1. <<x, kind>> \in heap.live
      BY <1>1, <1>2, <2>2
    <3>2. x # t \/ Root(kind) \notin PoolKind
      BY <2>2 DEF Root, PoolKind, MrKind
    <3>3. /\ <<x, Root(kind)>> \in heap'.ptr <=> <<x, Root(kind)>> \in heap.ptr
          /\ <<x, "trans">> \in heap'.ptr <=> <<x, "trans">> \in heap.ptr
      BY <1>1, <1>2, <2>0, <3>2
    <3>4. heap.failed \subseteq heap'.failed
      BY DEF Touches
    <3> QED
      BY <2>2, <3>1, <3>3, <3>4, KeptObject
  <2> QED
    BY <2>1, <2>2
<1>6. Domains'
  <2>1. \A x, kind : <<x, kind>> \in heap.live => <<x, kind>> \in heap'.live
    BY <1>1, <1>2, <1>3
  <2>2. \A d \in Device, kind \in {"device", "pd"} :
          <<d, kind>> \in heap'.live <=> <<d, kind>> \in heap.live
    BY <1>1 DEF PoolKind, MrKind
  <2> QED
    BY <2>1, <2>2 DEF ResInv, Domains
<1>7. DevInv'
  BY <1>1, ListQuiet DEF PoolKind, MrKind, Starting
<1> QED
  BY <1>4, <1>5, <1>6, <1>7

LEMMA AddrResolvedStep == ASSUME ResInv, heap.misuse = {}, AddrResolved PROVE ResInv'
<1> DEFINE route == Single("resolve_route", {})
<1>1. /\ cm = "ADDR_RESOLVED" /\ cm' \in {"none", "ROUTE_RESOLVED"}
      /\ batch # {} /\ batch' \subseteq batch
      /\ UNCHANGED <<role, verbs, dev_list, main, trans_state, i, pos, is_stop, epoll, closed>>
  BY DEF AddrResolved, HandleCm, Handle
<1>2. /\ role = "client" /\ Connected = "own" /\ epoll = "on"
      /\ main \notin Starting \cup {"release", "exited", "run", "pool"} /\ ~is_stop
      /\ closed = "no" /\ <<"own", "trans">> \in heap.ptr
  <2>1. role = "client" /\ epoll \in {"on", "off", "exited"}
    BY <1>1 DEF ResInv, Control, TypeInv, TypeOK
  <2>2. epoll = "on" /\ ~is_stop
    BY <1>1, <2>1 DEF ResInv, Control
  <2>3. main \notin Starting \cup {"release", "exited", "run", "pool"} /\ closed = "no"
    BY <1>1, <2>1, <2>2 DEF ResInv, Control
  <2> QED
    BY <2>1, <2>2, <2>3 DEF ResInv, Held, Connected, Starting
<1>3. Absent("own", PoolKind) /\ Absent("own", QpKind)
  BY <1>1 DEF ResInv, Before
<1>4. IsHeap(heap) /\ "own" \in Trans
  BY Kinds DEF ResInv, TypeInv
<1>5. Control'
  BY <1>1, <1>2 DEF ResInv, Control, Joined, Starting, Connects
<1>h. ASSUME \A t \in Trans :
               /\ <<t, "timer_fd">> \in heap'.live => <<t, "timer_fd">> \in heap.live
               /\ <<t, "trans">> \in heap.ptr => <<t, "trans">> \in heap'.ptr
      PROVE  Held'
  BY <1>1, <1>2, <1>h, HeldQuiet DEF Joined
<1>6. CASE ~Found
  <2>1. cm' = "none" /\ heap' = Fail(heap, "lookup")
    BY <1>6 DEF AddrResolved
  <2>2. /\ IsHeap(heap') /\ heap'.live = heap.live /\ heap'.ptr = heap.ptr
        /\ heap'.failed = heap.failed \cup {"lookup"} /\ heap'.misuse = heap.misuse
    BY <1>4, <2>1, FailLeaves
  <2>3. TypeInv'
    BY <1>1, <2>2 DEF ResInv, TypeInv, TypeOK, CmState, IsHeap, HeapWith
  <2>4. Before'
    BY <1>1, <1>2, <2>1, <2>2 DEF ResInv, Before, Absent
  <2>5. Ties' /\ FailuresKeepNothing' /\ Domains' /\ ClientReleases' /\ DevInv'
    BY <1>1, <2>1, <2>2, Still
  <2>6. Connection' /\ UsedIsThere'
    BY <1>1, <1>2, <2>1, <2>2 DEF ResInv, Connection, Connected, UsedIsThere, Noticed, Joined
  <2>7. Held'
    BY <1>h, <2>2
  <2> QED
    BY <1>5, <2>3, <2>4, <2>5, <2>6, <2>7 DEF ResInv
<1>7. CASE Found
  <2>1. PICK k \in Ends(heap, MempoolCreate) :
          \E j \in Ends(WithPool(heap, "own", k), route) :
            /\ heap' = Run(WithPool(heap, "own", k), "own", route, j)
            /\ cm' = IF Done(route, j) THEN "ROUTE_RESOLVED" ELSE "none"
    BY <1>7 DEF AddrResolved
  <2> DEFINE g == WithPool(heap, "own", k)
  <2>2. PICK j \in Ends(g, route) :
          /\ heap' = Run(g, "own", route, j)
          /\ cm' = IF Done(route, j) THEN "ROUTE_RESOLVED" ELSE "none"
    BY <2>1
  <2>3. /\ Touches(g, heap, "own", PoolKind)
        /\ \A x, kind : <<x, kind>> \in g.ptr =>
             <<x, kind>> \in heap.ptr \/ (kind = "mempool" /\ Done(MempoolCreate, k))
        /\ Done(MempoolCreate, k) =>
             /\ g.failed = heap.failed /\ g.misuse = heap.misuse
             /\ \A kind \in PoolKind : <<"own", kind>> \in g.live
             /\ <<"own", "mempool">> \in g.ptr
        /\ ~Done(MempoolCreate, k) =>
             /\ g.failed \cap Unchecked # {}
             /\ \A kind \in PoolKind : <<"own", kind>> \in g.live =>
                  kind = "recv_mr" /\ "reg_rdma_mr" \in g.failed
    <3>1. <<verbs, "pd">> \in heap.live
      BY <1>7, FoundIsThere
    <3>2. \A kind \in PoolKind : <<"own", kind>> \notin heap.live \cup heap.ptr
      BY <1>3 DEF Absent
    <3>3. g = WithPool(heap, "own", k)
      OBVIOUS
    <3> HIDE DEF g
    <3> QED
      BY <1>4, <3>1, <3>2, <3>3, WithPoolLeaves
  <2> HIDE DEF g
  <2>4. IsHeap(g)
    BY <2>3 DEF Touches
  <2>5. /\ IsHeap(heap') /\ heap'.live = g.live /\ heap'.ptr = g.ptr /\ heap'.misuse = g.misuse
        /\ g.failed \subseteq heap'.failed
        /\ ~Done(route, j) => "resolve_route" \in heap'.failed
    <3>1. route = Single("resolve_route", {}) /\ heap' = Run(g, "own", route, j)
      BY <2>2
    <3> HIDE DEF route
    <3> QED
      BY <2>2, <2>4, <3>1, NothingRun
  <2>6. \/ Done(route, j) /\ cm' = "ROUTE_RESOLVED"
        \/ ~Done(route, j) /\ cm' = "none" /\ heap'.failed # {}
    <3> HIDE DEF route
    <3>1. CASE Done(route, j)
      BY <2>2, <3>1
    <3>2. CASE ~Done(route, j)
      BY <2>2, <2>5, <3>2
    <3> QED
      BY <3>1, <3>2
  <2> HIDE DEF route
  <2>7. Touches(heap', heap, "own", PoolKind)
    BY <2>3, <2>5 DEF Touches
  <2>8. \A x, kind : kind \notin PoolKind =>
          /\ <<x, kind>> \in heap'.live <=> <<x, kind>> \in heap.live
          /\ <<x, kind>> \in heap'.ptr <=> <<x, kind>> \in heap.ptr
    BY <2>7 DEF Touches
  <2>9. \A x, kind : x # "own" =>
          /\ <<x, kind>> \in heap'.live <=> <<x, kind>> \in heap.live
          /\ <<x, kind>> \in heap'.ptr <=> <<x, kind>> \in heap.ptr
    BY <2>7 DEF Touches
  <2>10. TypeInv'
    <3>1. heap'.live \subseteq Object /\ heap'.ptr \subseteq Object /\ heap'.misuse \subseteq Object
      BY <2>5 DEF IsHeap, HeapWith
    <3>2. cm' \in CmState
      BY <1>1 DEF CmState
    <3> QED
      BY <1>1, <2>5, <3>1, <3>2 DEF ResInv, TypeInv, TypeOK
  <2>11. Before'
    <3>1. Absent("own", QpKind)'
      BY <1>1, <1>3, <2>8 DEF Absent, QpKind, PoolKind, MrKind
    <3>2. Absent("accepted", TransKind)'
      BY <1>1, <1>2, <2>9 DEF ResInv, Before, Absent
    <3> QED
      BY <1>1, <1>2, <3>1, <3>2 DEF Before, Starting
  <2>12. Ties' /\ FailuresKeepNothing' /\ Domains' /\ DevInv'
    <3>1. \/ <<"own", "mempool">> \in heap'.ptr
          \/ \A kind \in PoolKind : <<"own", kind>> \in heap'.live =>
               kind = "recv_mr" /\ "reg_rdma_mr" \in heap'.failed
      BY <2>3, <2>5
    <3>2. "own" \in Trans /\ batch' \subseteq batch
      BY <1>1, <1>4
    <3> QED
      BY <1>1, <1>2, <1>3, <3>2, <2>7, <3>1, PoolStep
  <2>13. Connection'
    <3>1. <<"own", "mempool">> \in heap'.ptr => \A kind \in PoolKind : <<"own", kind>> \in heap'.live
      <4>1. <<"own", "mempool">> \notin heap.ptr
        BY <1>3 DEF Absent, PoolKind
      <4> QED
        BY <2>3, <2>5, <4>1
    <3> QED
      BY <1>1, <1>2, <3>1 DEF Connection, Connected, Joined
  <2>14. UsedIsThere'
    <3>1. Noticed' => Noticed /\ Done(MempoolCreate, k)
      BY <1>1, <2>3, <2>5 DEF Noticed, Touches
    <3>2. Noticed' => heap'.misuse = {} /\ <<"own", "mempool">> \in heap'.live
      BY <2>3, <2>5, <3>1 DEF PoolKind
    <3>3. \A kind : kind \notin PoolKind => \A x : <<x, kind>> \in heap.live => <<x, kind>> \in heap'.live
      BY <2>8
    <3> QED
      BY <1>1, <1>2, <3>1, <3>2, <3>3
         DEF ResInv, UsedIsThere, Joined, Ctx, PoolKind, MrKind
  <2>15. ClientReleases'
    BY <1>1, <1>2, <2>6 DEF ClientReleases
  <2>16. Held'
    <3>1. "timer_fd" \notin PoolKind /\ "trans" \notin PoolKind
      BY DEF PoolKind, MrKind
    <3> QED
      BY <1>h, <2>8, <3>1
  <2> QED
    BY <1>5, <2>10, <2>11, <2>12, <2>13, <2>14, <2>15, <2>16 DEF ResInv
<1> QED
  BY <1>6, <1>7

LEMMA PrepareStep == ASSUME ResInv, heap.misuse = {}, Prepare PROVE ResInv'
<1>1. /\ main = "pool" /\ main' = "send" /\ trans_state' = "CONNECTING"
      /\ UNCHANGED <<role, verbs, dev_list, i, pos, cm, is_stop, epoll, batch, closed>>
  BY DEF Prepare
<1>2. PICK k \in Ends(heap, MempoolCreate) :
        heap' = Use(WithPool(heap, "accepted", k), Of("accepted", {"mempool", "qp"}))
  BY DEF Prepare
<1> DEFINE g == WithPool(heap, "accepted", k)
           objs == Of("accepted", {"mempool", "qp"})
<1>3. /\ role = "server" /\ Connected = "accepted" /\ epoll # "off" /\ "accepted" \in Trans
      /\ Absent("accepted", PoolKind) /\ IsHeap(heap) /\ <<verbs, "pd">> \in heap.live
      /\ <<"accepted", "trans">> \in heap.ptr
  BY <1>1, Kinds DEF ResInv, Control, Before, Connected, TypeInv, Connection, Held
<1>4. /\ Touches(g, heap, "accepted", PoolKind)
      /\ \A x, kind : <<x, kind>> \in g.ptr =>
           <<x, kind>> \in heap.ptr \/ (kind = "mempool" /\ Done(MempoolCreate, k))
      /\ Done(MempoolCreate, k) =>
           /\ g.failed = heap.failed /\ g.misuse = heap.misuse
           /\ \A kind \in PoolKind : <<"accepted", kind>> \in g.live
           /\ <<"accepted", "mempool">> \in g.ptr
      /\ ~Done(MempoolCreate, k) =>
           /\ g.failed \cap Unchecked # {}
           /\ \A kind \in PoolKind : <<"accepted", kind>> \in g.live =>
                kind = "recv_mr" /\ "reg_rdma_mr" \in g.failed
  <2>1. \A kind \in PoolKind : <<"accepted", kind>> \notin heap.live \cup heap.ptr
    BY <1>3 DEF Absent
  <2>2. g = WithPool(heap, "accepted", k)
    OBVIOUS
  <2> HIDE DEF g
  <2> QED
    BY <1>3, <2>1, <2>2, WithPoolLeaves
<1>5. heap' = Use(g, objs)
  BY <1>2
<1> HIDE DEF g
<1>6. /\ IsHeap(heap') /\ heap'.live = g.live /\ heap'.ptr = g.ptr /\ heap'.failed = g.failed
      /\ heap'.misuse = g.misuse \cup (objs \ g.live)
  <2>1. objs \subseteq Object
    BY <1>3, OfMembers DEF TransKind, PoolKind
  <2> HIDE DEF objs
  <2> QED
    BY <1>4, <1>5, <2>1, UseLeaves DEF Touches
<1>7. Touches(heap', heap, "accepted", PoolKind)
  BY <1>4, <1>6 DEF Touches
<1>8. \A x, kind : kind \notin PoolKind =>
        /\ <<x, kind>> \in heap'.live <=> <<x, kind>> \in heap.live
        /\ <<x, kind>> \in heap'.ptr <=> <<x, kind>> \in heap.ptr
  BY <1>7 DEF Touches
<1>9. \A x, kind : x # "accepted" =>
        /\ <<x, kind>> \in heap'.live <=> <<x, kind>> \in heap.live
        /\ <<x, kind>> \in heap'.ptr <=> <<x, kind>> \in heap.ptr
  BY <1>7 DEF Touches
<1>10. TypeInv'
  BY <1>1, <1>6 DEF ResInv, TypeInv, TypeOK, IsHeap, HeapWith
<1>11. Control'
  BY <1>1, <1>3 DEF ResInv, Control, Starting, Joined, Connects
<1>12. Before'
  <2>1. Absent("own", PoolKind)' /\ Absent("own", QpKind)'
    BY <1>1, <1>3, <1>9 DEF ResInv, Before, Absent
  <2>2. cm \notin {"listening", "CONNECT_REQUEST", "requested"}
    BY <1>1 DEF ResInv, Control
  <2> QED
    BY <1>1, <1>3, <2>1, <2>2 DEF Before, Starting
<1>13. Ties' /\ FailuresKeepNothing' /\ Domains' /\ DevInv'
  <2>1. \/ <<"accepted", "mempool">> \in heap'.ptr /\ <<"accepted", "trans">> \in heap.ptr
        \/ \A kind \in PoolKind : <<"accepted", kind>> \in heap'.live =>
             kind = "recv_mr" /\ "reg_rdma_mr" \in heap'.failed
    BY <1>3, <1>4, <1>6
  <2> QED
    BY <1>1, <1>3, <1>7, <2>1, PoolStep DEF Starting
<1>14. Connection'
  <2>1. <<"accepted", "mempool">> \in heap'.ptr =>
          \A kind \in PoolKind : <<"accepted", kind>> \in heap'.live
    <3>1. <<"accepted", "mempool">> \notin heap.ptr
      BY <1>3 DEF Absent, PoolKind
    <3> QED
      BY <1>4, <1>6, <3>1
  <2>2. \A x : <<x, "qp">> \in heap'.live <=> <<x, "qp">> \in heap.live
    BY <1>8 DEF PoolKind, MrKind
  <2>3. <<verbs, "pd">> \in heap'.live
    BY <1>3, <1>8 DEF PoolKind, MrKind
  <2> QED
    BY <1>1, <1>3, <2>1, <2>2, <2>3 DEF ResInv, Connection, Connected
<1>15. UsedIsThere'
  <2>1. Noticed' => Noticed /\ Done(MempoolCreate, k)
    BY <1>1, <1>4, <1>6 DEF Noticed, Touches
  <2>2. \A kind : kind \notin PoolKind =>
          \A x : <<x, kind>> \in heap.live => <<x, kind>> \in heap'.live
    BY <1>8
  <2>3. Noticed' => <<"accepted", "mempool">> \in g.live /\ <<"accepted", "qp">> \in g.live
    <3>1. Noticed => <<"accepted", "qp">> \in heap.live
      BY <1>1 DEF ResInv, UsedIsThere
    <3> QED
      BY <1>4, <1>6, <2>1, <2>2, <3>1 DEF PoolKind, MrKind
  <2>4. Noticed' => heap'.misuse = {}
    <3>1. \A o \in objs : o = <<"accepted", "mempool">> \/ o = <<"accepted", "qp">>
      BY DEF Of
    <3> HIDE DEF objs
    <3> QED
      BY <1>4, <1>6, <2>1, <2>3, <3>1
  <2>5. heap'.live = g.live
    BY <1>6
  <2> QED
    BY <1>1, <1>3, <2>1, <2>2, <2>3, <2>4, <2>5
       DEF ResInv, UsedIsThere, Joined, Connected, Ctx, PoolKind, MrKind
<1>16. ClientReleases'
  BY <1>1, <1>3 DEF ClientReleases
<1>17. Held'
  <2>1. "timer_fd" \notin PoolKind /\ "trans" \notin PoolKind
    BY DEF PoolKind, MrKind
  <2> QED
    BY <1>1, <1>8, <2>1, HeldQuiet
<1> QED
  BY <1>10, <1>11, <1>12, <1>13, <1>14, <1>15, <1>16, <1>17 DEF ResInv

-----------------------------------------------------------------------------
(* The QP. *)

\* The completion channel, queue and QP of a transport.
LEMMA WithQpLeaves ==
  ASSUME NEW h, IsHeap(h), NEW t \in Trans, NEW k \in Ends(h, QpCreate),
         NEW g, g = WithQp(h, t, k),
         \A kind \in QpKind : <<t, kind>> \notin h.live \cup h.ptr
  PROVE  /\ Touches(g, h, t, QpKind) /\ g.misuse = h.misuse
         /\ Done(QpCreate, k) =>
              /\ g.failed = h.failed
              /\ \A kind \in QpKind : <<t, kind>> \in g.live
              /\ <<t, "hcq">> \in g.ptr /\ <<t, "qp">> \in g.ptr
         /\ ~Done(QpCreate, k) =>
              /\ g.failed \cap QpCalls # {}
              /\ \A kind \in QpKind : <<t, kind>> \in g.live =>
                   \/ kind = "cq" /\ "req_notify_cq" \in g.failed
                   \/ kind \in {"cq", "comp_channel", "comp_fd"} /\ "create_qp" \in g.failed
<1> DEFINE r == Run(h, t, QpCreate, k)
<1>1. g = IF Done(QpCreate, k) THEN Point(r, Of(t, {"hcq", "qp"})) ELSE r
  BY DEF WithQp
<1>2. k \in DOMAIN QpCreate \cup {Len(QpCreate) + 1}
  BY EndsIn
<1>3. /\ Touches(r, h, t, QpKind) /\ r.ptr = h.ptr /\ r.misuse = h.misuse
      /\ Done(QpCreate, k) =>
           /\ r.failed = h.failed
           /\ \A kind \in QpKind : <<t, kind>> \in r.live
      /\ ~Done(QpCreate, k) =>
           /\ r.failed \cap QpCalls # {}
           /\ \A kind \in QpKind : <<t, kind>> \in r.live =>
                \/ kind = "cq" /\ "req_notify_cq" \in r.failed
                \/ kind \in {"cq", "comp_channel", "comp_fd"} /\ "create_qp" \in r.failed
  BY <1>2, QpRun
<1> HIDE DEF r
<1>4. CASE Done(QpCreate, k)
  <2> DEFINE objs == Of(t, {"hcq", "qp"})
  <2>1. /\ objs \subseteq Object
        /\ \A x, kind : <<x, kind>> \in objs <=> (x = t /\ kind \in {"hcq", "qp"})
    BY OfMembers DEF TransKind
  <2> HIDE DEF objs
  <2>2. g = Point(r, objs)
    BY <1>1, <1>4 DEF objs
  <2>3. /\ IsHeap(g) /\ g.live = r.live /\ g.ptr = r.ptr \cup objs
        /\ g.failed = r.failed /\ g.misuse = r.misuse
    BY <1>3, <2>1, <2>2, PointLeaves DEF Touches
  <2>4. Touches(g, h, t, QpKind)
    BY <1>3, <2>1, <2>3 DEF Touches, QpKind
  <2>5. /\ g.failed = h.failed /\ g.misuse = h.misuse
        /\ \A kind \in QpKind : <<t, kind>> \in g.live
    BY <1>3, <1>4, <2>3
  <2>6. <<t, "hcq">> \in g.ptr /\ <<t, "qp">> \in g.ptr
    BY <2>1, <2>3
  <2> QED
    BY <1>4, <2>4, <2>5, <2>6
<1>5. CASE ~Done(QpCreate, k)
  <2>1. g = r
    BY <1>1, <1>5
  <2> QED
    BY <1>3, <1>5, <2>1
<1> QED
  BY <1>4, <1>5

\* A QP comes to be, or a part of what it rests on.
LEMMA QpStep ==
  ASSUME ResInv, NEW t \in Trans, Absent(t, QpKind), Touches(heap', heap, t, QpKind),
         UNCHANGED <<role, verbs, dev_list, i>>, batch' \subseteq batch,
         main \notin Starting, main' \notin Starting \cup {"exited"},
         main \in {"release", "exited"} => main' \in {"release", "exited"},
         <<t, "qp">> \in heap'.live =>
           \A kind \in {"hcq", "comp_channel", "cq"} : <<t, kind>> \in heap'.live,
         \A kind \in QpKind : <<t, kind>> \in heap'.live /\ Lost(heap', t, kind) =>
           \E call \in heap'.failed : kind \in LeftBy(t, call)
  PROVE  Ties' /\ FailuresKeepNothing' /\ Domains' /\ DevInv'
<1>1. \A x, kind : kind \notin QpKind =>
        /\ <<x, kind>> \in heap'.live <=> <<x, kind>> \in heap.live
        /\ <<x, kind>> \in heap'.ptr <=> <<x, kind>> \in heap.ptr
  BY DEF Touches
<1>2. \A x, kind : x # t =>
        /\ <<x, kind>> \in heap'.live <=> <<x, kind>> \in heap.live
        /\ <<x, kind>> \in heap'.ptr <=> <<x, kind>> \in heap.ptr
  BY DEF Touches
<1>3. \A kind \in QpKind : <<t, kind>> \notin heap.live \cup batch
  BY DEF Absent
<1>4. Ties'
  <2> SUFFICES ASSUME NEW x \in Trans
               PROVE  /\ <<x, "event_fd">> \in heap'.live \cup batch' => <<x, "event_channel">> \in heap'.live
                      /\ <<x, "timer_fd">> \in heap'.live \cup batch' => <<x, "trans">> \in heap'.live
                      /\ <<x, "timerfd">> \in heap'.ptr => <<x, "trans">> \in heap'.live
                      /\ <<x, "comp_fd">> \in batch' \/ <<x, "qp">> \in heap'.live =>
                           \A kind \in {"hcq", "comp_channel", "cq"} : <<x, kind>> \in heap'.live
    BY DEF Ties
  <2>1. /\ <<x, "event_fd">> \in heap'.live \cup batch' => <<x, "event_channel">> \in heap'.live
        /\ <<x, "timer_fd">> \in heap'.live \cup batch' => <<x, "trans">> \in heap'.live
        /\ <<x, "timerfd">> \in heap'.ptr => <<x, "trans">> \in heap'.live
    BY <1>1 DEF ResInv, Ties, QpKind
  <2>2. CASE x = t
    <3>1. <<x, "comp_fd">> \notin batch'
      BY <1>3, <2>2 DEF QpKind
    <3> QED
      BY <2>1, <2>2, <3>1
  <2>3. CASE x # t
    <3>1. <<x, "comp_fd">> \in batch' \/ <<x, "qp">> \in heap'.live =>
            \A kind \in {"hcq", "comp_channel", "cq"} : <<x, kind>> \in heap'.live
      BY <1>2, <2>3 DEF ResInv, Ties
    <3> QED
      BY <2>1, <3>1
  <2> QED
    BY <2>2, <2>3
<1>5. FailuresKeepNothing'
  <2> SUFFICES ASSUME NEW x \in Trans, NEW kind \in TransKind, <<x, kind>> \in heap'.live,
                      Lost(heap', x, kind)
               PROVE  \E call \in heap'.failed : kind \in LeftBy(x, call)
    BY LostNothing
  <2>1. CASE x = t /\ kind \in QpKind
    BY <2>1
  <2>2. CASE ~(x = t /\ kind \in QpKind)
    <3>1. <<x, kind>> \in heap.live
      BY <1>1, <1>2, <2>2
    <3>2. (x # t \/ Root(kind) \notin QpKind) /\ "trans" \notin QpKind
      BY <2>2 DEF Root, QpKind, MrKind
    <3>3. /\ <<x, Root(kind)>> \in heap'.ptr <=> <<x, Root(kind)>> \in heap.ptr
          /\ <<x, "trans">> \in heap'.ptr <=> <<x, "trans">> \in heap.ptr
      BY <1>1, <1>2, <3>2
    <3>4. heap.failed \subseteq heap'.failed
      BY DEF Touches
    <3> QED
      BY <2>2, <3>1, <3>3, <3>4, KeptObject
  <2> QED
    BY <2>1, <2>2
<1>6. Domains'
  <2>1. \A x, kind : <<x, kind>> \in heap.live => <<x, kind>> \in heap'.live
    BY <1>1, <1>2, <1>3
  <2>2. \A d \in Device, kind \in {"device", "pd"} :
          <<d, kind>> \in heap'.live <=> <<d, kind>> \in heap.live
    BY <1>1 DEF QpKind
  <2> QED
    BY <2>1, <2>2 DEF ResInv, Domains
<1>7. DevInv'
  BY <1>1, ListQuiet DEF QpKind, Starting
<1> QED
  BY <1>4, <1>5, <1>6, <1>7

\* The QP is destroyed with its queue, and what points to the queue is reset.
LEMMA WithoutQpLeaves ==
  ASSUME NEW h, IsHeap(h), NEW t \in Trans, NEW g, g = WithoutQp(h, t),
         \A kind \in QpKind : <<t, kind>> \in h.live
  PROVE  /\ IsHeap(g) /\ g.failed = h.failed /\ g.misuse = h.misuse
         /\ \A x, kind : <<x, kind>> \in g.live <=>
              <<x, kind>> \in h.live /\ ~(x = t /\ kind \in {"qp", "cq", "comp_fd", "hcq"})
         /\ \A x, kind : <<x, kind>> \in g.ptr <=>
              <<x, kind>> \in h.ptr /\ ~(x = t /\ kind = "hcq")
<1> DEFINE objs == Of(t, {"qp", "cq", "comp_fd", "hcq"})
           gone == Of(t, {"hcq"})
           f == Free(h, objs)
<1>1. /\ objs \subseteq Object /\ objs \subseteq h.live
      /\ \A x, kind : <<x, kind>> \in objs <=> (x = t /\ kind \in {"qp", "cq", "comp_fd", "hcq"})
      /\ \A x, kind : <<x, kind>> \in gone <=> (x = t /\ kind = "hcq")
  <2>1. \A kind \in {"qp", "cq", "comp_fd", "hcq"} : <<t, kind>> \in h.live
    BY DEF QpKind
  <2>2. objs \subseteq h.live
    BY <2>1, Objects
  <2> QED
    BY <2>2, OfMembers DEF TransKind, FdKind
<1>2. g = [f EXCEPT !.ptr = @ \ gone]
  BY DEF WithoutQp
<1> HIDE DEF objs, gone
<1>3. /\ IsHeap(f) /\ f.live = h.live \ objs /\ f.ptr = h.ptr /\ f.failed = h.failed
      /\ f.misuse = h.misuse
  <2>1. objs \ h.live = {}
    BY <1>1
  <2>2. /\ IsHeap(Free(h, objs)) /\ Free(h, objs).live = h.live \ objs
        /\ Free(h, objs).ptr = h.ptr /\ Free(h, objs).failed = h.failed
        /\ Free(h, objs).misuse = h.misuse \cup (objs \ h.live)
    BY <1>1, FreeLeaves
  <2>3. Free(h, objs).misuse = h.misuse
    BY <2>1, <2>2
  <2> QED
    BY <2>2, <2>3
<1> HIDE DEF f
<1>4. /\ IsHeap(g) /\ g.live = f.live /\ g.ptr = f.ptr \ gone /\ g.failed = f.failed
      /\ g.misuse = f.misuse
  <2>1. PICK names : f \in HeapWith(names)
    BY <1>3 DEF IsHeap
  <2>2. /\ g \in HeapWith(names) /\ g.live = f.live /\ g.ptr = f.ptr \ gone
        /\ g.failed = f.failed /\ g.misuse = f.misuse
    BY <1>2, <2>1 DEF HeapWith
  <2> QED
    BY <2>2 DEF IsHeap
<1> QED
  BY <1>1, <1>3, <1>4

LEMMA RouteResolvedStep == ASSUME ResInv, heap.misuse = {}, RouteResolved PROVE ResInv'
<1> DEFINE connect == Single("connect", {})
<1>1. /\ cm = "ROUTE_RESOLVED"
      /\ batch # {} /\ batch' \subseteq batch
      /\ UNCHANGED <<role, verbs, dev_list, main, i, pos, epoll, closed>>
  BY DEF RouteResolved, HandleCm, Handle
<1>2. /\ role = "client" /\ Connected = "own" /\ epoll = "on"
      /\ main \notin Starting \cup {"release", "exited", "run", "pool"} /\ ~is_stop
      /\ closed = "no" /\ trans_state # "CONNECTED" /\ <<"own", "trans">> \in heap.ptr
  <2>1. role = "client" /\ epoll \in {"on", "off", "exited"}
    BY <1>1 DEF ResInv, Control, TypeInv, TypeOK
  <2>2. epoll = "on" /\ ~is_stop
    BY <1>1, <2>1 DEF ResInv, Control
  <2>3. main \notin Starting \cup {"release", "exited", "run", "pool"} /\ closed = "no"
    BY <1>1, <2>1, <2>2 DEF ResInv, Control
  <2>4. trans_state # "CONNECTED"
    BY <1>1, <2>3 DEF ResInv, Control, Connects
  <2> QED
    BY <2>1, <2>2, <2>3, <2>4 DEF ResInv, Held, Connected, Starting
<1>3. IsHeap(heap) /\ "own" \in Trans /\ Absent("own", QpKind)
  BY <1>1, Kinds DEF ResInv, TypeInv, Before
<1>4. PICK k \in Ends(heap, QpCreate) :
        LET h == WithQp(heap, "own", k)
        IN  IF Done(QpCreate, k)
            THEN \E j \in Ends(h, connect) :
                   IF Done(connect, j)
                   THEN /\ heap' = Use(h, Of("own", {"mempool", "qp"}))
                        /\ cm' \in {"ESTABLISHED", "CONNECT_ERROR"}
                        /\ UNCHANGED <<is_stop, trans_state>>
                   ELSE /\ heap' = WithoutQp(Run(h, "own", connect, j), "own")
                        /\ cm' = "none"
                        /\ is_stop' = TRUE
                        /\ trans_state' = "ERROR"
            ELSE heap' = h /\ cm' = "none" /\ UNCHANGED <<is_stop, trans_state>>
  BY DEF RouteResolved
<1> DEFINE g == WithQp(heap, "own", k)
<1>5. /\ Touches(g, heap, "own", QpKind) /\ g.misuse = heap.misuse
      /\ Done(QpCreate, k) =>
           /\ g.failed = heap.failed
           /\ \A kind \in QpKind : <<"own", kind>> \in g.live
           /\ <<"own", "hcq">> \in g.ptr /\ <<"own", "qp">> \in g.ptr
      /\ ~Done(QpCreate, k) =>
           /\ g.failed \cap QpCalls # {}
           /\ \A kind \in QpKind : <<"own", kind>> \in g.live =>
                \/ kind = "cq" /\ "req_notify_cq" \in g.failed
                \/ kind \in {"cq", "comp_channel", "comp_fd"} /\ "create_qp" \in g.failed
  <2>1. \A kind \in QpKind : <<"own", kind>> \notin heap.live \cup heap.ptr
    BY <1>3 DEF Absent
  <2>2. g = WithQp(heap, "own", k)
    OBVIOUS
  <2> HIDE DEF g
  <2> QED
    BY <1>3, <2>1, <2>2, WithQpLeaves
\* What all three outcomes come to.
<1>6. /\ Touches(heap', heap, "own", QpKind)
      /\ <<"own", "qp">> \in heap'.live =>
           \A kind \in {"hcq", "comp_channel", "cq"} : <<"own", kind>> \in heap'.live
      /\ \A kind \in QpKind : <<"own", kind>> \in heap'.live /\ Lost(heap', "own", kind) =>
           \E call \in heap'.failed : kind \in LeftBy("own", call)
      /\ heap'.misuse \subseteq heap.misuse \cup ({<<"own", "mempool">>} \ heap.live)
      /\ \/ /\ cm' \in {"ESTABLISHED", "CONNECT_ERROR"} /\ is_stop' = is_stop
            /\ <<"own", "qp">> \in heap'.live
         \/ cm' = "none" /\ is_stop' \in BOOLEAN /\ heap'.failed # {}
      /\ trans_state' \in {trans_state, "ERROR"}
  <2>1. CASE ~Done(QpCreate, k)
    <3>1. heap' = g /\ cm' = "none" /\ is_stop' = is_stop /\ trans_state' = trans_state
      BY <1>4, <2>1
    <3> HIDE DEF g
    <3>2. <<"own", "qp">> \notin heap'.live
      BY <1>5, <2>1, <3>1 DEF QpKind
    <3>3. ASSUME NEW kind \in QpKind, <<"own", kind>> \in heap'.live
          PROVE  \E call \in heap'.failed : kind \in LeftBy("own", call)
      <4>1. \/ kind = "cq" /\ "req_notify_cq" \in heap'.failed
            \/ kind \in {"cq", "comp_channel", "comp_fd"} /\ "create_qp" \in heap'.failed
        BY <1>5, <2>1, <3>1, <3>3
      <4> QED
        BY <4>1, Kinds DEF LeftBy
    <3>4. Touches(heap', heap, "own", QpKind) /\ heap'.misuse = heap.misuse /\ heap'.failed # {}
      BY <1>5, <2>1, <3>1
    <3>5. is_stop' \in BOOLEAN
      BY <3>1 DEF ResInv, TypeInv, TypeOK
    <3> QED
      BY <3>1, <3>2, <3>3, <3>4, <3>5
  <2>2. CASE Done(QpCreate, k)
    <3>1. PICK j \in Ends(g, connect) :
            IF Done(connect, j)
            THEN /\ heap' = Use(g, Of("own", {"mempool", "qp"}))
                 /\ cm' \in {"ESTABLISHED", "CONNECT_ERROR"}
                 /\ UNCHANGED <<is_stop, trans_state>>
            ELSE /\ heap' = WithoutQp(Run(g, "own", connect, j), "own")
                 /\ cm' = "none"
                 /\ is_stop' = TRUE
                 /\ trans_state' = "ERROR"
      BY <1>4, <2>2
    <3> HIDE DEF g
    <3>2. IsHeap(g)
      BY <1>5 DEF Touches
    <3>3. CASE Done(connect, j)
      <4> DEFINE objs == Of("own", {"mempool", "qp"})
      <4>1. /\ heap' = Use(g, objs) /\ cm' \in {"ESTABLISHED", "CONNECT_ERROR"}
            /\ is_stop' = is_stop /\ trans_state' = trans_state
        BY <3>1, <3>3
      <4>2. objs \subseteq Object /\ objs \ {<<"own", "qp">>} = {<<"own", "mempool">>}
        <5>1. objs \subseteq Object /\ <<"own", "mempool">> \in objs
          BY <1>3, OfMembers DEF TransKind, PoolKind
        <5>2. \A o \in objs : o = <<"own", "mempool">> \/ o = <<"own", "qp">>
          BY DEF Of
        <5> QED
          BY <5>1, <5>2
      <4>3. /\ IsHeap(heap') /\ heap'.live = g.live /\ heap'.ptr = g.ptr /\ heap'.failed = g.failed
            /\ heap'.misuse = g.misuse \cup (objs \ g.live)
        BY <3>2, <4>1, <4>2, UseLeaves
      <4>4. Touches(heap', heap, "own", QpKind)
        BY <1>5, <4>3 DEF Touches
      <4>5. <<"own", "mempool">> \in g.live <=> <<"own", "mempool">> \in heap.live
        BY <1>5 DEF Touches, QpKind
      <4>6. \A kind \in QpKind : <<"own", kind>> \in heap'.live
        BY <1>5, <2>2, <4>3
      <4>7. \A kind \in QpKind : ~Lost(heap', "own", kind)
        <5>1. <<"own", "trans">> \in heap'.ptr
          BY <1>2, <1>5, <4>3 DEF Touches, QpKind
        <5>2. <<"own", "hcq">> \in heap'.ptr /\ <<"own", "qp">> \in heap'.ptr
          BY <1>5, <2>2, <4>3
        <5>3. \A kind \in QpKind : Root(kind) \in {"hcq", "qp"}
          BY DEF QpKind, Root, PoolKind, MrKind
        <5> QED
          BY <5>1, <5>2, <5>3 DEF Lost
      <4>8. heap'.misuse \subseteq heap.misuse \cup ({<<"own", "mempool">>} \ heap.live)
        <5>1. <<"own", "qp">> \in g.live
          BY <4>3, <4>6 DEF QpKind
        <5> QED
          BY <1>5, <4>2, <4>3, <4>5, <5>1
      <4>9. <<"own", "qp">> \in heap'.live /\
              \A kind \in {"hcq", "comp_channel", "cq"} : <<"own", kind>> \in heap'.live
        BY <4>6 DEF QpKind
      <4> QED
        BY <4>1, <4>4, <4>7, <4>8, <4>9
    <3>4. CASE ~Done(connect, j)
      <4> DEFINE r == Run(g, "own", connect, j)
      <4>1. heap' = WithoutQp(r, "own") /\ cm' = "none" /\ is_stop' = TRUE /\ trans_state' = "ERROR"
        BY <3>1, <3>4
      <4>2. connect = Single("connect", {}) /\ r = Run(g, "own", connect, j)
        OBVIOUS
      <4> HIDE DEF r, connect
      <4>3. /\ IsHeap(r) /\ r.live = g.live /\ r.ptr = g.ptr /\ r.misuse = g.misuse
            /\ g.failed \subseteq r.failed /\ "connect" \in r.failed
        BY <3>1, <3>2, <3>4, <4>2, NothingRun
      <4>4. \A kind \in QpKind : <<"own", kind>> \in r.live
        BY <1>5, <2>2, <4>3
      <4>5. /\ IsHeap(heap') /\ heap'.failed = r.failed /\ heap'.misuse = r.misuse
            /\ \A x, kind : <<x, kind>> \in heap'.live <=>
                 <<x, kind>> \in r.live /\ ~(x = "own" /\ kind \in {"qp", "cq", "comp_fd", "hcq"})
            /\ \A x, kind : <<x, kind>> \in heap'.ptr <=>
                 <<x, kind>> \in r.ptr /\ ~(x = "own" /\ kind = "hcq")
        BY <1>3, <4>1, <4>3, <4>4, WithoutQpLeaves
      <4>6. Touches(heap', heap, "own", QpKind)
        BY <1>5, <4>3, <4>5 DEF Touches, QpKind
      <4>7. <<"own", "qp">> \notin heap'.live
        BY <4>5
      <4>8. ASSUME NEW kind \in QpKind, <<"own", kind>> \in heap'.live
            PROVE  \E call \in heap'.failed : kind \in LeftBy("own", call)
        <5>1. kind = "comp_channel"
          BY <4>5, <4>8 DEF QpKind
        <5> QED
          BY <4>3, <4>5, <5>1, Kinds DEF LeftBy, QpKind
      <4>9. heap'.misuse = heap.misuse /\ heap'.failed # {}
        BY <1>5, <4>3, <4>5
      <4> QED
        BY <4>1, <4>6, <4>7, <4>8, <4>9
    <3> QED
      BY <3>3, <3>4
  <2> QED
    BY <2>1, <2>2
<1> HIDE DEF g, connect
<1>7. \A x, kind : kind \notin QpKind =>
        /\ <<x, kind>> \in heap'.live <=> <<x, kind>> \in heap.live
        /\ <<x, kind>> \in heap'.ptr <=> <<x, kind>> \in heap.ptr
  BY <1>6 DEF Touches
<1>8. \A x, kind : x # "own" =>
        /\ <<x, kind>> \in heap'.live <=> <<x, kind>> \in heap.live
        /\ <<x, kind>> \in heap'.ptr <=> <<x, kind>> \in heap.ptr
  BY <1>6 DEF Touches
<1>9. IsHeap(heap') /\ heap.failed \subseteq heap'.failed /\ is_stop' \in BOOLEAN
  BY <1>6 DEF Touches, ResInv, TypeInv, TypeOK
<1>t. trans_state' \in {"CONNECTING", "ERROR"}
  BY <1>2, <1>6 DEF ResInv, TypeInv, TypeOK
<1>10. TypeInv'
  <2>1. heap'.live \subseteq Object /\ heap'.ptr \subseteq Object /\ heap'.misuse \subseteq Object
    BY <1>9 DEF IsHeap, HeapWith
  <2>2. cm' \in CmState
    BY <1>6 DEF CmState
  <2> QED
    BY <1>1, <1>9, <1>t, <2>1, <2>2 DEF ResInv, TypeInv, TypeOK
<1>11. Control'
  BY <1>1, <1>2, <1>6, <1>9, <1>t DEF ResInv, Control, Joined, Starting
<1>12. Before'
  <2>1. Absent("accepted", TransKind)'
    BY <1>1, <1>2, <1>8 DEF ResInv, Before, Absent
  <2> QED
    BY <1>1, <1>2, <1>6, <2>1 DEF Before, Starting
<1>13. Ties' /\ FailuresKeepNothing' /\ Domains' /\ DevInv'
  BY <1>1, <1>2, <1>3, <1>6, QpStep
<1>14. Connection'
  <2>1. \A x, kind : kind \in PoolKind => (<<x, kind>> \in heap'.live <=> <<x, kind>> \in heap.live)
    BY <1>7 DEF PoolKind, QpKind, MrKind
  <2>2. <<"own", "mempool">> \in heap'.ptr <=> <<"own", "mempool">> \in heap.ptr
    BY <1>7 DEF QpKind
  <2> QED
    BY <1>1, <1>2, <1>6, <2>1, <2>2 DEF ResInv, Connection, Connected, Joined
<1>15. UsedIsThere'
  <2>1. Noticed' => Noticed
    BY <1>1, <1>9 DEF Noticed
  <2>2. Noticed => <<"own", "mempool">> \in heap.live /\ heap.misuse = {}
    BY <1>1, <1>2 DEF ResInv, UsedIsThere
  <2>3. Noticed' => heap'.misuse = {}
    BY <1>6, <2>1, <2>2
  <2>4. \A kind : kind \notin QpKind => \A x : <<x, kind>> \in heap.live => <<x, kind>> \in heap'.live
    BY <1>7
  <2> QED
    BY <1>1, <1>2, <2>1, <2>2, <2>3, <2>4 DEF ResInv, UsedIsThere, Joined, Ctx, QpKind
<1>16. ClientReleases'
  BY <1>2, <1>6 DEF ClientReleases
<1>17. Held'
  <2>1. \A t \in Trans : <<t, "timer_fd">> \notin heap'.live \cup batch'
    BY <1>1, <1>2, <1>7 DEF ResInv, Held, QpKind
  <2>2. <<"own", "trans">> \in heap'.ptr
    BY <1>2, <1>7 DEF QpKind
  <2> QED
    BY <1>1, <1>2, <2>1, <2>2 DEF Held, Connected
<1> QED
  BY <1>10, <1>11, <1>12, <1>13, <1>14, <1>15, <1>16, <1>17 DEF ResInv

LEMMA ConnectRequestStep == ASSUME ResInv, heap.misuse = {}, ConnectRequest PROVE ResInv'
<1>1. /\ cm = "CONNECT_REQUEST" /\ batch # {} /\ batch' \subseteq batch
      /\ UNCHANGED <<role, verbs, dev_list, main, trans_state, i, pos, is_stop, epoll, closed>>
  BY DEF ConnectRequest, HandleCm, Handle
<1>2. role = "server" /\ Connected = "accepted" /\ epoll = "on" /\ main = "run"
      /\ closed = "no"
  <2>1. role = "server" /\ epoll = "on"
    BY <1>1 DEF ResInv, Control, TypeInv, TypeOK
  <2>2. main = "run" /\ closed = "no"
    BY <1>1, <2>1 DEF ResInv, Control, Starting
  <2> QED
    BY <2>1, <2>2 DEF Connected
<1>3. IsHeap(heap) /\ "accepted" \in Trans /\ Absent("accepted", TransKind)
  BY <1>1, Kinds DEF ResInv, TypeInv, Before
<1> DEFINE asked == [heap EXCEPT !.live = heap.live \cup Of("accepted", {"cm_id"})]
           JoinKind == CreatedKind \cup QpKind \cup {"cm_id"}
<1>4. PICK h \in Created(asked, "accepted") :
        LET named == Point(h, Of("accepted", {"cm_id"}))
        IN  IF <<"accepted", "trans">> \notin h.live
            THEN heap' = h /\ cm' = "none"
            ELSE IF ~Found
            THEN heap' = Forget(Fail(named, "lookup"), "accepted") /\ cm' = "none"
            ELSE \E k \in Ends(named, QpCreate) :
                   LET g == WithQp(named, "accepted", k)
                   IN  IF Done(QpCreate, k)
                       THEN heap' = g /\ cm' = "requested"
                       ELSE heap' = Forget(g, "accepted") /\ cm' = "none"
  BY DEF ConnectRequest
<1> DEFINE id == Of("accepted", {"cm_id"})
           named == Point(h, id)
<1>i. /\ id \subseteq Object
      /\ \A x, kind : <<x, kind>> \in id <=> (x = "accepted" /\ kind = "cm_id")
  BY <1>3, OfMembers DEF TransKind
<1>a. /\ IsHeap(asked) /\ asked.live = heap.live \cup id /\ asked.ptr = heap.ptr
      /\ asked.failed = heap.failed /\ asked.misuse = heap.misuse
  <2>1. PICK names : heap \in HeapWith(names)
    BY <1>3 DEF IsHeap
  <2>2. asked = [heap EXCEPT !.live = heap.live \cup id]
    OBVIOUS
  <2> HIDE DEF id, asked
  <2>3. /\ asked \in HeapWith(names) /\ asked.live = heap.live \cup id /\ asked.ptr = heap.ptr
        /\ asked.failed = heap.failed /\ asked.misuse = heap.misuse
    BY <1>i, <2>1, <2>2 DEF HeapWith
  <2> QED
    BY <2>3 DEF IsHeap
<1> HIDE DEF asked
<1>5. /\ Touches(h, asked, "accepted", CreatedKind)
      /\ <<"accepted", "event_fd">> \in h.live => <<"accepted", "event_channel">> \in h.live
      /\ <<"accepted", "event_channel">> \in h.live => <<"accepted", "event_channel">> \in h.ptr
      /\ <<"accepted", "trans">> \in h.live => <<"accepted", "trans">> \in h.ptr
      /\ <<"accepted", "trans">> \notin h.live =>
           /\ "calloc_trans" \in h.failed
           /\ \A kind \in CreatedKind : <<"accepted", kind>> \notin h.live
      /\ <<"accepted", "timerfd">> \in h.live =>
           <<"accepted", "timerfd">> \in h.ptr \/ "settime" \in h.failed
      /\ <<"accepted", "timerfd">> \in h.ptr => <<"accepted", "trans">> \in h.live
      /\ h.failed \cap Unchecked = {} =>
           /\ <<"accepted", "trans">> \in h.live
           /\ <<"accepted", "event_channel">> \in h.live
           /\ <<"accepted", "event_channel">> \in h.ptr
      /\ Ctx \in heap.live => h.misuse = heap.misuse
  <2>1. \A kind \in CreatedKind : <<"accepted", kind>> \notin heap.live \cup heap.ptr
    BY <1>3, Kinds DEF Absent
  <2>2. \A kind \in CreatedKind : <<"accepted", kind>> \notin asked.live \cup asked.ptr
    BY <1>a, <1>i, <2>1 DEF CreatedKind
  <2>3. Ctx \in heap.live => Ctx \in asked.live
    BY <1>a
  <2> HIDE DEF id
  <2> QED
    BY <1>3, <1>a, <2>2, <2>3, CreatedLeaves
<1>6. /\ IsHeap(h) /\ heap.failed \subseteq h.failed
      /\ \A x, kind : x # "accepted" \/ kind \notin CreatedKind \cup {"cm_id"} =>
           /\ <<x, kind>> \in h.live <=> <<x, kind>> \in heap.live
           /\ <<x, kind>> \in h.ptr <=> <<x, kind>> \in heap.ptr
  <2>1. \A x, kind : x # "accepted" \/ kind \notin CreatedKind =>
          /\ <<x, kind>> \in h.live <=> <<x, kind>> \in asked.live
          /\ <<x, kind>> \in h.ptr <=> <<x, kind>> \in asked.ptr
    BY <1>5 DEF Touches
  <2> HIDE DEF id
  <2> QED
    BY <1>5, <1>a, <1>i, <2>1 DEF Touches
<1>7. \A kind \in TransKind \ (CreatedKind \cup {"cm_id"}) :
        <<"accepted", kind>> \notin h.live \cup h.ptr
  BY <1>3, <1>6 DEF Absent
<1>n. /\ IsHeap(named) /\ named.live = h.live /\ named.ptr = h.ptr \cup id
      /\ named.failed = h.failed /\ named.misuse = h.misuse
  <2> HIDE DEF id
  <2> QED
    BY <1>6, <1>i, PointLeaves
<1>m. \A x, kind : (x # "accepted" \/ kind # "cm_id") =>
        (<<x, kind>> \in named.ptr <=> <<x, kind>> \in h.ptr)
  BY <1>i, <1>n
<1> HIDE DEF id, named
\* What becomes of the objects of the accepted transport, whatever fails.
<1>8. /\ Touches(heap', heap, "accepted", JoinKind) /\ h.failed \subseteq heap'.failed
      /\ heap'.misuse = h.misuse
      /\ \A kind \in CreatedKind : <<"accepted", kind>> \in heap'.live <=> <<"accepted", kind>> \in h.live
      /\ <<"accepted", "timerfd">> \in heap'.ptr <=> <<"accepted", "timerfd">> \in h.ptr
      /\ <<"accepted", "qp">> \in heap'.live =>
           \A kind \in {"hcq", "comp_channel", "cq"} : <<"accepted", kind>> \in heap'.live
      /\ \A kind \in JoinKind : <<"accepted", kind>> \in heap'.live /\ Lost(heap', "accepted", kind) =>
           \E call \in heap'.failed : kind \in LeftBy("accepted", call)
      /\ \/ /\ cm' = "requested" /\ <<"accepted", "qp">> \in heap'.live /\ Found
            /\ <<"accepted", "trans">> \in heap'.ptr
         \/ cm' = "none"
  <2>k. /\ \A kind \in CreatedKind : kind \notin QpKind /\ kind # "cm_id"
        /\ "cm_id" \notin QpKind /\ JoinKind \subseteq TransKind
        /\ NewTrans = CreatedKind \cup {"cm_id"}
        /\ \A kind \in QpKind : kind \in TransKind \ (CreatedKind \cup {"cm_id"})
    BY DEF CreatedKind, QpKind, NewTrans, TransKind, FdKind
  <2>1. CASE <<"accepted", "trans">> \notin h.live
    <3>1. heap' = h /\ cm' = "none"
      BY <1>4, <2>1
    <3>2. Touches(heap', heap, "accepted", JoinKind)
      BY <1>6, <3>1 DEF Touches
    <3>3. \A kind \in QpKind : <<"accepted", kind>> \notin heap'.live
      BY <1>7, <2>k, <3>1
    <3>4. \A kind \in JoinKind : <<"accepted", kind>> \in heap'.live => kind = "cm_id"
      BY <1>5, <2>1, <3>1, <3>3
    <3>5. "cm_id" \in LeftBy("accepted", "calloc_trans") /\ "calloc_trans" \in heap'.failed
      BY <1>5, <2>1, <3>1 DEF LeftBy, TransKind
    <3>6. <<"accepted", "qp">> \notin heap'.live
      BY <3>3 DEF QpKind
    <3> QED
      BY <3>1, <3>2, <3>4, <3>5, <3>6
  <2>2. CASE <<"accepted", "trans">> \in h.live /\ ~Found
    <3> DEFINE f == Fail(named, "lookup")
    <3>1. heap' = Forget(f, "accepted") /\ cm' = "none"
      BY <1>4, <2>2 DEF named, id
    <3>2. /\ IsHeap(f) /\ f.live = named.live /\ f.ptr = named.ptr
          /\ f.failed = named.failed \cup {"lookup"} /\ f.misuse = named.misuse
      BY <1>n, FailLeaves
    <3> HIDE DEF f
    <3>3. /\ IsHeap(heap') /\ heap'.live = h.live /\ heap'.failed = h.failed \cup {"lookup"}
          /\ heap'.ptr = named.ptr \ Of("accepted", {"trans"}) /\ heap'.misuse = h.misuse
      BY <1>n, <3>1, <3>2, ForgetLeaves
    <3>4. \A x, kind : x # "accepted" \/ kind \notin {"trans", "cm_id"} =>
            (<<x, kind>> \in heap'.ptr <=> <<x, kind>> \in h.ptr)
      BY <1>m, <3>3, OfMembers
    <3>5. Touches(heap', heap, "accepted", JoinKind)
      BY <1>6, <3>3, <3>4 DEF Touches, CreatedKind
    <3>6. \A kind \in QpKind : <<"accepted", kind>> \notin heap'.live
      BY <1>7, <2>k, <3>3
    <3>7. ASSUME NEW kind \in JoinKind, <<"accepted", kind>> \in heap'.live
          PROVE  \E call \in heap'.failed : kind \in LeftBy("accepted", call)
      <4>1. kind \in NewTrans /\ kind \in TransKind
        BY <2>k, <3>6, <3>7
      <4>2. kind \in LeftBy("accepted", "lookup")
        BY <4>1 DEF LeftBy
      <4> QED
        BY <3>3, <4>2
    <3>8. <<"accepted", "qp">> \notin heap'.live
      BY <3>6 DEF QpKind
    <3> QED
      BY <3>1, <3>3, <3>4, <3>5, <3>7, <3>8
  <2>3. CASE <<"accepted", "trans">> \in h.live /\ Found
    <3>1. PICK k \in Ends(named, QpCreate) :
            IF Done(QpCreate, k)
            THEN heap' = WithQp(named, "accepted", k) /\ cm' = "requested"
            ELSE heap' = Forget(WithQp(named, "accepted", k), "accepted") /\ cm' = "none"
      BY <1>4, <2>3 DEF named, id
    <3> DEFINE g == WithQp(named, "accepted", k)
    <3>2. /\ Touches(g, named, "accepted", QpKind) /\ g.misuse = named.misuse
          /\ Done(QpCreate, k) =>
               /\ g.failed = named.failed
               /\ \A kind \in QpKind : <<"accepted", kind>> \in g.live
               /\ <<"accepted", "hcq">> \in g.ptr /\ <<"accepted", "qp">> \in g.ptr
          /\ ~Done(QpCreate, k) =>
               /\ g.failed \cap QpCalls # {}
               /\ \A kind \in QpKind : <<"accepted", kind>> \in g.live =>
                    \/ kind = "cq" /\ "req_notify_cq" \in g.failed
                    \/ kind \in {"cq", "comp_channel", "comp_fd"} /\ "create_qp" \in g.failed
      <4>1. \A kind \in QpKind : <<"accepted", kind>> \notin named.live \cup named.ptr
        BY <1>7, <1>m, <1>n, <2>k
      <4>2. g = WithQp(named, "accepted", k)
        OBVIOUS
      <4> HIDE DEF g
      <4> QED
        BY <1>3, <1>n, <4>1, <4>2, WithQpLeaves
    <3> HIDE DEF g
    <3>3. /\ IsHeap(g) /\ h.failed \subseteq g.failed /\ g.misuse = h.misuse
          /\ \A x, kind : x # "accepted" \/ kind \notin QpKind =>
               /\ <<x, kind>> \in g.live <=> <<x, kind>> \in h.live
               /\ <<x, kind>> \in g.ptr <=> <<x, kind>> \in named.ptr
      BY <1>n, <3>2 DEF Touches
    <3>4. CASE Done(QpCreate, k)
      <4>1. heap' = g /\ cm' = "requested"
        BY <3>1, <3>4 DEF g
      <4>2. Touches(heap', heap, "accepted", JoinKind)
        BY <1>6, <1>m, <3>3, <4>1 DEF Touches
      <4>3. \A kind \in CreatedKind :
              /\ <<"accepted", kind>> \in heap'.live <=> <<"accepted", kind>> \in h.live
              /\ <<"accepted", kind>> \in heap'.ptr <=> <<"accepted", kind>> \in h.ptr
        BY <1>m, <2>k, <3>3, <4>1
      <4>4. <<"accepted", "cm_id">> \in heap'.ptr
        BY <1>i, <1>n, <2>k, <3>3, <4>1
      <4>5. <<"accepted", "trans">> \in heap'.ptr
        BY <1>5, <2>3, <4>3 DEF CreatedKind
      <4>6. ASSUME NEW kind \in JoinKind, <<"accepted", kind>> \in heap'.live,
                   Lost(heap', "accepted", kind)
            PROVE  \E call \in heap'.failed : kind \in LeftBy("accepted", call)
        <5>1. <<"accepted", Root(kind)>> \notin heap'.ptr
          BY <4>5, <4>6 DEF Lost
        <5>2. kind \notin QpKind
          <6>1. kind \in QpKind => Root(kind) \in {"hcq", "qp"}
            BY DEF QpKind, Root, PoolKind, MrKind
          <6> QED
            BY <3>2, <3>4, <4>1, <5>1, <6>1
        <5>3. kind # "cm_id"
          BY <4>4, <5>1 DEF Root, PoolKind, MrKind
        <5>4. kind \in CreatedKind
          BY <5>2, <5>3
        <5>5. <<"accepted", kind>> \in h.live
          BY <4>3, <4>6, <5>4
        <5>6. kind \notin {"trans", "event_channel", "event_fd"}
          <6>1. /\ Root("trans") = "trans" /\ Root("event_channel") = "event_channel"
                /\ Root("event_fd") = "event_channel"
            BY DEF Root, PoolKind, MrKind
          <6>2. "event_channel" \in CreatedKind
            BY DEF CreatedKind
          <6>3. kind # "trans"
            BY <4>5, <5>1, <6>1
          <6>4. ASSUME kind \in {"event_channel", "event_fd"} PROVE FALSE
            <7>1. <<"accepted", "event_channel">> \in h.ptr
              BY <1>5, <5>5, <6>4
            <7>2. <<"accepted", "event_channel">> \in heap'.ptr
              BY <4>3, <6>2, <7>1
            <7> QED
              BY <5>1, <6>1, <6>4, <7>2
          <6> QED
            BY <6>3, <6>4
        <5>7. kind = "timerfd" /\ Root(kind) = "timerfd"
          BY <5>4, <5>6 DEF CreatedKind, Root, PoolKind, MrKind
        <5>8. "settime" \in heap'.failed
          BY <1>5, <3>3, <4>1, <4>3, <5>1, <5>4, <5>5, <5>7
        <5> QED
          BY <5>7, <5>8 DEF LeftBy, TransKind
      <4>7. \A kind \in QpKind : <<"accepted", kind>> \in heap'.live
        BY <3>2, <3>4, <4>1
      <4>8. <<"accepted", "qp">> \in heap'.live /\
              \A kind \in {"hcq", "comp_channel", "cq"} : <<"accepted", kind>> \in heap'.live
        BY <4>7 DEF QpKind
      <4>9. <<"accepted", "timerfd">> \in heap'.ptr <=> <<"accepted", "timerfd">> \in h.ptr
        BY <4>3 DEF CreatedKind
      <4> QED
        BY <2>3, <3>3, <4>1, <4>2, <4>3, <4>5, <4>6, <4>8, <4>9
    <3>5. CASE ~Done(QpCreate, k)
      <4>1. heap' = Forget(g, "accepted") /\ cm' = "none"
        BY <3>1, <3>5 DEF g
      <4>2. /\ IsHeap(heap') /\ heap'.live = g.live /\ heap'.failed = g.failed
            /\ heap'.ptr = g.ptr \ Of("accepted", {"trans"}) /\ heap'.misuse = g.misuse
        BY <3>3, <4>1, ForgetLeaves
      <4>3. \A x, kind : x # "accepted" \/ kind # "trans" =>
              (<<x, kind>> \in heap'.ptr <=> <<x, kind>> \in g.ptr)
        BY <4>2, OfMembers
      <4>4. \A x, kind : x # "accepted" \/ kind \notin JoinKind =>
              /\ <<x, kind>> \in heap'.live <=> <<x, kind>> \in heap.live
              /\ <<x, kind>> \in heap'.ptr <=> <<x, kind>> \in heap.ptr
        BY <1>6, <1>m, <3>3, <4>2, <4>3 DEF CreatedKind
      <4>5. Touches(heap', heap, "accepted", JoinKind)
        BY <1>6, <3>3, <4>2, <4>4 DEF Touches
      <4>6. \A kind \in CreatedKind : <<"accepted", kind>> \in heap'.live <=> <<"accepted", kind>> \in h.live
        BY <2>k, <3>3, <4>2
      <4>7. <<"accepted", "timerfd">> \in heap'.ptr <=> <<"accepted", "timerfd">> \in h.ptr
        BY <1>m, <3>3, <4>3 DEF QpKind
      <4>8. <<"accepted", "qp">> \notin heap'.live
        BY <3>2, <3>5, <4>2 DEF QpKind
      <4>9. ASSUME NEW kind \in JoinKind, <<"accepted", kind>> \in heap'.live
            PROVE  \E call \in heap'.failed : kind \in LeftBy("accepted", call)
        <5>1. CASE kind \in QpKind
          <6>1. \/ kind = "cq" /\ "req_notify_cq" \in heap'.failed
                \/ kind \in {"cq", "comp_channel", "comp_fd"} /\ "create_qp" \in heap'.failed
            BY <3>2, <3>5, <4>2, <4>9, <5>1
          <6>2. kind \in TransKind
            BY <2>k, <4>9
          <6> QED
            BY <6>1, <6>2 DEF LeftBy
        <5>2. CASE kind \notin QpKind
          <6>1. PICK call \in heap'.failed : call \in QpCalls
            BY <3>2, <3>5, <4>2
          <6>2. kind \in NewTrans /\ kind \in TransKind
            BY <2>k, <5>2
          <6>3. kind \in LeftBy("accepted", call)
            BY <6>1, <6>2 DEF LeftBy
          <6> QED
            BY <6>1, <6>3
        <5> QED
          BY <5>1, <5>2
      <4> QED
        BY <3>3, <4>1, <4>2, <4>5, <4>6, <4>7, <4>8, <4>9
    <3> QED
      BY <3>4, <3>5
  <2> QED
    BY <2>1, <2>2, <2>3
<1>9. \A kind : kind \in JoinKind <=> kind \in CreatedKind \/ kind \in QpKind \/ kind = "cm_id"
  OBVIOUS
<1> HIDE DEF JoinKind
<1>10. \A x, kind : kind \notin JoinKind =>
         /\ <<x, kind>> \in heap'.live <=> <<x, kind>> \in heap.live
         /\ <<x, kind>> \in heap'.ptr <=> <<x, kind>> \in heap.ptr
  BY <1>8 DEF Touches
<1>11. \A x, kind : x # "accepted" =>
         /\ <<x, kind>> \in heap'.live <=> <<x, kind>> \in heap.live
         /\ <<x, kind>> \in heap'.ptr <=> <<x, kind>> \in heap.ptr
  BY <1>8 DEF Touches
<1>12. /\ \A kind \in PoolKind \cup {"timer_fd", "device", "pd"} : kind \notin JoinKind
       /\ JoinKind \subseteq TransKind
  BY <1>9 DEF PoolKind, MrKind, CreatedKind, QpKind, TransKind, FdKind
<1>13. \A kind \in TransKind : <<"accepted", kind>> \notin heap.live \cup heap.ptr \cup batch
  BY <1>3 DEF Absent
<1>14. IsHeap(heap') /\ heap.failed \subseteq heap'.failed
  BY <1>8 DEF Touches
<1>15. TypeInv'
  <2>1. heap'.live \subseteq Object /\ heap'.ptr \subseteq Object /\ heap'.misuse \subseteq Object
    BY <1>14 DEF IsHeap, HeapWith
  <2>2. cm' \in CmState
    BY <1>8 DEF CmState
  <2> QED
    BY <1>1, <1>14, <2>1, <2>2 DEF ResInv, TypeInv, TypeOK
<1>16. Control'
  BY <1>1, <1>2, <1>8, <1>14 DEF ResInv, Control, Joined, Starting, Connects
<1>17. Before'
  <2>1. Absent("own", PoolKind)' /\ Absent("own", QpKind)'
    BY <1>1, <1>2, <1>11 DEF ResInv, Before, Absent
  <2>2. Absent("accepted", PoolKind)'
    BY <1>1, <1>10, <1>12, <1>13, Kinds DEF Absent
  <2> QED
    BY <1>1, <1>2, <1>8, <2>1, <2>2 DEF Before, Starting
<1>18. Ties'
  <2> SUFFICES ASSUME NEW x \in Trans
               PROVE  /\ <<x, "event_fd">> \in heap'.live \cup batch' => <<x, "event_channel">> \in heap'.live
                      /\ <<x, "timer_fd">> \in heap'.live \cup batch' => <<x, "trans">> \in heap'.live
                      /\ <<x, "timerfd">> \in heap'.ptr => <<x, "trans">> \in heap'.live
                      /\ <<x, "comp_fd">> \in batch' \/ <<x, "qp">> \in heap'.live =>
                           \A kind \in {"hcq", "comp_channel", "cq"} : <<x, kind>> \in heap'.live
    BY DEF Ties
  <2>1. CASE x = "accepted"
    <3>1. \A kind \in FdKind : <<x, kind>> \notin batch'
      BY <1>1, <1>13, <2>1 DEF TransKind
    <3>2. <<x, "event_fd">> \in heap'.live => <<x, "event_channel">> \in heap'.live
      BY <1>5, <1>8, <2>1 DEF CreatedKind
    <3>3. <<x, "timer_fd">> \notin heap'.live
      BY <1>10, <1>12, <1>13, <2>1 DEF TransKind, FdKind
    <3>4. <<x, "timerfd">> \in heap'.ptr => <<x, "trans">> \in heap'.live
      BY <1>5, <1>8, <2>1 DEF CreatedKind
    <3>5. <<x, "qp">> \in heap'.live =>
            \A kind \in {"hcq", "comp_channel", "cq"} : <<x, kind>> \in heap'.live
      BY <1>8, <2>1
    <3> QED
      BY <3>1, <3>2, <3>3, <3>4, <3>5 DEF FdKind
  <2>2. CASE x # "accepted"
    BY <1>1, <1>11, <2>2 DEF ResInv, Ties
  <2> QED
    BY <2>1, <2>2
<1>19. FailuresKeepNothing'
  <2> SUFFICES ASSUME NEW x \in Trans, NEW kind \in TransKind, <<x, kind>> \in heap'.live,
                      Lost(heap', x, kind)
               PROVE  \E call \in heap'.failed : kind \in LeftBy(x, call)
    BY LostNothing
  <2>1. CASE x # "accepted"
    <3>1. <<x, kind>> \in heap.live
      BY <1>11, <2>1
    <3> QED
      BY <1>11, <1>14, <2>1, <3>1, KeptObject
  <2>2. CASE x = "accepted"
    <3>1. kind \in JoinKind
      BY <1>10, <1>13, <2>2
    <3> QED
      BY <1>8, <2>2, <3>1
  <2> QED
    BY <2>1, <2>2
<1>20. Domains'
  BY <1>1, <1>2, <1>10, <1>12 DEF ResInv, Domains
<1>21. Connection'
  <2>1. cm' = "requested" => <<verbs, "pd">> \in heap'.live
    BY <1>8, <1>10, <1>12, FoundIsThere
  <2>2. <<"accepted", "mempool">> \notin heap'.ptr
    BY <1>10, <1>12, <1>13 DEF PoolKind, TransKind
  <2> QED
    BY <1>1, <1>2, <1>8, <2>1, <2>2 DEF Connection, Connected, Joined
<1>22. UsedIsThere'
  <2>1. Noticed' => Noticed /\ h.failed \cap Unchecked = {}
    BY <1>1, <1>8, <1>14 DEF Noticed
  <2>2. Noticed => Ctx \in heap.live /\ heap.misuse = {}
                   /\ <<"own", "trans">> \in heap.live /\ <<"own", "event_channel">> \in heap.live
    BY <1>2 DEF ResInv, UsedIsThere
  <2>3. Noticed' => heap'.misuse = {}
    BY <1>5, <1>8, <2>1, <2>2
  <2>4. Noticed' => Ctx \in heap'.live
                    /\ <<"own", "trans">> \in heap'.live /\ <<"own", "event_channel">> \in heap'.live
    BY <1>11, <2>1, <2>2 DEF Ctx
  <2>5. Noticed' => <<"accepted", "event_channel">> \in heap'.live
    BY <1>5, <1>8, <2>1 DEF CreatedKind
  <2> QED
    BY <1>1, <1>2, <1>8, <2>3, <2>4, <2>5 DEF UsedIsThere, Joined
<1>23. ClientReleases'
  BY <1>1, <1>2 DEF ClientReleases
<1>24. DevInv'
  BY <1>1, <1>2, <1>10, <1>12, ListQuiet
<1>25. Held'
  <2>1. \A x \in Trans : <<x, "timer_fd">> \notin heap'.live \cup batch'
    BY <1>1, <1>2, <1>10, <1>12 DEF ResInv, Held
  <2>2. <<"own", "trans">> \in heap'.ptr
    BY <1>2, <1>11 DEF ResInv, Held
  <2> QED
    BY <1>1, <1>2, <1>8, <2>1, <2>2 DEF Held, Connected, Joined
<1> QED
  BY <1>15, <1>16, <1>17, <1>18, <1>19, <1>20, <1>21, <1>22, <1>23, <1>24, <1>25 DEF ResInv

-----------------------------------------------------------------------------
(* The rest of the epoll thread, and what main sends. *)

LEMMA EpollWaitStep == ASSUME ResInv, heap.misuse = {}, EpollWait PROVE ResInv'
<1>1. /\ epoll = "on" /\ ~is_stop /\ batch' \subseteq Ready
      /\ UNCHANGED <<role, verbs, dev_list, main, trans_state, i, pos, cm, is_stop, epoll, heap, closed>>
  BY DEF EpollWait
<1>2. /\ batch' \subseteq heap.live /\ batch' \subseteq Trans \X FdKind
      /\ \A t : <<t, "comp_fd">> \in batch' => <<t, "qp">> \in heap.live
  <2>1. ASSUME NEW t, <<t, "comp_fd">> \in batch' PROVE <<t, "qp">> \in heap.live
    <3>1. CASE <<t, "comp_fd">>[2] = "comp_fd"
      <4>1. Of(t, {"cq", "qp"}) \subseteq heap.live
        BY <1>1, <2>1 DEF Ready
      <4> QED
        BY <4>1, OfMembers
    <3> QED
      BY <3>1
  <2> QED
    BY <1>1, <2>1 DEF Ready
<1>3. TypeInv'
  BY <1>1, <1>2 DEF ResInv, TypeInv, TypeOK
<1>4. Control'
  BY <1>1 DEF ResInv, Control, Starting, Joined, Connects
<1>5. Before'
  BY <1>1, <1>2 DEF ResInv, Before, Absent
<1>6. Ties'
  BY <1>1, <1>2 DEF ResInv, Ties
<1>7. Connection' /\ UsedIsThere' /\ Domains' /\ ClientReleases'
  BY <1>1 DEF ResInv, Connection, Connected, UsedIsThere, AfterClose, Noticed, Domains, ClientReleases
<1>8. FailuresKeepNothing'
  BY <1>1 DEF ResInv, FailuresKeepNothing, Reached
<1>9. DevInv'
  BY <1>1, ListQuiet
<1>10. Held'
  BY <1>1, <1>2 DEF ResInv, Held, Connected
<1> QED
  BY <1>3, <1>4, <1>5, <1>6, <1>7, <1>8, <1>9, <1>10 DEF ResInv

\* A pool that is there is pointed to, and while there is a connection it is
\* whole.
LEMMA PoolThere ==
  ASSUME ResInv, cm # "none", <<Connected, "mempool">> \in heap.live
  PROVE  \A kind \in PoolKind : <<Connected, kind>> \in heap.live
<1>1. "mempool" \in PoolKind /\ "mempool" \in TransKind /\ Root("mempool") = "mempool"
  BY DEF PoolKind, TransKind, Root
<1>2. \A call : "mempool" \notin LeftBy(Connected, call)
  BY DEF LeftBy, NewTrans, QpKind
<1>3. <<Connected, "mempool">> \in heap.ptr
  <2>1. Reached(Connected, "mempool")
    BY <1>1, <1>2, Kinds DEF ResInv, FailuresKeepNothing
  <2> QED
    BY <1>1, <2>1, OfMembers DEF Reached
<1> QED
  BY <1>3 DEF ResInv, Connection

\* A step that changes nothing but the objects used when they are not there, and
\* what main and the handlers wait for.
LEMMA UseStep ==
  ASSUME ResInv, heap.misuse = {}, IsHeap(heap'),
         UNCHANGED <<role, verbs, dev_list, i, pos, cm, is_stop, epoll, closed>>,
         main' = main \/ (main = "send" /\ main' \in {"run", "send", "join"}),
         main' = "run" /\ main = "send" => role = "server",
         main' = "join" /\ main = "send" => role = "client",
         batch' \subseteq batch,
         trans_state' \in {trans_state, "CONNECTED"}, trans_state' # trans_state => Connects,
         heap'.live = heap.live, heap'.ptr = heap.ptr, heap'.failed = heap.failed,
         Noticed /\ closed = "no" => heap'.misuse = {},
         Noticed /\ closed = "yes" => heap'.misuse \subseteq AfterClose
  PROVE  ResInv'
<1>1. TypeInv'
  <2>1. TypeOK /\ IsHeap(heap)
    BY DEF ResInv, TypeInv
  <2>2. heap'.misuse \subseteq Object
    BY DEF IsHeap, HeapWith
  <2>3. trans_state' \in {"CONNECTING", "CONNECTED", "ERROR"} /\ batch' \subseteq Trans \X FdKind
    BY <2>1 DEF TypeOK
  <2>4. main' \in {"init", "context", "create", "connect", "thread", "run", "pool",
                   "send", "join", "release", "exited"}
    BY <2>1 DEF TypeOK
  <2> QED
    BY <2>1, <2>2, <2>3, <2>4 DEF TypeInv, TypeOK
<1>2. Control'
  BY DEF ResInv, Control, Starting, Joined, Connects
<1>3. Before'
  BY DEF ResInv, Before, Absent, Starting
<1>4. Ties' /\ FailuresKeepNothing' /\ Domains' /\ ClientReleases' /\ DevInv'
  BY Still
<1>5. Connection'
  BY DEF ResInv, Connection, Connected
<1>6. Held'
  BY HeldQuiet
<1>7. UsedIsThere'
  <2>1. (Noticed' <=> Noticed) /\ Connected' = Connected /\ AfterClose' = AfterClose
    BY DEF Noticed, Connected, AfterClose
  <2> QED
    BY <2>1 DEF ResInv, UsedIsThere
<1> QED
  BY <1>1, <1>2, <1>3, <1>4, <1>5, <1>6, <1>7 DEF ResInv

\* The handler of a completion channel finds all that it uses.
LEMMA CompletionStep ==
  ASSUME ResInv, heap.misuse = {}, NEW t \in Trans, Completion(t)
  PROVE  ResInv'
<1> DEFINE queue == Of(t, {"hcq", "comp_channel", "cq"})
           objs == Of(t, PoolKind \cup {"qp"})
           polled == Use(heap, queue)
<1>1. /\ <<t, "comp_fd">> \in batch /\ batch' \subseteq batch
      /\ UNCHANGED <<role, verbs, dev_list, main, i, pos, cm, is_stop, epoll, closed>>
      /\ \/ heap' = polled /\ UNCHANGED trans_state
         \/ /\ t = Connected /\ Connects /\ Of(t, {"mempool"}) \subseteq heap.ptr
            /\ heap' = Use(polled, objs)
            /\ trans_state' \in {trans_state, "CONNECTED"}
  BY DEF Completion, Handle
<1>2. IsHeap(heap)
  BY DEF ResInv, TypeInv
<1>3. queue \subseteq heap.live
  <2>1. \A kind \in {"hcq", "comp_channel", "cq"} : <<t, kind>> \in heap.live
    BY <1>1 DEF ResInv, Ties
  <2> QED
    BY <2>1, Objects
<1> HIDE DEF queue
<1>4. polled = heap
  BY <1>2, <1>3, UseThere
<1> HIDE DEF objs, polled
<1>5. t = Connected /\ Connects /\ Of(t, {"mempool"}) \subseteq heap.ptr => objs \subseteq heap.live
  <2> HAVE t = Connected /\ Connects /\ Of(t, {"mempool"}) \subseteq heap.ptr
  <2>1. \A kind \in PoolKind : <<t, kind>> \in heap.live
    BY OfMembers DEF ResInv, Connection, Connects
  <2>2. <<t, "qp">> \in heap.live
    BY DEF ResInv, Connection, Connects, Joined
  <2>3. \A kind \in PoolKind \cup {"qp"} : <<t, kind>> \in heap.live
    BY <2>1, <2>2
  <2>4. Of(t, PoolKind \cup {"qp"}) \subseteq heap.live
    BY <2>3, Objects
  <2> QED
    BY <2>4 DEF objs
<1>6. heap' = heap /\ trans_state' \in {trans_state, "CONNECTED"}
      /\ (trans_state' # trans_state => Connects)
  <2>1. CASE heap' = polled /\ UNCHANGED trans_state
    BY <1>4, <2>1
  <2>2. CASE t = Connected /\ Connects /\ Of(t, {"mempool"}) \subseteq heap.ptr
             /\ heap' = Use(polled, objs) /\ trans_state' \in {trans_state, "CONNECTED"}
    <3>1. Use(heap, objs) = heap
      BY <1>2, <1>5, <2>2, UseThere
    <3> QED
      BY <1>4, <2>2, <3>1
  <2> QED
    BY <1>1, <2>1, <2>2
<1>7. /\ IsHeap(heap') /\ heap'.live = heap.live /\ heap'.ptr = heap.ptr
      /\ heap'.failed = heap.failed /\ heap'.misuse = {}
  BY <1>2, <1>6
<1> QED
  BY <1>1, <1>6, <1>7, UseStep

\* The handler of a timer finds its transport, and its QP unless the connection
\* has been closed.
LEMMA TimerStep ==
  ASSUME ResInv, heap.misuse = {}, NEW t \in Trans, Timer(t)
  PROVE  ResInv'
<1>1. /\ <<t, "timer_fd">> \in batch /\ batch' \subseteq batch
      /\ UNCHANGED <<role, verbs, dev_list, main, trans_state, i, pos, cm, is_stop, epoll, closed>>
  BY DEF Timer, Handle
<1>2. PICK kinds \in {{"trans"}, {"trans", "qp"}} : heap' = Use(heap, Of(t, kinds))
  BY DEF Timer
<1> DEFINE objs == Of(t, kinds)
<1>3. objs \subseteq Object /\ IsHeap(heap)
  <2>1. kinds \subseteq TransKind
    BY DEF TransKind
  <2> QED
    BY <2>1, OfMembers DEF ResInv, TypeInv
<1>4. \A o \in objs : o = <<t, "trans">> \/ o = <<t, "qp">>
  BY DEF Of
<1>5. <<t, "trans">> \in heap.live
  BY <1>1 DEF ResInv, Ties
<1>6. t = Connected /\ (cm \in {"up", "DISCONNECTED"} \/ closed # "no")
  BY <1>1 DEF ResInv, Held
<1>7. closed = "no" => <<t, "qp">> \in heap.live
  BY <1>6 DEF ResInv, Connection, Joined
<1>8. <<t, "qp">> \in AfterClose
  BY <1>6, OfMembers DEF AfterClose
<1> HIDE DEF objs
<1>9. /\ IsHeap(heap') /\ heap'.live = heap.live /\ heap'.ptr = heap.ptr
      /\ heap'.failed = heap.failed /\ heap'.misuse = objs \ heap.live
  BY <1>2, <1>3, UseLeaves DEF objs
<1>10. closed = "no" => heap'.misuse = {}
  BY <1>4, <1>5, <1>7, <1>9
<1>11. heap'.misuse \subseteq AfterClose
  BY <1>4, <1>5, <1>8, <1>9
<1> QED
  BY <1>1, <1>9, <1>10, <1>11, UseStep

\* What main sends it writes to a region that is there, unless the connection
\* has been closed.
LEMMA SendStep == ASSUME ResInv, heap.misuse = {}, Send PROVE ResInv'
<1> DEFINE objs == Of(Connected, {"mempool", "send_region", "send_mr"})
<1>1. /\ main = "send"
      /\ main' \in IF role = "server" THEN {"run"} ELSE {"send", "join"}
      /\ heap' = IF trans_state = "CONNECTED" THEN Use(heap, objs) ELSE heap
      /\ UNCHANGED <<role, verbs, dev_list, trans_state, i, pos, cm, is_stop, epoll, batch, closed>>
  BY DEF Send
<1>2. objs \subseteq Object /\ IsHeap(heap) /\ role \in {"client", "server"}
  BY Kinds, OfMembers DEF PoolKind, MrKind, ResInv, TypeInv, TypeOK
<1>3. \A o \in objs : \/ o = <<Connected, "mempool">>
                      \/ o = <<Connected, "send_region">> \/ o = <<Connected, "send_mr">>
  BY DEF Of
<1>4. <<Connected, "send_region">> \in AfterClose /\ <<Connected, "send_mr">> \in AfterClose
  BY OfMembers DEF AfterClose
<1>5. trans_state = "CONNECTED" /\ Noticed /\ closed = "no" =>
        \A kind \in PoolKind : <<Connected, kind>> \in heap.live
  <2> HAVE trans_state = "CONNECTED" /\ Noticed /\ closed = "no"
  <2>1. cm \in Joined /\ cm # "none"
    BY DEF ResInv, Control, Connects, Joined
  <2>2. <<Connected, "mempool">> \in heap.live
    BY <1>1, <1>2, <2>1 DEF ResInv, UsedIsThere, Connected
  <2> QED
    BY <2>1, <2>2, PoolThere
<1>6. Noticed /\ closed = "yes" => <<Connected, "mempool">> \in heap.live
  BY DEF ResInv, UsedIsThere
<1> HIDE DEF objs
<1>7. CASE trans_state = "CONNECTED"
  <2>1. /\ IsHeap(heap') /\ heap'.live = heap.live /\ heap'.ptr = heap.ptr
        /\ heap'.failed = heap.failed /\ heap'.misuse = objs \ heap.live
    BY <1>1, <1>2, <1>7, UseLeaves
  <2>2. Noticed /\ closed = "no" => heap'.misuse = {}
    BY <1>3, <1>5, <1>7, <2>1 DEF PoolKind, MrKind
  <2>3. Noticed /\ closed = "yes" => heap'.misuse \subseteq AfterClose
    BY <1>3, <1>4, <1>6, <2>1
  <2> QED
    BY <1>1, <1>2, <2>1, <2>2, <2>3, UseStep
<1>8. CASE trans_state # "CONNECTED"
  BY <1>1, <1>2, <1>8, UseStep
<1> QED
  BY <1>7, <1>8

LEMMA EventStep ==
  ASSUME ResInv, heap.misuse = {}, ConnectError \/ LoopExit \/ CmEvents
  PROVE  ResInv'
<1>1. UNCHANGED <<role, verbs, dev_list, main, i, pos, heap, closed>>
  BY DEF ConnectError, LoopExit, CmEvents
<1>2. \/ /\ cm = "CONNECT_ERROR" /\ cm' = "none" /\ is_stop' = TRUE /\ epoll' = epoll
         /\ batch # {} /\ batch' \subseteq batch /\ trans_state' = "ERROR"
      \/ /\ epoll = "on" /\ epoll' = "exited" /\ is_stop /\ batch = {}
         /\ UNCHANGED <<cm, is_stop, batch, trans_state>>
      \/ /\ \/ cm = "listening" /\ cm' = "CONNECT_REQUEST"
            \/ cm = "accepted" /\ cm' \in {"ESTABLISHED", "CONNECT_ERROR"}
            \/ cm = "up" /\ cm' = "DISCONNECTED"
         /\ UNCHANGED <<is_stop, epoll, batch, trans_state>>
  BY DEF ConnectError, HandleCm, Handle, LoopExit, CmEvents
<1>3. TypeInv'
  <2>1. TypeOK /\ IsHeap(heap)
    BY DEF ResInv, TypeInv
  <2>2. IsHeap(heap)'
    BY <1>1, <2>1
  <2>3. is_stop' \in BOOLEAN /\ epoll' \in {"off", "on", "exited"} /\ batch' \subseteq Trans \X FdKind
    BY <1>2, <2>1 DEF TypeOK
  <2>4. cm' \in CmState
    BY <1>2, <2>1 DEF TypeOK, CmState
  <2>5. trans_state' \in {"CONNECTING", "CONNECTED", "ERROR"}
    BY <1>2, <2>1 DEF TypeOK
  <2> QED
    BY <1>1, <2>1, <2>2, <2>3, <2>4, <2>5 DEF TypeInv, TypeOK
<1>4. Control'
  BY <1>1, <1>2 DEF ResInv, Control, Starting, Joined, Connects
<1>5. Before'
  BY <1>1, <1>2 DEF ResInv, Before, Absent, Starting
<1>6. Ties' /\ FailuresKeepNothing' /\ Domains' /\ ClientReleases' /\ DevInv'
  <2>1. is_stop' => is_stop \/ <<Connected, "qp">> \in heap.live
    BY <1>2 DEF ResInv, Connection, Joined
  <2>2. main' = "exited" /\ epoll' = "exited" => main = "exited" /\ epoll = "exited"
    BY <1>1, <1>2 DEF ResInv, Control
  <2>3. cm = "ROUTE_RESOLVED" => cm' = "ROUTE_RESOLVED"
    BY <1>2
  <2>4. batch' \subseteq batch
    BY <1>2
  <2> QED
    BY <1>1, <2>1, <2>2, <2>3, <2>4, Still
<1>7. Connection' /\ UsedIsThere'
  BY <1>1, <1>2 DEF ResInv, Connection, Connected, UsedIsThere, AfterClose, Noticed, Joined
<1>8. Held'
  <2>1. /\ batch' \subseteq batch
        /\ cm \in {"up", "DISCONNECTED"} => cm' \in {"up", "DISCONNECTED"}
        /\ cm' \in Joined \cup {"requested"} => cm \in Joined \cup {"requested"}
    BY <1>2 DEF Joined
  <2> QED
    BY <1>1, <2>1, HeldQuiet
<1> QED
  BY <1>3, <1>4, <1>5, <1>6, <1>7, <1>8 DEF ResInv

LEMMA EstablishedStep == ASSUME ResInv, heap.misuse = {}, Established PROVE ResInv'
<1> DEFINE add == Single("add_timer_fd", {"timer_fd"})
           objs == Of("own", PoolKind \cup {"qp"})
           h == IF role = "client" THEN Use(heap, objs) ELSE heap
<1>1. /\ cm = "ESTABLISHED" /\ cm' = "up" /\ batch # {} /\ batch' \subseteq batch
      /\ trans_state' = "CONNECTED"
      /\ UNCHANGED <<role, verbs, dev_list, main, i, pos, is_stop, epoll, closed>>
  BY DEF Established, HandleCm, Handle
<1>2. epoll = "on" /\ main \notin Starting \cup {"release", "exited"}
  <2>1. epoll = "on"
    BY <1>1 DEF ResInv, Control, TypeInv, TypeOK
  <2> QED
    BY <1>1, <2>1 DEF ResInv, Control, Joined
<1>3. IsHeap(heap) /\ "own" \in Trans /\ Connected \in Trans /\ "timer_fd" \in TransKind
  BY Kinds DEF ResInv, TypeInv, TransKind, FdKind
<1>4. /\ IsHeap(h) /\ h.live = heap.live /\ h.ptr = heap.ptr /\ h.failed = heap.failed
      /\ (role = "client" => <<"own", "mempool">> \in heap.live) => h.misuse = {}
  <2>1. CASE role = "client"
    <3>1. objs \subseteq Object
      BY <1>3, Kinds, OfMembers DEF TransKind
    <3>2. <<"own", "qp">> \in heap.live
      BY <1>1, <2>1 DEF ResInv, Connection, Joined, Connected
    <3>3. <<"own", "mempool">> \in heap.live => objs \subseteq heap.live
      <4> HAVE <<"own", "mempool">> \in heap.live
      <4>1. \A kind \in PoolKind : <<"own", kind>> \in heap.live
        BY <1>1, <2>1, PoolThere DEF Connected
      <4> QED
        BY <3>2, <4>1, Objects
    <3>4. h = Use(heap, objs)
      BY <2>1
    <3> HIDE DEF objs, h
    <3>5. /\ IsHeap(h) /\ h.live = heap.live /\ h.ptr = heap.ptr /\ h.failed = heap.failed
          /\ h.misuse = heap.misuse \cup (objs \ heap.live)
      BY <1>3, <3>1, <3>4, UseLeaves
    <3> QED
      BY <2>1, <3>3, <3>5
  <2>2. CASE role # "client"
    BY <1>3, <2>2
  <2> QED
    BY <2>1, <2>2
<1>5. IF Of(Connected, {"timerfd"}) \subseteq h.ptr
      THEN \E k \in Ends(h, add) : heap' = Run(h, Connected, add, k)
      ELSE heap' = h
  BY DEF Established
<1> HIDE DEF h
<1>6. /\ Touches(heap', heap, Connected, {"timer_fd"}) /\ heap'.ptr = heap.ptr
      /\ heap'.misuse = h.misuse
      /\ <<Connected, "timer_fd">> \in heap'.live =>
           <<Connected, "timer_fd">> \in heap.live \/ <<Connected, "timerfd">> \in heap.ptr
  <2>1. CASE Of(Connected, {"timerfd"}) \subseteq h.ptr
    <3>1. PICK k \in Ends(h, add) : heap' = Run(h, Connected, add, k)
      BY <1>5, <2>1
    <3> DEFINE makes == {"timer_fd"}
    <3>2. /\ k \in DOMAIN add \cup {Len(add) + 1} /\ Of(Connected, makes) \subseteq Object
          /\ add = Single("add_timer_fd", makes)
      BY <1>3, EndsIn, OfMembers
    <3> HIDE DEF makes, add
    <3>3. Touches(heap', h, Connected, makes) /\ heap'.ptr = h.ptr /\ heap'.misuse = h.misuse
      BY <1>4, <3>1, <3>2, SingleRun
    <3>4. Touches(heap', heap, Connected, {"timer_fd"}) /\ heap'.ptr = heap.ptr
      BY <1>4, <3>3 DEF Touches, makes
    <3>5. <<Connected, "timerfd">> \in heap.ptr
      BY <1>4, <2>1, OfMembers
    <3> QED
      BY <3>3, <3>4, <3>5
  <2>2. CASE ~(Of(Connected, {"timerfd"}) \subseteq h.ptr)
    <3>1. heap' = h
      BY <1>5, <2>2
    <3> QED
      BY <1>4, <3>1 DEF Touches
  <2> QED
    BY <2>1, <2>2
<1>7. /\ \A x, kind : kind # "timer_fd" => (<<x, kind>> \in heap'.live <=> <<x, kind>> \in heap.live)
      /\ \A x, kind : x # Connected => (<<x, kind>> \in heap'.live <=> <<x, kind>> \in heap.live)
      /\ IsHeap(heap') /\ heap.failed \subseteq heap'.failed
  BY <1>6 DEF Touches
<1>8. TypeInv'
  <2>1. heap'.live \subseteq Object /\ heap'.ptr \subseteq Object /\ heap'.misuse \subseteq Object
    BY <1>7 DEF IsHeap, HeapWith
  <2>2. cm' \in CmState
    BY <1>1 DEF CmState
  <2> QED
    BY <1>1, <1>7, <2>1, <2>2 DEF ResInv, TypeInv, TypeOK
<1>9. Control'
  BY <1>1, <1>2, <1>7 DEF ResInv, Control, Joined, Starting, Connects
<1>10. Before'
  <2>1. \A t, kinds : "timer_fd" \notin kinds /\ Absent(t, kinds) => Absent(t, kinds)'
    BY <1>1, <1>6, <1>7 DEF Absent
  <2>2. "timer_fd" \notin QpKind /\ "timer_fd" \notin PoolKind
    BY DEF QpKind, PoolKind, MrKind
  <2>3. CASE role = "client"
    <3>1. Connected = "own" /\ Absent("accepted", TransKind)
      BY <2>3 DEF Connected, ResInv, Before
    <3>2. Absent("accepted", TransKind)'
      BY <1>1, <1>6, <1>7, <3>1 DEF Absent
    <3>3. main # "pool"
      BY <2>3 DEF ResInv, Control
    <3> QED
      BY <1>1, <1>2, <2>3, <3>2, <3>3 DEF Before, Starting
  <2>4. CASE role # "client"
    <3>1. role = "server" /\ Absent("own", QpKind) /\ Absent("own", PoolKind)
      BY <2>4 DEF ResInv, Before, TypeInv, TypeOK
    <3>2. main = "pool" => Absent("accepted", PoolKind)
      BY DEF ResInv, Before
    <3> QED
      BY <1>1, <1>2, <2>1, <2>2, <2>4, <3>1, <3>2 DEF Before, Starting
  <2> QED
    BY <2>3, <2>4
<1>11. Ties'
  <2>1. ASSUME NEW t \in Trans, <<t, "timer_fd">> \in heap'.live \cup batch'
        PROVE  <<t, "trans">> \in heap.live
    BY <1>1, <1>6, <1>7, <2>1 DEF ResInv, Ties
  <2> QED
    BY <1>1, <1>6, <1>7, <2>1 DEF ResInv, Ties
<1>12. FailuresKeepNothing'
  <2> SUFFICES ASSUME NEW t \in Trans, NEW kind \in TransKind, <<t, kind>> \in heap'.live,
                      Lost(heap', t, kind)
               PROVE  \E call \in heap'.failed : kind \in LeftBy(t, call)
    BY LostNothing
  <2>1. CASE <<t, kind>> \in heap.live
    BY <1>6, <1>7, <2>1, KeptObject
  <2>2. CASE <<t, kind>> \notin heap.live
    <3>1. t = Connected /\ kind = "timer_fd"
      BY <1>7, <2>2
    <3>2. <<t, "trans">> \in heap'.ptr
      BY <1>1, <1>6, <3>1 DEF ResInv, Held, Joined
    <3>3. <<t, "timerfd">> \in heap'.ptr /\ Root(kind) = "timerfd"
      BY <1>6, <2>2, <3>1 DEF Root, PoolKind, MrKind
    <3> QED
      BY <3>2, <3>3 DEF Lost
  <2> QED
    BY <2>1, <2>2
<1>13. Domains' /\ ClientReleases'
  <2>1. Domains'
    BY <1>1, <1>2, <1>7 DEF ResInv, Domains, MrKind
  <2>2. role = "client" => <<"own", "qp">> \in heap.live
    BY <1>1 DEF ResInv, Connection, Connected, Joined
  <2>3. ClientReleases'
    BY <1>1, <1>2, <1>7, <2>2 DEF ResInv, ClientReleases, MrKind
  <2> QED
    BY <2>1, <2>3
<1>14. Connection'
  BY <1>1, <1>6, <1>7 DEF ResInv, Connection, Connected, Joined, PoolKind, MrKind
<1>15. UsedIsThere'
  <2>1. Noticed' => Noticed
    BY <1>1, <1>7 DEF Noticed
  <2>2. Noticed /\ role = "client" => <<"own", "mempool">> \in heap.live
    BY <1>1 DEF ResInv, UsedIsThere, Joined
  <2>3. Noticed' => heap'.misuse = {}
    BY <1>4, <1>6, <2>1, <2>2
  <2>4. \A x, kind : <<x, kind>> \in heap.live /\ kind # "timer_fd" => <<x, kind>> \in heap'.live
    BY <1>7
  <2> QED
    BY <1>1, <2>1, <2>3, <2>4 DEF ResInv, UsedIsThere, Connected, Joined, Ctx
<1>16. DevInv'
  BY <1>1, <1>2, <1>7, ListQuiet
<1>17. Held'
  <2>1. \A t \in Trans : <<t, "timer_fd">> \in heap'.live \cup batch' =>
          t = Connected \/ <<t, "timer_fd">> \in heap.live \cup batch
    BY <1>1, <1>7
  <2> QED
    BY <1>1, <1>6, <2>1 DEF ResInv, Held, Connected, Joined
<1> QED
  BY <1>8, <1>9, <1>10, <1>11, <1>12, <1>13, <1>14, <1>15, <1>16, <1>17 DEF ResInv

LEMMA DisconnectedStep == ASSUME ResInv, heap.misuse = {}, Disconnected PROVE ResInv'
<1> DEFINE t == Connected
           there == Of(t, {"mempool"})
           printed == IF role = "server" THEN Use(heap, there) ELSE heap
           pool == IF there \subseteq printed.ptr THEN ReleasedMrs \cup {"send_region"} ELSE {}
           kinds == DisconnectFrees \cup pool
           objs == Of(t, kinds)
           freed == Free(printed, objs)
           stopped == Of(t, {"hcq", "comp_channel", "event_channel"})
           fds == Of(t, FdKind)
<1>1. /\ cm = "DISCONNECTED" /\ cm' = "none" /\ batch # {} /\ batch' \subseteq batch
      /\ closed' = (IF main = "pool" THEN "early" ELSE "yes")
      /\ is_stop' = (is_stop \/ role = "client")
      /\ UNCHANGED <<role, verbs, dev_list, main, trans_state, i, pos, epoll>>
  BY DEF Disconnected, HandleCm, Handle
<1>2. epoll = "on" /\ main \notin Starting \cup {"release", "exited"}
  <2>1. epoll = "on"
    BY <1>1 DEF ResInv, Control, TypeInv, TypeOK
  <2> QED
    BY <1>1, <2>1 DEF ResInv, Control, Joined
<1>3. IsHeap(heap) /\ t \in Trans /\ role \in {"client", "server"}
  BY Kinds DEF ResInv, TypeInv, TypeOK
<1>4. /\ <<t, "qp">> \in heap.live
      /\ \A kind \in {"hcq", "comp_channel", "cq"} : <<t, kind>> \in heap.live
      /\ <<t, "mempool">> \in heap.ptr => \A kind \in PoolKind : <<t, kind>> \in heap.live
  BY <1>1, <1>3 DEF ResInv, Connection, Ties, Joined
<1>5. heap' = [Use(freed, stopped) EXCEPT !.live = @ \ fds]
  BY DEF Disconnected
<1>6. /\ IsHeap(printed) /\ printed.live = heap.live /\ printed.ptr = heap.ptr
      /\ printed.failed = heap.failed
      /\ printed.misuse \subseteq heap.misuse \cup
           (IF role = "server" THEN {<<t, "mempool">>} \ heap.live ELSE {})
  <2>1. CASE role = "server"
    <3>1. there \subseteq Object /\ \A o \in there : o = <<t, "mempool">>
      BY <1>3, OfMembers, Objects DEF TransKind, PoolKind
    <3>2. printed = Use(heap, there)
      BY <2>1
    <3> HIDE DEF there, printed, t
    <3>3. /\ IsHeap(printed) /\ printed.live = heap.live /\ printed.ptr = heap.ptr
          /\ printed.failed = heap.failed
          /\ printed.misuse = heap.misuse \cup (there \ heap.live)
      BY <1>3, <3>1, <3>2, UseLeaves
    <3> QED
      BY <2>1, <3>1, <3>3
  <2>2. CASE role # "server"
    BY <1>3, <2>2
  <2> QED
    BY <2>1, <2>2
<1> HIDE DEF t, printed
<1>7. /\ kinds \subseteq {"qp"} \cup MrKind \cup {"send_region"} /\ "qp" \in kinds
      /\ <<t, "mempool">> \in heap.ptr => MrKind \cup {"send_region"} \subseteq kinds
      /\ \A kind \in kinds : <<t, kind>> \in heap.live
  <2>1. there \subseteq printed.ptr <=> <<t, "mempool">> \in heap.ptr
    <3>1. \A o : o \in there <=> o = <<t, "mempool">>
      BY DEF Of
    <3> HIDE DEF there
    <3> QED
      BY <1>6, <3>1
  <2>2. CASE <<t, "mempool">> \in heap.ptr
    <3>1. kinds = {"qp"} \cup (MrKind \cup {"send_region"})
      BY <2>1, <2>2 DEF DisconnectFrees, ReleasedMrs, MrKind
    <3> HIDE DEF kinds
    <3>2. \A kind \in kinds : <<t, kind>> \in heap.live
      BY <1>4, <2>2, <3>1 DEF PoolKind
    <3> QED
      BY <3>1, <3>2
  <2>3. CASE <<t, "mempool">> \notin heap.ptr
    <3>1. kinds = {"qp"}
      BY <2>1, <2>3 DEF DisconnectFrees
    <3> HIDE DEF kinds
    <3> QED
      BY <1>4, <2>3, <3>1
  <2> QED
    BY <2>2, <2>3
<1> HIDE DEF kinds
<1>8. /\ objs \subseteq Object /\ objs \subseteq heap.live /\ stopped \subseteq Object
      /\ \A x, kind : <<x, kind>> \in objs <=> (x = t /\ kind \in kinds)
      /\ \A x, kind : <<x, kind>> \in fds <=> (x = t /\ kind \in FdKind)
      /\ \A o \in stopped : \E kind \in {"hcq", "comp_channel", "event_channel"} : o = <<t, kind>>
  <2>1. kinds \subseteq TransKind /\ {"hcq", "comp_channel", "event_channel"} \subseteq TransKind
    BY <1>7 DEF TransKind, PoolKind, MrKind
  <2>2. objs \subseteq Object /\ stopped \subseteq Object
    BY <1>3, <2>1, OfMembers
  <2>3. ASSUME NEW o \in objs PROVE o \in heap.live
    <3>1. PICK kind \in kinds : o = <<t, kind>>
      BY <2>3, Objects
    <3> QED
      BY <1>7, <3>1
  <2> QED
    BY <2>2, <2>3, Objects
<1> HIDE DEF objs, stopped, fds
<1>9. /\ IsHeap(freed) /\ freed.live = heap.live \ objs /\ freed.ptr = heap.ptr
      /\ freed.failed = heap.failed /\ freed.misuse = printed.misuse
  <2>1. /\ IsHeap(Free(printed, objs)) /\ Free(printed, objs).live = printed.live \ objs
        /\ Free(printed, objs).ptr = printed.ptr /\ Free(printed, objs).failed = printed.failed
        /\ Free(printed, objs).misuse = printed.misuse \cup (objs \ printed.live)
    BY <1>6, <1>8, FreeLeaves
  <2>2. objs \ printed.live = {}
    BY <1>6, <1>8
  <2> QED
    BY <1>6, <2>1, <2>2
<1> HIDE DEF freed
<1> DEFINE u == Use(freed, stopped)
<1>10. /\ IsHeap(u) /\ u.live = heap.live \ objs /\ u.ptr = heap.ptr /\ u.failed = heap.failed
       /\ u.misuse = printed.misuse \cup (stopped \ (heap.live \ objs))
  <2>1. /\ IsHeap(u) /\ u.live = freed.live /\ u.ptr = freed.ptr /\ u.failed = freed.failed
        /\ u.misuse = freed.misuse \cup (stopped \ freed.live)
    BY <1>8, <1>9, UseLeaves
  <2> HIDE DEF u
  <2> QED
    BY <1>9, <2>1
<1>11. heap' = [u EXCEPT !.live = @ \ fds]
  BY <1>5
<1> HIDE DEF u
<1>12. /\ IsHeap(heap') /\ heap'.live = (heap.live \ objs) \ fds /\ heap'.ptr = heap.ptr
       /\ heap'.failed = heap.failed
       /\ heap'.misuse = printed.misuse \cup (stopped \ (heap.live \ objs))
  <2>1. PICK names : u \in HeapWith(names)
    BY <1>10 DEF IsHeap
  <2>2. /\ heap' \in HeapWith(names) /\ heap'.live = u.live \ fds /\ heap'.ptr = u.ptr
        /\ heap'.failed = u.failed /\ heap'.misuse = u.misuse
    BY <1>11, <2>1 DEF HeapWith
  <2> QED
    BY <1>10, <2>2 DEF IsHeap
<1>13. /\ \A x, kind : <<x, kind>> \in heap'.live =>
            <<x, kind>> \in heap.live /\ ~(x = t /\ (kind \in kinds \/ kind \in FdKind))
       /\ \A x, kind : <<x, kind>> \in heap.live =>
            <<x, kind>> \in heap'.live \/ (x = t /\ (kind \in kinds \/ kind \in FdKind))
  BY <1>8, <1>12
<1>14. \A kind : kind \in kinds \/ kind \in FdKind =>
         kind \in {"qp", "send_region", "send_mr", "recv_mr", "rdma_mr", "event_fd", "comp_fd", "timer_fd"}
  BY <1>7 DEF MrKind, FdKind
<1>15. \A x, kind : <<x, kind>> \in heap.live /\
           kind \notin {"qp", "send_region", "send_mr", "recv_mr", "rdma_mr",
                        "event_fd", "comp_fd", "timer_fd"} => <<x, kind>> \in heap'.live
  BY <1>13, <1>14
<1>16. TypeInv'
  <2>1. heap'.live \subseteq Object /\ heap'.ptr \subseteq Object /\ heap'.misuse \subseteq Object
    BY <1>12 DEF IsHeap, HeapWith
  <2>2. cm' \in CmState /\ is_stop' \in BOOLEAN /\ closed' \in {"no", "yes", "early"}
    BY <1>1 DEF CmState, ResInv, TypeInv, TypeOK
  <2> QED
    BY <1>1, <1>12, <2>1, <2>2 DEF ResInv, TypeInv, TypeOK
<1>17. Control'
  BY <1>1, <1>2, <1>12 DEF ResInv, Control, Joined, Starting, Connects
<1>18. Before'
  <2>1. \A x, ks : Absent(x, ks) => Absent(x, ks)'
    BY <1>1, <1>12, <1>13 DEF Absent
  <2> QED
    BY <1>1, <1>2, <2>1 DEF ResInv, Before, Starting
<1>19. Ties'
  <2> SUFFICES ASSUME NEW x \in Trans
               PROVE  /\ <<x, "event_fd">> \in heap'.live \cup batch' => <<x, "event_channel">> \in heap'.live
                      /\ <<x, "timer_fd">> \in heap'.live \cup batch' => <<x, "trans">> \in heap'.live
                      /\ <<x, "timerfd">> \in heap'.ptr => <<x, "trans">> \in heap'.live
                      /\ <<x, "comp_fd">> \in batch' \/ <<x, "qp">> \in heap'.live =>
                           \A kind \in {"hcq", "comp_channel", "cq"} : <<x, kind>> \in heap'.live
    BY DEF Ties
  <2>1. \A kind \in {"event_fd", "timer_fd"} : <<x, kind>> \in heap'.live \cup batch' =>
          <<x, kind>> \in heap.live \cup batch
    BY <1>1, <1>13
  <2>2. <<x, "comp_fd">> \in batch' \/ <<x, "qp">> \in heap'.live =>
          <<x, "comp_fd">> \in batch \/ <<x, "qp">> \in heap.live
    BY <1>1, <1>13
  <2> QED
    BY <1>12, <1>15, <2>1, <2>2 DEF ResInv, Ties
<1>20. FailuresKeepNothing'
  <2> SUFFICES ASSUME NEW x \in Trans, NEW kind \in TransKind, <<x, kind>> \in heap'.live,
                      Lost(heap', x, kind)
               PROVE  \E call \in heap'.failed : kind \in LeftBy(x, call)
    BY LostNothing
  <2> QED
    BY <1>12, <1>13, KeptObject
<1>21. Domains'
  BY <1>1, <1>2, <1>13, <1>15 DEF ResInv, Domains
<1>22. Connection'
  <2>1. <<verbs, "pd">> \in heap.live => <<verbs, "pd">> \in heap'.live
    BY <1>15
  <2> QED
    BY <1>1, <2>1 DEF ResInv, Connection, Joined
<1>23. UsedIsThere'
  <2>1. Noticed' => Noticed /\ main # "pool"
    BY <1>1, <1>12 DEF Noticed, ResInv, Control
  <2>2. Noticed => <<t, "event_channel">> \in heap.live
    BY <1>1, <1>2, <1>3 DEF ResInv, UsedIsThere, Joined, t, Connected, Starting
  <2>3. Noticed /\ role = "server" /\ main # "pool" => <<t, "mempool">> \in heap.live
    BY <1>1 DEF ResInv, UsedIsThere, Joined, t, Connected
  <2>4. Noticed' => printed.misuse = {}
    <3>1. CASE role = "server"
      BY <1>6, <2>1, <2>3, <3>1
    <3>2. CASE role # "server"
      BY <1>6, <3>2
    <3> QED
      BY <3>1, <3>2
  <2>5. Noticed' => stopped \subseteq heap.live \ objs
    <3>1. \A kind \in {"hcq", "comp_channel", "event_channel"} : kind \notin kinds
      BY <1>7 DEF MrKind
    <3>2. ASSUME Noticed', NEW o \in stopped PROVE o \in heap.live \ objs
      <4>1. PICK kind \in {"hcq", "comp_channel", "event_channel"} : o = <<t, kind>>
        BY <1>8, <3>2
      <4>2. <<t, kind>> \in heap.live
        BY <1>4, <2>1, <2>2, <3>2
      <4>3. <<t, kind>> \notin objs
        BY <1>8, <3>1
      <4> QED
        BY <4>1, <4>2, <4>3
    <3> QED
      BY <3>2
  <2>6. Noticed' => heap'.misuse = {}
    BY <1>12, <2>4, <2>5
  <2>7. Noticed' => <<Connected', "mempool">> \in heap'.live
    <3>1. Connected' = t
      BY <1>1 DEF t, Connected
    <3>2. Noticed /\ role = "client" => <<t, "mempool">> \in heap.live
      BY <1>1 DEF ResInv, UsedIsThere, Joined, t, Connected
    <3> QED
      BY <1>3, <1>15, <2>1, <2>3, <3>1, <3>2
  <2> QED
    BY <1>1, <1>2, <1>15, <2>1, <2>6, <2>7 DEF ResInv, UsedIsThere, Joined, Ctx
<1>24. ClientReleases'
  <2> SUFFICES ASSUME role = "client", heap'.failed = {}
               PROVE  /\ \A kind \in MrKind \cup {"send_region"} : <<"own", kind>> \notin heap'.live
                      /\ \A kind \in FdKind : <<"own", kind>> \notin heap'.live
    BY <1>1 DEF ClientReleases
  <2>1. t = "own" /\ "own" \in Trans
    BY <1>3 DEF t, Connected
  <2>2. ASSUME NEW kind \in MrKind \cup {"send_region"}, <<"own", kind>> \in heap'.live
        PROVE  FALSE
    <3>1. <<"own", kind>> \in heap.live /\ kind \notin kinds
      BY <1>13, <2>1, <2>2
    <3>2. <<"own", "mempool">> \notin heap.ptr
      BY <1>7, <2>1, <3>1
    <3>3. Root(kind) = "mempool" /\ kind \in TransKind
      BY DEF Root, TransKind, PoolKind, MrKind
    <3>4. Lost(heap, "own", kind)
      BY <3>2, <3>3 DEF Lost
    <3> QED
      BY <1>12, <2>1, <3>1, <3>3, <3>4, LostNothing DEF ResInv
  <2>3. \A kind \in FdKind : <<"own", kind>> \notin heap'.live
    BY <1>13, <2>1
  <2> QED
    BY <2>2, <2>3
<1>25. DevInv'
  BY <1>1, <1>2, <1>13, <1>15, ListQuiet
<1>26. Held'
  <2>1. \A x \in Trans : <<x, "timer_fd">> \in heap'.live \cup batch' =>
          <<x, "timer_fd">> \in heap.live \cup batch
    BY <1>1, <1>13
  <2> QED
    BY <1>1, <1>2, <1>12, <2>1 DEF ResInv, Held, Connected, Joined
<1> QED
  BY <1>16, <1>17, <1>18, <1>19, <1>20, <1>21, <1>22, <1>23, <1>24, <1>25, <1>26 DEF ResInv

-----------------------------------------------------------------------------
(* The release. *)

LEMMA JoinStep == ASSUME ResInv, heap.misuse = {}, Join PROVE ResInv'
<1>1. /\ main = "join" /\ main' = "release" /\ epoll = "exited"
      /\ pos' = dev_list.next[ListHead]
      /\ UNCHANGED <<role, verbs, dev_list, trans_state, i, cm, is_stop, epoll, batch, heap, closed>>
  BY DEF Join
<1>2. TypeInv'
  BY <1>1, Devices DEF ResInv, TypeInv, TypeOK, List
<1>3. Control'
  BY <1>1 DEF ResInv, Control, Starting, Joined, Connects
<1>4. Before'
  BY <1>1 DEF ResInv, Before, Absent, Starting
<1>5. Ties' /\ FailuresKeepNothing' /\ Domains' /\ ClientReleases' /\ DevInv'
  BY <1>1, Still
<1>6. Connection' /\ UsedIsThere'
  BY <1>1 DEF ResInv, Connection, Connected, UsedIsThere, AfterClose, Noticed
<1>7. Held'
  BY <1>1, HeldQuiet
<1> QED
  BY <1>2, <1>3, <1>4, <1>5, <1>6, <1>7 DEF ResInv

LEMMA ReleaseDeviceStep ==
  ASSUME ResInv, LinkInv, heap.misuse = {}, ReleaseDevice PROVE ResInv'
<1>1. /\ main = "release" /\ pos = dev_list.next[ListHead] /\ epoll = "exited" /\ batch = {}
      /\ UNCHANGED <<role, verbs, trans_state, i, cm, is_stop, epoll, batch, closed>>
  BY DEF ReleaseDevice, LinkInv, ResInv, Control
<1>2. PICK s \in Seq(Node) : DeviceList(s)
  BY DEF ResInv, DevInv
<1>3. /\ dev_list \in List(Node) /\ Ring(dev_list, ListHead, s) /\ ListHead \in Node
      /\ Poison \in Node /\ Nodes(s) = {d \in Device : <<d, "device">> \in heap.live}
      /\ IsHeap(heap)
  BY <1>2, Devices DEF DeviceList, ResInv, TypeInv
<1>6. /\ s = << >> => dev_list.next[ListHead] = ListHead /\ dev_list.prev[ListHead] = ListHead
      /\ s # << >> => /\ dev_list.next[ListHead] = s[1] /\ dev_list.prev[ListHead] = s[Len(s)]
                      /\ dev_list.next[s[Len(s)]] = ListHead /\ dev_list.prev[s[1]] = ListHead
                      /\ Len(s) \in Nat \ {0} /\ s[1] \in Node /\ s[Len(s)] \in Node
      /\ ListHead \notin Nodes(s) /\ Distinct(s) /\ Chain(dev_list, s)
  BY <1>3, HeadFacts
<1>4. CASE pos = ListHead
  <2>1. main' = "exited" /\ UNCHANGED <<pos, dev_list, heap>>
    BY <1>4 DEF ReleaseDevice
  <2>2. s = << >>
    <3> SUFFICES ASSUME s # << >> PROVE FALSE
      OBVIOUS
    <3>2. s # << >> => s[1] \in Nodes(s)
      BY EndNodes
    <3> QED
      BY <1>1, <1>4, <1>6, <3>2
  <2>3. TypeInv'
    BY <1>1, <2>1 DEF ResInv, TypeInv, TypeOK
  <2>4. Control'
    BY <1>1, <2>1 DEF ResInv, Control, Starting, Joined, Connects
  <2>5. Before'
    BY <1>1, <2>1 DEF ResInv, Before, Absent, Starting
  <2>6. Ties' /\ FailuresKeepNothing'
    BY <1>1, <2>1, Quiet
  <2>7. Connection' /\ UsedIsThere' /\ Domains' /\ ClientReleases'
    BY <1>1, <2>1 DEF ResInv, Connection, Connected, UsedIsThere, AfterClose, Noticed, Domains,
       ClientReleases
  <2>8. DeviceList(s)'
    BY <1>1, <1>2, <2>1, <2>2 DEF DeviceList
  <2>9. Held'
    BY <1>1, <2>1, HeldQuiet
  <2> QED
    BY <2>3, <2>4, <2>5, <2>6, <2>7, <2>8, <2>9 DEF ResInv, DevInv
<1>5. CASE pos # ListHead
  <2> DEFINE there == {<<pos, "device">>} \cup (IF OnPd = {} THEN {<<pos, "pd">>} ELSE {})
  <2>1. /\ pos' = dev_list.next[pos] /\ main' = main
        /\ dev_list' = ListDel(ListDelInit(dev_list, pos), pos, Poison)
        /\ heap' = Free(heap, there)
    BY <1>5 DEF ReleaseDevice
  <2>2. s # << >>
    BY <1>1, <1>5, <1>6
  <2>3. /\ pos \in Node /\ dev_list' \in List(Node)
        /\ \E t \in Seq(Node) :
             /\ Ring(dev_list', ListHead, t) /\ Nodes(t) = Nodes(s) \ {pos} /\ pos \in Nodes(s)
             /\ Len(t) = Len(s) - 1
    <3> DEFINE m == dev_list'
    <3>1. /\ pos = dev_list.next[ListHead]
          /\ m = ListDel(ListDelInit(dev_list, pos), pos, Poison)
      BY <1>1, <2>1
    <3> HIDE DEF m
    <3>2. HoldsRest(m, Node, ListHead, s, pos)
      BY <1>3, <2>2, <3>1, TakenOut
    <3> QED
      BY <3>2 DEF m, HoldsRest
  <2>4. PICK t \in Seq(Node) :
          /\ Ring(dev_list', ListHead, t) /\ Nodes(t) = Nodes(s) \ {pos} /\ pos \in Nodes(s)
          /\ Len(t) = Len(s) - 1
    BY <2>3
  <2>5. /\ pos \in Device /\ <<pos, "device">> \in heap.live /\ <<pos, "pd">> \in heap.live
    <3>1. pos \in Device /\ <<pos, "device">> \in heap.live
      BY <1>3, <2>4
    <3> QED
      BY <3>1 DEF ResInv, Domains
  <2>6. /\ there \subseteq Object /\ there \subseteq heap.live
        /\ \A x, kind : <<x, kind>> \in there <=>
             (x = pos /\ (kind = "device" \/ (kind = "pd" /\ OnPd = {})))
    <3>1. there \subseteq heap.live
      BY <2>5
    <3>2. heap.live \subseteq Object
      BY DEF ResInv, TypeInv, TypeOK
    <3> QED
      BY <3>1, <3>2
  <2> HIDE DEF there
  <2>7. /\ IsHeap(heap') /\ heap'.live = heap.live \ there /\ heap'.ptr = heap.ptr
        /\ heap'.failed = heap.failed /\ heap'.misuse = heap.misuse
    <3>1. /\ IsHeap(Free(heap, there)) /\ Free(heap, there).live = heap.live \ there
          /\ Free(heap, there).ptr = heap.ptr /\ Free(heap, there).failed = heap.failed
          /\ Free(heap, there).misuse = heap.misuse \cup (there \ heap.live)
      BY <1>3, <2>6, FreeLeaves
    <3>2. there \ heap.live = {}
      BY <2>6
    <3> QED
      BY <2>1, <3>1, <3>2
  <2>8. \A x, kind : kind \notin {"device", "pd"} =>
          (<<x, kind>> \in heap'.live <=> <<x, kind>> \in heap.live)
    BY <2>6, <2>7
  <2>9. \A x, kind : x # pos => (<<x, kind>> \in heap'.live <=> <<x, kind>> \in heap.live)
    BY <2>6, <2>7
  <2>10. <<pos, "device">> \notin heap'.live /\ (<<pos, "pd">> \in heap'.live => OnPd # {})
    BY <2>6, <2>7
  <2>11. TypeInv'
    <3>1. dev_list.next[pos] \in Node
      BY <1>3, <2>3, LinkFacts
    <3>2. heap'.live \subseteq Object /\ heap'.ptr \subseteq Object /\ heap'.misuse \subseteq Object
      BY <2>7 DEF IsHeap, HeapWith
    <3> QED
      BY <1>1, <2>1, <2>3, <2>7, <3>1, <3>2 DEF ResInv, TypeInv, TypeOK
  <2>12. Control'
    BY <1>1, <2>1, <2>7 DEF ResInv, Control, Starting, Joined, Connects
  <2>13. Before'
    BY <1>1, <2>1, <2>7 DEF ResInv, Before, Absent, Starting
  <2>14. Ties' /\ FailuresKeepNothing'
    BY <1>1, <2>7, <2>8, Kinds, Quiet
  <2>15. Domains'
    <3> SUFFICES ASSUME NEW d \in Device
                 PROVE  /\ <<d, "device">> \in heap'.live => <<d, "pd">> \in heap'.live
                        /\ <<d, "pd">> \in heap'.live =>
                             \/ <<d, "device">> \in heap'.live
                             \/ /\ main' \in {"release", "exited"}
                                /\ \E x \in Trans, kind \in MrKind \cup {"qp"} : <<x, kind>> \in heap'.live
      BY DEF Domains
    <3>1. \A x \in Trans, kind \in MrKind \cup {"qp"} :
            <<x, kind>> \in heap.live => <<x, kind>> \in heap'.live
      BY <2>8 DEF MrKind
    <3>2. CASE d = pos
      <4>1. OnPd # {} => \E x \in Trans, kind \in MrKind \cup {"qp"} : <<x, kind>> \in heap.live
        BY DEF OnPd
      <4> QED
        BY <1>1, <2>1, <2>10, <3>1, <3>2, <4>1
    <3>3. CASE d # pos
      BY <1>1, <2>1, <2>9, <3>1, <3>3 DEF ResInv, Domains
    <3> QED
      BY <3>2, <3>3
  <2>16. Connection'
    <3>1. cm \notin {"requested"}
      BY <1>1 DEF ResInv, Control
    <3> QED
      BY <1>1, <2>1, <2>7, <2>8, <3>1 DEF ResInv, Connection, Connected, PoolKind, MrKind
  <2>17. UsedIsThere'
    BY <1>1, <2>1, <2>7, <2>8 DEF ResInv, UsedIsThere, AfterClose, Connected, Noticed, Ctx, Joined
  <2>18. ClientReleases'
    BY <1>1, <2>7, <2>8 DEF ResInv, ClientReleases, MrKind, FdKind
  <2>19. DevInv'
    <3>1. Nodes(t) = {d \in Device : <<d, "device">> \in heap'.live}
      BY <1>3, <2>4, <2>5, <2>9, <2>10
    <3>2. Len(t) < i'
      <4>1. Len(s) < i /\ Len(s) \in Nat /\ i \in Nat
        BY <1>2, LenProperties DEF DeviceList, LinkInv
      <4> QED
        BY <1>1, <2>4, <4>1
    <3> QED
      BY <1>1, <2>1, <2>3, <2>4, <3>1, <3>2 DEF DevInv, DeviceList
  <2>20. Held'
    BY <1>1, <2>1, <2>7, <2>8, HeldQuiet
  <2> QED
    BY <2>11, <2>12, <2>13, <2>14, <2>15, <2>16, <2>17, <2>18, <2>19, <2>20 DEF ResInv
<1> QED
  BY <1>4, <1>5

-----------------------------------------------------------------------------
(* The invariant holds. *)

\* Nothing is there at first.
LEMMA ResInit == Init => ResInv
<1> SUFFICES ASSUME Init PROVE ResInv
  OBVIOUS
<1> DEFINE names == {}
<1>1. heap.live = {} /\ heap.ptr = {} /\ heap.failed = {} /\ heap.misuse = {}
  BY DEF Init
<1>2. TypeInv
  <2>1. heap \in HeapWith(names)
    BY DEF Init, HeapWith
  <2> HIDE DEF names
  <2>2. dev_list \in List(Node) /\ pos \in Node
    BY Devices DEF Init, List
  <2>3. i \in 1 .. Len(Verbs) + 1
    BY VerbsAssumption DEF Init
  <2> QED
    BY <1>1, <2>1, <2>2, <2>3 DEF Init, TypeInv, TypeOK, IsHeap, CmState
<1>3. Control
  BY <1>1 DEF Init, Control, Starting, Joined
<1>4. Before
  BY <1>1 DEF Init, Before, Absent
<1>5. Ties /\ Held /\ Connection /\ Domains /\ ClientReleases /\ FailuresKeepNothing
  BY <1>1 DEF Init, Ties, Held, Connection, Domains, ClientReleases, FailuresKeepNothing, Joined
<1>6. UsedIsThere
  BY <1>1 DEF Init, UsedIsThere, Joined
<1>7. DevInv
  <2> DEFINE none == << >>
  <2>1. none \in Seq(Node) /\ Len(none) = 0 /\ Nodes(none) = {}
    BY DEF Nodes
  <2>2. /\ dev_list \in List(Node) /\ ListHead \in Node
        /\ dev_list.next[ListHead] = ListHead /\ dev_list.prev[ListHead] = ListHead
    BY Devices DEF Init, List
  <2>3. <<ListHead>> \o none = <<ListHead>>
    BY <2>2, One, ConcatEmptySeq
  <2> HIDE DEF none
  <2>4. Ring(dev_list, ListHead, none)
    BY <2>2, <2>3, One DEF Ring, Cycle, Adj
  <2>5. {d \in Device : <<d, "device">> \in heap.live} = {}
    BY <1>1
  <2>6. DeviceList(none)
    BY <2>1, <2>2, <2>4, <2>5 DEF DeviceList, Init
  <2> QED
    BY <2>1, <2>6 DEF DevInv
<1> QED
  BY <1>2, <1>3, <1>4, <1>5, <1>6, <1>7 DEF ResInv

LEMMA ResNext == ResInv /\ LinkInv /\ [Next]_vars => ResInv'
<1> SUFFICES ASSUME ResInv, LinkInv, [Next]_vars PROVE ResInv'
  OBVIOUS
<1>1. CASE UNCHANGED vars
  <2>1. UNCHANGED <<role, verbs, dev_list, main, trans_state, i, pos, cm, is_stop, epoll, batch, heap, closed>>
    BY <1>1 DEF vars
  <2>2. TypeInv' /\ Control'
    BY <2>1 DEF ResInv, TypeInv, TypeOK, Control, Connects
  <2>3. Before' /\ Held' /\ Connection' /\ UsedIsThere'
    BY <2>1 DEF ResInv, Before, Absent, Held, Connection, Connected, UsedIsThere, AfterClose, Noticed
  <2>4. Ties' /\ FailuresKeepNothing' /\ Domains' /\ ClientReleases' /\ DevInv'
    BY <2>1, Still
  <2> QED
    BY <2>2, <2>3, <2>4 DEF ResInv
<1>2. ASSUME heap.misuse = {}, Main PROVE ResInv'
  BY <1>2, InitDeviceStep, CreateContextStep, CreateTransStep, ConnectOrListenStep,
     StartThreadStep, AcceptStep, PrepareStep, SendStep, JoinStep, ReleaseDeviceStep DEF Main
<1>3. ASSUME heap.misuse = {}, Epoll PROVE ResInv'
  <2>1. CASE \E t \in Trans : Completion(t) \/ Timer(t)
    BY <1>3, <2>1, CompletionStep, TimerStep
  <2>2. CASE \/ EpollWait \/ LoopExit \/ AddrResolved \/ RouteResolved \/ ConnectRequest
             \/ Established \/ ConnectError \/ Disconnected
    BY <1>3, <2>2, EpollWaitStep, EventStep, AddrResolvedStep, RouteResolvedStep,
       ConnectRequestStep, EstablishedStep, DisconnectedStep
  <2> QED
    BY <1>3, <2>1, <2>2 DEF Epoll
<1>4. ASSUME heap.misuse = {}, CmEvents PROVE ResInv'
  BY <1>4, EventStep
<1> QED
  BY <1>1, <1>2, <1>3, <1>4 DEF Next

LEMMA ResAlways == Spec => []ResInv
<1>1. LinkInv /\ ResInv /\ [Next]_vars => LinkInv' /\ ResInv'
  BY LinkNext, ResNext
<1> QED
  BY <1>1, LinkInit, ResInit, PTL DEF Spec

-----------------------------------------------------------------------------
(* The theorems. *)

\* All variables keep their types, however many contexts there are and however
\* many calls fail.
THEOREM ResourceTypes == Spec => []TypeOK
<1>1. ResInv => TypeOK
  BY DEF ResInv, TypeInv
<1> QED
  BY <1>1, ResAlways, PTL

\* The list that hmr_device_lookup and the release walk is that of the devices
\* that live, for every sequence of contexts and whichever fail to initialize.
THEOREM DevicesListed == Spec => []DevListHoldsDevices
<1>1. ASSUME ResInv PROVE DevListHoldsDevices
  <2>1. PICK s \in Seq(Node) : DeviceList(s)
    BY <1>1 DEF ResInv, DevInv
  <2>2. /\ dev_list \in List(Node) /\ Ring(dev_list, ListHead, s) /\ Len(s) < i
        /\ Nodes(s) = {d \in Device : <<d, "device">> \in heap.live} /\ ListHead \in Node
    BY <2>1, Devices DEF DeviceList
  <2> DEFINE max == Len(Verbs) + 1
  <2>3. max \in Nat /\ Len(s) <= max
    BY <1>1, <2>2, VerbsAssumption, LenProperties DEF ResInv, TypeInv, TypeOK
  <2> HIDE DEF max
  <2>4. Entries(dev_list, ListHead, max) = Nodes(s)
    BY <2>2, <2>3, EntriesAreNodes
  <2> QED
    BY <2>2, <2>4 DEF DevListHoldsDevices, max
<1> QED
  BY <1>1, ResAlways, PTL

\* No handler runs on data that is gone, whatever failed before.
THEOREM HandlersSafe == Spec => []HandlersLive
<1>1. ASSUME ResInv, NEW fd \in batch \cup Ready PROVE Data(fd) \in heap.live
  <2>1. batch \subseteq Trans \X FdKind
    BY <1>1 DEF ResInv, TypeInv, TypeOK
  <2>2. fd \in Trans \X FdKind /\ (fd \in batch \/ fd \in heap.live)
    BY <1>1, <2>1 DEF Ready
  <2>3. PICK t \in Trans, kind \in FdKind : fd = <<t, kind>>
    BY <2>2
  <2>4. CASE kind = "event_fd"
    <3>1. <<t, "event_channel">> \in heap.live
      BY <1>1, <2>2, <2>3, <2>4 DEF ResInv, Ties
    <3>2. Data(fd) = <<t, "event_channel">>
      BY <2>3, <2>4 DEF Data
    <3> QED
      BY <3>1, <3>2
  <2>5. CASE kind = "comp_fd"
    <3>1. fd \in Ready => <<t, "qp">> \in heap.live
      <4> SUFFICES ASSUME fd \in Ready PROVE <<t, "qp">> \in heap.live
        OBVIOUS
      <4>1. fd[1] = t /\ fd[2] = "comp_fd"
        BY <2>3, <2>5
      <4>2. Of(t, {"cq", "qp"}) \subseteq heap.live
        BY <4>1 DEF Ready
      <4> QED
        BY <4>2, OfMembers
    <3>2. <<t, "hcq">> \in heap.live
      BY <1>1, <2>3, <2>5, <3>1 DEF ResInv, Ties
    <3>3. Data(fd) = <<t, "hcq">>
      BY <2>3, <2>5 DEF Data
    <3> QED
      BY <3>2, <3>3
  <2>6. CASE kind = "timer_fd"
    <3>1. <<t, "trans">> \in heap.live
      BY <1>1, <2>2, <2>3, <2>6 DEF ResInv, Ties
    <3>2. Data(fd) = <<t, "trans">>
      BY <2>3, <2>6 DEF Data
    <3> QED
      BY <3>1, <3>2
  <2> QED
    BY <2>4, <2>5, <2>6 DEF FdKind
<1>2. ResInv => HandlersLive
  BY <1>1 DEF HandlersLive
<1> QED
  BY <1>2, ResAlways, PTL

\* Whatever is used or released is there, for every sequence of contexts, unless
\* one of the failures that no caller checks has come before, a client left
\* before the server had its pool, or on_cm_disconnected has run, after which
\* main may write to the freed region and a timer event post on the destroyed QP.
THEOREM UsesLive == Spec => []UseOnlyLive
<1>1. ASSUME ResInv PROVE UseOnlyLive
  <2>1. closed \in {"no", "yes", "early"}
    BY <1>1 DEF ResInv, TypeInv, TypeOK
  <2> QED
    BY <1>1, <2>1 DEF ResInv, UsedIsThere, Noticed, UseOnlyLive
<1> QED
  BY <1>1, ResAlways, PTL

\* All that lives can still be reached through the program's pointers, except
\* what the table LeftBy says a call that failed has left behind.
THEOREM FailuresCleanUp == Spec => []FailuresKeepNothing
<1>1. ResInv => FailuresKeepNothing
  BY DEF ResInv
<1> QED
  BY <1>1, ResAlways, PTL

\* A client in which nothing failed and whose connection is closed keeps at most
\* the objects of NeverReleased: its regions, its QP, its descriptors in the epoll
\* set and every device are gone.
THEOREM ExitsRelease == Spec => []ExitReleases
<1>1. ASSUME ResInv, main = "exited", role = "client", heap.failed = {},
             <<"own", "qp">> \notin heap.live, NEW o \in heap.live
      PROVE  o \in NeverReleased
  <2>1. epoll = "exited" /\ is_stop /\ cm = "none"
    <3>1. epoll \in {"off", "on", "exited"}
      BY <1>1 DEF ResInv, TypeInv, TypeOK
    <3>2. epoll = "exited"
      BY <1>1, <3>1 DEF ResInv, Control
    <3> QED
      BY <1>1, <3>2 DEF ResInv, Control
  <2>2. \A d \in Device : <<d, "device">> \notin heap.live
    <3>1. PICK s \in Seq(Node) : DeviceList(s)
      BY <1>1 DEF ResInv, DevInv
    <3>2. s = << >> /\ Nodes(s) = {d \in Device : <<d, "device">> \in heap.live}
      BY <1>1, <2>1, <3>1 DEF DeviceList
    <3>3. Nodes(s) = {}
      BY <3>2 DEF Nodes
    <3> QED
      BY <3>2, <3>3
  <2>3. \A kind \in TransKind : <<"accepted", kind>> \notin heap.live
    BY <1>1 DEF ResInv, Before, Absent
  <2>4. \A kind \in MrKind \cup FdKind \cup {"qp", "send_region"} : <<"own", kind>> \notin heap.live
    <3>1. \A kind \in MrKind \cup {"send_region"} : <<"own", kind>> \notin heap.live
      BY <1>1, <2>1 DEF ResInv, ClientReleases
    <3>2. \A kind \in FdKind : <<"own", kind>> \notin heap.live
      BY <1>1, <2>1 DEF ResInv, ClientReleases
    <3> QED
      BY <1>1, <3>1, <3>2
  <2>5. \A t \in Trans, kind \in MrKind \cup {"qp"} : <<t, kind>> \notin heap.live
    BY <2>3, <2>4 DEF Trans, TransKind, PoolKind
  <2>6. \A d \in Device : <<d, "pd">> \notin heap.live
    BY <1>1, <2>2, <2>5 DEF ResInv, Domains
  <2>7. o \in Object
    BY <1>1 DEF ResInv, TypeInv, TypeOK
  <2>8. PICK x, kind : o = <<x, kind>>
    BY <2>7, Objects
  <2>9. \/ x \in Device /\ kind \in {"device", "pd"}
        \/ x = "ctx" /\ kind \in {"ctx", "epfd"}
        \/ x \in Trans /\ kind \in TransKind
    BY <2>7, <2>8, Objects
  <2>10. CASE x \in Device /\ kind \in {"device", "pd"}
    BY <1>1, <2>2, <2>6, <2>8, <2>10
  <2>11. CASE x = "ctx" /\ kind \in {"ctx", "epfd"}
    BY <2>8, <2>11 DEF NeverReleased, Ctx
  <2>12. CASE x \in Trans /\ kind \in TransKind
    <3>1. x = "own"
      BY <1>1, <2>3, <2>8, <2>12 DEF Trans
    <3>2. kind \notin MrKind \cup FdKind \cup {"qp", "send_region"}
      BY <1>1, <2>4, <2>8, <3>1
    <3>3. kind \in {"trans", "event_channel", "timerfd", "cm_id", "mempool",
                    "hcq", "comp_channel", "cq"}
      BY <2>12, <3>2 DEF TransKind, PoolKind
    <3>4. o \in Of("own", {"trans", "event_channel", "timerfd", "cm_id", "mempool",
                           "hcq", "comp_channel", "cq"})
      BY <2>8, <3>1, <3>3, OfMembers
    <3> QED
      BY <3>4 DEF NeverReleased
  <2> QED
    BY <2>9, <2>10, <2>11, <2>12
<1>2. ResInv => ExitReleases
  BY <1>1 DEF ExitReleases
<1> QED
  BY <1>2, ResAlways, PTL

=============================================================================
