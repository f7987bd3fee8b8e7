--------------------------- MODULE HmrListProofs ---------------------------
(***************************************************************************)
(* What the operations of linux/list.h do to a list, for lists of every    *)
(* length: the pointers that HmrList computes are those of the sequence    *)
(* one expects, and no other list is touched.                              *)
(***************************************************************************)
EXTENDS HmrList, SequenceTheorems, FiniteSetTheorems, WellFoundedInduction, TLAPS

-----------------------------------------------------------------------------
(* What it is for pointers to hold a list. *)

\* x points to y and y back to x.
Adj(l, x, y) == l.next[x] = y /\ l.prev[y] = x

\* Each node of a sequence points to the next one, no two are the same, and the
\* last points to the first.
Chain(l, p) == \A i \in 1 .. Len(p) - 1 : Adj(l, p[i], p[i + 1])
Distinct(p) == \A i, j \in 1..Len(p) : p[i] = p[j] => i = j
Cycle(l, p) == Distinct(p) /\ Chain(l, p) /\ Adj(l, p[Len(p)], p[1])

Nodes(p) == {p[i] : i \in 1..Len(p)}

\* The list at a head holds the entries of a sequence.
Ring(l, h, s) == Cycle(l, <<h>> \o s)

\* The pointers of these nodes are what they were.
Same(l, m, Z) == \A z \in Z : m.next[z] = l.next[z] /\ m.prev[z] = l.prev[z]

-----------------------------------------------------------------------------
(* Sequences of nodes. *)

\* The nodes of two sequences that are joined, and when none is there twice.
LEMMA NodesConcat ==
  ASSUME NEW S, NEW p \in Seq(S), NEW q \in Seq(S)
  PROVE  /\ Nodes(p \o q) = Nodes(p) \cup Nodes(q)
         /\ Distinct(p \o q) <=>
              Distinct(p) /\ Distinct(q) /\ Nodes(p) \cap Nodes(q) = {}
<1>1. /\ Len(p) \in Nat /\ Len(q) \in Nat /\ Len(p \o q) = Len(p) + Len(q)
      /\ \A i \in 1..Len(p) : (p \o q)[i] = p[i] /\ i \in 1 .. Len(p) + Len(q)
      /\ \A i \in 1..Len(q) : /\ (p \o q)[Len(p) + i] = q[i]
                              /\ Len(p) + i \in 1 .. Len(p) + Len(q)
  BY ConcatProperties, LenProperties
<1>2. \A i \in 1 .. Len(p) + Len(q) :
        i \in 1..Len(p) \/ \E j \in 1..Len(q) : i = Len(p) + j
  <2> SUFFICES ASSUME NEW i \in 1 .. Len(p) + Len(q), i \notin 1..Len(p)
               PROVE  \E j \in 1..Len(q) : i = Len(p) + j
    OBVIOUS
  <2>1. i - Len(p) \in 1..Len(q) /\ i = Len(p) + (i - Len(p))
    BY <1>1
  <2> QED
    BY <2>1
<1>3. Nodes(p \o q) = Nodes(p) \cup Nodes(q)
  <2>1. ASSUME NEW i \in 1 .. Len(p) + Len(q) PROVE (p \o q)[i] \in Nodes(p) \cup Nodes(q)
    BY <1>1, <1>2 DEF Nodes
  <2>2. \A i \in 1..Len(p) : p[i] \in Nodes(p \o q)
    BY <1>1 DEF Nodes
  <2>3. ASSUME NEW i \in 1..Len(q) PROVE q[i] \in Nodes(p \o q)
    <3>1. Len(p) + i \in 1..Len(p \o q) /\ (p \o q)[Len(p) + i] = q[i]
      BY <1>1
    <3> QED
      BY <3>1 DEF Nodes
  <2>4. Nodes(p \o q) \subseteq Nodes(p) \cup Nodes(q)
    BY <1>1, <2>1 DEF Nodes
  <2>5. Nodes(p) \cup Nodes(q) \subseteq Nodes(p \o q)
    BY <2>2, <2>3 DEF Nodes
  <2> QED
    BY <2>4, <2>5
<1>4. ASSUME Distinct(p \o q)
      PROVE  Distinct(p) /\ Distinct(q) /\ Nodes(p) \cap Nodes(q) = {}
  <2>1. Distinct(p)
    BY <1>1, <1>4 DEF Distinct
  <2>2. Distinct(q)
    <3> SUFFICES ASSUME NEW i \in 1..Len(q), NEW j \in 1..Len(q), q[i] = q[j]
                 PROVE  i = j
      BY DEF Distinct
    <3>1. Len(p) + i = Len(p) + j
      BY <1>1, <1>4 DEF Distinct
    <3> QED
      BY <1>1, <3>1
  <2>3. ASSUME NEW i \in 1..Len(p), NEW j \in 1..Len(q) PROVE p[i] # q[j]
    <3>1. i # Len(p) + j
      BY <1>1
    <3> QED
      BY <1>1, <1>4, <3>1 DEF Distinct
  <2> QED
    BY <2>1, <2>2, <2>3 DEF Nodes
<1>5. ASSUME Distinct(p), Distinct(q), Nodes(p) \cap Nodes(q) = {}
      PROVE  Distinct(p \o q)
  <2>1. \A i \in 1..Len(p), j \in 1..Len(q) : p[i] # q[j]
    BY <1>5 DEF Nodes
  <2> SUFFICES ASSUME NEW i \in 1 .. Len(p) + Len(q), NEW j \in 1 .. Len(p) + Len(q),
                      (p \o q)[i] = (p \o q)[j]
               PROVE  i = j
    BY <1>1 DEF Distinct
  <2>2. CASE i \in 1..Len(p) /\ j \in 1..Len(p)
    BY <1>1, <1>5, <2>2 DEF Distinct
  <2>3. CASE i \notin 1..Len(p) /\ j \notin 1..Len(p)
    <3>1. PICK a \in 1..Len(q) : i = Len(p) + a
      BY <1>2, <2>3
    <3>2. PICK b \in 1..Len(q) : j = Len(p) + b
      BY <1>2, <2>3
    <3>3. q[a] = q[b]
      BY <1>1, <3>1, <3>2
    <3> QED
      BY <1>5, <3>1, <3>2, <3>3 DEF Distinct
  <2>4. CASE i \in 1..Len(p) /\ j \notin 1..Len(p)
    BY <1>1, <1>2, <2>1, <2>4
  <2>5. CASE i \notin 1..Len(p) /\ j \in 1..Len(p)
    BY <1>1, <1>2, <2>1, <2>5
  <2> QED
    BY <2>2, <2>3, <2>4, <2>5
<1> QED
  BY <1>3, <1>4, <1>5

\* The first and the last of a sequence that is not empty, also in a longer one.
LEMMA EndNodes ==
  ASSUME NEW S, NEW p \in Seq(S), NEW q \in Seq(S)
  PROVE  /\ p # << >> => /\ Len(p) \in Nat \ {0} /\ p[1] \in S /\ p[Len(p)] \in S
                         /\ p[1] \in Nodes(p) /\ p[Len(p)] \in Nodes(p)
                         /\ (p \o q)[1] = p[1] /\ p \o q # << >>
         /\ q # << >> => (p \o q)[Len(p \o q)] = q[Len(q)] /\ p \o q # << >>
         /\ p \o q \in Seq(S) /\ Len(p \o q) = Len(p) + Len(q)
<1>1. /\ Len(p) \in Nat /\ Len(q) \in Nat /\ Len(p \o q) = Len(p) + Len(q)
      /\ \A i \in 1..Len(p) : (p \o q)[i] = p[i]
      /\ \A i \in 1..Len(q) : (p \o q)[Len(p) + i] = q[i]
      /\ p \o q \in Seq(S)
  BY ConcatProperties, LenProperties
<1>2. (p # << >> => Len(p) \in Nat \ {0}) /\ (q # << >> => Len(q) \in Nat \ {0})
  BY EmptySeq
<1>3. ASSUME p # << >>
      PROVE  /\ p[1] \in S /\ p[Len(p)] \in S /\ p[1] \in Nodes(p) /\ p[Len(p)] \in Nodes(p)
             /\ (p \o q)[1] = p[1] /\ p \o q # << >>
  <2>1. 1 \in 1..Len(p) /\ Len(p) \in 1..Len(p)
    BY <1>2, <1>3
  <2>2. Len(p \o q) # 0
    BY <1>1, <1>2, <1>3
  <2> QED
    BY <1>1, <2>1, <2>2, ElementOfSeq, EmptySeq DEF Nodes
<1>4. ASSUME q # << >> PROVE (p \o q)[Len(p \o q)] = q[Len(q)] /\ p \o q # << >>
  <2>1. Len(q) \in 1..Len(q)
    BY <1>2, <1>4
  <2>2. Len(p \o q) # 0
    BY <1>1, <1>2, <1>4
  <2> QED
    BY <1>1, <2>1, <2>2, EmptySeq
<1> QED
  BY <1>1, <1>2, <1>3, <1>4

\* A sequence of one node.
LEMMA One ==
  ASSUME NEW S, NEW x \in S
  PROVE  /\ <<x>> \in Seq(S) /\ <<x>> # << >> /\ Len(<<x>>) = 1 /\ <<x>>[1] = x
         /\ Nodes(<<x>>) = {x} /\ Distinct(<<x>>)
         /\ \A l : Chain(l, <<x>>)
<1>1. <<x>> \in Seq(S) /\ <<x>> # << >> /\ Len(<<x>>) = 1 /\ <<x>>[1] = x
  OBVIOUS
<1>2. 1..1 = {1} /\ 1 .. 1 - 1 = {}
  OBVIOUS
<1> QED
  BY <1>1, <1>2 DEF Nodes, Distinct, Chain

\* Chains that are joined, or taken apart.
LEMMA ChainConcat ==
  ASSUME NEW l, NEW S, NEW p \in Seq(S), NEW q \in Seq(S), p # << >>, q # << >>
  PROVE  Chain(l, p \o q) <=> Chain(l, p) /\ Chain(l, q) /\ Adj(l, p[Len(p)], q[1])
<1>1. /\ Len(p) \in Nat \ {0} /\ Len(q) \in Nat \ {0} /\ Len(p \o q) = Len(p) + Len(q)
      /\ \A i \in 1..Len(p) : (p \o q)[i] = p[i]
      /\ \A i \in 1..Len(q) : (p \o q)[Len(p) + i] = q[i]
  BY ConcatProperties, LenProperties, EmptySeq
<1>2. ASSUME Chain(l, p \o q)
      PROVE  Chain(l, p) /\ Chain(l, q) /\ Adj(l, p[Len(p)], q[1])
  <2>1. Chain(l, p)
    <3> SUFFICES ASSUME NEW i \in 1 .. Len(p) - 1 PROVE Adj(l, p[i], p[i + 1])
      BY DEF Chain
    <3>1. i \in 1 .. Len(p \o q) - 1 /\ i \in 1..Len(p) /\ i + 1 \in 1..Len(p)
      BY <1>1
    <3>2. Adj(l, (p \o q)[i], (p \o q)[i + 1])
      BY <1>2, <3>1 DEF Chain
    <3> QED
      BY <1>1, <3>1, <3>2
  <2>2. Chain(l, q)
    <3> SUFFICES ASSUME NEW i \in 1 .. Len(q) - 1 PROVE Adj(l, q[i], q[i + 1])
      BY DEF Chain
    <3>1. /\ Len(p) + i \in 1 .. Len(p \o q) - 1 /\ i \in 1..Len(q) /\ i + 1 \in 1..Len(q)
          /\ (Len(p) + i) + 1 = Len(p) + (i + 1)
      BY <1>1
    <3>2. Adj(l, (p \o q)[Len(p) + i], (p \o q)[(Len(p) + i) + 1])
      BY <1>2, <3>1 DEF Chain
    <3> QED
      BY <1>1, <3>1, <3>2
  <2>3. Adj(l, p[Len(p)], q[1])
    <3>1. /\ Len(p) \in 1 .. Len(p \o q) - 1 /\ Len(p) \in 1..Len(p) /\ 1 \in 1..Len(q)
      BY <1>1
    <3>2. Adj(l, (p \o q)[Len(p)], (p \o q)[Len(p) + 1])
      BY <1>2, <3>1 DEF Chain
    <3> QED
      BY <1>1, <3>1, <3>2
  <2> QED
    BY <2>1, <2>2, <2>3
<1>3. ASSUME Chain(l, p), Chain(l, q), Adj(l, p[Len(p)], q[1])
      PROVE  Chain(l, p \o q)
  <2> SUFFICES ASSUME NEW i \in 1 .. Len(p \o q) - 1
               PROVE  Adj(l, (p \o q)[i], (p \o q)[i + 1])
    BY DEF Chain
  <2>1. CASE i \in 1 .. Len(p) - 1
    <3>1. i \in 1..Len(p) /\ i + 1 \in 1..Len(p)
      BY <1>1, <2>1
    <3>2. Adj(l, p[i], p[i + 1])
      BY <1>3, <2>1 DEF Chain
    <3> QED
      BY <1>1, <3>1, <3>2
  <2>2. CASE i = Len(p)
    <3>1. Len(p) \in 1..Len(p) /\ 1 \in 1..Len(q)
      BY <1>1
    <3> QED
      BY <1>1, <1>3, <2>2, <3>1
  <2>3. CASE i - Len(p) \in 1 .. Len(q) - 1
    <3>1. /\ i - Len(p) \in 1..Len(q) /\ (i - Len(p)) + 1 \in 1..Len(q)
          /\ i = Len(p) + (i - Len(p)) /\ i + 1 = Len(p) + ((i - Len(p)) + 1)
      BY <1>1, <2>3
    <3>2. Adj(l, q[i - Len(p)], q[(i - Len(p)) + 1])
      BY <1>3, <2>3 DEF Chain
    <3> QED
      BY <1>1, <3>1, <3>2
  <2>4. i \in 1 .. Len(p) - 1 \/ i = Len(p) \/ i - Len(p) \in 1 .. Len(q) - 1
    BY <1>1
  <2> QED
    BY <2>1, <2>2, <2>3, <2>4
<1> QED
  BY <1>2, <1>3

\* A cycle can be read from any of its nodes.
LEMMA CycleRotate ==
  ASSUME NEW l, NEW S, NEW p \in Seq(S), NEW q \in Seq(S), Cycle(l, p \o q)
  PROVE  Cycle(l, q \o p)
<1>1. CASE p = << >>
  BY <1>1, ConcatEmptySeq
<1>2. CASE q = << >>
  BY <1>2, ConcatEmptySeq
<1>3. CASE p # << >> /\ q # << >>
  <2>1. Distinct(q \o p)
    BY NodesConcat DEF Cycle
  <2>2. Chain(l, p) /\ Chain(l, q) /\ Adj(l, p[Len(p)], q[1])
    BY <1>3, ChainConcat DEF Cycle
  <2>3. Adj(l, q[Len(q)], p[1])
    <3>1. (p \o q)[1] = p[1] /\ (p \o q)[Len(p \o q)] = q[Len(q)]
      BY <1>3, EndNodes
    <3> QED
      BY <3>1 DEF Cycle
  <2>4. Chain(l, q \o p)
    BY <1>3, <2>2, <2>3, ChainConcat
  <2>5. (q \o p)[1] = q[1] /\ (q \o p)[Len(q \o p)] = p[Len(p)]
    BY <1>3, EndNodes
  <2> QED
    BY <2>1, <2>2, <2>4, <2>5 DEF Cycle
<1> QED
  BY <1>1, <1>2, <1>3

-----------------------------------------------------------------------------
(* Assignments to pointers. *)

\* The two assignments of __list_del, or half of __list_add.
LEMMA LinkFacts ==
  ASSUME NEW N, NEW l \in List(N), NEW x \in N, NEW y \in N
  PROVE  /\ Link(l, x, y) \in List(N)
         /\ \A z \in N : /\ Link(l, x, y).next[z] = IF z = x THEN y ELSE l.next[z]
                         /\ Link(l, x, y).prev[z] = IF z = y THEN x ELSE l.prev[z]
         /\ l.next[x] \in N /\ l.prev[x] \in N
BY DEF Link, List

\* INIT_LIST_HEAD makes an empty list, and changes no other node.
LEMMA InitFacts ==
  ASSUME NEW N, NEW l \in List(N), NEW x \in N
  PROVE  /\ InitListHead(l, x) \in List(N)
         /\ Same(l, InitListHead(l, x), N \ {x})
         /\ Ring(InitListHead(l, x), x, << >>)
<1>1. /\ InitListHead(l, x) \in List(N) /\ Same(l, InitListHead(l, x), N \ {x})
      /\ Adj(InitListHead(l, x), x, x)
  BY DEF InitListHead, List, Same, Adj
<1>2. <<x>> \o << >> = <<x>>
  BY One, ConcatEmptySeq
<1> QED
  BY <1>1, <1>2, One DEF Ring, Cycle

\* A chain stays one when its inner pointers do.
LEMMA ChainFrame ==
  ASSUME NEW l, NEW m, NEW N, NEW p \in Seq(N), Chain(l, p), Distinct(p),
         \A z \in Nodes(p) : z # p[Len(p)] => m.next[z] = l.next[z],
         \A z \in Nodes(p) : z # p[1] => m.prev[z] = l.prev[z]
  PROVE  Chain(m, p)
<1> SUFFICES ASSUME NEW i \in 1 .. Len(p) - 1 PROVE Adj(m, p[i], p[i + 1])
  BY DEF Chain
<1>1. /\ i \in 1..Len(p) /\ i + 1 \in 1..Len(p) /\ Len(p) \in 1..Len(p) /\ 1 \in 1..Len(p)
      /\ i # Len(p) /\ i + 1 # 1
  BY LenProperties
<1>2. p[i] \in Nodes(p) /\ p[i + 1] \in Nodes(p)
  BY <1>1 DEF Nodes
<1>3. p[i] # p[Len(p)] /\ p[i + 1] # p[1]
  BY <1>1 DEF Distinct
<1>4. Adj(l, p[i], p[i + 1])
  BY DEF Chain
<1> QED
  BY <1>2, <1>3, <1>4 DEF Adj

\* A list is what it was when the pointers of its nodes are.
LEMMA CycleSame ==
  ASSUME NEW l, NEW m, NEW N, NEW p \in Seq(N), p # << >>, Cycle(l, p), Same(l, m, Nodes(p))
  PROVE  Cycle(m, p)
<1>1. Chain(m, p)
  BY ChainFrame DEF Cycle, Same
<1>2. p[1] \in Nodes(p) /\ p[Len(p)] \in Nodes(p)
  BY EndNodes
<1> QED
  BY <1>1, <1>2 DEF Cycle, Same, Adj

\* __list_add puts a node between the last and the first of a cycle.
LEMMA CycleAdd ==
  ASSUME NEW N, NEW l \in List(N), NEW p \in Seq(N), p # << >>, Cycle(l, p),
         NEW x \in N, x \notin Nodes(p)
  PROVE  LET m == AddBetween(l, x, p[Len(p)], p[1])
         IN  m \in List(N) /\ Cycle(m, p \o <<x>>) /\ Same(l, m, N \ (Nodes(p) \cup {x}))
<1> DEFINE a == p[Len(p)]
           b == p[1]
           k == Link(l, x, b)
           m == Link(k, a, x)
<1>1. a \in N /\ b \in N /\ a \in Nodes(p) /\ b \in Nodes(p) /\ a # x /\ b # x
  BY EndNodes
<1> HIDE DEF a, b
<1>2. /\ k \in List(N)
      /\ \A z \in N : /\ k.next[z] = IF z = x THEN b ELSE l.next[z]
                      /\ k.prev[z] = IF z = b THEN x ELSE l.prev[z]
  BY <1>1, LinkFacts
<1> HIDE DEF k
<1>10. /\ m \in List(N)
       /\ \A z \in N : /\ m.next[z] = IF z = a THEN x ELSE k.next[z]
                       /\ m.prev[z] = IF z = x THEN a ELSE k.prev[z]
  BY <1>1, <1>2, LinkFacts
<1> HIDE DEF m
<1>3. \A z \in N : /\ m.next[z] = IF z = a THEN x ELSE IF z = x THEN b ELSE l.next[z]
                   /\ m.prev[z] = IF z = x THEN a ELSE IF z = b THEN x ELSE l.prev[z]
  BY <1>2, <1>10
<1>4. Nodes(p) \subseteq N
  BY ElementOfSeq DEF Nodes
<1>5. Chain(m, p)
  <2>1. Chain(l, p) /\ Distinct(p)
    BY DEF Cycle
  <2>2. /\ \A z \in Nodes(p) : z # p[Len(p)] => m.next[z] = l.next[z]
        /\ \A z \in Nodes(p) : z # p[1] => m.prev[z] = l.prev[z]
    BY <1>3, <1>4 DEF a, b
  <2> QED
    BY <2>1, <2>2, ChainFrame
<1>6. Adj(m, a, x) /\ Adj(m, x, b)
  BY <1>1, <1>3 DEF Adj
<1>7. Chain(m, p \o <<x>>) /\ Distinct(p \o <<x>>)
  <2>1. /\ <<x>> \in Seq(N) /\ <<x>> # << >> /\ <<x>>[1] = x /\ Nodes(<<x>>) = {x}
        /\ Distinct(<<x>>) /\ Chain(m, <<x>>)
    BY One
  <2>2. Chain(m, p \o <<x>>)
    BY <1>5, <1>6, <2>1, ChainConcat DEF a
  <2>3. Distinct(p \o <<x>>)
    <3>1. Distinct(p) /\ Nodes(p) \cap Nodes(<<x>>) = {}
      BY <2>1 DEF Cycle
    <3> QED
      BY <2>1, <3>1, NodesConcat
  <2> QED
    BY <2>2, <2>3
<1>8. Cycle(m, p \o <<x>>)
  <2>1. (p \o <<x>>)[1] = b /\ (p \o <<x>>)[Len(p \o <<x>>)] = x
    BY One, EndNodes DEF b
  <2> QED
    BY <1>6, <1>7, <2>1 DEF Cycle
<1>9. Same(l, m, N \ (Nodes(p) \cup {x}))
  BY <1>1, <1>3 DEF Same
<1> QED
  BY <1>8, <1>9, <1>10 DEF AddBetween, m, k, a, b

\* __list_del takes the last node out of a cycle, whose own pointers stay.
LEMMA CycleDel ==
  ASSUME NEW N, NEW l \in List(N), NEW p \in Seq(N), p # << >>,
         NEW x \in N, Cycle(l, p \o <<x>>)
  PROVE  /\ DelEntry(l, x) \in List(N) /\ Cycle(DelEntry(l, x), p)
         /\ Same(l, DelEntry(l, x), N \ Nodes(p))
         /\ x \notin Nodes(p)
<1> DEFINE a == p[Len(p)]
           b == p[1]
           m == Link(l, a, b)
<1>1. /\ a \in N /\ b \in N /\ a \in Nodes(p) /\ b \in Nodes(p)
      /\ (p \o <<x>>)[1] = b /\ (p \o <<x>>)[Len(p \o <<x>>)] = x
  BY One, EndNodes
<1>2. /\ Distinct(p) /\ x \notin Nodes(p) /\ Chain(l, p) /\ Adj(l, a, x) /\ Adj(l, x, b)
  <2>1. Distinct(p) /\ Nodes(p) \cap {x} = {}
    BY One, NodesConcat DEF Cycle
  <2>2. Chain(l, p) /\ Adj(l, a, x)
    <3>1. <<x>> \in Seq(N) /\ <<x>> # << >> /\ <<x>>[1] = x
      BY One
    <3> QED
      BY <3>1, ChainConcat DEF Cycle
  <2> QED
    BY <1>1, <2>1, <2>2 DEF Cycle
<1>3. DelEntry(l, x) = m
  BY <1>2 DEF DelEntry, Adj
<1> HIDE DEF a, b
<1>4. /\ m \in List(N)
      /\ \A z \in N : /\ m.next[z] = IF z = a THEN b ELSE l.next[z]
                      /\ m.prev[z] = IF z = b THEN a ELSE l.prev[z]
  <2>1. a \in N /\ b \in N
    BY <1>1
  <2> QED
    BY <2>1 DEF Link, List
<1>5. Nodes(p) \subseteq N
  BY ElementOfSeq DEF Nodes
<1> HIDE DEF m
<1>6. Chain(m, p)
  <2>1. /\ \A z \in Nodes(p) : z # p[Len(p)] => m.next[z] = l.next[z]
        /\ \A z \in Nodes(p) : z # p[1] => m.prev[z] = l.prev[z]
    BY <1>4, <1>5 DEF a, b
  <2> QED
    BY <1>2, <2>1, ChainFrame
<1>7. Adj(m, a, b)
  BY <1>1, <1>4 DEF Adj
<1>8. Same(l, m, N \ Nodes(p))
  BY <1>1, <1>4 DEF Same
<1> QED
  BY <1>2, <1>3, <1>4, <1>6, <1>7, <1>8 DEF Cycle, a, b

-----------------------------------------------------------------------------
(* One entry. *)

\* A sequence with a head in front of it, or behind it.
LEMMA RingFacts ==
  ASSUME NEW N, NEW h \in N, NEW s \in Seq(N)
  PROVE  /\ <<h>> \o s \in Seq(N) /\ <<h>> \o s # << >> /\ (<<h>> \o s)[1] = h
         /\ Nodes(<<h>> \o s) = {h} \cup Nodes(s)
         /\ s \o <<h>> \in Seq(N) /\ s \o <<h>> # << >>
         /\ (s \o <<h>>)[Len(s \o <<h>>)] = h
         /\ Nodes(s \o <<h>>) = {h} \cup Nodes(s)
<1>1. /\ <<h>> \in Seq(N) /\ <<h>> # << >> /\ Len(<<h>>) = 1 /\ <<h>>[1] = h
      /\ Nodes(<<h>>) = {h}
  BY One
<1>2. /\ <<h>> \o s \in Seq(N) /\ <<h>> \o s # << >> /\ (<<h>> \o s)[1] = h
      /\ s \o <<h>> \in Seq(N) /\ s \o <<h>> # << >>
      /\ (s \o <<h>>)[Len(s \o <<h>>)] = h
  BY <1>1, EndNodes
<1>3. /\ Nodes(<<h>> \o s) = Nodes(<<h>>) \cup Nodes(s)
      /\ Nodes(s \o <<h>>) = Nodes(s) \cup Nodes(<<h>>)
  BY <1>1, NodesConcat
<1> QED
  BY <1>1, <1>2, <1>3

\* A new task goes to the end of send_task_list, and nothing else moves.
THEOREM AddTailAppends ==
  ASSUME NEW N, NEW l \in List(N), NEW h \in N, NEW s \in Seq(N), Ring(l, h, s),
         NEW x \in N, x \notin {h} \cup Nodes(s)
  PROVE  /\ AddTail(l, x, h) \in List(N)
         /\ Ring(AddTail(l, x, h), h, s \o <<x>>)
         /\ Same(l, AddTail(l, x, h), N \ ({h} \cup Nodes(s) \cup {x}))
<1> DEFINE p == <<h>> \o s
<1>1. /\ p \in Seq(N) /\ p # << >> /\ p[1] = h /\ Nodes(p) = {h} \cup Nodes(s)
      /\ <<h>> \in Seq(N) /\ <<x>> \in Seq(N)
  BY RingFacts, One
<1>2. Cycle(l, p) /\ l.prev[h] = p[Len(p)]
  BY <1>1 DEF Ring, Cycle, Adj
<1>3. p \o <<x>> = <<h>> \o (s \o <<x>>)
  BY <1>1, ConcatAssociative
<1> DEFINE m == AddBetween(l, x, p[Len(p)], p[1])
<1>4. AddTail(l, x, h) = m
  BY <1>1, <1>2 DEF AddTail
<1> HIDE DEF p
<1>5. m \in List(N) /\ Cycle(m, p \o <<x>>) /\ Same(l, m, N \ (Nodes(p) \cup {x}))
  BY <1>1, <1>2, CycleAdd
<1> QED
  BY <1>1, <1>3, <1>4, <1>5 DEF Ring

\* A new device goes to the front of dev_list.
THEOREM AddPrepends ==
  ASSUME NEW N, NEW l \in List(N), NEW h \in N, NEW s \in Seq(N), Ring(l, h, s),
         NEW x \in N, x \notin {h} \cup Nodes(s)
  PROVE  /\ ListAdd(l, x, h) \in List(N)
         /\ Ring(ListAdd(l, x, h), h, <<x>> \o s)
         /\ Same(l, ListAdd(l, x, h), N \ ({h} \cup Nodes(s) \cup {x}))
<1> DEFINE p == s \o <<h>>
<1>1. /\ p \in Seq(N) /\ p # << >> /\ p[Len(p)] = h /\ Nodes(p) = {h} \cup Nodes(s)
      /\ <<h>> \in Seq(N) /\ <<x>> \in Seq(N) /\ <<h>> \o <<x>> \in Seq(N)
      /\ <<x>> \o s \in Seq(N)
  BY RingFacts, One
<1>2. Cycle(l, p) /\ l.next[h] = p[1]
  <2>1. Cycle(l, p)
    BY <1>1, CycleRotate DEF Ring
  <2> QED
    BY <1>1, <2>1 DEF Cycle, Adj
<1>3. /\ p \o <<x>> = s \o (<<h>> \o <<x>>)
      /\ (<<h>> \o <<x>>) \o s = <<h>> \o (<<x>> \o s)
  BY <1>1, ConcatAssociative
<1> DEFINE m == AddBetween(l, x, p[Len(p)], p[1])
<1>4. ListAdd(l, x, h) = m
  BY <1>1, <1>2 DEF ListAdd
<1> HIDE DEF p
<1>5. m \in List(N) /\ Cycle(m, p \o <<x>>) /\ Same(l, m, N \ (Nodes(p) \cup {x}))
  BY <1>1, <1>2, CycleAdd
<1> HIDE DEF m
<1>6. Cycle(m, (<<h>> \o <<x>>) \o s)
  <2>1. Cycle(m, s \o (<<h>> \o <<x>>))
    BY <1>3, <1>5
  <2> QED
    BY <1>1, <2>1, CycleRotate
<1> QED
  BY <1>1, <1>3, <1>4, <1>5, <1>6 DEF Ring

\* The list without an entry: __list_del_entry.
LEMMA DelEntryRemoves ==
  ASSUME NEW N, NEW l \in List(N), NEW h \in N, NEW s \in Seq(N), NEW x \in N,
         NEW t \in Seq(N), Ring(l, h, s \o <<x>> \o t)
  PROVE  /\ DelEntry(l, x) \in List(N)
         /\ Ring(DelEntry(l, x), h, s \o t)
         /\ Same(l, DelEntry(l, x), N \ ({h} \cup Nodes(s \o t)))
         /\ x \notin {h} \cup Nodes(s \o t)
<1> DEFINE a == <<h>> \o s
           p == t \o a
<1>1. /\ <<h>> \in Seq(N) /\ <<x>> \in Seq(N) /\ a \in Seq(N) /\ a # << >>
      /\ s \o <<x>> \in Seq(N) /\ a \o <<x>> \in Seq(N) /\ s \o t \in Seq(N)
      /\ Nodes(a) = {h} \cup Nodes(s)
  BY RingFacts, One, EndNodes
<1>2. /\ <<h>> \o ((s \o <<x>>) \o t) = (<<h>> \o (s \o <<x>>)) \o t
      /\ <<h>> \o (s \o <<x>>) = a \o <<x>>
      /\ a \o t = <<h>> \o (s \o t)
  BY SMTT(30), <1>1, ConcatAssociative
<1> HIDE DEF a
<1>3. t \o (a \o <<x>>) = p \o <<x>>
  BY <1>1, ConcatAssociative
<1>4. Cycle(l, p \o <<x>>)
  <2>1. Cycle(l, (a \o <<x>>) \o t)
    BY <1>2 DEF Ring
  <2> QED
    BY <1>1, <1>3, <2>1, CycleRotate
<1>5. /\ p \in Seq(N) /\ p # << >> /\ Nodes(p) = Nodes(t) \cup Nodes(a)
      /\ Nodes(s \o t) = Nodes(s) \cup Nodes(t)
  BY <1>1, EndNodes, NodesConcat
<1> DEFINE m == DelEntry(l, x)
<1> HIDE DEF p
<1>6. /\ m \in List(N) /\ Cycle(m, p) /\ Same(l, m, N \ Nodes(p)) /\ x \notin Nodes(p)
  BY <1>4, <1>5, CycleDel
<1> HIDE DEF m
<1>7. Cycle(m, a \o t)
  BY <1>1, <1>6, CycleRotate DEF p
<1>8. {h} \cup Nodes(s \o t) = Nodes(p)
  BY <1>1, <1>5
<1> QED
  BY <1>2, <1>6, <1>7, <1>8 DEF Ring, m

\* hmr_send_task_handler unlinks a task with list_del_init: the others stay, in
\* order, and the task is a list of its own.
THEOREM DelInitRemoves ==
  ASSUME NEW N, NEW l \in List(N), NEW h \in N, NEW s \in Seq(N), NEW x \in N,
         NEW t \in Seq(N), Ring(l, h, s \o <<x>> \o t)
  PROVE  /\ ListDelInit(l, x) \in List(N)
         /\ Ring(ListDelInit(l, x), h, s \o t)
         /\ Ring(ListDelInit(l, x), x, << >>)
         /\ Same(l, ListDelInit(l, x), N \ ({h, x} \cup Nodes(s \o t)))
<1> DEFINE d == DelEntry(l, x)
           m == InitListHead(d, x)
           r == s \o t
<1>1. /\ d \in List(N) /\ Ring(d, h, r) /\ Same(l, d, N \ ({h} \cup Nodes(r)))
      /\ x \notin {h} \cup Nodes(r)
  BY DelEntryRemoves
<1>2. r \in Seq(N)
  BY EndNodes
<1> HIDE DEF d, r
<1>3. m \in List(N) /\ Same(d, m, N \ {x}) /\ Ring(m, x, << >>)
  BY <1>1, InitFacts
<1> DEFINE p == <<h>> \o r
<1>4. p \in Seq(N) /\ p # << >> /\ Nodes(p) = {h} \cup Nodes(r)
  BY <1>2, RingFacts
<1>5. Nodes(p) \subseteq N \ {x}
  BY <1>1, <1>4, ElementOfSeq DEF Nodes
<1>6. Cycle(d, p)
  BY <1>1 DEF Ring
<1> HIDE DEF m, p
<1>7. Same(d, m, Nodes(p))
  BY <1>3, <1>5 DEF Same
<1>8. Cycle(m, p)
  BY <1>4, <1>6, <1>7, CycleSame
<1>9. Same(l, m, N \ ({h, x} \cup Nodes(r)))
  BY <1>1, <1>3 DEF Same
<1> QED
  BY <1>3, <1>8, <1>9 DEF Ring, ListDelInit, d, m, p, r

\* list_del takes an entry out and leaves poison in its pointers.
THEOREM DelRemoves ==
  ASSUME NEW N, NEW l \in List(N), NEW h \in N, NEW s \in Seq(N), NEW x \in N,
         NEW t \in Seq(N), NEW poison \in N, Ring(l, h, s \o <<x>> \o t)
  PROVE  LET m == ListDel(l, x, poison)
         IN  /\ Ring(m, h, s \o t)
             /\ m.next[x] = poison /\ m.prev[x] = poison
             /\ Same(l, m, N \ ({h, x} \cup Nodes(s \o t)))
<1> DEFINE d == DelEntry(l, x)
           m == ListDel(l, x, poison)
           r == s \o t
<1>1. /\ d \in List(N) /\ Ring(d, h, r) /\ Same(l, d, N \ ({h} \cup Nodes(r)))
      /\ x \notin {h} \cup Nodes(r)
  BY DelEntryRemoves
<1>2. r \in Seq(N)
  BY EndNodes
<1>3. m = [next |-> [d.next EXCEPT ![x] = poison], prev |-> [d.prev EXCEPT ![x] = poison]]
  BY DEF ListDel
<1> HIDE DEF d, r, m
<1>4. Same(d, m, N \ {x}) /\ m.next[x] = poison /\ m.prev[x] = poison
  BY <1>1, <1>3 DEF Same, List
<1> DEFINE p == <<h>> \o r
<1>5. p \in Seq(N) /\ p # << >> /\ Nodes(p) = {h} \cup Nodes(r)
  BY <1>2, RingFacts
<1>6. Nodes(p) \subseteq N \ {x}
  BY <1>1, <1>5, ElementOfSeq DEF Nodes
<1>7. Cycle(d, p)
  BY <1>1 DEF Ring
<1> HIDE DEF p
<1>8. Same(d, m, Nodes(p))
  BY <1>4, <1>6 DEF Same
<1>9. Cycle(m, p)
  BY <1>5, <1>7, <1>8, CycleSame
<1>10. Same(l, m, N \ ({h, x} \cup Nodes(r)))
  BY <1>1, <1>4 DEF Same
<1> QED
  BY <1>4, <1>9, <1>10 DEF Ring, p, r, m

\* An entry moves to the front or the end of its own list.
THEOREM MoveMoves ==
  ASSUME NEW N, NEW l \in List(N), NEW h \in N, NEW s \in Seq(N), NEW x \in N,
         NEW t \in Seq(N), Ring(l, h, s \o <<x>> \o t)
  PROVE  /\ Ring(ListMove(l, x, h), h, <<x>> \o (s \o t))
         /\ Ring(ListMoveTail(l, x, h), h, (s \o t) \o <<x>>)
<1> DEFINE d == DelEntry(l, x)
           r == s \o t
<1>1. d \in List(N) /\ Ring(d, h, r) /\ x \notin {h} \cup Nodes(r)
  BY DelEntryRemoves
<1>2. r \in Seq(N)
  BY EndNodes
<1> HIDE DEF d, r
<1>3. Ring(ListAdd(d, x, h), h, <<x>> \o r)
  BY <1>1, <1>2, AddPrepends
<1>4. Ring(AddTail(d, x, h), h, r \o <<x>>)
  BY <1>1, <1>2, AddTailAppends
<1> QED
  BY <1>3, <1>4 DEF ListMove, ListMoveTail, d, r

\* An entry moves from its list to the front or the end of another.
THEOREM MoveToAnother ==
  ASSUME NEW N, NEW l \in List(N), NEW h \in N, NEW s \in Seq(N), NEW x \in N,
         NEW t \in Seq(N), Ring(l, h, s \o <<x>> \o t),
         NEW g \in N, NEW u \in Seq(N), Ring(l, g, u),
         ({g} \cup Nodes(u)) \cap ({h, x} \cup Nodes(s \o t)) = {}
  PROVE  /\ LET m == ListMove(l, x, g) IN Ring(m, h, s \o t) /\ Ring(m, g, <<x>> \o u)
         /\ LET m == ListMoveTail(l, x, g) IN Ring(m, h, s \o t) /\ Ring(m, g, u \o <<x>>)
<1> DEFINE d == DelEntry(l, x)
           r == s \o t
           p == <<h>> \o r
           q == <<g>> \o u
<1>1. /\ d \in List(N) /\ Ring(d, h, r) /\ Same(l, d, N \ ({h} \cup Nodes(r)))
      /\ x \notin {h} \cup Nodes(r)
  BY DelEntryRemoves
<1>2. r \in Seq(N)
  BY EndNodes
<1> HIDE DEF r
<1>3. /\ p \in Seq(N) /\ p # << >> /\ Nodes(p) = {h} \cup Nodes(r)
      /\ q \in Seq(N) /\ q # << >> /\ Nodes(q) = {g} \cup Nodes(u)
  <2>1. p \in Seq(N) /\ p # << >> /\ Nodes(p) = {h} \cup Nodes(r)
    BY <1>2, RingFacts
  <2>2. q \in Seq(N) /\ q # << >> /\ Nodes(q) = {g} \cup Nodes(u)
    BY RingFacts
  <2> QED
    BY <2>1, <2>2
<1>4. Nodes(q) \subseteq N /\ Nodes(p) \subseteq N
  BY <1>3, ElementOfSeq DEF Nodes
<1>5. Cycle(d, p) /\ Cycle(l, q)
  BY <1>1 DEF Ring
<1>6. Nodes(q) \cap Nodes(p) = {} /\ x \notin Nodes(p) /\ x \notin Nodes(q)
  BY <1>1, <1>3 DEF r
<1> HIDE DEF d, p, q
<1>7. Same(l, d, Nodes(q))
  BY <1>1, <1>3, <1>4, <1>6 DEF Same
<1>8. Ring(d, g, u)
  BY <1>3, <1>5, <1>7, CycleSame DEF Ring, q
<1>9. x \notin {g} \cup Nodes(u)
  BY <1>3, <1>6
<1>10. ASSUME NEW m, Same(d, m, N \ ({g} \cup Nodes(u) \cup {x}))
       PROVE  Ring(m, h, r)
  <2>1. Same(d, m, Nodes(p))
    BY <1>3, <1>4, <1>6, <1>10 DEF Same
  <2> QED
    BY <1>3, <1>5, <2>1, CycleSame DEF Ring, p
<1>11. /\ Ring(ListAdd(d, x, g), g, <<x>> \o u)
       /\ Same(d, ListAdd(d, x, g), N \ ({g} \cup Nodes(u) \cup {x}))
  BY <1>1, <1>8, <1>9, AddPrepends
<1>12. /\ Ring(AddTail(d, x, g), g, u \o <<x>>)
       /\ Same(d, AddTail(d, x, g), N \ ({g} \cup Nodes(u) \cup {x}))
  BY <1>1, <1>8, <1>9, AddTailAppends
<1>13. Ring(ListAdd(d, x, g), h, r) /\ Ring(AddTail(d, x, g), h, r)
  BY <1>10, <1>11, <1>12
<1> QED
  BY <1>11, <1>12, <1>13 DEF ListMove, ListMoveTail, d, r

\* list_replace in a cycle, and in one that has no other node.
LEMMA CycleReplace ==
  ASSUME NEW N, NEW l \in List(N), NEW p \in Seq(N), NEW x \in N, NEW y \in N,
         Cycle(l, p \o <<x>>), y \notin Nodes(p), y # x
  PROVE  /\ ListReplace(l, x, y) \in List(N)
         /\ Cycle(ListReplace(l, x, y), p \o <<y>>)
         /\ Same(l, ListReplace(l, x, y), N \ (Nodes(p) \cup {x, y}))
<1> DEFINE b == l.next[x]
           k == Link(l, y, b)
           a == k.prev[x]
           m == Link(k, a, y)
<1>1. ListReplace(l, x, y) = m
  BY DEF ListReplace
<1>2. b \in N
  BY DEF List
<1> HIDE DEF b
<1>3. /\ k \in List(N)
      /\ \A z \in N : /\ k.next[z] = IF z = y THEN b ELSE l.next[z]
                      /\ k.prev[z] = IF z = b THEN y ELSE l.prev[z]
  BY <1>2, LinkFacts
<1>4. a \in N /\ a = IF x = b THEN y ELSE l.prev[x]
  BY <1>3 DEF List
<1> HIDE DEF k, a
<1>5. /\ m \in List(N)
      /\ \A z \in N : /\ m.next[z] = IF z = a THEN y ELSE k.next[z]
                      /\ m.prev[z] = IF z = y THEN a ELSE k.prev[z]
  BY <1>3, <1>4, LinkFacts
<1> HIDE DEF m
<1>6. /\ <<x>> \in Seq(N) /\ <<x>> # << >> /\ Len(<<x>>) = 1 /\ <<x>>[1] = x
      /\ <<y>> \in Seq(N) /\ <<y>> # << >> /\ Len(<<y>>) = 1 /\ <<y>>[1] = y
      /\ Nodes(<<x>>) = {x} /\ Nodes(<<y>>) = {y}
      /\ Distinct(<<y>>) /\ Chain(m, <<y>>)
  BY One
<1>7. (p \o <<x>>)[Len(p \o <<x>>)] = x /\ (p \o <<y>>)[Len(p \o <<y>>)] = y
  BY <1>6, EndNodes
<1>8. b = (p \o <<x>>)[1] /\ l.prev[b] = x
  BY <1>7 DEF Cycle, Adj, b
<1>9. CASE p = << >>
  <2>1. p \o <<x>> = <<x>> /\ p \o <<y>> = <<y>> /\ Nodes(p) = {}
    BY <1>6, <1>9, ConcatEmptySeq DEF Nodes
  <2>2. b = x /\ a = y
    BY <1>4, <1>6, <1>8, <2>1
  <2>3. Adj(m, y, y)
    BY <1>5, <2>2 DEF Adj
  <2>4. Same(l, m, N \ (Nodes(p) \cup {x, y}))
    BY <1>3, <1>5, <2>2 DEF Same
  <2> QED
    BY ZenonT(60), <1>1, <1>5, <1>6, <2>1, <2>3, <2>4 DEF Cycle
<1>10. CASE p # << >>
  <2>1. /\ (p \o <<x>>)[1] = p[1] /\ (p \o <<y>>)[1] = p[1]
        /\ p[1] \in Nodes(p) /\ p[Len(p)] \in Nodes(p) /\ p[Len(p)] \in N /\ p[1] \in N
    BY <1>6, <1>10, EndNodes
  <2>2. Distinct(p) /\ Nodes(p) \cap Nodes(<<x>>) = {}
    BY <1>6, NodesConcat DEF Cycle
  <2>3. Chain(l, p) /\ Adj(l, p[Len(p)], x)
    BY ZenonT(60), <1>6, <1>10, ChainConcat DEF Cycle
  <2>4. b = p[1] /\ b # x /\ a = p[Len(p)] /\ a # x /\ x \notin Nodes(p)
    BY <1>4, <1>6, <1>8, <2>1, <2>2, <2>3 DEF Adj
  <2>5. \A z \in N : /\ m.next[z] = IF z = a THEN y ELSE IF z = y THEN b ELSE l.next[z]
                     /\ m.prev[z] = IF z = y THEN a ELSE IF z = b THEN y ELSE l.prev[z]
    BY <1>3, <1>5
  <2>6. Nodes(p) \subseteq N
    BY ElementOfSeq DEF Nodes
  <2>7. Chain(m, p)
    <3>1. /\ \A z \in Nodes(p) : z # p[Len(p)] => m.next[z] = l.next[z]
          /\ \A z \in Nodes(p) : z # p[1] => m.prev[z] = l.prev[z]
      BY <2>4, <2>5, <2>6
    <3> QED
      BY <2>2, <2>3, <3>1, ChainFrame
  <2>8. Adj(m, p[Len(p)], y) /\ Adj(m, y, p[1])
    BY <2>1, <2>4, <2>5 DEF Adj
  <2>9. Chain(m, p \o <<y>>)
    BY <1>6, <1>10, <2>7, <2>8, ChainConcat
  <2>10. Distinct(p \o <<y>>)
    <3>1. Nodes(p) \cap Nodes(<<y>>) = {}
      BY <1>6
    <3> QED
      BY <1>6, <2>2, <3>1, NodesConcat
  <2>11. Same(l, m, N \ (Nodes(p) \cup {x, y}))
    BY <2>1, <2>4, <2>5 DEF Same
  <2> QED
    BY <1>1, <1>5, <1>7, <2>1, <2>8, <2>9, <2>10, <2>11 DEF Cycle
<1> QED
  BY <1>9, <1>10

\* A node takes the place of another in its list.
THEOREM ReplaceReplaces ==
  ASSUME NEW N, NEW l \in List(N), NEW h \in N, NEW s \in Seq(N), NEW x \in N,
         NEW t \in Seq(N), Ring(l, h, s \o <<x>> \o t),
         NEW y \in N, y \notin {h, x} \cup Nodes(s \o t)
  PROVE  Ring(ListReplace(l, x, y), h, s \o <<y>> \o t)
<1> DEFINE a == <<h>> \o s
           p == t \o a
           m == ListReplace(l, x, y)
<1>1. /\ <<h>> \in Seq(N) /\ a \in Seq(N) /\ a # << >> /\ Nodes(a) = {h} \cup Nodes(s)
      /\ Nodes(s \o t) = Nodes(s) \cup Nodes(t)
  BY RingFacts, One, NodesConcat
<1>2. ASSUME NEW z \in N
      PROVE  /\ <<h>> \o ((s \o <<z>>) \o t) = (a \o <<z>>) \o t
             /\ t \o (a \o <<z>>) = p \o <<z>>
             /\ a \o <<z>> \in Seq(N)
  <2>1. <<z>> \in Seq(N) /\ s \o <<z>> \in Seq(N) /\ a \o <<z>> \in Seq(N)
    BY <1>1, One, EndNodes
  <2>2. /\ <<h>> \o ((s \o <<z>>) \o t) = (<<h>> \o (s \o <<z>>)) \o t
        /\ <<h>> \o (s \o <<z>>) = a \o <<z>>
    BY SMTT(30), <1>1, <2>1, ConcatAssociative
  <2> HIDE DEF a
  <2>3. t \o (a \o <<z>>) = p \o <<z>>
    BY <1>1, <2>1, ConcatAssociative
  <2> QED
    BY <2>1, <2>2, <2>3
<1> HIDE DEF a
<1>3. p \in Seq(N) /\ Nodes(p) = Nodes(t) \cup Nodes(a)
  BY <1>1, EndNodes, NodesConcat
<1>4. Cycle(l, p \o <<x>>)
  <2>1. Cycle(l, (a \o <<x>>) \o t)
    BY <1>2 DEF Ring
  <2> QED
    BY <1>2, <2>1, CycleRotate
<1>5. y \notin Nodes(p) /\ y # x
  BY <1>1, <1>3
<1> HIDE DEF p
<1>6. Cycle(m, p \o <<y>>)
  BY <1>3, <1>4, <1>5, CycleReplace
<1> HIDE DEF m
<1>7. Cycle(m, (a \o <<y>>) \o t)
  <2>1. Cycle(m, t \o (a \o <<y>>))
    BY <1>2, <1>6 DEF p
  <2> QED
    BY <1>2, <2>1, CycleRotate
<1> QED
  BY <1>2, <1>7 DEF Ring, m

\* A head takes the place of another, and what list_replace says of an empty old
\* one is true: the new one is overwritten, and is empty too.
THEOREM ReplaceHead ==
  ASSUME NEW N, NEW l \in List(N), NEW h \in N, NEW s \in Seq(N), Ring(l, h, s),
         NEW g \in N, g \notin {h} \cup Nodes(s)
  PROVE  /\ Ring(ListReplace(l, h, g), g, s)
         /\ Ring(ListReplaceInit(l, h, g), g, s)
         /\ Ring(ListReplaceInit(l, h, g), h, << >>)
<1> DEFINE m == ListReplace(l, h, g)
           k == InitListHead(m, h)
           q == <<g>> \o s
<1>1. <<h>> \in Seq(N) /\ <<g>> \in Seq(N)
  BY One
<1>2. Cycle(l, s \o <<h>>)
  BY <1>1, CycleRotate DEF Ring
<1>3. m \in List(N) /\ Cycle(m, s \o <<g>>)
  BY <1>2, CycleReplace
<1>4. Cycle(m, q)
  BY <1>1, <1>3, CycleRotate
<1>5. q \in Seq(N) /\ q # << >> /\ Nodes(q) = {g} \cup Nodes(s)
  BY RingFacts
<1>6. h \notin Nodes(q)
  <2>1. Nodes(<<h>>) = {h} /\ Nodes(s) \cap Nodes(<<h>>) = {}
    BY <1>1, <1>2, One, NodesConcat DEF Cycle
  <2> QED
    BY <1>5, <2>1
<1>7. Nodes(q) \subseteq N \ {h}
  BY <1>5, <1>6, ElementOfSeq DEF Nodes
<1> HIDE DEF m, q
<1>8. k \in List(N) /\ Same(m, k, N \ {h}) /\ Ring(k, h, << >>)
  BY <1>3, InitFacts
<1> HIDE DEF k
<1>9. Same(m, k, Nodes(q))
  BY <1>7, <1>8 DEF Same
<1>10. Cycle(k, q)
  BY <1>4, <1>5, <1>9, CycleSame
<1> QED
  BY <1>4, <1>8, <1>10 DEF ListReplaceInit, Ring, m, k, q

-----------------------------------------------------------------------------
(* Tests, and where the head points to. *)

\* What the head of a list points to.
LEMMA HeadFacts ==
  ASSUME NEW N, NEW l \in List(N), NEW h \in N, NEW s \in Seq(N), Ring(l, h, s)
  PROVE  /\ s = << >> => l.next[h] = h /\ l.prev[h] = h
         /\ s # << >> => /\ l.next[h] = s[1] /\ l.prev[h] = s[Len(s)]
                         /\ l.next[s[Len(s)]] = h /\ l.prev[s[1]] = h
                         /\ Len(s) \in Nat \ {0} /\ s[1] \in N /\ s[Len(s)] \in N
         /\ h \notin Nodes(s) /\ Distinct(s) /\ Chain(l, s)
<1>1. /\ <<h>> \in Seq(N) /\ <<h>> # << >> /\ Len(<<h>>) = 1 /\ <<h>>[1] = h
      /\ Nodes(<<h>>) = {h}
  BY One
<1>2. Cycle(l, <<h>> \o s)
  BY DEF Ring
<1>3. h \notin Nodes(s) /\ Distinct(s)
  BY <1>1, <1>2, NodesConcat DEF Cycle
<1>4. CASE s = << >>
  <2>1. <<h>> \o s = <<h>>
    BY <1>1, <1>4, ConcatEmptySeq
  <2>2. Adj(l, h, h)
    BY <1>1, <1>2, <2>1 DEF Cycle
  <2>3. Chain(l, s)
    BY <1>4 DEF Chain
  <2> QED
    BY <1>3, <1>4, <2>2, <2>3 DEF Adj
<1>5. CASE s # << >>
  <2>1. Chain(l, s) /\ Adj(l, h, s[1])
    BY <1>1, <1>2, <1>5, ChainConcat DEF Cycle
  <2>2. (<<h>> \o s)[1] = h /\ (<<h>> \o s)[Len(<<h>> \o s)] = s[Len(s)]
    BY <1>1, <1>5, EndNodes
  <2>3. Adj(l, s[Len(s)], h)
    BY <1>2, <2>2 DEF Cycle
  <2>4. Len(s) \in Nat \ {0} /\ s[1] \in N /\ s[Len(s)] \in N
    BY <1>5, EndNodes
  <2> QED
    BY <1>3, <1>5, <2>1, <2>3, <2>4 DEF Adj
<1> QED
  BY <1>4, <1>5

\* list_empty, its careful form and list_is_singular tell how long the list is,
\* list_is_last which entry is the last, and first and last entry are those.
THEOREM TestsTell ==
  ASSUME NEW N, NEW l \in List(N), NEW h \in N, NEW s \in Seq(N), Ring(l, h, s),
         NEW null
  PROVE  /\ ListEmpty(l, h) <=> s = << >>
         /\ ListEmptyCareful(l, h) <=> s = << >>
         /\ ListIsSingular(l, h) <=> Len(s) = 1
         /\ \A i \in 1..Len(s) : ListIsLast(l, s[i], h) <=> i = Len(s)
         /\ s # << >> => FirstEntry(l, h) = s[1] /\ LastEntry(l, h) = s[Len(s)]
         /\ FirstEntryOrNull(l, h, null) = IF s = << >> THEN null ELSE s[1]
<1>0. s = << >> => l.next[h] = h /\ l.prev[h] = h
  <2>1. /\ s = << >> => l.next[h] = h /\ l.prev[h] = h
        /\ s # << >> => /\ l.next[h] = s[1] /\ l.prev[h] = s[Len(s)]
                        /\ l.next[s[Len(s)]] = h /\ l.prev[s[1]] = h
                        /\ Len(s) \in Nat \ {0} /\ s[1] \in N /\ s[Len(s)] \in N
        /\ h \notin Nodes(s) /\ Distinct(s) /\ Chain(l, s)
    BY HeadFacts, Zenon
  <2> QED
    BY <2>1
<1>1. CASE s = << >>
  <2>1. Len(s) = 0
    BY <1>1
  <2>2. l.next[h] = h /\ l.prev[h] = h
    BY <1>0, <1>1
  <2> QED
    BY <1>1, <2>1, <2>2 DEF ListEmpty, ListEmptyCareful, ListIsSingular, FirstEntryOrNull
<1>2. CASE s # << >>
  <2>1. /\ l.next[h] = s[1] /\ l.prev[h] = s[Len(s)] /\ l.next[s[Len(s)]] = h
        /\ Len(s) \in Nat \ {0} /\ h \notin Nodes(s) /\ Distinct(s) /\ Chain(l, s)
    BY <1>2, HeadFacts
  <2>2. 1 \in 1..Len(s) /\ Len(s) \in 1..Len(s)
    BY <2>1
  <2>3. s[1] # h /\ s[Len(s)] # h
    BY <2>1, <2>2 DEF Nodes
  <2>4. s[1] = s[Len(s)] <=> Len(s) = 1
    BY <2>1, <2>2 DEF Distinct
  <2>5. ASSUME NEW i \in 1..Len(s), i # Len(s) PROVE l.next[s[i]] # h
    <3>1. i \in 1 .. Len(s) - 1 /\ i + 1 \in 1..Len(s)
      BY <2>1, <2>5
    <3>2. l.next[s[i]] = s[i + 1]
      BY <2>1, <3>1 DEF Chain, Adj
    <3> QED
      BY <2>1, <3>1, <3>2 DEF Nodes
  <2>6. ~ListEmpty(l, h) /\ ~ListEmptyCareful(l, h)
    BY <2>1, <2>3 DEF ListEmpty, ListEmptyCareful
  <2>7. ListIsSingular(l, h) <=> Len(s) = 1
    BY <2>1, <2>4, <2>6 DEF ListIsSingular
  <2>8. \A i \in 1..Len(s) : ListIsLast(l, s[i], h) <=> i = Len(s)
    BY <2>1, <2>5 DEF ListIsLast
  <2>9. FirstEntry(l, h) = s[1] /\ LastEntry(l, h) = s[Len(s)]
    BY <2>1 DEF FirstEntry, LastEntry
  <2>10. FirstEntryOrNull(l, h, null) = s[1]
    BY <2>1, <2>6 DEF FirstEntryOrNull
  <2> QED
    BY <1>2, <2>6, <2>7, <2>8, <2>9, <2>10
<1> QED
  BY <1>1, <1>2

\* list_rotate_left puts the first entry last, and leaves an empty list alone.
THEOREM RotateRotates ==
  ASSUME NEW N, NEW l \in List(N), NEW h \in N
  PROVE  /\ Ring(l, h, << >>) => ListRotateLeft(l, h) = l
         /\ \A x \in N, t \in Seq(N) :
              Ring(l, h, <<x>> \o t) => Ring(ListRotateLeft(l, h), h, t \o <<x>>)
<1>1. ASSUME Ring(l, h, << >>) PROVE ListRotateLeft(l, h) = l
  <2>1. << >> \in Seq(N)
    OBVIOUS
  <2>2. ListEmpty(l, h)
    BY <1>1, <2>1, TestsTell
  <2> QED
    BY <2>2 DEF ListRotateLeft
<1>2. ASSUME NEW x \in N, NEW t \in Seq(N), Ring(l, h, <<x>> \o t)
      PROVE  Ring(ListRotateLeft(l, h), h, t \o <<x>>)
  <2> DEFINE s == <<x>> \o t
  <2>1. s \in Seq(N) /\ s # << >> /\ s[1] = x
    BY RingFacts
  <2>2. << >> \in Seq(N) /\ <<x>> \in Seq(N) /\ << >> \o <<x>> = <<x>> /\ << >> \o t = t
    BY One, ConcatEmptySeq
  <2> HIDE DEF s
  <2>3. Ring(l, h, s)
    BY <1>2 DEF s
  <2>4. ~ListEmpty(l, h) /\ l.next[h] = x
    <3>1. ListEmpty(l, h) <=> s = << >>
      BY <2>1, <2>3, TestsTell
    <3> QED
      BY <2>1, <2>3, <3>1, HeadFacts
  <2>5. Ring(ListMoveTail(l, x, h), h, (<< >> \o t) \o <<x>>)
    <3>1. Ring(l, h, << >> \o <<x>> \o t)
      BY <2>2, <2>3 DEF s
    <3> QED
      BY <2>2, <3>1, MoveMoves
  <2> QED
    BY <2>2, <2>4, <2>5 DEF ListRotateLeft
<1> QED
  BY <1>1, <1>2

-----------------------------------------------------------------------------
(* Whole lists. *)

\* __list_splice puts the entries of one cycle between the last and the first of
\* another.
LEMMA CycleSplice ==
  ASSUME NEW N, NEW l \in List(N), NEW p \in Seq(N), p # << >>, Cycle(l, p),
         NEW g \in N, NEW t \in Seq(N), t # << >>, Ring(l, g, t),
         ({g} \cup Nodes(t)) \cap Nodes(p) = {}
  PROVE  LET m == SpliceBetween(l, g, p[Len(p)], p[1])
         IN  m \in List(N) /\ Cycle(m, p \o t) /\ Same(l, m, N \ (Nodes(p) \cup Nodes(t)))
<1> DEFINE a == p[Len(p)]
           b == p[1]
           c == t[1]
           e == t[Len(t)]
           k == Link(l, a, c)
           m == Link(k, e, b)
<1>1. /\ a \in N /\ b \in N /\ a \in Nodes(p) /\ b \in Nodes(p)
      /\ c \in N /\ e \in N /\ c \in Nodes(t) /\ e \in Nodes(t)
  BY EndNodes
<1>2. l.next[g] = c /\ l.prev[g] = e /\ Distinct(t) /\ Chain(l, t)
  BY HeadFacts
<1>3. SpliceBetween(l, g, a, b) = m
  BY <1>2 DEF SpliceBetween
<1>4. a \notin Nodes(t) /\ b \notin Nodes(t) /\ c \notin Nodes(p) /\ e \notin Nodes(p)
  BY <1>1
<1> HIDE DEF a, b, c, e
<1>5. /\ k \in List(N)
      /\ \A z \in N : /\ k.next[z] = IF z = a THEN c ELSE l.next[z]
                      /\ k.prev[z] = IF z = c THEN a ELSE l.prev[z]
  BY <1>1, LinkFacts
<1> HIDE DEF k
<1>6. /\ m \in List(N)
      /\ \A z \in N : /\ m.next[z] = IF z = e THEN b ELSE k.next[z]
                      /\ m.prev[z] = IF z = b THEN e ELSE k.prev[z]
  BY <1>1, <1>5, LinkFacts
<1> HIDE DEF m
<1>7. \A z \in N : /\ m.next[z] = IF z = e THEN b ELSE IF z = a THEN c ELSE l.next[z]
                   /\ m.prev[z] = IF z = b THEN e ELSE IF z = c THEN a ELSE l.prev[z]
  BY <1>5, <1>6
<1>8. Nodes(p) \subseteq N /\ Nodes(t) \subseteq N
  BY ElementOfSeq DEF Nodes
<1>9. Chain(m, p)
  <2>1. /\ \A z \in Nodes(p) : z # p[Len(p)] => m.next[z] = l.next[z]
        /\ \A z \in Nodes(p) : z # p[1] => m.prev[z] = l.prev[z]
    BY <1>4, <1>7, <1>8 DEF a, b
  <2> QED
    BY <2>1, ChainFrame DEF Cycle
<1>10. Chain(m, t)
  <2>1. /\ \A z \in Nodes(t) : z # t[Len(t)] => m.next[z] = l.next[z]
        /\ \A z \in Nodes(t) : z # t[1] => m.prev[z] = l.prev[z]
    BY <1>4, <1>7, <1>8 DEF c, e
  <2> QED
    BY <1>2, <2>1, ChainFrame
<1>11. Adj(m, a, c) /\ Adj(m, e, b)
  BY <1>1, <1>4, <1>7 DEF Adj
<1>12. Chain(m, p \o t) /\ Distinct(p \o t)
  <2>1. Chain(m, p \o t)
    BY <1>9, <1>10, <1>11, ChainConcat DEF a, c
  <2>2. Nodes(p) \cap Nodes(t) = {} /\ Distinct(p)
    BY DEF Cycle
  <2> QED
    BY <1>2, <2>1, <2>2, NodesConcat
<1>13. (p \o t)[1] = b /\ (p \o t)[Len(p \o t)] = e
  BY EndNodes DEF b, e
<1>14. Same(l, m, N \ (Nodes(p) \cup Nodes(t)))
  BY <1>1, <1>7 DEF Same
<1> QED
  BY <1>3, <1>6, <1>11, <1>12, <1>13, <1>14 DEF Cycle, a, b

\* A list stays one when a head that is not in it is made empty.
LEMMA RingInit ==
  ASSUME NEW N, NEW l \in List(N), NEW h \in N, NEW s \in Seq(N), Ring(l, h, s),
         NEW g \in N, g \notin {h} \cup Nodes(s)
  PROVE  Ring(InitListHead(l, g), h, s) /\ Ring(InitListHead(l, g), g, << >>)
<1> DEFINE m == InitListHead(l, g)
           p == <<h>> \o s
<1>1. m \in List(N) /\ Same(l, m, N \ {g}) /\ Ring(m, g, << >>)
  BY InitFacts
<1>2. p \in Seq(N) /\ p # << >> /\ Nodes(p) = {h} \cup Nodes(s)
  BY RingFacts
<1>3. Cycle(l, p)
  BY DEF Ring
<1> HIDE DEF m, p
<1>4. Nodes(p) \subseteq N \ {g}
  <2>1. Nodes(p) \subseteq N
    BY <1>2, ElementOfSeq DEF Nodes
  <2> QED
    BY <1>2, <2>1
<1>5. Same(l, m, Nodes(p))
  BY <1>1, <1>4 DEF Same
<1>6. Cycle(m, p)
  BY <1>2, <1>3, <1>5, CycleSame
<1> QED
  BY <1>1, <1>6 DEF Ring, m, p

\* The splices put one list in front of another, or behind it, in order; the
\* forms with _init leave the first one empty.
THEOREM SplicesJoin ==
  ASSUME NEW N, NEW l \in List(N), NEW h \in N, NEW s \in Seq(N), Ring(l, h, s),
         NEW g \in N, NEW t \in Seq(N), Ring(l, g, t),
         ({g} \cup Nodes(t)) \cap ({h} \cup Nodes(s)) = {}
  PROVE  /\ Ring(ListSplice(l, g, h), h, t \o s)
         /\ Ring(ListSpliceTail(l, g, h), h, s \o t)
         /\ LET m == ListSpliceInit(l, g, h)
            IN  Ring(m, h, t \o s) /\ Ring(m, g, << >>)
         /\ LET m == ListSpliceTailInit(l, g, h)
            IN  Ring(m, h, s \o t) /\ Ring(m, g, << >>)
<1>1. CASE t = << >>
  <2>1. ListEmpty(l, g)
    BY <1>1, TestsTell
  <2>2. t \o s = s /\ s \o t = s
    BY <1>1, ConcatEmptySeq
  <2> QED
    BY <1>1, <2>1, <2>2 DEF ListSplice, ListSpliceTail, ListSpliceInit, ListSpliceTailInit
<1>2. CASE t # << >>
  <2>1. ~ListEmpty(l, g)
    BY <1>2, TestsTell
  <2>2. h \notin Nodes(s) /\ g \notin Nodes(t)
    BY HeadFacts
  <2>3. Nodes(t \o s) = Nodes(t) \cup Nodes(s) /\ Nodes(s \o t) = Nodes(t) \cup Nodes(s)
    BY NodesConcat
  <2>4. t \o s \in Seq(N) /\ s \o t \in Seq(N)
    BY EndNodes
  <2>5. ListSplice(l, g, h) \in List(N) /\ Ring(ListSplice(l, g, h), h, t \o s)
    <3> DEFINE p == s \o <<h>>
               m == SpliceBetween(l, g, h, l.next[h])
    <3>1. /\ p \in Seq(N) /\ p # << >> /\ p[Len(p)] = h /\ Nodes(p) = {h} \cup Nodes(s)
          /\ <<h>> \in Seq(N) /\ <<h>> \o t \in Seq(N)
      BY RingFacts, One
    <3>2. Cycle(l, p)
      BY <3>1, CycleRotate DEF Ring
    <3>3. l.next[h] = p[1]
      BY <3>1, <3>2 DEF Cycle, Adj
    <3>4. p \o t = s \o (<<h>> \o t) /\ (<<h>> \o t) \o s = <<h>> \o (t \o s)
      BY <3>1, ConcatAssociative
    <3> HIDE DEF p
    <3>5. m \in List(N) /\ Cycle(m, p \o t)
      BY <1>2, <3>1, <3>2, <3>3, CycleSplice
    <3> HIDE DEF m
    <3>6. Cycle(m, (<<h>> \o t) \o s)
      <4>1. Cycle(m, s \o (<<h>> \o t))
        BY <3>4, <3>5
      <4> QED
        BY <3>1, <4>1, CycleRotate
    <3> QED
      BY <2>1, <3>4, <3>5, <3>6 DEF ListSplice, Ring, m
  <2>6. ListSpliceTail(l, g, h) \in List(N) /\ Ring(ListSpliceTail(l, g, h), h, s \o t)
    <3> DEFINE p == <<h>> \o s
               m == SpliceBetween(l, g, l.prev[h], h)
    <3>1. /\ p \in Seq(N) /\ p # << >> /\ p[1] = h /\ Nodes(p) = {h} \cup Nodes(s)
          /\ <<h>> \in Seq(N)
      BY RingFacts, One
    <3>2. Cycle(l, p) /\ l.prev[h] = p[Len(p)]
      BY <3>1 DEF Ring, Cycle, Adj
    <3>3. p \o t = <<h>> \o (s \o t)
      BY <3>1, ConcatAssociative
    <3> HIDE DEF p
    <3>4. m \in List(N) /\ Cycle(m, p \o t)
      BY <1>2, <3>1, <3>2, CycleSplice
    <3> QED
      BY <2>1, <3>3, <3>4 DEF ListSpliceTail, Ring
  <2>7. LET m == ListSpliceInit(l, g, h) IN Ring(m, h, t \o s) /\ Ring(m, g, << >>)
    <3> DEFINE k == ListSplice(l, g, h)
               r == t \o s
    <3>1. g \notin {h} \cup Nodes(r) /\ r \in Seq(N)
      BY <2>2, <2>3, <2>4
    <3>2. ListSpliceInit(l, g, h) = InitListHead(k, g)
      BY <2>1 DEF ListSpliceInit
    <3>3. k \in List(N) /\ Ring(k, h, r)
      BY <2>5
    <3> HIDE DEF k, r
    <3>4. Ring(InitListHead(k, g), h, r) /\ Ring(InitListHead(k, g), g, << >>)
      BY <3>1, <3>3, RingInit
    <3> QED
      BY <3>2, <3>4 DEF r
  <2>8. LET m == ListSpliceTailInit(l, g, h) IN Ring(m, h, s \o t) /\ Ring(m, g, << >>)
    <3> DEFINE k == ListSpliceTail(l, g, h)
               r == s \o t
    <3>1. g \notin {h} \cup Nodes(r) /\ r \in Seq(N)
      BY <2>2, <2>3, <2>4
    <3>2. ListSpliceTailInit(l, g, h) = InitListHead(k, g)
      BY <2>1 DEF ListSpliceTailInit
    <3>3. k \in List(N) /\ Ring(k, h, r)
      BY <2>6
    <3> HIDE DEF k, r
    <3>4. Ring(InitListHead(k, g), h, r) /\ Ring(InitListHead(k, g), g, << >>)
      BY <3>1, <3>3, RingInit
    <3> QED
      BY <3>2, <3>4 DEF r
  <2> QED
    BY <2>5, <2>6, <2>7, <2>8
<1> QED
  BY <1>1, <1>2

\* list_cut_position takes the entries up to one of them to another head, or
\* none of them when it is given the head.  An empty list is left alone, and then
\* the other head is not initialised.
THEOREM CutCuts ==
  ASSUME NEW N, NEW l \in List(N), NEW h \in N, NEW u \in Seq(N), NEW t \in Seq(N),
         Ring(l, h, u \o t), NEW g \in N, g \notin {h} \cup Nodes(u \o t)
  PROVE  /\ u # << >> => LET m == ListCutPosition(l, g, h, u[Len(u)])
                         IN  Ring(m, g, u) /\ Ring(m, h, t)
         /\ u = << >> => LET m == ListCutPosition(l, g, h, h)
                         IN  IF t = << >> THEN m = l
                             ELSE Ring(m, g, << >>) /\ Ring(m, h, t)
<1> DEFINE s == u \o t
<1>1. /\ s \in Seq(N) /\ Len(s) = Len(u) + Len(t) /\ Nodes(s) = Nodes(u) \cup Nodes(t)
      /\ u # << >> => s # << >> /\ s[1] = u[1]
      /\ t # << >> => s # << >> /\ s[Len(s)] = t[Len(t)]
  BY EndNodes, NodesConcat
<1>2. ASSUME u = << >> PROVE s = t
  BY <1>2, ConcatEmptySeq
<1>3. u = << >> => LET m == ListCutPosition(l, g, h, h)
                   IN  IF t = << >> THEN m = l
                       ELSE Ring(m, g, << >>) /\ Ring(m, h, t)
  <2> SUFFICES ASSUME u = << >>
               PROVE  LET m == ListCutPosition(l, g, h, h)
                      IN  IF t = << >> THEN m = l
                          ELSE Ring(m, g, << >>) /\ Ring(m, h, t)
    OBVIOUS
  <2>1. s = t
    BY <1>2
  <2> HIDE DEF s
  <2>2. Ring(l, h, t) /\ g \notin {h} \cup Nodes(t)
    BY <2>1 DEF s
  <2>3. ListEmpty(l, h) <=> t = << >>
    BY <2>2, TestsTell
  <2>4. CASE t = << >>
    BY <2>3, <2>4 DEF ListCutPosition
  <2>5. CASE t # << >>
    <3>1. ListCutPosition(l, g, h, h) = InitListHead(l, g)
      BY <2>3, <2>5 DEF ListCutPosition
    <3> QED
      BY <2>2, <2>5, <3>1, RingInit
  <2> QED
    BY <2>4, <2>5
<1>4. ASSUME u # << >>
      PROVE  LET m == ListCutPosition(l, g, h, u[Len(u)]) IN Ring(m, g, u) /\ Ring(m, h, t)
  <2> DEFINE e == u[Len(u)]
             b == u[1]
             c == IF t = << >> THEN h ELSE t[1]
             j == Link(l, g, b)
             k == Link(j, e, g)
             m == Link(k, h, c)
  <2>1. /\ e \in N /\ b \in N /\ e \in Nodes(u) /\ b \in Nodes(u) /\ Len(u) \in Nat \ {0}
    BY <1>4, EndNodes
  <2> HIDE DEF s
  <2>2. Ring(l, h, s)
    BY DEF s
  <2>3. /\ l.next[h] = b /\ l.prev[h] = s[Len(s)] /\ l.next[s[Len(s)]] = h
        /\ h \notin Nodes(s) /\ Distinct(s) /\ Chain(l, s)
    <3>1. s \in Seq(N) /\ s # << >> /\ s[1] = b
      BY <1>1, <1>4 DEF b
    <3> QED
      BY <2>2, <3>1, HeadFacts
  <2>4. /\ Distinct(u) /\ Distinct(t) /\ Nodes(u) \cap Nodes(t) = {}
    BY <2>3, NodesConcat DEF s
  <2>5. Nodes(u) \subseteq N /\ Nodes(t) \subseteq N
    BY ElementOfSeq DEF Nodes
  <2>6. Chain(l, u) /\ Chain(l, t) /\ l.next[e] = c /\ c \in N /\ c \notin Nodes(u)
    <3>1. CASE t = << >>
      <4>1. s = u
        BY <3>1, ConcatEmptySeq DEF s
      <4>2. Chain(l, t)
        BY <3>1 DEF Chain
      <4> QED
        BY <1>1, <2>3, <3>1, <4>1, <4>2
    <3>2. CASE t # << >>
      <4>1. Chain(l, u) /\ Chain(l, t) /\ Adj(l, e, t[1])
        BY <1>4, <2>3, <3>2, ChainConcat DEF s
      <4>2. t[1] \in N /\ t[1] \in Nodes(t)
        BY <3>2, EndNodes
      <4> QED
        BY <2>4, <3>2, <4>1, <4>2 DEF Adj
    <3> QED
      BY <3>1, <3>2
  <2>7. ListCutPosition(l, g, h, e) = m
    <3>1. e # h
      BY <1>1, <2>1, <2>3
    <3>2. ~ListEmpty(l, h)
      BY <1>1, <1>4, <2>2, TestsTell
    <3>3. ListIsSingular(l, h) => e = l.next[h]
      <4> SUFFICES ASSUME ListIsSingular(l, h) PROVE e = b
        BY <2>3
      <4>1. Len(s) = 1
        BY <1>1, <2>2, TestsTell
      <4>2. Len(t) \in Nat
        BY LenProperties
      <4>3. Len(u) = 1
        BY <1>1, <2>1, <4>1, <4>2
      <4> QED
        BY <4>3
    <3>4. ListCutPosition(l, g, h, e) = CutAfter(l, g, h, e)
      BY <3>1, <3>2, <3>3 DEF ListCutPosition
    <3> QED
      BY <2>3, <2>6, <3>4 DEF CutAfter
  <2>8. /\ g # h /\ g \notin Nodes(u) /\ g \notin Nodes(t) /\ h \notin Nodes(u)
        /\ h \notin Nodes(t)
    BY <1>1, <2>3 DEF s
  <2> HIDE DEF e, b
  <2>9. c = h \/ c \in Nodes(t)
    BY EndNodes
  <2>10. t # << >> => c = t[1] /\ c \in Nodes(t)
    BY EndNodes
  <2>11. t = << >> => c = h
    OBVIOUS
  <2> HIDE DEF c
  <2>12. /\ j \in List(N)
         /\ \A z \in N : /\ j.next[z] = IF z = g THEN b ELSE l.next[z]
                         /\ j.prev[z] = IF z = b THEN g ELSE l.prev[z]
    BY SMTT(30), <2>1, LinkFacts
  <2> HIDE DEF j
  <2>13. /\ k \in List(N)
         /\ \A z \in N : /\ k.next[z] = IF z = e THEN g ELSE j.next[z]
                         /\ k.prev[z] = IF z = g THEN e ELSE j.prev[z]
    BY <2>1, <2>12, LinkFacts
  <2> HIDE DEF k
  <2>14. /\ m \in List(N)
         /\ \A z \in N : /\ m.next[z] = IF z = h THEN c ELSE k.next[z]
                         /\ m.prev[z] = IF z = c THEN h ELSE k.prev[z]
    BY <2>6, <2>13, LinkFacts
  <2> HIDE DEF m
  <2>15. /\ \A z \in N : m.next[z] = IF z = h THEN c ELSE IF z = e THEN g
                                     ELSE IF z = g THEN b ELSE l.next[z]
         /\ \A z \in N : m.prev[z] = IF z = c THEN h ELSE IF z = g THEN e
                                     ELSE IF z = b THEN g ELSE l.prev[z]
    BY <2>12, <2>13, <2>14
  <2>16. Ring(m, g, u)
    <3>1. Chain(m, u)
      <4>1. /\ \A z \in Nodes(u) : z # u[Len(u)] => m.next[z] = l.next[z]
            /\ \A z \in Nodes(u) : z # u[1] => m.prev[z] = l.prev[z]
        BY <2>5, <2>6, <2>8, <2>15 DEF e, b
      <4> QED
        BY <2>4, <2>6, <4>1, ChainFrame
    <3>2. Adj(m, g, b) /\ Adj(m, e, g)
      BY <2>1, <2>6, <2>8, <2>9, <2>15 DEF Adj
    <3>3. /\ <<g>> \in Seq(N) /\ <<g>> # << >> /\ Len(<<g>>) = 1 /\ <<g>>[1] = g
          /\ Nodes(<<g>>) = {g} /\ Distinct(<<g>>) /\ Chain(m, <<g>>)
      BY One
    <3>4. Chain(m, <<g>> \o u)
      BY <1>4, <3>1, <3>2, <3>3, ChainConcat DEF b
    <3>5. Distinct(<<g>> \o u)
      <4>1. Nodes(<<g>>) \cap Nodes(u) = {}
        BY <2>8, <3>3
      <4> QED
        BY <2>4, <3>3, <4>1, NodesConcat
    <3>6. (<<g>> \o u)[1] = g /\ (<<g>> \o u)[Len(<<g>> \o u)] = e
      BY <1>4, <3>3, EndNodes DEF e
    <3> QED
      BY <3>2, <3>4, <3>5, <3>6 DEF Ring, Cycle
  <2>17. Ring(m, h, t)
    <3>1. /\ <<h>> \in Seq(N) /\ <<h>> # << >> /\ Len(<<h>>) = 1 /\ <<h>>[1] = h
          /\ Nodes(<<h>>) = {h} /\ Distinct(<<h>>) /\ Chain(m, <<h>>)
      BY One
    <3>2. CASE t = << >>
      <4>1. <<h>> \o t = <<h>>
        BY <3>1, <3>2, ConcatEmptySeq
      <4>2. Adj(m, h, h)
        BY <2>11, <2>15, <3>2 DEF Adj
      <4> QED
        BY <3>1, <4>1, <4>2 DEF Ring, Cycle
    <3>3. CASE t # << >>
      <4>1. c = t[1] /\ c \in Nodes(t) /\ t[Len(t)] \in Nodes(t) /\ t[Len(t)] \in N
        BY <2>10, <3>3, EndNodes
      <4>2. Chain(m, t)
        <5>1. e \notin Nodes(t) /\ b \notin Nodes(t)
          BY <2>1, <2>4
        <5>2. /\ \A z \in Nodes(t) : z # t[Len(t)] => m.next[z] = l.next[z]
              /\ \A z \in Nodes(t) : z # t[1] => m.prev[z] = l.prev[z]
          BY <2>5, <2>8, <2>15, <4>1, <5>1
        <5> QED
          BY <2>4, <2>6, <5>2, ChainFrame
      <4>3. Adj(m, h, t[1])
        BY <2>6, <2>15, <4>1 DEF Adj
      <4>4. l.next[t[Len(t)]] = h /\ l.prev[h] = t[Len(t)]
        BY <1>1, <2>3, <3>3
      <4>5. Adj(m, t[Len(t)], h)
        <5>1. t[Len(t)] # e /\ t[Len(t)] # g /\ t[Len(t)] # h /\ h # c /\ h # g /\ h # b
          BY <2>1, <2>4, <2>8, <4>1
        <5> QED
          BY <2>15, <4>1, <4>4, <5>1 DEF Adj
      <4>6. Chain(m, <<h>> \o t)
        BY <3>1, <3>3, <4>2, <4>3, ChainConcat
      <4>7. Distinct(<<h>> \o t)
        <5>1. Nodes(<<h>>) \cap Nodes(t) = {}
          BY <2>8, <3>1
        <5> QED
          BY <2>4, <3>1, <5>1, NodesConcat
      <4>8. (<<h>> \o t)[1] = h /\ (<<h>> \o t)[Len(<<h>> \o t)] = t[Len(t)]
        BY <3>1, <3>3, EndNodes
      <4> QED
        BY <4>5, <4>6, <4>7, <4>8 DEF Ring, Cycle
    <3> QED
      BY <3>2, <3>3
  <2> QED
    BY <2>7, <2>16, <2>17 DEF e
<1> QED
  BY <1>3, <1>4

-----------------------------------------------------------------------------
(* Loops.  What a loop does is proved by induction on its turns, in the form   *)
(* that a set of numbers that is not empty has a smallest one.                 *)

\* A set of natural numbers that is not empty has a smallest member.
LEMMA Smallest ==
  ASSUME NEW T \in SUBSET Nat, T # {}
  PROVE  \E i \in T : \A j \in T : i <= j
<1> DEFINE R == OpToRel(<, Nat)
<1>1. \A i, j \in Nat : j < i => <<j, i>> \in R
  BY DEF OpToRel
<1>2. IsWellFoundedOn(R, Nat)
  BY NatLessThanWellFounded
<1> HIDE DEF R
<1>3. PICK i \in T : \A j \in T : ~(<<j, i>> \in R)
  BY <1>2, WFMin
<1>4. \A j \in T : ~(j < i)
  BY <1>1, <1>3
<1> QED
  BY <1>3, <1>4

\* How many numbers there are from one up to another.
LEMMA SizeUpTo ==
  ASSUME NEW n \in Nat
  PROVE  Cardinality(1..n) = n
<1>1. 1 \in Int /\ n \in Int
  OBVIOUS
<1>2. Cardinality(1..n) = IF 1 > n THEN 0 ELSE n - 1 + 1
  BY <1>1, FS_Interval
<1> QED
  BY <1>2

\* The places of a cursor that follows pointers, one for every turn.
IsWalk(at, step, start, max) ==
  \A k \in 1..max : at[k] = IF k = 1 THEN start ELSE step[at[k - 1]]

\* A cursor that follows pointers has a place at every turn.
LEMMA WalkExists ==
  ASSUME NEW N, NEW step \in [N -> N], NEW start \in N, NEW max \in Nat
  PROVE  \E at \in [1..max -> N] : IsWalk(at, step, start, max)
<1> DEFINE Exists(n) ==
      \E at \in [1..n -> N] : \A k \in 1..n : at[k] = IF k = 1 THEN start ELSE step[at[k - 1]]
    T == {n \in Nat : ~Exists(n)}
<1>1. Exists(0)
  <2>1. [k \in 1..0 |-> start] \in [1..0 -> N] /\ 1..0 = {}
    OBVIOUS
  <2> QED
    BY <2>1
<1>2. ASSUME NEW n \in Nat, n # 0, Exists(n - 1) PROVE Exists(n)
  <2>1. PICK f \in [1 .. n - 1 -> N] :
               \A k \in 1 .. n - 1 : f[k] = IF k = 1 THEN start ELSE step[f[k - 1]]
    BY <1>2
  <2> DEFINE e == IF n = 1 THEN start ELSE step[f[n - 1]]
             g == [k \in 1..n |-> IF k = n THEN e ELSE f[k]]
  <2>2. e \in N
    <3>1. n # 1 => n - 1 \in 1 .. n - 1
      BY <1>2
    <3> QED
      BY <3>1
  <2>3. g \in [1..n -> N]
    <3>1. \A k \in 1..n : k # n => k \in 1 .. n - 1
      OBVIOUS
    <3> QED
      BY <2>2, <3>1
  <2>4. ASSUME NEW k \in 1..n PROVE g[k] = IF k = 1 THEN start ELSE step[g[k - 1]]
    <3>1. CASE k = n
      <4>1. g[k] = e
        BY <3>1
      <4>2. k # 1 => k - 1 \in 1..n /\ k - 1 # n
        OBVIOUS
      <4>3. k # 1 => g[k - 1] = f[k - 1]
        BY <4>2
      <4> QED
        BY <3>1, <4>1, <4>3
    <3>2. CASE k # n
      <4>1. k \in 1 .. n - 1 /\ (k # 1 => k - 1 \in 1..n /\ k - 1 # n)
        BY <3>2
      <4>2. g[k] = f[k] /\ (k # 1 => g[k - 1] = f[k - 1])
        BY <3>2, <4>1
      <4> QED
        BY <2>1, <4>1, <4>2
    <3> QED
      BY <3>1, <3>2
  <2> HIDE DEF g
  <2> QED
    BY <2>3, <2>4
<1>3. Exists(max)
  <2> SUFFICES ASSUME ~Exists(max) PROVE FALSE
    OBVIOUS
  <2> HIDE DEF Exists
  <2>1. T # {} /\ T \in SUBSET Nat
    OBVIOUS
  <2>2. PICK n \in T : \A j \in T : n <= j
    BY <2>1, Smallest
  <2>3. n \in Nat /\ ~Exists(n)
    OBVIOUS
  <2>4. n # 0
    BY <1>1, <2>3
  <2>5. n - 1 \in Nat /\ ~(n <= n - 1)
    BY <2>3, <2>4
  <2>6. Exists(n - 1)
    BY <2>2, <2>5
  <2> QED
    BY <1>2, <2>3, <2>4, <2>6
<1> QED
  BY <1>3 DEF IsWalk

\* A cursor that starts at a node, and that the pointers take from each node of a
\* sequence to the next and from the last one to the head, visits the sequence.
LEMMA Walk ==
  ASSUME NEW N, NEW step \in [N -> N], NEW start \in N, NEW head \in N, NEW p \in Seq(N),
         NEW max \in Nat, Len(p) <= max, head \notin Nodes(p),
         start = IF p = << >> THEN head ELSE p[1],
         \A i \in 1..Len(p) : step[p[i]] = IF i = Len(p) THEN head ELSE p[i + 1]
  PROVE  Visited(step, start, head, max) = p
<1> DEFINE at == CHOOSE at : at = [k \in 1..max |-> IF k = 1 THEN start ELSE step[at[k - 1]]]
           turns == Cardinality({k \in 1..max : \A j \in 1..k : at[j] # head})
<1>1. /\ at \in [1..max -> N]
      /\ \A k \in 1..max : at[k] = IF k = 1 THEN start ELSE step[at[k - 1]]
  <2>1. at = [k \in 1..max |-> IF k = 1 THEN start ELSE step[at[k - 1]]]
    <3>1. PICK f \in [1..max -> N] : IsWalk(f, step, start, max)
      BY WalkExists
    <3>2. f = [k \in 1..max |-> IF k = 1 THEN start ELSE step[f[k - 1]]]
      BY <3>1 DEF IsWalk
    <3> QED
      BY <3>2, Zenon
  <2> HIDE DEF at
  <2> DEFINE Bad == {k \in 1..max : at[k] \notin N}
  <2>2. \A k \in 1..max : at[k] = IF k = 1 THEN start ELSE step[at[k - 1]]
    BY <2>1
  <2>3. Bad = {}
    <3> SUFFICES ASSUME Bad # {} PROVE FALSE
      OBVIOUS
    <3>1. Bad \in SUBSET Nat
      OBVIOUS
    <3> HIDE DEF Bad
    <3>2. PICK k \in Bad : \A j \in Bad : k <= j
      BY <3>1, Smallest
    <3>3. k \in 1..max /\ at[k] \notin N
      BY DEF Bad
    <3>4. k # 1
      BY <2>2, <3>3
    <3>5. k - 1 \in 1..max /\ ~(k <= k - 1)
      BY <3>3, <3>4
    <3>6. at[k - 1] \in N
      BY <3>2, <3>5 DEF Bad
    <3> QED
      BY <2>2, <3>3, <3>4, <3>6
  <2> QED
    BY <2>1, <2>2, <2>3
<1>2. Visited(step, start, head, max) = SubSeq(at, 1, turns)
  BY DEF Visited
<1> HIDE DEF at
<1>3. Len(p) \in Nat /\ (p # << >> => Len(p) # 0)
  BY LenProperties, EmptySeq
<1>4. \A k \in 1..Len(p) : at[k] = p[k]
  <2> DEFINE Bad == {k \in 1..Len(p) : at[k] # p[k]}
  <2> SUFFICES ASSUME Bad # {} PROVE FALSE
    OBVIOUS
  <2>1. Bad \in SUBSET Nat
    OBVIOUS
  <2> HIDE DEF Bad
  <2>2. PICK k \in Bad : \A j \in Bad : k <= j
    BY <2>1, Smallest
  <2>3. k \in 1..Len(p) /\ at[k] # p[k] /\ k \in 1..max
    BY <1>3 DEF Bad
  <2>4. p # << >>
    BY <2>3
  <2>5. k # 1
    BY <1>1, <2>3, <2>4
  <2>6. k - 1 \in 1..Len(p) /\ ~(k <= k - 1) /\ k - 1 # Len(p) /\ (k - 1) + 1 = k
    BY <1>3, <2>3, <2>5
  <2>7. at[k - 1] = p[k - 1]
    BY <2>2, <2>6 DEF Bad
  <2>8. step[p[k - 1]] = p[k]
    BY <2>6
  <2> QED
    BY <1>1, <2>3, <2>5, <2>7, <2>8
<1>5. Len(p) < max => at[Len(p) + 1] = head
  <2> SUFFICES ASSUME Len(p) < max PROVE at[Len(p) + 1] = head
    OBVIOUS
  <2>1. Len(p) + 1 \in 1..max /\ (Len(p) + 1) - 1 = Len(p)
    BY <1>3
  <2>2. CASE p = << >>
    BY <1>1, <2>1, <2>2
  <2>3. CASE p # << >>
    <3>1. Len(p) \in 1..Len(p) /\ Len(p) + 1 # 1
      BY <1>3, <2>3
    <3>2. at[Len(p)] = p[Len(p)] /\ step[p[Len(p)]] = head
      BY <1>4, <3>1
    <3> QED
      BY ZenonT(60), <1>1, <2>1, <3>1, <3>2
  <2> QED
    BY <2>2, <2>3
<1>6. {k \in 1..max : \A j \in 1..k : at[j] # head} = 1..Len(p)
  <2>1. ASSUME NEW k \in 1..max, \A j \in 1..k : at[j] # head PROVE k \in 1..Len(p)
    <3> SUFFICES ASSUME k \notin 1..Len(p) PROVE FALSE
      OBVIOUS
    <3>1. Len(p) < max /\ Len(p) + 1 \in 1..k
      BY <1>3
    <3> QED
      BY <1>5, <2>1, <3>1
  <2>2. ASSUME NEW k \in 1..Len(p) PROVE k \in 1..max /\ \A j \in 1..k : at[j] # head
    <3>1. k \in 1..max
      BY <1>3
    <3>2. ASSUME NEW j \in 1..k PROVE at[j] # head
      <4>1. j \in 1..Len(p)
        BY <1>3
      <4> QED
        BY <1>4, <4>1 DEF Nodes
    <3> QED
      BY <3>1, <3>2
  <2> QED
    BY <2>1, <2>2
<1>7. turns = Len(p)
  <2>1. Cardinality(1..Len(p)) = Len(p)
    BY <1>3, SizeUpTo
  <2> QED
    BY <1>6, <2>1
<1> HIDE DEF turns
<1>8. /\ at \in Seq(N) /\ Len(at) = max
  BY <1>1
<1>9. CASE p = << >>
  <2>1. turns = 0
    BY <1>7, <1>9
  <2>2. SubSeq(at, 1, 0) = << >>
    BY <1>8, SubSeqProperties, EmptySeq
  <2> QED
    BY <1>2, <1>9, <2>1, <2>2
<1>10. CASE p # << >>
  <2>1. /\ 1 \in 1..Len(at) /\ Len(p) \in 1..Len(at) /\ 1 <= Len(p)
    BY <1>3, <1>8, <1>10
  <2> DEFINE v == SubSeq(at, 1, Len(p))
  <2>2. v \in Seq(N) /\ Len(v) = Len(p) /\ \A i \in 1..Len(p) : v[i] = at[i]
    BY <1>3, <1>8, <2>1, SubSeqProperties
  <2> HIDE DEF v
  <2>3. \A i \in 1..Len(p) : v[i] = p[i]
    BY <1>4, <2>2
  <2>4. v = p
    BY <2>2, <2>3, SeqEqual
  <2> QED
    BY <1>2, <1>7, <2>4 DEF v
<1> QED
  BY <1>9, <1>10

\* A loop that starts at an entry visits it and those behind it.
LEMMA RestVisited ==
  ASSUME NEW N, NEW l \in List(N), NEW h \in N, NEW u \in Seq(N), NEW t \in Seq(N),
         Ring(l, h, u \o t), NEW max \in Nat, Len(t) <= max,
         NEW start, start = IF t = << >> THEN h ELSE t[1]
  PROVE  Visited(l.next, start, h, max) = t
<1> DEFINE a == <<h>> \o u
<1>1. l.next \in [N -> N]
  BY DEF List
<1>2. /\ <<h>> \in Seq(N) /\ a \in Seq(N) /\ a # << >> /\ a[1] = h
      /\ Nodes(a) = {h} \cup Nodes(u)
  BY RingFacts, One
<1>3. <<h>> \o (u \o t) = a \o t
  BY <1>2, ConcatAssociative
<1> HIDE DEF a
<1>4. Cycle(l, a \o t)
  BY <1>3 DEF Ring
<1>5. h \notin Nodes(t)
  BY <1>2, <1>4, NodesConcat DEF Cycle
<1>6. start \in N
  BY EndNodes
<1>7. \A i \in 1..Len(t) : l.next[t[i]] = IF i = Len(t) THEN h ELSE t[i + 1]
  <2> SUFFICES ASSUME NEW i \in 1..Len(t)
               PROVE  l.next[t[i]] = IF i = Len(t) THEN h ELSE t[i + 1]
    OBVIOUS
  <2>1. t # << >> /\ Len(t) \in Nat
    BY LenProperties
  <2>2. Chain(l, t)
    BY <1>2, <1>4, <2>1, ChainConcat DEF Cycle
  <2>3. (a \o t)[1] = h /\ (a \o t)[Len(a \o t)] = t[Len(t)]
    BY <1>2, <2>1, EndNodes
  <2>4. l.next[t[Len(t)]] = h
    BY <1>4, <2>3 DEF Cycle, Adj
  <2>5. i # Len(t) => i \in 1 .. Len(t) - 1
    BY <2>1
  <2> QED
    BY <2>2, <2>4, <2>5 DEF Chain, Adj
<1> DEFINE step == l.next
<1>8. step \in [N -> N]
  BY <1>1
<1>9. \A i \in 1..Len(t) : step[t[i]] = IF i = Len(t) THEN h ELSE t[i + 1]
  BY <1>7
<1> HIDE DEF step
<1>10. Visited(step, start, h, max) = t
  BY <1>5, <1>6, <1>8, <1>9, Walk
<1> QED
  BY <1>10 DEF step

\* list_for_each_entry visits every entry once and in order; its forms that go on
\* from an entry visit the rest.
THEOREM ForEachVisits ==
  ASSUME NEW N, NEW l \in List(N), NEW h \in N, NEW max \in Nat
  PROVE  /\ \A s \in Seq(N) : Ring(l, h, s) /\ Len(s) <= max => ForEach(l, h, max) = s
         /\ \A u, t \in Seq(N), x \in N :
              Ring(l, h, u \o <<x>> \o t) /\ Len(t) < max =>
                /\ ForEachContinue(l, x, h, max) = t
                /\ ForEachFrom(l, x, h, max) = <<x>> \o t
<1>1. ASSUME NEW s \in Seq(N), Ring(l, h, s), Len(s) <= max
      PROVE  ForEach(l, h, max) = s
  <2>1. << >> \in Seq(N) /\ << >> \o s = s
    BY ConcatEmptySeq
  <2>2. /\ s = << >> => l.next[h] = h /\ l.prev[h] = h
        /\ s # << >> => /\ l.next[h] = s[1] /\ l.prev[h] = s[Len(s)]
                        /\ l.next[s[Len(s)]] = h /\ l.prev[s[1]] = h
                        /\ Len(s) \in Nat \ {0} /\ s[1] \in N /\ s[Len(s)] \in N
        /\ h \notin Nodes(s) /\ Distinct(s) /\ Chain(l, s)
    BY <1>1, HeadFacts, Zenon
  <2>3. l.next[h] = IF s = << >> THEN h ELSE s[1]
    BY <2>2
  <2> DEFINE start == l.next[h]
             e == << >>
  <2>4. Ring(l, h, e \o s) /\ e \in Seq(N)
    BY <1>1, <2>1
  <2>5. start = IF s = << >> THEN h ELSE s[1]
    BY <2>3
  <2> HIDE DEF start, e
  <2>6. Visited(l.next, start, h, max) = s
    BY <1>1, <2>4, <2>5, RestVisited
  <2> QED
    BY <2>6 DEF ForEach, FirstEntry, start
<1>2. ASSUME NEW u \in Seq(N), NEW t \in Seq(N), NEW x \in N,
             Ring(l, h, u \o <<x>> \o t), Len(t) < max
      PROVE  /\ ForEachContinue(l, x, h, max) = t
             /\ ForEachFrom(l, x, h, max) = <<x>> \o t
  <2> DEFINE v == u \o <<x>>
             r == <<x>> \o t
             start == l.next[x]
  <2>1. /\ <<x>> \in Seq(N) /\ v \in Seq(N) /\ v # << >> /\ v[Len(v)] = x
        /\ r \in Seq(N) /\ r # << >> /\ r[1] = x /\ Len(r) = 1 + Len(t)
    <3>1. <<x>> \in Seq(N) /\ Len(<<x>>) = 1
      BY One
    <3>2. v \in Seq(N) /\ v # << >> /\ v[Len(v)] = x
      BY RingFacts
    <3>3. r \in Seq(N) /\ r # << >> /\ r[1] = x
      BY RingFacts
    <3> QED
      BY <3>1, <3>2, <3>3, EndNodes
  <2>2. u \o r = v \o t
    BY SMTT(30), <2>1, ConcatAssociative
  <2> HIDE DEF v, r
  <2>3. Ring(l, h, v \o t) /\ Ring(l, h, u \o r)
    BY <1>2, <2>2 DEF v
  <2>4. start = IF t = << >> THEN h ELSE t[1]
    <3>1. CASE t = << >>
      <4>1. v \o t = v
        BY <2>1, <3>1, ConcatEmptySeq
      <4>2. l.next[v[Len(v)]] = h
        BY <2>1, <2>3, <4>1, HeadFacts
      <4> QED
        BY <2>1, <3>1, <4>2
    <3>2. CASE t # << >>
      <4>1. v \o t \in Seq(N) /\ v \o t # << >>
        BY <2>1, EndNodes
      <4>2. Chain(l, v \o t)
        BY <2>3, <4>1, HeadFacts
      <4>3. Adj(l, x, t[1])
        BY <2>1, <3>2, <4>2, ChainConcat
      <4> QED
        BY <3>2, <4>3 DEF Adj
    <3> QED
      BY <3>1, <3>2
  <2> HIDE DEF start
  <2>5. Len(t) \in Nat /\ Len(t) <= max /\ Len(r) <= max
    BY <1>2, <2>1, LenProperties
  <2>6. Visited(l.next, start, h, max) = t
    BY <2>1, <2>3, <2>4, <2>5, RestVisited
  <2>7. x = IF r = << >> THEN h ELSE r[1]
    BY <2>1
  <2>8. Visited(l.next, x, h, max) = r
    BY <2>1, <2>3, <2>5, <2>7, RestVisited
  <2> QED
    BY <2>6, <2>8 DEF ForEachContinue, ForEachFrom, NextOf, start, r
<1> QED
  BY <1>1, <1>2

\* A sequence from its last to its first.
Backwards(s) == [i \in 1..Len(s) |-> s[Len(s) + 1 - i]]

\* A loop that goes back from an entry visits those in front of it.
LEMMA BackVisited ==
  ASSUME NEW N, NEW l \in List(N), NEW h \in N, NEW u \in Seq(N), NEW t \in Seq(N),
         Ring(l, h, u \o t), NEW max \in Nat, Len(u) <= max,
         NEW start, start = IF u = << >> THEN h ELSE u[Len(u)]
  PROVE  Visited(l.prev, start, h, max) = Backwards(u)
<1> DEFINE a == <<h>> \o u
           p == Backwards(u)
<1>1. l.prev \in [N -> N]
  BY DEF List
<1>2. /\ <<h>> \in Seq(N) /\ <<h>> # << >> /\ Len(<<h>>) = 1 /\ <<h>>[1] = h
      /\ Nodes(<<h>>) = {h}
  BY One
<1>3. a \in Seq(N) /\ a # << >> /\ a[1] = h /\ Nodes(a) = {h} \cup Nodes(u)
  BY RingFacts
<1>4. <<h>> \o (u \o t) = a \o t
  BY SMTT(30), <1>2, ConcatAssociative
<1>5. Distinct(a) /\ Chain(l, a)
  <2> HIDE DEF a
  <2>1. Cycle(l, a \o t)
    BY <1>4 DEF Ring
  <2>2. Distinct(a)
    BY <1>3, <2>1, NodesConcat DEF Cycle
  <2>3. CASE t = << >>
    <3>1. a \o t = a
      BY <1>3, <2>3, ConcatEmptySeq
    <3> QED
      BY <2>1, <2>2, <3>1 DEF Cycle
  <2>4. CASE t # << >>
    BY <1>3, <2>1, <2>2, <2>4, ChainConcat DEF Cycle
  <2> QED
    BY <2>3, <2>4
<1>6. h \notin Nodes(u)
  BY <1>2, <1>5, NodesConcat
<1>7. Len(u) \in Nat
  BY LenProperties
<1>8. /\ Len(p) = Len(u) /\ \A i \in 1..Len(u) : p[i] = u[Len(u) + 1 - i]
      /\ p \in Seq(N)
  <2>1. \A i \in 1..Len(u) : Len(u) + 1 - i \in 1..Len(u)
    BY <1>7
  <2>2. \A i \in 1..Len(u) : u[Len(u) + 1 - i] \in N
    BY <2>1, ElementOfSeq
  <2> QED
    BY <1>7, <2>2 DEF Backwards
<1> HIDE DEF p
<1>9. \A i \in 1..Len(p) : Len(p) + 1 - i \in 1..Len(u)
  BY <1>7, <1>8
<1>10. h \notin Nodes(p)
  BY <1>6, <1>8, <1>9 DEF Nodes
<1>11. start \in N
  BY EndNodes
<1>12. start = IF p = << >> THEN h ELSE p[1]
  <2>1. p = << >> <=> u = << >>
    BY <1>8, EmptySeq
  <2>2. ASSUME u # << >> PROVE p[1] = u[Len(u)]
    <3>1. 1 \in 1..Len(u) /\ Len(u) + 1 - 1 = Len(u)
      BY <1>7, <2>2, EmptySeq
    <3> QED
      BY <1>8, <3>1
  <2> QED
    BY <2>1, <2>2
<1>13. \A i \in 1..Len(p) : l.prev[p[i]] = IF i = Len(p) THEN h ELSE p[i + 1]
  <2> SUFFICES ASSUME NEW i \in 1..Len(u)
               PROVE  l.prev[p[i]] = IF i = Len(u) THEN h ELSE p[i + 1]
    BY <1>8
  <2>1. u # << >>
    BY <1>7
  <2> HIDE DEF p
  <2>2. Chain(l, u) /\ Adj(l, h, u[1])
    BY <1>2, <1>5, <2>1, ChainConcat
  <2>3. CASE i = Len(u)
    <3>1. p[i] = u[1]
      <4>1. Len(u) + 1 - i = 1
        BY <1>7, <2>3
      <4> QED
        BY <1>8, <4>1
    <3> QED
      BY <2>2, <2>3, <3>1 DEF Adj
  <2>4. CASE i # Len(u)
    <3> DEFINE j == Len(u) - i
    <3>1. /\ j \in 1 .. Len(u) - 1 /\ i + 1 \in 1..Len(u)
          /\ Len(u) + 1 - i = j + 1 /\ Len(u) + 1 - (i + 1) = j
      BY <1>7, <2>4
    <3> HIDE DEF j
    <3>2. l.prev[u[j + 1]] = u[j]
      BY <2>2, <3>1 DEF Chain, Adj
    <3>3. p[i] = u[j + 1] /\ p[i + 1] = u[j]
      BY <1>8, <3>1
    <3> QED
      BY <2>4, <3>2, <3>3
  <2> QED
    BY <2>3, <2>4
<1>14. Len(p) <= max
  BY <1>8
<1> DEFINE step == l.prev
<1>15. step \in [N -> N]
  BY <1>1
<1>16. \A i \in 1..Len(p) : step[p[i]] = IF i = Len(p) THEN h ELSE p[i + 1]
  BY <1>13
<1> HIDE DEF step
<1>17. Visited(step, start, h, max) = p
  BY <1>8, <1>10, <1>11, <1>12, <1>14, <1>15, <1>16, Walk
<1> QED
  BY <1>17 DEF p, step

\* list_for_each_entry_reverse visits every entry once and backwards, and from an
\* entry those in front of it.
THEOREM ForEachReverseVisits ==
  ASSUME NEW N, NEW l \in List(N), NEW h \in N, NEW max \in Nat
  PROVE  /\ \A s \in Seq(N) :
              Ring(l, h, s) /\ Len(s) <= max => ForEachReverse(l, h, max) = Backwards(s)
         /\ \A u, t \in Seq(N), x \in N :
              Ring(l, h, u \o <<x>> \o t) /\ Len(u) <= max =>
                ForEachContinueReverse(l, x, h, max) = Backwards(u)
<1>1. ASSUME NEW s \in Seq(N), Ring(l, h, s), Len(s) <= max
      PROVE  ForEachReverse(l, h, max) = Backwards(s)
  <2>1. << >> \in Seq(N) /\ s \o << >> = s
    BY ConcatEmptySeq
  <2>2. /\ s = << >> => l.next[h] = h /\ l.prev[h] = h
        /\ s # << >> => /\ l.next[h] = s[1] /\ l.prev[h] = s[Len(s)]
                        /\ l.next[s[Len(s)]] = h /\ l.prev[s[1]] = h
                        /\ Len(s) \in Nat \ {0} /\ s[1] \in N /\ s[Len(s)] \in N
        /\ h \notin Nodes(s) /\ Distinct(s) /\ Chain(l, s)
    BY <1>1, HeadFacts, Zenon
  <2> DEFINE start == l.prev[h]
             e == << >>
  <2>3. Ring(l, h, s \o e) /\ e \in Seq(N)
    BY <1>1, <2>1
  <2>4. start = IF s = << >> THEN h ELSE s[Len(s)]
    BY <2>2
  <2> HIDE DEF start, e
  <2>5. Visited(l.prev, start, h, max) = Backwards(s)
    BY <1>1, <2>3, <2>4, BackVisited
  <2> QED
    BY <2>5 DEF ForEachReverse, LastEntry, start
<1>2. ASSUME NEW u \in Seq(N), NEW t \in Seq(N), NEW x \in N,
             Ring(l, h, u \o <<x>> \o t), Len(u) <= max
      PROVE  ForEachContinueReverse(l, x, h, max) = Backwards(u)
  <2> DEFINE r == <<x>> \o t
             start == l.prev[x]
  <2>1. <<x>> \in Seq(N) /\ r \in Seq(N) /\ r # << >> /\ r[1] = x
    BY One, RingFacts
  <2>2. u \o r = (u \o <<x>>) \o t
    BY <2>1, ConcatAssociative
  <2> HIDE DEF r
  <2>3. Ring(l, h, u \o r)
    BY <1>2, <2>2
  <2>4. start = IF u = << >> THEN h ELSE u[Len(u)]
    <3>1. CASE u = << >>
      <4>1. u \o r = r
        BY <2>1, <3>1, ConcatEmptySeq
      <4>2. l.prev[r[1]] = h
        BY <2>1, <2>3, <4>1, HeadFacts
      <4> QED
        BY <2>1, <3>1, <4>2
    <3>2. CASE u # << >>
      <4>1. u \o r \in Seq(N) /\ u \o r # << >>
        BY <2>1, EndNodes
      <4>2. Chain(l, u \o r)
        BY <2>3, <4>1, HeadFacts
      <4>3. Adj(l, u[Len(u)], x)
        BY <2>1, <3>2, <4>2, ChainConcat
      <4> QED
        BY <3>2, <4>3 DEF Adj
    <3> QED
      BY <3>1, <3>2
  <2> HIDE DEF start
  <2>5. Visited(l.prev, start, h, max) = Backwards(u)
    BY <1>2, <2>1, <2>3, <2>4, BackVisited
  <2> QED
    BY <2>5 DEF ForEachContinueReverse, PrevOf, start
<1> QED
  BY <1>1, <1>2

\* hmr_send_task_handler unlinks the entry that list_for_each_entry_safe is at:
\* the loop goes on with exactly the entries behind it, as it does when the entry
\* stays.
THEOREM SafeLoopGoesOn ==
  ASSUME NEW N, NEW l \in List(N), NEW h \in N, NEW u \in Seq(N), NEW x \in N,
         NEW t \in Seq(N), Ring(l, h, u \o <<x>> \o t), NEW max \in Nat, Len(t) < max
  PROVE  LET at == SafeFrom(l, x)
             m  == ListDelInit(l, x)
         IN  /\ at.pos = x /\ (u = << >> => SafeStart(l, h) = at)
             /\ SafeTurn(m, at) = SafeFrom(m, at.n)
             /\ ForEachFrom(m, SafeTurn(m, at).pos, h, max) = t
             /\ ForEachFrom(l, SafeTurn(l, at).pos, h, max) = t
<1> DEFINE m == ListDelInit(l, x)
           at == SafeFrom(l, x)
           start == l.next[x]
           r == <<x>> \o t
<1>1. m \in List(N) /\ Ring(m, h, u \o t)
  BY DelInitRemoves
<1>2. at.pos = x /\ at.n = start /\ SafeTurn(m, at).pos = start /\ SafeTurn(l, at).pos = start
  BY DEF SafeFrom, SafeTurn, NextOf
<1>3. SafeTurn(m, at) = SafeFrom(m, at.n)
  BY DEF SafeFrom, SafeTurn
<1>4. <<x>> \in Seq(N) /\ r \in Seq(N) /\ r # << >> /\ r[1] = x
  BY One, RingFacts
<1>5. u \o r = (u \o <<x>>) \o t
  BY <1>4, ConcatAssociative
<1>6. u = << >> => SafeStart(l, h) = at
  <2> SUFFICES ASSUME u = << >> PROVE l.next[h] = x
    BY DEF SafeStart, SafeFrom, FirstEntry, NextOf
  <2> HIDE DEF r
  <2>1. u \o r = r
    BY <1>4, ConcatEmptySeq
  <2>2. Ring(l, h, r)
    BY <1>5, <2>1
  <2> QED
    BY <1>4, <2>2, HeadFacts
<1>7. start = IF t = << >> THEN h ELSE t[1]
  <2> DEFINE v == u \o <<x>>
  <2>1. v \in Seq(N) /\ v # << >> /\ v[Len(v)] = x /\ Ring(l, h, v \o t)
    BY RingFacts
  <2> HIDE DEF v
  <2>2. CASE t = << >>
    <3>1. v \o t = v
      BY <2>1, <2>2, ConcatEmptySeq
    <3>2. l.next[v[Len(v)]] = h
      BY <2>1, <3>1, HeadFacts
    <3> QED
      BY <2>1, <2>2, <3>2
  <2>3. CASE t # << >>
    <3>1. v \o t \in Seq(N) /\ v \o t # << >>
      BY <2>1, EndNodes
    <3>2. Chain(l, v \o t)
      BY <2>1, <3>1, HeadFacts
    <3>3. Adj(l, x, t[1])
      BY <2>1, <2>3, <3>2, ChainConcat
    <3> QED
      BY <2>3, <3>3 DEF Adj
  <2> QED
    BY <2>2, <2>3
<1>8. Len(t) <= max
  BY LenProperties
<1> HIDE DEF m, at, r
<1>9. ForEachFrom(l, start, h, max) = t
  <2> DEFINE v == u \o <<x>>
  <2>1. v \in Seq(N) /\ Ring(l, h, v \o t)
    BY RingFacts
  <2> HIDE DEF v, start
  <2> QED
    BY <1>7, <1>8, <2>1, RestVisited DEF ForEachFrom
<1> HIDE DEF start
<1>10. ForEachFrom(m, start, h, max) = t
  BY <1>1, <1>7, <1>8, RestVisited DEF ForEachFrom
<1> QED
  BY <1>2, <1>3, <1>6, <1>9, <1>10 DEF m, at

\* The same for list_for_each_entry_safe_reverse, from the last entry.
THEOREM SafeReverseGoesOn ==
  ASSUME NEW N, NEW l \in List(N), NEW h \in N, NEW u \in Seq(N), NEW x \in N,
         Ring(l, h, u \o <<x>>)
  PROVE  LET at == SafeStartReverse(l, h)
             m  == ListDelInit(l, x)
         IN  at.pos = x /\ Ring(m, h, u) /\ SafeTurnReverse(m, at) = SafeStartReverse(m, h)
<1> DEFINE m == ListDelInit(l, x)
           v == u \o <<x>>
           b == IF u = << >> THEN h ELSE u[Len(u)]
<1>1. << >> \in Seq(N) /\ <<x>> \in Seq(N) /\ u \o << >> = u /\ v \o << >> = v
  BY One, EndNodes, ConcatEmptySeq
<1>2. m \in List(N) /\ Ring(m, h, u)
  <2>1. Ring(l, h, u \o <<x>> \o << >>)
    BY <1>1
  <2>2. m \in List(N) /\ Ring(m, h, u \o << >>)
    BY <1>1, <2>1, DelInitRemoves
  <2> QED
    BY <1>1, <2>2
<1> HIDE DEF m
<1>3. v \in Seq(N) /\ v # << >> /\ v[Len(v)] = x /\ Ring(l, h, v)
  BY RingFacts
<1>4. l.prev[h] = x
  <2> HIDE DEF v
  <2> QED
    BY <1>3, HeadFacts
<1>5. l.prev[x] = b
  <2>1. CASE u = << >>
    <3>1. v = <<x>> /\ v[1] = x
      BY <1>1, <2>1, One, ConcatEmptySeq
    <3> HIDE DEF v
    <3>2. l.prev[v[1]] = h
      BY <1>3, HeadFacts
    <3> QED
      BY <2>1, <3>1, <3>2
  <2>2. CASE u # << >>
    <3>1. Chain(l, v)
      BY <1>3, HeadFacts
    <3>2. <<x>> # << >> /\ <<x>>[1] = x
      BY One
    <3>3. Adj(l, u[Len(u)], x)
      BY <1>1, <2>2, <3>1, <3>2, ChainConcat
    <3> QED
      BY <2>2, <3>3 DEF Adj
  <2> QED
    BY <2>1, <2>2
<1>6. m.prev[h] = b
  <2>1. /\ u = << >> => m.next[h] = h /\ m.prev[h] = h
        /\ u # << >> => /\ m.next[h] = u[1] /\ m.prev[h] = u[Len(u)]
                        /\ m.next[u[Len(u)]] = h /\ m.prev[u[1]] = h
                        /\ Len(u) \in Nat \ {0} /\ u[1] \in N /\ u[Len(u)] \in N
        /\ h \notin Nodes(u) /\ Distinct(u) /\ Chain(m, u)
    BY <1>2, HeadFacts, Zenon
  <2> QED
    BY <2>1
<1> QED
  BY <1>2, <1>4, <1>5, <1>6
     DEF SafeStartReverse, SafeTurnReverse, LastEntry, PrevOf, m

\* Where a loop is after some turns is where the pointers have led it.
LEMMA NthWalks ==
  ASSUME NEW N, NEW l \in List(N), NEW h \in N, NEW n \in Nat, NEW f \in [1..n -> N],
         IsWalk(f, l.next, h, n), NEW i \in Nat, i < n
  PROVE  Nth(l, h, i) = f[i + 1]
<1> DEFINE at == CHOOSE at : at = [k \in 0..i |-> IF k = 0 THEN h ELSE l.next[at[k - 1]]]
           g == [k \in 0..i |-> f[k + 1]]
           Bad == {k \in 0..i : at[k] # f[k + 1]}
<1>1. \A k \in 0..i : k + 1 \in 1..n /\ (k # 0 => k - 1 \in 0..i /\ (k - 1) + 1 = k /\ k \in 1..n)
  OBVIOUS
<1>2. \A k \in 0..i : f[k + 1] = IF k = 0 THEN h ELSE l.next[f[k]]
  <2> HIDE DEF at, g, Bad
  <2> SUFFICES ASSUME NEW k \in 0..i PROVE f[k + 1] = IF k = 0 THEN h ELSE l.next[f[k]]
    OBVIOUS
  <2> DEFINE j == k + 1
  <2>1. j \in 1..n /\ (j = 1 <=> k = 0) /\ j - 1 = k
    BY <1>1
  <2> HIDE DEF j
  <2>2. f[j] = IF j = 1 THEN h ELSE l.next[f[j - 1]]
    BY <2>1 DEF IsWalk
  <2>3. f[j] = IF k = 0 THEN h ELSE l.next[f[k]]
    BY <2>1, <2>2
  <2> QED
    BY <2>3 DEF j
<1>3. \A k \in 0..i : k # 0 => g[k - 1] = f[k]
  BY <1>1
<1>4. g = [k \in 0..i |-> IF k = 0 THEN h ELSE l.next[g[k - 1]]]
  <2> HIDE DEF g
  <2>1. \A k \in 0..i : f[k + 1] = IF k = 0 THEN h ELSE l.next[g[k - 1]]
    BY <1>2, <1>3
  <2> QED
    BY <2>1 DEF g
<1>5. at = [k \in 0..i |-> IF k = 0 THEN h ELSE l.next[at[k - 1]]]
  <2> HIDE DEF g
  <2> QED
    BY <1>4, Zenon
<1> HIDE DEF at, g
<1>6. \A k \in 0..i : at[k] = IF k = 0 THEN h ELSE l.next[at[k - 1]]
  BY <1>5
<1>7. Bad = {}
  <2> SUFFICES ASSUME Bad # {} PROVE FALSE
    OBVIOUS
  <2>1. Bad \in SUBSET Nat
    OBVIOUS
  <2> HIDE DEF Bad
  <2>2. PICK k \in Bad : \A j \in Bad : k <= j
    BY <2>1, Smallest
  <2>3. k \in 0..i /\ at[k] # f[k + 1]
    BY DEF Bad
  <2>4. k # 0
    BY <1>2, <1>6, <2>3
  <2>5. k - 1 \in 0..i /\ (k - 1) + 1 = k /\ ~(k <= k - 1)
    BY <2>3, <2>4
  <2>6. at[k - 1] = f[k]
    BY <2>2, <2>5 DEF Bad
  <2> QED
    BY <1>2, <1>6, <2>3, <2>4, <2>6
<1>8. Nth(l, h, i) = at[i]
  BY DEF Nth, at
<1> QED
  BY <1>7, <1>8

\* list_for_each_entry is at the entries of the list and at nothing else; it is
\* at all of them when it may turn often enough.
THEOREM EntriesAreNodes ==
  ASSUME NEW N, NEW l \in List(N), NEW h \in N, NEW s \in Seq(N), Ring(l, h, s),
         NEW max \in Nat
  PROVE  /\ Entries(l, h, max) \subseteq Nodes(s)
         /\ Len(s) <= max => Entries(l, h, max) = Nodes(s)
<1> DEFINE n == max + 1
<1>1. /\ l.next[h] = IF s = << >> THEN h ELSE s[1]
      /\ h \notin Nodes(s) /\ Len(s) \in Nat
      /\ \A k \in 1..Len(s) : l.next[s[k]] = IF k = Len(s) THEN h ELSE s[k + 1]
  <2>1. /\ s = << >> => l.next[h] = h
        /\ s # << >> => l.next[h] = s[1] /\ l.next[s[Len(s)]] = h
        /\ h \notin Nodes(s) /\ Chain(l, s)
    <3>1. /\ s = << >> => l.next[h] = h /\ l.prev[h] = h
          /\ s # << >> => /\ l.next[h] = s[1] /\ l.prev[h] = s[Len(s)]
                          /\ l.next[s[Len(s)]] = h /\ l.prev[s[1]] = h
                          /\ Len(s) \in Nat \ {0} /\ s[1] \in N /\ s[Len(s)] \in N
          /\ h \notin Nodes(s) /\ Distinct(s) /\ Chain(l, s)
      BY HeadFacts, Zenon
    <3> QED
      BY <3>1
  <2>2. Len(s) \in Nat /\ (s = << >> <=> Len(s) = 0)
    BY EmptySeq, LenProperties
  <2>3. \A k \in 1..Len(s) : k # Len(s) => k \in 1 .. Len(s) - 1
    BY <2>2
  <2> QED
    BY <2>1, <2>2, <2>3 DEF Chain, Adj
<1>2. l.next \in [N -> N] /\ n \in Nat
  BY DEF List
<1>3. PICK f \in [1..n -> N] : IsWalk(f, l.next, h, n)
  BY <1>2, WalkExists
<1>4. \A k \in 0..max : Nth(l, h, k) = f[k + 1]
  <2> SUFFICES ASSUME NEW k \in 0..max PROVE Nth(l, h, k) = f[k + 1]
    OBVIOUS
  <2>1. k \in Nat /\ k < n
    OBVIOUS
  <2> HIDE DEF n
  <2> QED
    BY <1>2, <1>3, <2>1, NthWalks
<1>5. /\ f[1] = h
      /\ \A k \in 1..max : f[k + 1] = l.next[f[k]]
  <2>1. \A k \in 1..max : k + 1 \in 1..n /\ k + 1 # 1 /\ (k + 1) - 1 = k
    BY <1>2
  <2>2. 1 \in 1..n
    BY <1>2
  <2> HIDE DEF n
  <2> QED
    BY <1>3, <2>1, <2>2 DEF IsWalk
<1> HIDE DEF n
<1> DEFINE At(k) == IF k = Len(s) + 1 THEN h ELSE s[k]
           Bad == {k \in 1..max : k <= Len(s) + 1 /\ f[k + 1] # At(k)}
<1>6. Bad = {}
  <2> SUFFICES ASSUME Bad # {} PROVE FALSE
    OBVIOUS
  <2>1. Bad \in SUBSET Nat
    OBVIOUS
  <2> HIDE DEF Bad
  <2>2. PICK k \in Bad : \A j \in Bad : k <= j
    BY <2>1, Smallest
  <2>3. k \in 1..max /\ k <= Len(s) + 1 /\ f[k + 1] # At(k)
    BY DEF Bad
  <2>4. CASE k = 1
    <3>1. f[k + 1] = l.next[h]
      BY <1>5, <2>3, <2>4
    <3>2. s = << >> <=> Len(s) = 0
      BY EmptySeq
    <3>3. At(k) = IF s = << >> THEN h ELSE s[1]
      BY <1>1, <2>4, <3>2
    <3> QED
      BY <1>1, <2>3, <3>1, <3>3
  <2>5. CASE k # 1
    <3>1. k - 1 \in 1..max /\ k - 1 <= Len(s) + 1 /\ ~(k <= k - 1) /\ k - 1 \in 1..Len(s)
          /\ (k - 1) + 1 = k
      BY <1>1, <2>3, <2>5
    <3>2. f[k] = At(k - 1)
      BY <2>2, <3>1 DEF Bad
    <3>3. At(k - 1) = s[k - 1]
      BY <1>1, <3>1
    <3>4. l.next[s[k - 1]] = At(k)
      <4>1. k - 1 = Len(s) <=> k = Len(s) + 1
        BY <1>1, <2>3
      <4> QED
        BY <1>1, <3>1, <4>1
    <3> HIDE DEF At
    <3>5. f[k + 1] = l.next[f[k]]
      BY <1>5, <2>3
    <3> QED
      BY <2>3, <3>2, <3>3, <3>4, <3>5
  <2> QED
    BY <2>4, <2>5
<1>7. \A k \in 1..max : /\ k <= Len(s) => Nth(l, h, k) = s[k] /\ Nth(l, h, k) # h
                        /\ k = Len(s) + 1 => Nth(l, h, k) = h
  <2> SUFFICES ASSUME NEW k \in 1..max
               PROVE  /\ k <= Len(s) => Nth(l, h, k) = s[k] /\ Nth(l, h, k) # h
                      /\ k = Len(s) + 1 => Nth(l, h, k) = h
    OBVIOUS
  <2>1. k <= Len(s) + 1 => f[k + 1] = At(k)
    BY <1>6
  <2>2. Nth(l, h, k) = f[k + 1]
    BY <1>4
  <2>3. k <= Len(s) => s[k] \in Nodes(s) /\ k # Len(s) + 1 /\ k <= Len(s) + 1
    BY <1>1 DEF Nodes
  <2> QED
    BY <1>1, <2>1, <2>2, <2>3
<1>8. \A k \in 1..max : (\A j \in 1..k : Nth(l, h, j) # h) <=> k <= Len(s)
  <2> SUFFICES ASSUME NEW k \in 1..max
               PROVE  (\A j \in 1..k : Nth(l, h, j) # h) <=> k <= Len(s)
    OBVIOUS
  <2>1. ASSUME k <= Len(s), NEW j \in 1..k PROVE Nth(l, h, j) # h
    <3>1. j \in 1..max /\ j <= Len(s)
      BY <1>1, <2>1
    <3> QED
      BY <1>7, <3>1
  <2>2. ASSUME ~(k <= Len(s)) PROVE \E j \in 1..k : Nth(l, h, j) = h
    <3>1. Len(s) + 1 \in 1..k /\ Len(s) + 1 \in 1..max
      BY <1>1, <2>2
    <3> QED
      BY <1>7, <3>1
  <2> QED
    BY <2>1, <2>2
<1>9. Entries(l, h, max) = {Nth(l, h, k) : k \in {j \in 1..max : j <= Len(s)}}
  BY <1>8 DEF Entries
<1>10. ASSUME NEW x \in Entries(l, h, max) PROVE x \in Nodes(s)
  <2>1. PICK k \in 1..max : k <= Len(s) /\ x = Nth(l, h, k)
    BY <1>9, <1>10
  <2>2. k \in 1..Len(s) /\ x = s[k]
    BY <1>1, <1>7, <2>1
  <2> QED
    BY <2>2 DEF Nodes
<1>11. ASSUME Len(s) <= max, NEW x \in Nodes(s) PROVE x \in Entries(l, h, max)
  <2>1. PICK k \in 1..Len(s) : x = s[k]
    BY <1>11 DEF Nodes
  <2>2. k \in 1..max /\ k <= Len(s) /\ x = Nth(l, h, k)
    BY <1>1, <1>7, <1>11, <2>1
  <2> QED
    BY <1>9, <2>2
<1> QED
  BY <1>10, <1>11
=============================================================================
