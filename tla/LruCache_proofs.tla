--------------------------- MODULE LruCache_proofs ---------------------------
(* Proofs about LruCache, for every value of its constants. *)
EXTENDS LruCache, FiniteSetTheorems, SequenceTheorems, WellFoundedInduction, TLAPS

-----------------------------------------------------------------------------
(* The links *)

\* Links name a node or none.
NodeId == Nat \cup {None}

\* A node in use.
Node == [key : Key, previous : NodeId, next : NodeId]

\* The type of the list.
LinkType(l) ==
    l \in [nodes : Seq(Node \cup {None}), free : Seq(Nat), head : NodeId, tail : NodeId]

\* The fields of a list, and that a node is not what stands for none.
LEMMA LinkFields ==
    ASSUME NEW l, LinkType(l)
    PROVE  /\ l.nodes \in Seq(Node \cup {None}) /\ l.free \in Seq(Nat)
           /\ l.head \in NodeId /\ l.tail \in NodeId
           /\ Len(l.nodes) \in Nat /\ DOMAIN l.nodes = 1..Len(l.nodes)
           /\ \A x \in 1..Len(l.nodes) : l.nodes[x] # None => l.nodes[x] \in Node
           /\ None \notin Node /\ None \notin Nat
<1>1. /\ l.nodes \in Seq(Node \cup {None}) /\ l.free \in Seq(Nat)
      /\ l.head \in NodeId /\ l.tail \in NodeId
  BY DEF LinkType
<1>2. None \notin Node /\ None \notin Nat
  BY LruAssumption DEF Node, NodeId
<1> QED BY <1>1, <1>2

\* An element of a sequence is replaced.
LEMMA SetSeq ==
    ASSUME NEW S, NEW s \in Seq(S), NEW k, NEW v \in S
    PROVE  /\ [s EXCEPT ![k] = v] \in Seq(S) /\ Len([s EXCEPT ![k] = v]) = Len(s)
           /\ \A i \in 1..Len(s) : [s EXCEPT ![k] = v][i] = IF i = k THEN v ELSE s[i]
<1> DEFINE t == [s EXCEPT ![k] = v]
<1>1. Len(s) \in Nat /\ DOMAIN s = 1..Len(s) /\ \A i \in 1..Len(s) : s[i] \in S
  OBVIOUS
<1>2. DOMAIN t = 1..Len(s) /\ \A i \in 1..Len(s) : t[i] = IF i = k THEN v ELSE s[i]
  BY <1>1
<1>3. t = [i \in 1..Len(s) |-> IF i = k THEN v ELSE s[i]]
  BY <1>1
<1> HIDE DEF t
<1>4. t \in Seq(S) /\ Len(t) = Len(s)
  BY <1>1, <1>3
<1> QED BY <1>2, <1>4 DEF t

\* A live node i of l becomes v.
NodeBecomes(l, m, i, v) ==
    /\ LinkType(m) /\ m.free = l.free /\ m.head = l.head /\ m.tail = l.tail
    /\ Len(m.nodes) = Len(l.nodes)
    /\ \A x \in 1..Len(l.nodes) : m.nodes[x] = IF x = i THEN v ELSE l.nodes[x]

\* An assignment to one place of the node vector.
LEMMA NodeSet ==
    ASSUME NEW l, LinkType(l), NEW i, NEW v \in Node \cup {None}
    PROVE  NodeBecomes(l, [l EXCEPT !.nodes = [l.nodes EXCEPT ![i] = v]], i, v)
<1> DEFINE t == [l.nodes EXCEPT ![i] = v]
           m == [l EXCEPT !.nodes = t]
<1>1. /\ t \in Seq(Node \cup {None}) /\ Len(t) = Len(l.nodes)
      /\ \A x \in 1..Len(l.nodes) : t[x] = IF x = i THEN v ELSE l.nodes[x]
  BY LinkFields, SetSeq
<1> HIDE DEF t
<1>2. LinkType(m) /\ m.free = l.free /\ m.head = l.head /\ m.tail = l.tail /\ m.nodes = t
  BY <1>1 DEF LinkType
<1> QED BY <1>1, <1>2 DEF NodeBecomes, t

\* The nodes of m are those of l, up to their links.
SameNodes(l, m) ==
    /\ LinkType(m) /\ m.free = l.free /\ Len(m.nodes) = Len(l.nodes)
    /\ \A x \in 1..Len(l.nodes) :
         /\ (m.nodes[x] = None) <=> (l.nodes[x] = None)
         /\ m.nodes[x].key = l.nodes[x].key

\* Step by step, too.
LEMMA SameNodesTrans ==
    ASSUME NEW l, NEW m, NEW n, SameNodes(l, m), SameNodes(m, n)
    PROVE  SameNodes(l, n)
BY DEF SameNodes

\* Node i of l is in use.
LiveAt(l, i) == i \in 1..Len(l.nodes) /\ l.nodes[i] # None

\* It is so for every node or for none.
LEMMA SameNodesLive ==
    ASSUME NEW l, NEW m, SameNodes(l, m)
    PROVE  \A x : LiveAt(m, x) <=> LiveAt(l, x)
BY DEF SameNodes, LiveAt

\* What set_next changes.
NextIs(l, m, i, n) ==
    /\ SameNodes(l, m) /\ m.tail = l.tail
    /\ m.head = IF LiveAt(l, i) THEN l.head ELSE n
    /\ \A x \in 1..Len(l.nodes) :
         /\ m.nodes[x].previous = l.nodes[x].previous
         /\ m.nodes[x].next = IF x = i /\ LiveAt(l, i) THEN n ELSE l.nodes[x].next

\* What set_previous changes.
PreviousIs(l, m, i, n) ==
    /\ SameNodes(l, m) /\ m.tail = l.tail /\ m.head = l.head
    /\ \A x \in 1..Len(l.nodes) :
         /\ m.nodes[x].next = l.nodes[x].next
         /\ m.nodes[x].previous = IF x = i /\ LiveAt(l, i) THEN n ELSE l.nodes[x].previous

\* NodeAt is a node exactly where one is live.
LEMMA NodeAtLive ==
    ASSUME NEW l, LinkType(l), NEW i
    PROVE  (NodeAt(l, i) # None) <=> LiveAt(l, i)
BY LinkFields DEF NodeAt, LiveAt

\* set_next() changes one link, or the head.
LEMMA SetNextOK ==
    ASSUME NEW l, LinkType(l), NEW i, NEW n \in NodeId
    PROVE  NextIs(l, SetNext(l, i, n), i, n)
<1>1. CASE LiveAt(l, i)
  <2> DEFINE v == [l.nodes[i] EXCEPT !.next = n]
             m == SetNext(l, i, n)
  <2>1. l.nodes[i] \in Node /\ None \notin Node
    BY <1>1, LinkFields DEF LiveAt
  <2>2. v \in Node /\ v.key = l.nodes[i].key /\ v.previous = l.nodes[i].previous /\ v.next = n
    BY <2>1 DEF Node
  <2>3. m = [l EXCEPT !.nodes = [l.nodes EXCEPT ![i] = v]]
    BY <1>1, NodeAtLive DEF SetNext
  <2> HIDE DEF v, m
  <2>4. NodeBecomes(l, m, i, v)
    BY <2>2, <2>3, NodeSet
  <2>5. SameNodes(l, m)
    BY <1>1, <2>1, <2>2, <2>4 DEF NodeBecomes, SameNodes, LiveAt
  <2> QED BY <1>1, <2>1, <2>2, <2>4, <2>5 DEF NodeBecomes, NextIs, m
<1>2. CASE ~LiveAt(l, i)
  <2> DEFINE m == SetNext(l, i, n)
  <2>1. m = [l EXCEPT !.head = n]
    BY <1>2, NodeAtLive DEF SetNext
  <2>2. LinkType(m) /\ m.head = n /\ m.tail = l.tail /\ m.free = l.free /\ m.nodes = l.nodes
    BY <2>1 DEF LinkType
  <2> QED BY <1>2, <2>2 DEF NextIs, SameNodes
<1> QED BY <1>1, <1>2

\* set_previous() changes one link, or nothing.
LEMMA SetPreviousOK ==
    ASSUME NEW l, LinkType(l), NEW i, NEW n \in NodeId
    PROVE  PreviousIs(l, SetPrevious(l, i, n), i, n)
<1>1. CASE LiveAt(l, i)
  <2> DEFINE v == [l.nodes[i] EXCEPT !.previous = n]
             m == SetPrevious(l, i, n)
  <2>1. l.nodes[i] \in Node /\ None \notin Node
    BY <1>1, LinkFields DEF LiveAt
  <2>2. v \in Node /\ v.key = l.nodes[i].key /\ v.next = l.nodes[i].next /\ v.previous = n
    BY <2>1 DEF Node
  <2>3. m = [l EXCEPT !.nodes = [l.nodes EXCEPT ![i] = v]]
    BY <1>1, NodeAtLive DEF SetPrevious
  <2> HIDE DEF v, m
  <2>4. NodeBecomes(l, m, i, v)
    BY <2>2, <2>3, NodeSet
  <2>5. SameNodes(l, m)
    BY <1>1, <2>1, <2>2, <2>4 DEF NodeBecomes, SameNodes, LiveAt
  <2> QED BY <1>1, <2>1, <2>2, <2>4, <2>5 DEF NodeBecomes, PreviousIs, m
<1>2. CASE ~LiveAt(l, i)
  <2>1. SetPrevious(l, i, n) = l
    BY <1>2, NodeAtLive DEF SetPrevious
  <2> QED BY <1>2, <2>1 DEF PreviousIs, SameNodes
<1> QED BY <1>1, <1>2

-----------------------------------------------------------------------------
(* The order of the nodes *)

\* The live nodes of l are linked in the order s.
ListOf(l, s) ==
    /\ s \in Seq(Nat)
    /\ \A i, j \in 1..Len(s) : s[i] = s[j] => i = j
    /\ \A i \in 1..Len(s) : LiveAt(l, s[i])
    /\ \A x : LiveAt(l, x) => \E i \in 1..Len(s) : s[i] = x
    /\ l.head = IF Len(s) = 0 THEN None ELSE s[1]
    /\ l.tail = IF Len(s) = 0 THEN None ELSE s[Len(s)]
    /\ \A i \in 1..Len(s) :
         /\ l.nodes[s[i]].previous = IF i = 1 THEN None ELSE s[i - 1]
         /\ l.nodes[s[i]].next = IF i = Len(s) THEN None ELSE s[i + 1]

\* The links of the first node.
LEMMA FirstLinks ==
    ASSUME NEW l, NEW s, ListOf(l, s), Len(s) # 0
    PROVE  /\ l.nodes[s[1]].previous = None
           /\ l.nodes[s[1]].next = IF Len(s) = 1 THEN None ELSE s[2]
<1>1. Len(s) \in Nat
  BY DEF ListOf
<1>2. 1 \in 1..Len(s) /\ 1 + 1 = 2
  BY <1>1
<1>3. \A a \in 1..Len(s) :
         /\ l.nodes[s[a]].previous = IF a = 1 THEN None ELSE s[a - 1]
         /\ l.nodes[s[a]].next = IF a = Len(s) THEN None ELSE s[a + 1]
  BY Zenon DEF ListOf
<1>4. /\ l.nodes[s[1]].previous = IF 1 = 1 THEN None ELSE s[1 - 1]
      /\ l.nodes[s[1]].next = IF 1 = Len(s) THEN None ELSE s[1 + 1]
  BY <1>2, <1>3, Zenon
<1> QED BY <1>2, <1>4

\* No node has two places.
LEMMA ListDistinct ==
    ASSUME NEW l, NEW s, ListOf(l, s), NEW a \in 1..Len(s), NEW b \in 1..Len(s), a # b
    PROVE  s[a] # s[b]
BY DEF ListOf

\* Node i of l goes to the end, the nodes around it close up.
PromotedTo(l, p, i) ==
    /\ SameNodes(l, p) /\ p.tail = i
    /\ p.head = IF l.nodes[i].previous = None THEN l.nodes[i].next ELSE l.head
    /\ \A x \in 1..Len(l.nodes) :
         /\ p.nodes[x].next = IF x = i THEN None ELSE IF x = l.tail THEN i
                              ELSE IF x = l.nodes[i].previous THEN l.nodes[i].next
                              ELSE l.nodes[x].next
         /\ p.nodes[x].previous = IF x = i THEN l.tail
                                  ELSE IF x = l.nodes[i].next THEN l.nodes[i].previous
                                  ELSE l.nodes[x].previous

\* promote() on a node that is not the last.
LEMMA PromoteLinks ==
    ASSUME NEW l, LinkType(l), NEW i, LiveAt(l, i), l.tail # i, LiveAt(l, l.tail),
           l.nodes[i].previous = None \/ LiveAt(l, l.nodes[i].previous),
           LiveAt(l, l.nodes[i].next), l.nodes[i].previous # l.tail
    PROVE  PromotedTo(l, Promote(l, i), i)
<1> DEFINE b == l.nodes[i].previous
           n == l.nodes[i].next
           l1 == SetNext(l, b, n)
           l2 == SetPrevious(l1, n, b)
           l3 == SetNext(l2, l.tail, i)
           l4 == SetPrevious(l3, i, l.tail)
           l5 == SetNext(l4, i, None)
           p == [l5 EXCEPT !.tail = i]
<1>1. /\ b \in NodeId /\ n \in NodeId /\ l.tail \in NodeId /\ i \in NodeId /\ None \in NodeId
      /\ ~LiveAt(l, None)
  <2>1. l.nodes[i] \in Node
    BY LinkFields DEF LiveAt
  <2> QED BY <2>1, LinkFields DEF LiveAt, Node, NodeId
<1>2. NextIs(l, l1, b, n)
  BY <1>1, SetNextOK
<1>3. PreviousIs(l1, l2, n, b)
  BY <1>1, <1>2, SetPreviousOK DEF NextIs, SameNodes
<1>4. NextIs(l2, l3, l.tail, i)
  BY <1>1, <1>3, SetNextOK DEF PreviousIs, SameNodes
<1>5. PreviousIs(l3, l4, i, l.tail)
  BY <1>1, <1>4, SetPreviousOK DEF NextIs, SameNodes
<1>6. NextIs(l4, l5, i, None)
  BY <1>1, <1>5, SetNextOK DEF PreviousIs, SameNodes
<1>7. /\ \A x : LiveAt(l1, x) <=> LiveAt(l, x)
      /\ \A x : LiveAt(l2, x) <=> LiveAt(l, x)
      /\ \A x : LiveAt(l3, x) <=> LiveAt(l, x)
      /\ \A x : LiveAt(l4, x) <=> LiveAt(l, x)
  <2> HIDE DEF l1, l2, l3, l4, l5
  <2>1. SameNodes(l, l1) /\ SameNodes(l1, l2) /\ SameNodes(l2, l3) /\ SameNodes(l3, l4)
    BY <1>2, <1>3, <1>4, <1>5 DEF NextIs, PreviousIs
  <2>2. \A x : LiveAt(l1, x) <=> LiveAt(l, x)
    BY <2>1, SameNodesLive
  <2>3. \A x : LiveAt(l2, x) <=> LiveAt(l1, x)
    BY <2>1, SameNodesLive
  <2>4. \A x : LiveAt(l3, x) <=> LiveAt(l2, x)
    BY <2>1, SameNodesLive
  <2>5. \A x : LiveAt(l4, x) <=> LiveAt(l3, x)
    BY <2>1, SameNodesLive
  <2> QED BY <2>2, <2>3, <2>4, <2>5
<1>8. Promote(l, i) = p
  <2>1. Promote(l, i) = [l3 EXCEPT !.nodes[i].previous = l.tail, !.nodes[i].next = None, !.tail = i]
    <3>1. l3 = IF NodeAt(l2, l.tail) # None THEN [l2 EXCEPT !.nodes[l.tail].next = i] ELSE l2
      <4>1. NodeAt(l2, l.tail) # None
        <5>1. LinkType(l2)
          BY <1>3 DEF PreviousIs, SameNodes
        <5>2. LiveAt(l2, l.tail)
          BY <1>7
        <5> HIDE DEF l2
        <5> QED BY <5>1, <5>2, NodeAtLive
      <4> HIDE DEF l2
      <4> QED BY <4>1 DEF SetNext
    <3>2. NodeAt(l, i) # None
      BY NodeAtLive
    <3> QED BY <3>1, <3>2 DEF Promote
  <2>2. l4 = [l3 EXCEPT !.nodes[i].previous = l.tail]
    <3>1. NodeAt(l3, i) # None
      BY <1>4, <1>7, NodeAtLive DEF NextIs, SameNodes
    <3> HIDE DEF l3
    <3> QED BY <3>1 DEF SetPrevious
  <2>3. l5 = [l4 EXCEPT !.nodes[i].next = None]
    <3>1. NodeAt(l4, i) # None
      BY <1>5, <1>7, NodeAtLive DEF PreviousIs, SameNodes
    <3> HIDE DEF l4
    <3> QED BY <3>1 DEF SetNext
  <2> HIDE DEF l3, l4, l5
  <2> QED BY <2>1, <2>2, <2>3
<1>9. /\ LinkType(p) /\ p.tail = i /\ p.head = l5.head /\ p.nodes = l5.nodes /\ p.free = l5.free
  <2>1. LinkType(l5)
    BY <1>6 DEF NextIs, SameNodes
  <2> HIDE DEF l5
  <2> QED BY <1>1, <2>1 DEF LinkType, NodeId
<1>10. i \in 1..Len(l.nodes) /\ LiveAt(l, i)
  BY DEF LiveAt
<1> HIDE DEF l1, l2, l3, l4, l5, p
<1>11. SameNodes(l, p)
  <2>1. SameNodes(l, l1) /\ SameNodes(l1, l2) /\ SameNodes(l2, l3)
        /\ SameNodes(l3, l4) /\ SameNodes(l4, l5)
    BY <1>2, <1>3, <1>4, <1>5, <1>6 DEF NextIs, PreviousIs
  <2>2. SameNodes(l, l5)
    BY <2>1, SameNodesTrans
  <2> QED BY <1>9, <2>2 DEF SameNodes
<1>12. p.head = IF b = None THEN n ELSE l.head
  BY <1>1, <1>2, <1>3, <1>4, <1>5, <1>6, <1>7, <1>9 DEF NextIs, PreviousIs
<1> HIDE DEF b, n
<1>13. ASSUME NEW x \in 1..Len(l.nodes)
       PROVE  /\ p.nodes[x].next = IF x = i THEN None ELSE IF x = l.tail THEN i
                                   ELSE IF x = b THEN n ELSE l.nodes[x].next
              /\ p.nodes[x].previous = IF x = i THEN l.tail
                                       ELSE IF x = n THEN b ELSE l.nodes[x].previous
  <2>0. /\ x \in 1..Len(l1.nodes) /\ x \in 1..Len(l2.nodes) /\ x \in 1..Len(l3.nodes)
        /\ x \in 1..Len(l4.nodes)
    BY <1>2, <1>3, <1>4, <1>5 DEF NextIs, PreviousIs, SameNodes
  <2>1. /\ l1.nodes[x].previous = l.nodes[x].previous
        /\ l1.nodes[x].next = IF x = b /\ LiveAt(l, b) THEN n ELSE l.nodes[x].next
    BY <1>2 DEF NextIs
  <2>2. /\ l2.nodes[x].next = l1.nodes[x].next
        /\ l2.nodes[x].previous = IF x = n THEN b ELSE l1.nodes[x].previous
    BY <1>3, <1>7, <2>0 DEF PreviousIs, n
  <2>3. /\ l3.nodes[x].previous = l2.nodes[x].previous
        /\ l3.nodes[x].next = IF x = l.tail THEN i ELSE l2.nodes[x].next
    BY <1>4, <1>7, <2>0 DEF NextIs
  <2>4. /\ l4.nodes[x].next = l3.nodes[x].next
        /\ l4.nodes[x].previous = IF x = i THEN l.tail ELSE l3.nodes[x].previous
    BY <1>5, <1>7, <1>10, <2>0 DEF PreviousIs
  <2>5. /\ l5.nodes[x].previous = l4.nodes[x].previous
        /\ l5.nodes[x].next = IF x = i THEN None ELSE l4.nodes[x].next
    BY <1>6, <1>7, <1>10, <2>0 DEF NextIs
  <2>6. x = b => LiveAt(l, b)
    BY LinkFields DEF b
  <2> QED BY <1>9, <2>1, <2>2, <2>3, <2>4, <2>5, <2>6
<1> QED BY <1>8, <1>9, <1>11, <1>12, <1>13 DEF PromotedTo, b, n

\* t is s with its j-th element taken out and e put at the end.
Moved(s, t, j, e) ==
    /\ Len(t) = Len(s)
    /\ \A m \in 1..Len(s) :
         t[m] = IF m < j THEN s[m] ELSE IF m < Len(s) THEN s[m + 1] ELSE e

\* Removing the j-th element and appending one gives such a sequence.
LEMMA MovedSeq ==
    ASSUME NEW S, NEW s \in Seq(S), NEW j \in 1..Len(s), NEW e \in S
    PROVE  Append(RemoveAt(s, j), e) \in Seq(S) /\ Moved(s, Append(RemoveAt(s, j), e), j, e)
<1> DEFINE a == SubSeq(s, 1, j - 1)
           b == SubSeq(s, j + 1, Len(s))
           n == Len(s)
<1>1. n \in Nat /\ j \in Nat /\ j >= 1 /\ j <= n
  OBVIOUS
<1>2. a \in Seq(S) /\ Len(a) = j - 1 /\ \A m \in 1..(j - 1) : a[m] = s[m]
  OBVIOUS
<1>3. b \in Seq(S) /\ Len(b) = n - j /\ \A m \in 1..(n - j) : b[m] = s[j + m]
  OBVIOUS
<1> HIDE DEF a, b, n
<1>4. /\ a \o b \in Seq(S) /\ Len(a \o b) = n - 1
      /\ \A m \in 1..(j - 1) : (a \o b)[m] = s[m]
      /\ \A m \in j..(n - 1) : (a \o b)[m] = s[m + 1]
  <2>1. a \o b \in Seq(S) /\ Len(a \o b) = n - 1
    <3>1. a \o b \in Seq(S) /\ Len(a \o b) = Len(a) + Len(b)
      BY <1>2, <1>3, ConcatProperties
    <3> QED BY <1>1, <1>2, <1>3, <3>1
  <2>2. \A m \in 1..(j - 1) : (a \o b)[m] = s[m]
    BY <1>1, <1>2, <1>3
  <2>3. ASSUME NEW m \in j..(n - 1)
        PROVE  (a \o b)[m] = s[m + 1]
    <3>1. (a \o b)[m] = b[m - (j - 1)]
      BY <1>1, <1>2, <1>3
    <3>2. m - (j - 1) \in 1..(n - j) /\ j + (m - (j - 1)) = m + 1
      BY <1>1
    <3> QED BY <1>3, <3>1, <3>2
  <2> QED BY <2>1, <2>2, <2>3
<1>5. RemoveAt(s, j) = a \o b
  BY DEF RemoveAt, a, b
<1> DEFINE c == a \o b
<1> HIDE DEF c
<1>6. /\ c \in Seq(S) /\ Len(c) = n - 1 /\ RemoveAt(s, j) = c
      /\ \A m \in 1..(n - 1) : c[m] = IF m < j THEN s[m] ELSE s[m + 1]
  BY <1>1, <1>4, <1>5 DEF c
<1>7. Append(c, e) \in Seq(S) /\ Len(Append(c, e)) = n
  BY <1>1, <1>6
<1>8. \A m \in 1..n : Append(c, e)[m] = IF m < n THEN c[m] ELSE e
  BY <1>1, <1>6
<1> QED BY <1>1, <1>6, <1>7, <1>8 DEF Moved, n

\* So promote moves the node to the end of the order.
LEMMA PromoteOrder ==
    ASSUME NEW l, LinkType(l), NEW s, ListOf(l, s), NEW j \in 1..Len(s), j # Len(s),
           NEW p, PromotedTo(l, p, s[j]), NEW t, t \in Seq(Nat), Moved(s, t, j, s[j])
    PROVE  ListOf(p, t)
<1> DEFINE n == Len(s)
           i == s[j]
<1>0. s \in Seq(Nat) /\ Len(t) = n
  BY DEF ListOf, Moved
<1>1. /\ n \in Nat /\ j \in 1..n /\ j < n /\ Len(t) = n
      /\ \A m \in 1..n : s[m] \in Nat
  BY <1>0
<1>2. /\ \A x : LiveAt(p, x) <=> LiveAt(l, x)
      /\ \A x : LiveAt(l, x) => x \in 1..Len(l.nodes)
  BY DEF PromotedTo, SameNodes, LiveAt
\* Where an element of t comes from.
<1>3. /\ \A m \in 1..n : m < j => t[m] = s[m]
      /\ \A m \in 1..n : m >= j /\ m < n => t[m] = s[m + 1]
      /\ t[n] = i
  BY <1>1 DEF Moved
<1> HIDE DEF n
<1>4. \A a, b \in 1..n : t[a] = t[b] => a = b
  <2>1. \A a, b \in 1..n : s[a] = s[b] => a = b
    BY DEF ListOf, n
  <2> DEFINE from(m) == IF m < j THEN m ELSE IF m < n THEN m + 1 ELSE j
  <2>2. \A m \in 1..n : from(m) \in 1..n /\ t[m] = s[from(m)]
    BY <1>1, <1>3
  <2>3. \A a, b \in 1..n : from(a) = from(b) => a = b
    BY <1>1
  <2> HIDE DEF from
  <2> QED BY <2>1, <2>2, <2>3
<1>5. ASSUME NEW m \in 1..n
      PROVE  LiveAt(p, t[m])
  <2>1. \A a \in 1..n : LiveAt(p, s[a])
    BY <1>2 DEF ListOf, n
  <2>2. \E a \in 1..n : t[m] = s[a]
    <3>1. m < j \/ (m >= j /\ m < n /\ m + 1 \in 1..n) \/ m = n
      BY <1>1
    <3> QED BY <1>1, <1>3, <3>1
  <2> QED BY <2>1, <2>2
<1>6. ASSUME NEW x, LiveAt(p, x)
      PROVE  \E m \in 1..n : t[m] = x
  <2>1. PICK a \in 1..n : s[a] = x
    BY <1>2, <1>6 DEF ListOf, n
  <2>2. CASE a < j
    BY <1>3, <2>1, <2>2
  <2>3. CASE a = j
    BY <1>1, <1>3, <2>1, <2>3
  <2>4. CASE a > j
    <3>1. a - 1 \in 1..n /\ a - 1 >= j /\ a - 1 < n /\ (a - 1) + 1 = a
      BY <1>1, <2>4
    <3> QED BY <1>3, <2>1, <3>1
  <2> QED BY <1>1, <2>2, <2>3, <2>4
\* The links of l, by place.
<1>7. /\ l.tail = s[n] /\ l.head = s[1]
      /\ l.nodes[i].previous = IF j = 1 THEN None ELSE s[j - 1]
      /\ l.nodes[i].next = s[j + 1]
      /\ None \notin Nat
  BY <1>1, LinkFields DEF ListOf, n
<1>8. p.tail = t[n] /\ p.head = IF j = 1 THEN s[2] ELSE s[1]
  <2>1. j # 1 => s[j - 1] \in Nat
    BY <1>1
  <2> QED BY <1>3, <1>7, <2>1 DEF PromotedTo
<1>9. p.head = t[1]
  BY <1>1, <1>3, <1>8
<1> HIDE DEF i
<1>10. \A a, b \in 1..n : s[a] = s[b] => a = b
  BY DEF ListOf, n
<1>11. ASSUME NEW a \in 1..n
       PROVE  /\ s[a] \in 1..Len(l.nodes)
              /\ l.nodes[s[a]].previous = IF a = 1 THEN None ELSE s[a - 1]
              /\ l.nodes[s[a]].next = IF a = n THEN None ELSE s[a + 1]
  BY <1>2 DEF ListOf, n
<1>12. ASSUME NEW x \in 1..Len(l.nodes)
       PROVE  /\ p.nodes[x].next = IF x = i THEN None ELSE IF x = l.tail THEN i
                              ELSE IF x = l.nodes[i].previous THEN l.nodes[i].next
                              ELSE l.nodes[x].next
              /\ p.nodes[x].previous = IF x = i THEN l.tail
                                  ELSE IF x = l.nodes[i].next THEN l.nodes[i].previous
                                  ELSE l.nodes[x].previous
  BY DEF PromotedTo, i
<1>13. i = s[j]
  BY DEF i
\* The links of p, by place in s.
<1>14. ASSUME NEW a \in 1..n
       PROVE  /\ p.nodes[s[a]].next = IF a = j THEN None ELSE IF a = n THEN s[j]
                                      ELSE IF a = j - 1 THEN s[j + 1] ELSE s[a + 1]
              /\ p.nodes[s[a]].previous = IF a = j THEN s[n]
                        ELSE IF a = j + 1 THEN IF j = 1 THEN None ELSE s[j - 1]
                        ELSE IF a = 1 THEN None ELSE s[a - 1]
  <2>1. (s[a] = i) <=> (a = j)
    BY <1>1, <1>10, <1>13
  <2>2. (s[a] = l.tail) <=> (a = n)
    BY <1>1, <1>7, <1>10
  <2>3. (s[a] = l.nodes[i].previous) <=> (a = j - 1)
    <3>1. CASE j = 1
      BY <1>1, <1>7, <3>1
    <3>2. CASE j # 1
      <4>1. j - 1 \in 1..n
        BY <1>1, <3>2
      <4> QED BY <1>7, <1>10, <3>2, <4>1
    <3> QED BY <3>1, <3>2
  <2>4. (s[a] = l.nodes[i].next) <=> (a = j + 1)
    <3>1. j + 1 \in 1..n
      BY <1>1
    <3> QED BY <1>7, <1>10, <3>1
  <2>5. /\ p.nodes[s[a]].next = IF a = j THEN None ELSE IF a = n THEN i
                              ELSE IF a = j - 1 THEN l.nodes[i].next
                              ELSE l.nodes[s[a]].next
        /\ p.nodes[s[a]].previous = IF a = j THEN l.tail
                                  ELSE IF a = j + 1 THEN l.nodes[i].previous
                                  ELSE l.nodes[s[a]].previous
    BY <1>11, <1>12, <2>1, <2>2, <2>3, <2>4
  <2> QED BY <1>7, <1>11, <1>13, <2>5
<1>15. ASSUME NEW m \in 1..n
       PROVE  /\ p.nodes[t[m]].previous = IF m = 1 THEN None ELSE t[m - 1]
              /\ p.nodes[t[m]].next = IF m = n THEN None ELSE t[m + 1]
  <2>1. CASE m < j
    <3>1. t[m] = s[m] /\ m # n
      BY <1>1, <1>3, <2>1
    <3>2. m # 1 => t[m - 1] = s[m - 1]
      BY <1>1, <1>3, <2>1
    <3>3. t[m + 1] = IF m = j - 1 THEN s[j + 1] ELSE s[m + 1]
      <4>1. CASE m = j - 1
        <5>1. m + 1 = j
          BY <1>1, <4>1
        <5> QED BY <1>1, <1>3, <4>1, <5>1
      <4>2. CASE m # j - 1
        <5>1. m + 1 \in 1..n /\ m + 1 < j
          BY <1>1, <2>1, <4>2
        <5> QED BY <1>3, <4>2, <5>1
      <4> QED BY <4>1, <4>2
    <3>4. m # j /\ m # j + 1
      BY <1>1, <2>1
    <3> QED BY <1>14, <3>1, <3>2, <3>3, <3>4
  <2>2. CASE m >= j /\ m < n
    <3> DEFINE a == m + 1
    <3>1. a \in 1..n /\ t[m] = s[a]
      BY <1>1, <1>3, <2>2
    <3>2. a # j /\ a # j - 1 /\ (a = j + 1 <=> m = j) /\ a # 1 /\ a - 1 = m /\ (a = n <=> m = n - 1)
      BY <1>1, <2>2
    <3>3. m # 1 => t[m - 1] = IF m = j THEN s[j - 1] ELSE s[m]
      <4>1. CASE m = j
        <5>1. m # 1 => m - 1 \in 1..n /\ m - 1 < j
          BY <1>1, <4>1
        <5> QED BY <1>3, <4>1, <5>1
      <4>2. CASE m # j
        <5>1. m - 1 \in 1..n /\ m - 1 >= j /\ m - 1 < n /\ (m - 1) + 1 = m
          BY <1>1, <2>2, <4>2
        <5> QED BY <1>3, <4>2, <5>1
      <4> QED BY <4>1, <4>2
    <3>4. t[m + 1] = IF a = n THEN s[j] ELSE s[a + 1]
      <4>1. CASE a = n
        BY <1>3, <1>13, <4>1
      <4>2. CASE a # n
        <5>1. a >= j /\ a < n
          BY <1>1, <2>2, <3>1, <4>2
        <5> QED BY <1>3, <3>1, <4>2, <5>1
      <4> QED BY <4>1, <4>2
    <3> HIDE DEF a
    <3>5. /\ p.nodes[s[a]].next = IF a = n THEN s[j] ELSE s[a + 1]
          /\ p.nodes[s[a]].previous = IF m = j THEN IF j = 1 THEN None ELSE s[j - 1] ELSE s[m]
      BY <1>14, <3>1, <3>2
    <3>6. m = j \/ m # 1
      BY <1>1, <2>2
    <3> QED BY <2>2, <3>1, <3>3, <3>4, <3>5, <3>6
  <2>3. CASE m = n
    <3>1. t[m] = s[j] /\ m # 1
      BY <1>1, <1>3, <1>13, <2>3
    <3>2. t[m - 1] = s[n]
      <4>1. m - 1 \in 1..n /\ m - 1 >= j /\ m - 1 < n /\ (m - 1) + 1 = n
        BY <1>1, <2>3
      <4> QED BY <1>3, <4>1
    <3> QED BY <1>1, <1>14, <2>3, <3>1, <3>2
  <2> QED BY <1>1, <2>1, <2>2, <2>3
<1>16. n # 0 /\ Len(t) = n
  BY <1>1
<1> QED BY <1>4, <1>5, <1>6, <1>8, <1>9, <1>15, <1>16 DEF ListOf

-----------------------------------------------------------------------------
(* Taking out the head, and putting a node at the end *)

\* Node x of r is in use as it is in l, for the same key.
SameNode(l, r, x) ==
    /\ r.nodes[x].key = l.nodes[x].key
    /\ (r.nodes[x] = None) <=> (l.nodes[x] = None)

\* The first node i of l is freed.
RemovedHead(l, r, i) ==
    /\ LinkType(r) /\ r.free = Append(l.free, i) /\ Len(r.nodes) = Len(l.nodes)
    /\ r.nodes[i] = None
    /\ r.head = l.nodes[i].next
    /\ r.tail = IF l.nodes[i].next = None THEN None ELSE l.tail
    /\ \A x \in 1..Len(l.nodes) : x # i =>
         /\ SameNode(l, r, x) /\ r.nodes[x].next = l.nodes[x].next
         /\ r.nodes[x].previous = IF x = l.nodes[i].next THEN None ELSE l.nodes[x].previous

\* remove() on a node that is the head.
LEMMA RemoveLinks ==
    ASSUME NEW l, LinkType(l), NEW i, LiveAt(l, i), l.nodes[i].previous = None,
           l.nodes[i].next # i,
           l.nodes[i].next = None \/ LiveAt(l, l.nodes[i].next)
    PROVE  RemovedHead(l, RemoveNode(l, i), i)
<1> DEFINE n == l.nodes[i].next
           l1 == [l EXCEPT !.nodes = [l.nodes EXCEPT ![i] = None]]
           l2 == SetNext(l1, None, n)
           l3 == IF NodeAt(l2, n) # None THEN SetPrevious(l2, n, None) ELSE [l2 EXCEPT !.tail = None]
           r == [l3 EXCEPT !.free = Append(l3.free, i)]
<1>1. i \in Nat /\ n \in NodeId /\ None \in NodeId /\ None \notin Nat /\ i \in 1..Len(l.nodes)
  <2>1. l.nodes[i] \in Node
    BY LinkFields DEF LiveAt
  <2> QED BY <2>1, LinkFields DEF LiveAt, Node, NodeId
<1>2. NodeBecomes(l, l1, i, None)
  BY NodeSet
<1>3. RemoveNode(l, i) = r
  BY DEF RemoveNode
<1> HIDE DEF l1
<1>4. NextIs(l1, l2, None, n)
  BY <1>1, <1>2, SetNextOK DEF NodeBecomes
<1> HIDE DEF l2
<1>5. ~LiveAt(l1, None)
  BY <1>1 DEF LiveAt
<1>6. LinkType(l2) /\ l2.head = n /\ l2.tail = l.tail /\ l2.free = l.free
      /\ Len(l2.nodes) = Len(l.nodes)
  BY <1>2, <1>4, <1>5 DEF NextIs, SameNodes, NodeBecomes
<1>7. l2.nodes[i] = None
  BY <1>1, <1>2, <1>4 DEF NextIs, SameNodes, NodeBecomes
<1>8. \A x \in 1..Len(l.nodes) : x # i =>
         /\ SameNode(l, l2, x) /\ l2.nodes[x].next = l.nodes[x].next
         /\ l2.nodes[x].previous = l.nodes[x].previous
  BY <1>2, <1>4, <1>5 DEF NextIs, SameNodes, NodeBecomes, SameNode
<1>9. LiveAt(l2, n) <=> n # None
  BY <1>1, <1>6, <1>8 DEF LiveAt, SameNode
<1>10. /\ LinkType(l3) /\ l3.head = n /\ l3.tail = (IF n = None THEN None ELSE l.tail)
       /\ l3.free = l.free /\ Len(l3.nodes) = Len(l.nodes) /\ l3.nodes[i] = None
       /\ \A x \in 1..Len(l.nodes) : x # i =>
            /\ SameNode(l, l3, x) /\ l3.nodes[x].next = l.nodes[x].next
            /\ l3.nodes[x].previous = IF x = n THEN None ELSE l.nodes[x].previous
  <2>1. CASE n = None
    <3>1. l3 = [l2 EXCEPT !.tail = None]
      BY <1>6, <1>9, <2>1, NodeAtLive
    <3>2. LinkType(l3) /\ l3.head = l2.head /\ l3.tail = None /\ l3.free = l2.free
          /\ l3.nodes = l2.nodes
      BY <1>1, <1>6, <3>1 DEF LinkType
    <3> HIDE DEF l3
    <3>3. \A x \in 1..Len(l.nodes) : x # n
      BY <1>1, <2>1
    <3> HIDE DEF n
    <3> QED BY <1>6, <1>7, <1>8, <2>1, <3>2, <3>3 DEF SameNode
  <2>2. CASE n # None
    <3>1. l3 = SetPrevious(l2, n, None)
      BY <1>6, <1>9, <2>2, NodeAtLive
    <3>2. PreviousIs(l2, l3, n, None)
      BY <1>1, <1>6, <3>1, SetPreviousOK
    <3> HIDE DEF l3, n
    <3>3. LinkType(l3) /\ l3.head = l2.head /\ l3.tail = l2.tail /\ l3.free = l2.free
          /\ Len(l3.nodes) = Len(l2.nodes)
      BY <3>2 DEF PreviousIs, SameNodes
    <3>4. l3.nodes[i] = None
      BY <1>1, <1>6, <1>7, <3>2 DEF PreviousIs, SameNodes
    <3>5. ASSUME NEW x \in 1..Len(l.nodes), x # i
          PROVE  /\ SameNode(l, l3, x) /\ l3.nodes[x].next = l.nodes[x].next
                 /\ l3.nodes[x].previous = IF x = n THEN None ELSE l.nodes[x].previous
      <4>1. /\ l3.nodes[x].next = l2.nodes[x].next
            /\ l3.nodes[x].previous = IF x = n THEN None ELSE l2.nodes[x].previous
            /\ SameNode(l2, l3, x)
        BY <1>6, <1>9, <2>2, <3>2 DEF PreviousIs, SameNodes, SameNode
      <4> QED BY <1>8, <3>5, <4>1 DEF SameNode
    <3> QED BY <1>6, <2>2, <3>3, <3>4, <3>5
  <2> QED BY <2>1, <2>2
<1> HIDE DEF l3, n
<1>11. Append(l3.free, i) \in Seq(Nat)
  <2>1. l3.free \in Seq(Nat)
    BY <1>10, LinkFields
  <2> QED BY <1>1, <2>1, AppendProperties
<1>12. /\ LinkType(r) /\ r.head = l3.head /\ r.tail = l3.tail /\ r.nodes = l3.nodes
       /\ r.free = Append(l3.free, i)
  BY <1>10, <1>11 DEF LinkType
<1> HIDE DEF r
<1> QED BY <1>3, <1>10, <1>12 DEF RemovedHead, SameNode, n

\* t is s without its first element.
TailOf(s, t) == Len(t) = Len(s) - 1 /\ \A m \in 1..Len(t) : t[m] = s[m + 1]

\* So the others stay in order.
LEMMA RemoveOrder ==
    ASSUME NEW l, LinkType(l), NEW s, ListOf(l, s), Len(s) # 0,
           NEW r, RemovedHead(l, r, s[1]), NEW t, t \in Seq(Nat), TailOf(s, t)
    PROVE  ListOf(r, t)
<1> DEFINE n == Len(s)
           i == s[1]
<1>1. s \in Seq(Nat)
  BY DEF ListOf
<1>2. n \in Nat /\ n >= 1 /\ Len(t) = n - 1 /\ \A m \in 1..n : s[m] \in Nat
  BY <1>1 DEF TailOf
<1>3. \A m \in 1..(n - 1) : m + 1 \in 1..n /\ t[m] = s[m + 1]
  BY <1>2 DEF TailOf
<1> HIDE DEF n
<1>4. \A a, b \in 1..n : s[a] = s[b] => a = b
  BY DEF ListOf, n
<1>5. \A a, b \in 1..(n - 1) : t[a] = t[b] => a = b
  BY <1>2, <1>3, <1>4
<1>6. \A a \in 1..n : s[a] \in 1..Len(l.nodes) /\ l.nodes[s[a]] # None
  BY DEF ListOf, LiveAt, n
<1>7. Len(r.nodes) = Len(l.nodes) /\ r.nodes[i] = None
  BY DEF RemovedHead
<1>8. ASSUME NEW a \in 1..n, a # 1
      PROVE  /\ LiveAt(r, s[a]) /\ r.nodes[s[a]].next = l.nodes[s[a]].next
             /\ r.nodes[s[a]].previous =
                  IF s[a] = l.nodes[i].next THEN None ELSE l.nodes[s[a]].previous
  <2>1. s[a] # i
    BY <1>2, <1>4, <1>8
  <2> HIDE DEF i
  <2>2. s[a] \in 1..Len(l.nodes) /\ l.nodes[s[a]] # None
    BY <1>6
  <2>3. RemovedHead(l, r, i)
    BY DEF i
  <2> QED BY <1>7, <2>1, <2>2, <2>3 DEF RemovedHead, SameNode, LiveAt
<1>9. \A m \in 1..(n - 1) : LiveAt(r, t[m])
  <2>1. \A m \in 1..(n - 1) : m + 1 # 1
    BY <1>2
  <2> QED BY <1>3, <1>8, <2>1
<1>10. ASSUME NEW x, LiveAt(r, x)
       PROVE  \E m \in 1..(n - 1) : t[m] = x
  <2>1. x # i /\ x \in 1..Len(l.nodes)
    BY <1>7, <1>10 DEF LiveAt
  <2>2. LiveAt(l, x)
    BY <1>7, <1>10, <2>1 DEF LiveAt, RemovedHead, SameNode
  <2>3. PICK a \in 1..n : s[a] = x
    BY <2>2 DEF ListOf, n
  <2>4. a # 1
    BY <2>1, <2>3
  <2>5. a - 1 \in 1..(n - 1) /\ (a - 1) + 1 = a
    BY <1>2, <2>4
  <2> QED BY <1>3, <2>3, <2>5
<1>11. /\ l.nodes[i].next = IF n = 1 THEN None ELSE s[2]
       /\ l.tail = s[n] /\ None \notin Nat
  <2>1. l.nodes[i].next = IF n = 1 THEN None ELSE s[2]
    BY FirstLinks, Zenon DEF n, i
  <2>2. l.tail = s[n]
    <3>1. l.tail = s[Len(s)]
      BY DEF ListOf
    <3> QED BY <3>1 DEF n
  <2>3. None \notin Nat
    BY LinkFields
  <2> QED BY <2>1, <2>2, <2>3
<1>12. ASSUME NEW a \in 1..n
       PROVE  /\ l.nodes[s[a]].previous = IF a = 1 THEN None ELSE s[a - 1]
              /\ l.nodes[s[a]].next = IF a = n THEN None ELSE s[a + 1]
  BY DEF ListOf, n
<1>13. /\ r.head = IF n - 1 = 0 THEN None ELSE t[1]
       /\ r.tail = IF n - 1 = 0 THEN None ELSE t[n - 1]
  <2>1. /\ r.head = l.nodes[i].next
        /\ r.tail = IF l.nodes[i].next = None THEN None ELSE l.tail
    BY DEF RemovedHead
  <2>2. CASE n = 1
    BY <1>11, <2>1, <2>2
  <2>3. CASE n # 1
    <3>1. 1 \in 1..(n - 1) /\ n - 1 \in 1..(n - 1) /\ (n - 1) + 1 = n /\ n - 1 # 0
          /\ 2 \in 1..n /\ 1 + 1 = 2
      BY <1>2, <2>3
    <3>2. t[1] = s[2] /\ t[n - 1] = s[n] /\ s[2] # None
      <4>1. t[1] = s[2]
        BY <1>3, <3>1
      <4>2. t[n - 1] = s[n]
        BY <1>3, <3>1
      <4>3. s[2] # None
        BY <1>2, <1>11, <3>1
      <4> QED BY <4>1, <4>2, <4>3
    <3> QED BY <1>11, <2>1, <2>3, <3>1, <3>2
  <2> QED BY <2>2, <2>3
<1> HIDE DEF i
<1>14. ASSUME NEW m \in 1..(n - 1)
       PROVE  /\ r.nodes[t[m]].previous = IF m = 1 THEN None ELSE t[m - 1]
              /\ r.nodes[t[m]].next = IF m = n - 1 THEN None ELSE t[m + 1]
  <2> DEFINE a == m + 1
  <2>1. a \in 1..n /\ a # 1 /\ t[m] = s[a] /\ a - 1 = m /\ (a = n <=> m = n - 1)
    BY <1>2, <1>3
  <2>2. (s[a] = l.nodes[i].next) <=> m = 1
    <3>1. CASE n = 1
      BY <1>2, <3>1
    <3>2. CASE n # 1
      <4>1. 2 \in 1..n /\ (a = 2 <=> m = 1)
        BY <1>2, <3>2
      <4> HIDE DEF a
      <4> QED BY <1>4, <1>11, <2>1, <3>2, <4>1
    <3> QED BY <3>1, <3>2
  <2>3. m # 1 => t[m - 1] = s[m]
    <3>1. m # 1 => m - 1 \in 1..(n - 1) /\ (m - 1) + 1 = m
      BY <1>2
    <3> QED BY <1>3, <3>1
  <2>4. m # n - 1 => t[m + 1] = s[a + 1]
    <3>1. m # n - 1 => m + 1 \in 1..(n - 1)
      BY <1>2
    <3> QED BY <1>3, <3>1
  <2> HIDE DEF a
  <2>5. /\ r.nodes[s[a]].next = IF a = n THEN None ELSE s[a + 1]
        /\ r.nodes[s[a]].previous = IF m = 1 THEN None ELSE s[m]
    BY <1>8, <1>12, <2>1, <2>2
  <2> QED BY <2>1, <2>3, <2>4, <2>5
<1>15. Len(t) = n - 1
  BY <1>2
<1> QED BY <1>5, <1>9, <1>10, <1>13, <1>14, <1>15 DEF ListOf

\* The free list names each node that is not in use, once.
FreeOK(l) ==
    /\ \A a, b \in 1..Len(l.free) : l.free[a] = l.free[b] => a = b
    /\ \A a \in 1..Len(l.free) : l.free[a] \in 1..Len(l.nodes) /\ l.nodes[l.free[a]] = None
    /\ \A x \in 1..Len(l.nodes) : l.nodes[x] = None => \E a \in 1..Len(l.free) : l.free[a] = x

\* It does not depend on the links of the nodes in use.
LEMMA SameFree ==
    ASSUME NEW l, FreeOK(l), NEW m, SameNodes(l, m)
    PROVE  FreeOK(m)
BY DEF FreeOK, SameNodes

\* The freed head goes to the free list.
LEMMA RemoveFree ==
    ASSUME NEW l, LinkType(l), FreeOK(l), NEW r, NEW i, LiveAt(l, i), RemovedHead(l, r, i)
    PROVE  FreeOK(r)
<1> DEFINE n == Len(l.free)
<1>1. l.free \in Seq(Nat) /\ i \in Nat /\ r.free = Append(l.free, i) /\ n \in Nat
  BY LinkFields DEF LiveAt, RemovedHead
<1>2. /\ Len(r.free) = n + 1 /\ r.free[n + 1] = i
      /\ \A a \in 1..n : r.free[a] = l.free[a]
  BY <1>1, AppendProperties
<1>3. \A a \in 1..(n + 1) : a \in 1..n \/ a = n + 1
  BY <1>1
<1>4. \A a \in 1..n : a \in 1..(n + 1)
  BY <1>1
<1>4a. n + 1 \in 1..(n + 1)
  BY <1>1
<1>5. /\ \A a, b \in 1..n : l.free[a] = l.free[b] => a = b
      /\ \A a \in 1..n : l.free[a] \in 1..Len(l.nodes) /\ l.nodes[l.free[a]] = None
      /\ \A x \in 1..Len(l.nodes) : l.nodes[x] = None => \E a \in 1..n : l.free[a] = x
  BY DEF FreeOK
<1> HIDE DEF n
<1>6. i \in 1..Len(l.nodes) /\ l.nodes[i] # None
  BY DEF LiveAt
<1>7. /\ Len(r.nodes) = Len(l.nodes) /\ r.nodes[i] = None
      /\ \A x \in 1..Len(l.nodes) : x # i => ((r.nodes[x] = None) <=> (l.nodes[x] = None))
  BY DEF RemovedHead, SameNode
<1>8. \A a \in 1..n : r.free[a] # i
  BY <1>2, <1>5, <1>6
<1>9. \A a, b \in 1..(n + 1) : r.free[a] = r.free[b] => a = b
  BY <1>2, <1>3, <1>5, <1>8
<1>10. \A a \in 1..(n + 1) : r.free[a] \in 1..Len(r.nodes) /\ r.nodes[r.free[a]] = None
  BY <1>2, <1>3, <1>5, <1>6, <1>7
<1>11. \A x \in 1..Len(r.nodes) : r.nodes[x] = None => \E a \in 1..(n + 1) : r.free[a] = x
  BY <1>2, <1>4, <1>4a, <1>5, <1>7
<1> QED BY <1>2, <1>9, <1>10, <1>11 DEF FreeOK

\* Node i, not in use in l, gets the value v in q.
Placed(l, q, i, v) ==
    /\ LinkType(q) /\ FreeOK(q) /\ q.head = l.head /\ q.tail = l.tail
    /\ i \in Nat /\ i >= 1 /\ i <= Len(l.nodes) + 1 /\ ~LiveAt(l, i)
    /\ Len(q.nodes) \in Len(l.nodes)..(Len(l.nodes) + 1)
    /\ \A x : x \in 1..Len(q.nodes) <=> (x \in 1..Len(l.nodes) \/ x = i)
    /\ q.nodes[i] = v
    /\ \A x \in 1..Len(l.nodes) : x # i => q.nodes[x] = l.nodes[x]

\* insert_mru() with no free node.
LEMMA PlaceNew ==
    ASSUME NEW l, LinkType(l), FreeOK(l), l.free = <<>>, NEW v \in Node
    PROVE  Placed(l, [l EXCEPT !.nodes = Append(l.nodes, v)], FreshNode(l), v)
<1> DEFINE N == Len(l.nodes)
           q == [l EXCEPT !.nodes = Append(l.nodes, v)]
<1>1. l.nodes \in Seq(Node \cup {None}) /\ N \in Nat /\ None \notin Node /\ v # None
  BY LinkFields
<1>2. /\ Append(l.nodes, v) \in Seq(Node \cup {None}) /\ Len(Append(l.nodes, v)) = N + 1
      /\ Append(l.nodes, v)[N + 1] = v
      /\ \A x \in 1..N : Append(l.nodes, v)[x] = l.nodes[x]
  BY <1>1, AppendProperties
<1>3. /\ LinkType(q) /\ q.head = l.head /\ q.tail = l.tail /\ q.free = l.free
      /\ q.nodes = Append(l.nodes, v)
  BY <1>2 DEF LinkType
<1>4. FreshNode(l) = N + 1
  BY DEF FreshNode
<1>5. Len(l.free) = 0
  OBVIOUS
<1> HIDE DEF q
<1>6. \A x \in 1..N : l.nodes[x] # None
  BY <1>5 DEF FreeOK
<1>7. /\ N + 1 \in Nat /\ N + 1 >= 1 /\ N + 1 <= N + 1 /\ N + 1 \notin 1..N
      /\ N + 1 \in N..(N + 1)
      /\ \A x : x \in 1..(N + 1) <=> (x \in 1..N \/ x = N + 1)
  BY <1>1
<1> HIDE DEF N
<1>8. FreeOK(q)
  <2>1. \A x \in 1..Len(q.nodes) : q.nodes[x] # None
    BY <1>1, <1>2, <1>3, <1>6, <1>7
  <2> QED BY <1>3, <1>5, <2>1 DEF FreeOK
<1> QED BY <1>2, <1>3, <1>4, <1>7, <1>8 DEF Placed, LiveAt, N, q

\* insert_mru() with a free node: it takes the one freed last.
LEMMA PlaceFree ==
    ASSUME NEW l, LinkType(l), FreeOK(l), l.free # <<>>, NEW v \in Node,
           NEW q, q = [l EXCEPT !.nodes[FreshNode(l)] = v, !.free = Front(l.free)]
    PROVE  Placed(l, q, FreshNode(l), v)
<1> DEFINE n == Len(l.free)
           i == FreshNode(l)
           c == [l EXCEPT !.nodes = [l.nodes EXCEPT ![i] = v]]
<1>1. l.free \in Seq(Nat) /\ None \notin Node /\ v # None
  BY LinkFields
<1>2. n \in Nat /\ n >= 1 /\ i = l.free[n]
  BY <1>1 DEF FreshNode, Last
<1>3. /\ Front(l.free) \in Seq(Nat) /\ Len(Front(l.free)) = n - 1
      /\ \A a \in 1..(n - 1) : Front(l.free)[a] = l.free[a]
  BY <1>1, <1>2 DEF Front
<1>4. NodeBecomes(l, c, i, v)
  BY NodeSet
<1>5. /\ q = [c EXCEPT !.free = Front(l.free)]
  OBVIOUS
<1>6. i \in 1..Len(l.nodes) /\ l.nodes[i] = None
  BY <1>2 DEF FreeOK
<1>7. Len(l.nodes) \in Nat
  BY LinkFields
<1> HIDE DEF c
<1>8. LinkType(c)
  BY <1>4 DEF NodeBecomes
<1>9. /\ LinkType(q) /\ q.head = c.head /\ q.tail = c.tail /\ q.nodes = c.nodes
      /\ q.free = Front(l.free)
  BY <1>3, <1>5, <1>8 DEF LinkType
<1>10. /\ q.head = l.head /\ q.tail = l.tail /\ Len(q.nodes) = Len(l.nodes)
       /\ \A x \in 1..Len(l.nodes) : q.nodes[x] = IF x = i THEN v ELSE l.nodes[x]
  BY <1>4, <1>9 DEF NodeBecomes
<1> HIDE DEF n
<1>11. /\ i \in Nat /\ i >= 1 /\ i <= Len(l.nodes) + 1 /\ ~LiveAt(l, i)
       /\ Len(l.nodes) \in Len(l.nodes)..(Len(l.nodes) + 1)
  BY <1>6, <1>7 DEF LiveAt
<1>12. FreeOK(q)
  <2>1. /\ \A a, b \in 1..n : l.free[a] = l.free[b] => a = b
        /\ \A a \in 1..n : l.free[a] \in 1..Len(l.nodes) /\ l.nodes[l.free[a]] = None
        /\ \A x \in 1..Len(l.nodes) : l.nodes[x] = None => \E a \in 1..n : l.free[a] = x
    BY DEF FreeOK, n
  <2>2. \A a \in 1..(n - 1) : a \in 1..n /\ a # n /\ q.free[a] = l.free[a]
    BY <1>2, <1>3, <1>9
  <2>3. Len(q.free) = n - 1 /\ n \in 1..n
    BY <1>2, <1>3, <1>9
  <2>4. \A a \in 1..n : a = n \/ a \in 1..(n - 1)
    BY <1>2
  <2> HIDE DEF i
  <2>5. \A a, b \in 1..(n - 1) : q.free[a] = q.free[b] => a = b
    BY <2>1, <2>2
  <2>6. \A a \in 1..(n - 1) : q.free[a] # i
    BY <1>2, <2>1, <2>2, <2>3
  <2>7. \A a \in 1..(n - 1) : q.free[a] \in 1..Len(q.nodes) /\ q.nodes[q.free[a]] = None
    BY <1>10, <2>1, <2>2, <2>6
  <2>8. \A x \in 1..Len(q.nodes) : q.nodes[x] = None => \E a \in 1..(n - 1) : q.free[a] = x
    <3> SUFFICES ASSUME NEW x \in 1..Len(q.nodes), q.nodes[x] = None
                 PROVE  \E a \in 1..(n - 1) : q.free[a] = x
      OBVIOUS
    <3>1. x # i /\ x \in 1..Len(l.nodes) /\ l.nodes[x] = None
      BY <1>1, <1>10
    <3>2. PICK a \in 1..n : l.free[a] = x
      BY <2>1, <3>1
    <3>3. a # n
      BY <1>2, <3>1, <3>2 DEF i
    <3> QED BY <2>2, <2>4, <3>2, <3>3
  <2> QED BY <2>3, <2>5, <2>7, <2>8 DEF FreeOK
<1> HIDE DEF i
<1> QED BY <1>6, <1>9, <1>10, <1>11, <1>12 DEF Placed, i

\* Node i is new and last in r, for the key k.
Inserted(l, r, i, k) ==
    /\ LinkType(r) /\ FreeOK(r)
    /\ i \in Nat /\ i >= 1 /\ i <= Len(l.nodes) + 1 /\ ~LiveAt(l, i)
    /\ Len(r.nodes) \in Len(l.nodes)..(Len(l.nodes) + 1)
    /\ r.tail = i /\ r.head = IF l.tail = None THEN i ELSE l.head
    /\ \A x : LiveAt(r, x) <=> (LiveAt(l, x) \/ x = i)
    /\ r.nodes[i].key = k /\ r.nodes[i].previous = l.tail /\ r.nodes[i].next = None
    /\ \A x : LiveAt(l, x) =>
         /\ r.nodes[x].key = l.nodes[x].key /\ r.nodes[x].previous = l.nodes[x].previous
         /\ r.nodes[x].next = IF x = l.tail THEN i ELSE l.nodes[x].next

\* insert_mru().
LEMMA InsertLinks ==
    ASSUME NEW l, LinkType(l), FreeOK(l), NEW k \in Key, l.tail = None \/ LiveAt(l, l.tail)
    PROVE  Inserted(l, InsertMru(l, k), FreshNode(l), k)
<1> DEFINE i == FreshNode(l)
           v == [key |-> k, previous |-> l.tail, next |-> None]
           q == IF l.free = <<>> THEN [l EXCEPT !.nodes = Append(l.nodes, v)]
                ELSE [l EXCEPT !.nodes[i] = v, !.free = Front(l.free)]
           w == SetNext(q, l.tail, i)
           r == [w EXCEPT !.tail = i]
<1>1. l.tail \in NodeId /\ None \notin Nat /\ None \notin Node
  BY LinkFields
<1>2. v \in Node /\ v # None /\ v.key = k /\ v.previous = l.tail /\ v.next = None
  BY <1>1 DEF Node, NodeId
<1>3. InsertMru(l, k) = r
  BY DEF InsertMru
<1> HIDE DEF v
<1>4. Placed(l, q, i, v)
  <2>1. CASE l.free = <<>>
    BY <1>2, <2>1, PlaceNew
  <2>2. CASE l.free # <<>>
    BY <1>2, <2>2, PlaceFree
  <2> QED BY <2>1, <2>2
<1> HIDE DEF q, i
<1>5. NextIs(q, w, l.tail, i)
  <2>1. i \in NodeId /\ LinkType(q)
    BY <1>4 DEF Placed, NodeId
  <2> QED BY <2>1, SetNextOK
<1> HIDE DEF w
<1>6. LinkType(w) /\ i \in NodeId
  BY <1>4, <1>5 DEF NextIs, SameNodes, Placed, NodeId
<1>7. LinkType(r) /\ r.tail = i /\ r.head = w.head /\ r.nodes = w.nodes /\ r.free = w.free
  BY <1>6 DEF LinkType
<1> HIDE DEF r
<1>8. FreeOK(r)
  <2>1. FreeOK(w)
    BY <1>4, <1>5, SameFree DEF Placed, NextIs
  <2> QED BY <1>7, <2>1 DEF FreeOK
<1>9. \A x : LiveAt(q, x) <=> (LiveAt(l, x) \/ x = i)
  BY <1>2, <1>4 DEF Placed, LiveAt
<1>10. \A x : LiveAt(r, x) <=> LiveAt(q, x)
  BY <1>5, <1>7 DEF NextIs, SameNodes, LiveAt
<1>11. LiveAt(q, l.tail) <=> l.tail # None
  <2>1. ~LiveAt(l, None) /\ None # i
    BY <1>1, <1>4 DEF LiveAt, Placed
  <2> QED BY <1>9, <2>1
<1>12. r.head = IF l.tail = None THEN i ELSE l.head
  BY <1>4, <1>5, <1>7, <1>11 DEF NextIs, Placed
<1>13. Len(r.nodes) = Len(q.nodes)
  BY <1>5, <1>7 DEF NextIs, SameNodes
<1>14. i # l.tail
  BY <1>1, <1>4 DEF Placed
<1>15. r.nodes[i].key = k /\ r.nodes[i].previous = l.tail /\ r.nodes[i].next = None
  <2>1. i \in 1..Len(q.nodes) /\ q.nodes[i] = v
    BY <1>4 DEF Placed
  <2> QED BY <1>2, <1>5, <1>7, <1>14, <2>1 DEF NextIs, SameNodes
<1>16. ASSUME NEW x, LiveAt(l, x)
       PROVE  /\ r.nodes[x].key = l.nodes[x].key /\ r.nodes[x].previous = l.nodes[x].previous
              /\ r.nodes[x].next = IF x = l.tail THEN i ELSE l.nodes[x].next
  <2>1. x \in 1..Len(q.nodes) /\ q.nodes[x] = l.nodes[x]
    BY <1>4, <1>16 DEF Placed, LiveAt
  <2>2. x = l.tail => LiveAt(q, l.tail)
    BY <1>9, <1>16
  <2> QED BY <1>5, <1>7, <2>1, <2>2 DEF NextIs, SameNodes
<1> QED
  BY <1>3, <1>4, <1>7, <1>8, <1>9, <1>10, <1>12, <1>13, <1>15, <1>16 DEF Inserted, Placed, i

\* So the new node comes last in the order.
LEMMA InsertOrder ==
    ASSUME NEW l, LinkType(l), NEW s, ListOf(l, s), NEW r, NEW i, NEW k, Inserted(l, r, i, k),
           NEW t, t = Append(s, i)
    PROVE  ListOf(r, t)
<1> DEFINE n == Len(s)
           p == n + 1
<1>1. s \in Seq(Nat) /\ i \in Nat
  BY DEF ListOf, Inserted
<1>2. n \in Nat /\ t \in Seq(Nat) /\ Len(t) = p /\ t[p] = i
      /\ \A m \in 1..n : t[m] = s[m]
  BY <1>1, AppendProperties
<1>3. \A m \in 1..p : m \in 1..n \/ m = p
  BY <1>2
<1>4. (\A m \in 1..n : m \in 1..p /\ m # p) /\ p \in 1..p /\ p # 0
  BY <1>2
<1> HIDE DEF n, p
<1>5. /\ \A a, b \in 1..n : s[a] = s[b] => a = b
      /\ \A a \in 1..n : LiveAt(l, s[a])
      /\ \A x : LiveAt(l, x) => \E a \in 1..n : s[a] = x
      /\ l.head = IF n = 0 THEN None ELSE s[1]
      /\ l.tail = IF n = 0 THEN None ELSE s[n]
  BY DEF ListOf, n
<1>6. \A x : LiveAt(r, x) <=> (LiveAt(l, x) \/ x = i)
  BY DEF Inserted
<1>7. ~LiveAt(l, i)
  BY DEF Inserted
<1>8. ASSUME NEW a \in 1..p, NEW b \in 1..p, t[a] = t[b]
      PROVE  a = b
  <2>1. (a \in 1..n \/ a = p) /\ (b \in 1..n \/ b = p)
    BY <1>3
  <2>2. \A m \in 1..n : t[m] # i
    <3> SUFFICES ASSUME NEW m \in 1..n, t[m] = i PROVE FALSE
      OBVIOUS
    <3>1. LiveAt(l, s[m]) /\ t[m] = s[m]
      BY <1>2, <1>5
    <3> QED BY <1>7, <3>1
  <2>3. t[p] = i
    BY <1>2
  <2>4. CASE a = p
    BY <1>8, <2>1, <2>2, <2>3, <2>4
  <2>5. CASE b = p
    BY <1>8, <2>1, <2>2, <2>3, <2>5
  <2>6. CASE a \in 1..n /\ b \in 1..n
    <3>1. t[a] = s[a] /\ t[b] = s[b]
      BY <1>2, <2>6
    <3>2. s[a] = s[b]
      BY <1>8, <3>1
    <3> QED BY <1>5, <2>6, <3>2
  <2> QED BY <2>1, <2>4, <2>5, <2>6
<1>9. ASSUME NEW a \in 1..p PROVE LiveAt(r, t[a])
  <2>1. CASE a \in 1..n
    <3>1. t[a] = s[a] /\ LiveAt(l, s[a])
      BY <1>2, <1>5, <2>1
    <3> QED BY <1>6, <3>1
  <2>2. CASE a = p
    BY <1>2, <1>6, <2>2
  <2> QED BY <1>3, <2>1, <2>2
<1>10. \A x : LiveAt(r, x) => \E a \in 1..p : t[a] = x
  BY <1>2, <1>4, <1>5, <1>6
<1>11. /\ r.tail = i /\ r.head = IF l.tail = None THEN i ELSE l.head
       /\ None \notin Nat
  BY LinkFields DEF Inserted
<1>12. r.tail = t[p] /\ r.head = t[1]
  <2>1. CASE n = 0
    <3>1. p = 1
      BY <2>1 DEF p
    <3> QED BY <1>2, <1>5, <1>11, <2>1, <3>1
  <2>2. CASE n # 0
    <3>1. 1 \in 1..n /\ n \in 1..n
      BY <1>2, <2>2
    <3>2. s[n] \in Nat /\ t[1] = s[1]
      BY <1>1, <1>2, <3>1 DEF n
    <3> QED BY <1>2, <1>5, <1>11, <2>2, <3>2
  <2> QED BY <2>1, <2>2
<1>13. r.nodes[i].previous = l.tail /\ r.nodes[i].next = None
  BY DEF Inserted
<1>14. ASSUME NEW a \in 1..n
       PROVE  /\ r.nodes[s[a]].previous = IF a = 1 THEN None ELSE s[a - 1]
              /\ r.nodes[s[a]].next = IF a = n THEN i ELSE s[a + 1]
  <2>1. /\ l.nodes[s[a]].previous = IF a = 1 THEN None ELSE s[a - 1]
        /\ l.nodes[s[a]].next = IF a = n THEN None ELSE s[a + 1]
    BY DEF ListOf, n
  <2>2. n # 0 /\ n \in 1..n
    BY <1>2
  <2>3. (s[a] = l.tail) <=> a = n
    BY <1>5, <2>2
  <2>4. LiveAt(l, s[a])
    BY <1>5
  <2>5. /\ r.nodes[s[a]].previous = l.nodes[s[a]].previous
        /\ r.nodes[s[a]].next = IF s[a] = l.tail THEN i ELSE l.nodes[s[a]].next
    BY <2>4 DEF Inserted
  <2> QED BY <2>1, <2>3, <2>5
<1>15. ASSUME NEW m \in 1..p
       PROVE  /\ r.nodes[t[m]].previous = IF m = 1 THEN None ELSE t[m - 1]
              /\ r.nodes[t[m]].next = IF m = p THEN None ELSE t[m + 1]
  <2>1. CASE m = p
    <3>1. t[m] = i
      BY <1>2, <2>1
    <3>2. (m = 1 <=> n = 0) /\ m - 1 = n /\ (n # 0 => n \in 1..n)
      BY <1>2, <2>1 DEF p
    <3>3. n # 0 => t[m - 1] = s[n]
      BY <1>2, <3>2
    <3> QED BY <1>5, <1>13, <2>1, <3>1, <3>2, <3>3
  <2>2. CASE m \in 1..n
    <3>1. t[m] = s[m] /\ m # p
      BY <1>2, <1>4, <2>2
    <3>2. m # 1 => t[m - 1] = s[m - 1]
      <4>1. m # 1 => m - 1 \in 1..n
        BY <1>2, <2>2
      <4> QED BY <1>2, <4>1
    <3>3. t[m + 1] = IF m = n THEN i ELSE s[m + 1]
      <4>1. (m # n => m + 1 \in 1..n) /\ (m = n => m + 1 = p)
        BY <1>2, <2>2 DEF p
      <4> QED BY <1>2, <4>1
    <3> QED BY <1>14, <2>2, <3>1, <3>2, <3>3
  <2> QED BY <1>3, <2>1, <2>2
<1>16. /\ \A a, b \in 1..Len(t) : t[a] = t[b] => a = b
       /\ \A a \in 1..Len(t) : LiveAt(r, t[a])
       /\ \A x : LiveAt(r, x) => \E a \in 1..Len(t) : t[a] = x
  <2>1. Len(t) = p
    BY <1>2
  <2> QED BY <1>8, <1>9, <1>10, <2>1
<1>17. /\ r.head = IF Len(t) = 0 THEN None ELSE t[1]
       /\ r.tail = IF Len(t) = 0 THEN None ELSE t[Len(t)]
  BY <1>2, <1>4, <1>12
<1>18. \A m \in 1..Len(t) :
          /\ r.nodes[t[m]].previous = IF m = 1 THEN None ELSE t[m - 1]
          /\ r.nodes[t[m]].next = IF m = Len(t) THEN None ELSE t[m + 1]
  <2>1. Len(t) = p
    BY <1>2
  <2> QED BY <1>15, <2>1
<1> QED BY <1>2, <1>16, <1>17, <1>18 DEF ListOf

-----------------------------------------------------------------------------
(* There is one such order *)

\* A sequence without repetitions counts the elements of a set.
LEMMA Counting ==
    ASSUME NEW S, NEW s, NEW n \in Nat, DOMAIN s = 1..n, s \in [1..n -> S],
           \A a, b \in 1..n : s[a] = s[b] => a = b,
           \A x \in S : \E a \in 1..n : s[a] = x
    PROVE  IsFiniteSet(S) /\ Cardinality(S) = n
<1>1. s \in Bijection(1..n, S)
  BY DEF Bijection, Injection, Surjection, IsInjective
<1>2. ExistsBijection(1..n, S)
  BY <1>1 DEF ExistsBijection
<1> QED BY <1>2, FS_CountingElements, FS_NatBijection

\* ListOf in the words of the specification.
LEMMA OrderOfList ==
    ASSUME NEW l, LinkType(l), NEW s, ListOf(l, s)
    PROVE  /\ IsFiniteSet(LiveIn(l)) /\ Cardinality(LiveIn(l)) = Len(s)
           /\ s \in SetToSeqs(LiveIn(l)) /\ InOrder(l, s)
<1> DEFINE n == Len(s)
<1>1. s \in Seq(Nat) /\ n \in Nat /\ DOMAIN s = 1..n
  BY DEF ListOf
<1>2. \A x : x \in LiveIn(l) <=> LiveAt(l, x)
  BY LinkFields DEF LiveIn, LiveAt
<1>3. s \in [1..n -> LiveIn(l)]
  <2>1. \A a \in 1..n : s[a] \in LiveIn(l)
    BY <1>2 DEF ListOf
  <2>2. s = [a \in 1..n |-> s[a]]
    BY <1>1
  <2> HIDE DEF n
  <2> QED BY <2>1, <2>2
<1>4. IsFiniteSet(LiveIn(l)) /\ Cardinality(LiveIn(l)) = n
  <2>1. /\ \A a, b \in 1..n : s[a] = s[b] => a = b
        /\ \A x \in LiveIn(l) : \E a \in 1..n : s[a] = x
    BY <1>2 DEF ListOf
  <2> HIDE DEF n
  <2> QED BY <1>1, <1>3, <2>1, Counting
<1>5. s \in SetToSeqs(LiveIn(l))
  <2>1. \A a, b \in 1..n : a # b => s[a] # s[b]
    BY DEF ListOf
  <2> HIDE DEF n
  <2> QED BY <1>3, <1>4, <2>1 DEF SetToSeqs
<1>6. InOrder(l, s)
  <2>1. (s = <<>>) <=> n = 0
    BY <1>1
  <2>2. n # 0 => Head(s) = s[1]
    BY <1>1
  <2> QED BY <1>1, <2>1, <2>2 DEF InOrder, ListOf, Last
<1> QED BY <1>4, <1>5, <1>6

\* The link from one place to the next.
LEMMA NextInOrder ==
    ASSUME NEW l, NEW s, InOrder(l, s), NEW a \in DOMAIN s, a # Len(s)
    PROVE  l.nodes[s[a]].next = s[a + 1]
BY DEF InOrder

\* Two sequences in order agree: from the head, each link decides the next node.
LEMMA OneOrder ==
    ASSUME NEW l, NEW n \in Nat, NEW s, NEW t, NEW S, s \in [1..n -> S], t \in [1..n -> S],
           InOrder(l, s), InOrder(l, t)
    PROVE  s = t
<1> SUFFICES ASSUME s # t PROVE FALSE
  OBVIOUS
<1> DEFINE D == {i \in 1..n : s[i] # t[i]}
<1>1. D # {} /\ D \subseteq Nat
  OBVIOUS
<1>2. PICK i \in D : \A j \in D : ~ (<<j, i>> \in OpToRel(<, Nat))
  BY <1>1, NatLessThanWellFounded, WFMin
<1>3. i \in 1..n /\ s[i] # t[i]
  OBVIOUS
<1>4. s # <<>> /\ t # <<>> /\ Len(s) = n /\ Len(t) = n /\ DOMAIN s = 1..n /\ DOMAIN t = 1..n
  <2>1. s \in Seq(S) /\ t \in Seq(S)
    OBVIOUS
  <2> QED BY <1>3, <2>1
<1>5. CASE i = 1
  <2>1. Head(s) = s[1] /\ Head(t) = t[1]
    BY <1>4
  <2> QED BY <1>3, <1>4, <1>5, <2>1 DEF InOrder
<1>6. CASE i # 1
  <2>1. i - 1 \in 1..n /\ i - 1 # n /\ (i - 1) + 1 = i /\ i - 1 < i /\ i \in Nat /\ i - 1 \in Nat
    BY <1>3, <1>6
  <2>2. s[i - 1] = t[i - 1]
    <3>1. <<i - 1, i>> \in OpToRel(<, Nat)
      BY <2>1 DEF OpToRel
    <3> QED BY <1>2, <2>1, <3>1
  <2>3. l.nodes[s[i - 1]].next = s[i]
    <3>1. i - 1 \in DOMAIN s /\ i - 1 # Len(s)
      BY <1>4, <2>1
    <3>2. l.nodes[s[i - 1]].next = s[(i - 1) + 1]
      BY <3>1, NextInOrder
    <3> QED BY <2>1, <3>2
  <2>4. l.nodes[t[i - 1]].next = t[i]
    <3>1. i - 1 \in DOMAIN t /\ i - 1 # Len(t)
      BY <1>4, <2>1
    <3>2. l.nodes[t[i - 1]].next = t[(i - 1) + 1]
      BY <3>1, NextInOrder
    <3> QED BY <2>1, <3>2
  <2> QED BY <1>3, <2>2, <2>3, <2>4
<1> QED BY <1>5, <1>6

\* The keys in an order.
KeysOf(l, s) == [i \in 1..Len(s) |-> l.nodes[s[i]].key]

\* So the order of the keys is that of the nodes.
LEMMA RecencyIs ==
    ASSUME NEW l, LinkType(l), NEW s, ListOf(l, s)
    PROVE  RecencyOf(l) = KeysOf(l, s)
<1> DEFINE t == CHOOSE t \in SetToSeqs(LiveIn(l)) : InOrder(l, t)
           n == Len(s)
<1>1. Cardinality(LiveIn(l)) = n /\ s \in SetToSeqs(LiveIn(l)) /\ InOrder(l, s)
  BY OrderOfList
<1>2. t \in SetToSeqs(LiveIn(l)) /\ InOrder(l, t)
  BY <1>1
<1>3. n \in Nat /\ DOMAIN s = 1..n
  <2>1. s \in Seq(Nat)
    BY DEF ListOf
  <2> QED BY <2>1
<1>4. RecencyOf(l) = [i \in DOMAIN t |-> l.nodes[t[i]].key]
  BY DEF RecencyOf
<1> HIDE DEF t, n
<1>5. s \in [1..n -> LiveIn(l)] /\ t \in [1..n -> LiveIn(l)]
  BY <1>1, <1>2 DEF SetToSeqs
<1>6. s = t
  BY <1>1, <1>2, <1>3, <1>5, OneOrder
<1> QED BY <1>3, <1>4, <1>6 DEF KeysOf, n

-----------------------------------------------------------------------------
(* The operations on the list *)

\* A sequence with its last element moved to the end.
LEMMA MovedLastOne ==
    ASSUME NEW S, NEW s \in Seq(S), Len(s) # 0
    PROVE  Moved(s, s, Len(s), s[Len(s)])
BY DEF Moved

\* What promote() does to node x: nothing if it is not in use, else x goes last.
LEMMA PromoteList ==
    ASSUME NEW l, LinkType(l), NEW s, ListOf(l, s), NEW x
    PROVE  /\ SameNodes(l, Promote(l, x))
           /\ ~LiveAt(l, x) => Promote(l, x) = l
           /\ LiveAt(l, x) => \E j \in 1..Len(s) : \E t \in Seq(Nat) :
                s[j] = x /\ Moved(s, t, j, x) /\ ListOf(Promote(l, x), t)
<1>1. CASE ~LiveAt(l, x)
  <2>1. Promote(l, x) = l
    BY <1>1, NodeAtLive DEF Promote
  <2>2. SameNodes(l, l)
    BY DEF SameNodes
  <2> QED BY <1>1, <2>1, <2>2
<1>2. CASE LiveAt(l, x)
  <2> DEFINE n == Len(s)
  <2>1. PICK j \in 1..n : s[j] = x
    BY <1>2 DEF ListOf
  <2>2. s \in Seq(Nat) /\ n \in Nat /\ n # 0
    BY DEF ListOf
  <2>3. CASE j = n
    <3>1. l.tail = x
      BY <2>1, <2>2, <2>3 DEF ListOf
    <3>2. Promote(l, x) = l
      BY <3>1 DEF Promote
    <3>3. Moved(s, s, n, s[n])
      BY <2>2, MovedLastOne
    <3>4. SameNodes(l, l)
      BY DEF SameNodes
    <3> HIDE DEF n
    <3>5. Moved(s, s, j, x)
      BY <2>1, <2>3, <3>3
    <3> QED BY <1>2, <2>1, <2>2, <3>2, <3>4, <3>5 DEF n
  <2>4. CASE j # n
    <3>1. /\ l.tail = s[n] /\ LiveAt(l, s[n]) /\ s[n] # s[j]
          /\ l.nodes[x].previous = IF j = 1 THEN None ELSE s[j - 1]
          /\ l.nodes[x].next = s[j + 1]
      <4>1. n \in 1..n
        BY <2>2
      <4> QED BY <2>1, <2>2, <2>4, <4>1 DEF ListOf
    <3>2. l.nodes[x].previous = None \/ LiveAt(l, l.nodes[x].previous)
      <4>1. j # 1 => j - 1 \in 1..n
        BY <2>2
      <4> QED BY <3>1, <4>1 DEF ListOf
    <3>3. LiveAt(l, l.nodes[x].next)
      <4>1. j + 1 \in 1..n
        BY <2>2, <2>4
      <4> QED BY <3>1, <4>1 DEF ListOf
    <3>4. l.nodes[x].previous # l.tail
      <4>1. CASE j = 1
        BY <2>2, <3>1, <4>1, LinkFields
      <4>2. CASE j # 1
        <5>1. j - 1 \in 1..n /\ n \in 1..n /\ j - 1 # n
          BY <2>2, <4>2
        <5>2. s[j - 1] # s[n]
          BY <5>1, ListDistinct
        <5> QED BY <3>1, <4>2, <5>2
      <4> QED BY <4>1, <4>2
    <3>5. PromotedTo(l, Promote(l, x), x)
      BY <1>2, <2>1, <3>1, <3>2, <3>3, <3>4, PromoteLinks
    <3> DEFINE t == Append(RemoveAt(s, j), x)
    <3>6. t \in Seq(Nat) /\ Moved(s, t, j, x)
      <4>1. x \in Nat
        BY <2>1, <2>2
      <4> QED BY <2>1, <2>2, <4>1, MovedSeq
    <3> HIDE DEF t
    <3>7. ListOf(Promote(l, x), t)
      BY <2>1, <2>4, <3>5, <3>6, PromoteOrder
    <3> QED BY <1>2, <2>1, <3>5, <3>6, <3>7 DEF PromotedTo
  <2> QED BY <2>3, <2>4
<1> QED BY <1>1, <1>2

\* What pop_lru() does to the list.
LEMMA EvictList ==
    ASSUME NEW l, LinkType(l), FreeOK(l), NEW s, ListOf(l, s), l.head # None
    PROVE  /\ Len(s) # 0 /\ l.head = s[1] /\ LiveAt(l, l.head)
           /\ RemovedHead(l, RemoveNode(l, l.head), l.head)
           /\ FreeOK(RemoveNode(l, l.head)) /\ ListOf(RemoveNode(l, l.head), Tail(s))
           /\ Tail(s) \in Seq(Nat) /\ TailOf(s, Tail(s))
<1> DEFINE n == Len(s)
           i == s[1]
<1>1. s \in Seq(Nat) /\ n \in Nat /\ n # 0 /\ l.head = i
  <2>1. s \in Seq(Nat) /\ n # 0 /\ l.head = i
    BY DEF ListOf
  <2>2. n \in Nat
    BY <2>1
  <2> HIDE DEF n, i
  <2> QED BY <2>1, <2>2
<1>2. 1 \in 1..n /\ (n # 1 => 2 \in 1..n)
  <2> HIDE DEF n, i
  <2> QED BY <1>1
<1>3. LiveAt(l, i) /\ l.nodes[i].previous = None
  BY <1>2 DEF ListOf
<1>4. l.nodes[i].next = IF n = 1 THEN None ELSE s[2]
  <2>1. n # 0
    BY <1>1
  <2> QED BY <2>1, FirstLinks, Zenon
<1>5. /\ l.nodes[i].next # i
      /\ l.nodes[i].next = None \/ LiveAt(l, l.nodes[i].next)
  <2>1. CASE n = 1
    <3>1. None # i
      BY <1>1, <1>2, LinkFields
    <3> QED BY <1>4, <2>1, <3>1
  <2>2. CASE n # 1
    <3>1. LiveAt(l, s[2]) /\ s[2] # s[1]
      BY <1>2, <2>2 DEF ListOf
    <3> QED BY <1>4, <2>2, <3>1
  <2> QED BY <2>1, <2>2
<1>6. Tail(s) \in Seq(Nat) /\ TailOf(s, Tail(s))
  <2>1. s # <<>>
    BY <1>1
  <2> QED BY <1>1, <2>1, HeadTailProperties DEF TailOf
<1> HIDE DEF i
<1>7. RemovedHead(l, RemoveNode(l, i), i)
  BY <1>3, <1>5, RemoveLinks
<1>8. FreeOK(RemoveNode(l, i))
  BY <1>3, <1>7, RemoveFree
<1>9. ListOf(RemoveNode(l, i), Tail(s))
  BY <1>1, <1>6, <1>7, RemoveOrder DEF i
<1> QED BY <1>1, <1>3, <1>6, <1>7, <1>8, <1>9 DEF i

\* What insert_mru() does to the list.
LEMMA InsertList ==
    ASSUME NEW l, LinkType(l), FreeOK(l), NEW s, ListOf(l, s), NEW k \in Key
    PROVE  /\ Inserted(l, InsertMru(l, k), FreshNode(l), k)
           /\ ListOf(InsertMru(l, k), Append(s, FreshNode(l)))
<1>1. l.tail = None \/ LiveAt(l, l.tail)
  <2>1. s \in Seq(Nat)
    BY DEF ListOf
  <2>2. Len(s) # 0 => Len(s) \in 1..Len(s)
    BY <2>1
  <2> QED BY <2>2 DEF ListOf
<1>2. Inserted(l, InsertMru(l, k), FreshNode(l), k)
  BY <1>1, InsertLinks
<1> QED BY <1>2, InsertOrder

-----------------------------------------------------------------------------
(* The list and the dict *)

\* Every key of d has its node in l, and every node in use is that of its key.
Match(l, d) ==
    /\ \A k \in DOMAIN d : LiveAt(l, d[k]) /\ l.nodes[d[k]].key = k
    /\ \A x : LiveAt(l, x) => l.nodes[x].key \in DOMAIN d /\ d[l.nodes[x].key] = x

\* Links do not matter.
LEMMA MatchSame ==
    ASSUME NEW l, NEW m, SameNodes(l, m), NEW d, Match(l, d)
    PROVE  Match(m, d)
<1>1. \A x : LiveAt(m, x) <=> LiveAt(l, x)
  BY DEF SameNodes, LiveAt
<1>2. \A x : LiveAt(l, x) => m.nodes[x].key = l.nodes[x].key
  BY DEF SameNodes, LiveAt
<1> QED BY <1>1, <1>2 DEF Match

\* e is d without the key k.
Without(d, e, k) == DOMAIN e = DOMAIN d \ {k} /\ \A j \in DOMAIN e : e[j] = d[j]

\* The head is freed and its key removed.
LEMMA MatchEvict ==
    ASSUME NEW l, NEW r, NEW i, LiveAt(l, i), RemovedHead(l, r, i), NEW d, Match(l, d),
           NEW e, Without(d, e, l.nodes[i].key)
    PROVE  Match(r, e)
<1>1. \A x : LiveAt(r, x) <=> (LiveAt(l, x) /\ x # i)
  BY DEF RemovedHead, SameNode, LiveAt
<1>2. \A x : LiveAt(r, x) => r.nodes[x].key = l.nodes[x].key
  BY DEF RemovedHead, SameNode, LiveAt
<1>3. ASSUME NEW k \in DOMAIN e
      PROVE  LiveAt(r, e[k]) /\ r.nodes[e[k]].key = k
  <2>1. k \in DOMAIN d /\ e[k] = d[k] /\ k # l.nodes[i].key
    BY DEF Without
  <2>2. LiveAt(l, d[k]) /\ l.nodes[d[k]].key = k
    BY <2>1 DEF Match
  <2>3. d[k] # i
    BY <2>1, <2>2
  <2> QED BY <1>1, <1>2, <2>1, <2>2, <2>3
<1>4. ASSUME NEW x, LiveAt(r, x)
      PROVE  r.nodes[x].key \in DOMAIN e /\ e[r.nodes[x].key] = x
  <2> DEFINE k == l.nodes[x].key
  <2>1. LiveAt(l, x) /\ x # i /\ r.nodes[x].key = k
    BY <1>1, <1>2, <1>4
  <2>2. k \in DOMAIN d /\ d[k] = x /\ d[l.nodes[i].key] = i
    BY <2>1 DEF Match
  <2> HIDE DEF k
  <2>3. k # l.nodes[i].key
    BY <2>1, <2>2
  <2> QED BY <2>1, <2>2, <2>3 DEF Without
<1> QED BY <1>3, <1>4 DEF Match

\* A node is added and its key stored.
LEMMA MatchInsert ==
    ASSUME NEW l, NEW r, NEW i, NEW k, Inserted(l, r, i, k), NEW d, Match(l, d), k \notin DOMAIN d,
           NEW e, DOMAIN e = DOMAIN d \cup {k}, e[k] = i, \A j \in DOMAIN d : e[j] = d[j]
    PROVE  Match(r, e)
<1>1. /\ \A x : LiveAt(r, x) <=> (LiveAt(l, x) \/ x = i)
      /\ r.nodes[i].key = k
      /\ \A x : LiveAt(l, x) => r.nodes[x].key = l.nodes[x].key
  BY DEF Inserted
<1>2. ASSUME NEW j \in DOMAIN e
      PROVE  LiveAt(r, e[j]) /\ r.nodes[e[j]].key = j
  BY <1>1 DEF Match
<1>3. ASSUME NEW x, LiveAt(r, x)
      PROVE  r.nodes[x].key \in DOMAIN e /\ e[r.nodes[x].key] = x
  <2>1. CASE x = i
    BY <1>1, <2>1
  <2>2. CASE x # i
    BY <1>1, <1>3, <2>2 DEF Match
  <2> QED BY <2>1, <2>2
<1> QED BY <1>2, <1>3 DEF Match

\* There are as many nodes in use as keys.
LEMMA MatchCount ==
    ASSUME NEW l, LinkType(l), NEW d, Match(l, d), IsFiniteSet(DOMAIN d)
    PROVE  IsFiniteSet(LiveIn(l)) /\ Cardinality(LiveIn(l)) = Cardinality(DOMAIN d)
<1> DEFINE f == [k \in DOMAIN d |-> d[k]]
<1>1. \A x : x \in LiveIn(l) <=> LiveAt(l, x)
  BY LinkFields DEF LiveIn, LiveAt
<1>2. f \in [DOMAIN d -> LiveIn(l)]
  BY <1>1 DEF Match
<1>3. \A a, b \in DOMAIN d : f[a] = f[b] => a = b
  BY DEF Match
<1>4. \A x \in LiveIn(l) : \E k \in DOMAIN d : f[k] = x
  BY <1>1 DEF Match
<1> HIDE DEF f
<1>5. f \in Bijection(DOMAIN d, LiveIn(l))
  BY <1>2, <1>3, <1>4 DEF Bijection, Injection, Surjection, IsInjective
<1>6. ExistsBijection(DOMAIN d, LiveIn(l))
  BY <1>5 DEF ExistsBijection
<1> QED BY <1>6, FS_Bijection

-----------------------------------------------------------------------------
(* The inductive invariant *)

\* The dicts: finite maps from keys to nodes, or to None in an unbounded cache.
Dict == UNION {[D -> Links \cup {None}] : D \in {E \in SUBSET Key : IsFiniteSet(E)}}

\* What that means.
LEMMA DictFacts ==
    ASSUME NEW d
    PROVE  d \in Dict <=> /\ DOMAIN d \subseteq Key /\ IsFiniteSet(DOMAIN d)
                          /\ d \in [DOMAIN d -> Links \cup {None}]
<1>1. ASSUME d \in Dict
      PROVE  /\ DOMAIN d \subseteq Key /\ IsFiniteSet(DOMAIN d)
             /\ d \in [DOMAIN d -> Links \cup {None}]
  <2>1. PICK D \in {E \in SUBSET Key : IsFiniteSet(E)} : d \in [D -> Links \cup {None}]
    BY <1>1 DEF Dict
  <2> QED BY <2>1
<1>2. ASSUME DOMAIN d \subseteq Key, IsFiniteSet(DOMAIN d), d \in [DOMAIN d -> Links \cup {None}]
      PROVE  d \in Dict
  BY <1>2 DEF Dict
<1> QED BY <1>1, <1>2

\* The calls of the wrapper.
Frame == [key : Key, held : Nat, pc : {"lookup", "function", "recheck"}]

\* A call holds one of nd dicts; while it looks its key up for the second time
\* it holds the last one, unless the cache was cleared during that lookup.
FrameOK(f, ms, nd, cleared) ==
    /\ f.held \in 1..nd
    /\ f.pc = "recheck" => ms # 0 /\ (cleared \/ f.held = nd)

\* So it is for all calls that have not returned.
StackOK(st, ms, nd, cleared) ==
    /\ st \in Seq(Frame)
    /\ \A i \in 1..Len(st) : FrameOK(st[i], ms, nd, cleared)

\* The list is one list.
ListOK(l) == LinkType(l) /\ FreeOK(l) /\ \E s : ListOf(l, s)

\* The list and the dict describe the same keys, and there is room for them.
Entries(l, d, ms) == Match(l, d) /\ Cardinality(DOMAIN d) <= ms

\* The types of the other variables.
Types ==
    /\ maxsize \in MaxSizes /\ torn \in BOOLEAN
    /\ dicts \in Seq(Dict) /\ Len(dicts) >= 1
    /\ hits \in Nat /\ misses \in Nat /\ calls \in Nat

\* The inductive invariant.
IInv ==
    /\ Types
    /\ StackOK(stack, maxsize, Len(dicts), torn)
    /\ ListOK(links)
    \* Each call makes at most one node, and it has returned by then.
    /\ Len(links.nodes) + Len(stack) <= calls /\ calls <= MaxCalls
    /\ Bounded /\ ~torn => Entries(links, dicts[Len(dicts)], maxsize)

\* A sequence without its last element.
LEMMA FrontSeq ==
    ASSUME NEW S, NEW s \in Seq(S), Len(s) >= 1
    PROVE  /\ Front(s) \in Seq(S) /\ Len(Front(s)) = Len(s) - 1
           /\ \A i \in 1..(Len(s) - 1) : Front(s)[i] = s[i]
<1> DEFINE n == Len(s)
<1>1. n \in Nat /\ n >= 1 /\ \A i \in 1..n : s[i] \in S
  OBVIOUS
<1>2. Front(s) = SubSeq(s, 1, n - 1)
  BY DEF Front
<1> HIDE DEF n
<1>3. 1 \in Int /\ n - 1 \in Int /\ \A i \in 1..(n - 1) : s[i] \in S
  BY <1>1
<1>4. /\ SubSeq(s, 1, n - 1) \in Seq(S)
      /\ Len(SubSeq(s, 1, n - 1)) = IF 1 <= n - 1 THEN (n - 1) - 1 + 1 ELSE 0
      /\ \A i \in 1..((n - 1) - 1 + 1) : SubSeq(s, 1, n - 1)[i] = s[1 + i - 1]
  BY <1>3, SubSeqProperties
<1>5. Len(SubSeq(s, 1, n - 1)) = n - 1 /\ (n - 1) - 1 + 1 = n - 1
      /\ \A i \in 1..(n - 1) : 1 + i - 1 = i
  BY <1>1, <1>4
<1> QED BY <1>2, <1>4, <1>5 DEF n

\* The call that runs.
LEMMA TopFacts ==
    ASSUME NEW st, NEW ms, NEW nd, NEW cleared, StackOK(st, ms, nd, cleared), st # <<>>
    PROVE  /\ Len(st) \in Nat /\ Len(st) >= 1
           /\ Last(st) \in Frame /\ FrameOK(Last(st), ms, nd, cleared)
           /\ StackOK(Front(st), ms, nd, cleared) /\ Len(Front(st)) = Len(st) - 1
<1>1. st \in Seq(Frame)
  BY DEF StackOK
<1>2. Len(st) \in Nat /\ Len(st) >= 1 /\ Len(st) \in 1..Len(st)
  BY <1>1
<1>3. Last(st) \in Frame /\ FrameOK(Last(st), ms, nd, cleared)
  BY <1>1, <1>2 DEF StackOK, Last
<1>4. /\ Front(st) \in Seq(Frame) /\ Len(Front(st)) = Len(st) - 1
      /\ \A i \in 1..(Len(st) - 1) : Front(st)[i] = st[i]
  BY <1>1, <1>2, FrontSeq
<1>5. \A i \in 1..(Len(st) - 1) : i \in 1..Len(st)
  BY <1>2
<1> QED BY <1>2, <1>3, <1>4, <1>5 DEF StackOK

\* A call is added.
LEMMA PushFrame ==
    ASSUME NEW st, NEW ms, NEW nd, NEW cleared, StackOK(st, ms, nd, cleared),
           NEW f \in Frame, FrameOK(f, ms, nd, cleared)
    PROVE  StackOK(Append(st, f), ms, nd, cleared) /\ Len(Append(st, f)) = Len(st) + 1
<1>1. st \in Seq(Frame) /\ Len(st) \in Nat
  BY DEF StackOK
<1>2. /\ Append(st, f) \in Seq(Frame) /\ Len(Append(st, f)) = Len(st) + 1
      /\ \A i \in 1..Len(st) : Append(st, f)[i] = st[i]
      /\ Append(st, f)[Len(st) + 1] = f
  BY <1>1, AppendProperties
<1>3. \A i \in 1..(Len(st) + 1) : i \in 1..Len(st) \/ i = Len(st) + 1
  BY <1>1
<1> QED BY <1>2, <1>3 DEF StackOK

\* The facts about the state that the steps use.
LEMMA StateFacts ==
    ASSUME IInv
    PROVE  /\ Len(dicts) \in Nat /\ Len(dicts) \in 1..Len(dicts)
           /\ Len(links.nodes) \in Nat /\ Len(stack) \in Nat /\ calls \in Nat /\ MaxCalls \in Nat
           /\ Cache = dicts[Len(dicts)] /\ Cache \in Dict
           /\ maxsize \in Nat \cup {None} /\ None \notin Nat
<1>1. dicts \in Seq(Dict) /\ Len(dicts) >= 1
  BY DEF IInv, Types
<1>2. Len(dicts) \in Nat /\ Len(dicts) \in 1..Len(dicts)
  BY <1>1
<1>3. Len(links.nodes) \in Nat
  BY LinkFields DEF IInv, ListOK
<1>4. Len(stack) \in Nat
  BY DEF IInv, StackOK
<1>5. calls \in Nat /\ MaxCalls \in Nat /\ maxsize \in Nat \cup {None} /\ None \notin Nat
  BY LruAssumption DEF IInv, Types
<1>6. Cache = dicts[Len(dicts)] /\ Cache \in Dict
  BY <1>1, <1>2 DEF Cache, Last
<1> QED BY <1>2, <1>3, <1>4, <1>5, <1>6

\* A cache as make_lru_wrapper and cache_clear() leave it.
LEMMA EmptyCache ==
    /\ ListOK(EmptyLinks) /\ ListOf(EmptyLinks, <<>>) /\ Len(EmptyLinks.nodes) = 0
    /\ Match(EmptyLinks, EmptyDict) /\ EmptyDict \in Dict /\ Cardinality(DOMAIN EmptyDict) = 0
<1>1. DOMAIN EmptyDict = {}
  BY DEF EmptyDict
<1>2. EmptyDict \in Dict /\ Cardinality(DOMAIN EmptyDict) = 0
  <2>1. EmptyDict \in [{} -> Links \cup {None}]
    BY DEF EmptyDict
  <2> QED BY <1>1, <2>1, FS_EmptySet, DictFacts
<1>3. LinkType(EmptyLinks) /\ EmptyLinks.nodes = <<>> /\ EmptyLinks.free = <<>>
      /\ EmptyLinks.head = None /\ EmptyLinks.tail = None
  BY DEF EmptyLinks, LinkType, NodeId
<1>4. \A x : ~LiveAt(EmptyLinks, x)
  BY <1>3 DEF LiveAt
<1>5. ListOf(EmptyLinks, <<>>)
  BY <1>3, <1>4 DEF ListOf
<1>6. FreeOK(EmptyLinks)
  BY <1>3 DEF FreeOK
<1>7. Match(EmptyLinks, EmptyDict)
  BY <1>1, <1>4 DEF Match
<1> QED BY <1>2, <1>3, <1>5, <1>6, <1>7 DEF ListOK

\* The first state.
LEMMA InitIInv == ASSUME Init PROVE IInv
<1>1. dicts \in Seq(Dict) /\ Len(dicts) = 1 /\ dicts[1] = EmptyDict
  BY EmptyCache DEF Init
<1>2. Types
  <2>1. 0 \in Nat /\ 1 >= 1
    OBVIOUS
  <2> QED BY <1>1, <2>1 DEF Init, Types
<1>3. StackOK(stack, maxsize, Len(dicts), torn) /\ Len(stack) = 0
  BY DEF Init, StackOK
<1>4. ListOK(links) /\ Len(links.nodes) = 0
  BY EmptyCache DEF Init
<1>5. Len(links.nodes) + Len(stack) <= calls /\ calls <= MaxCalls
  BY <1>3, <1>4, LruAssumption DEF Init
<1>6. Bounded => Entries(links, EmptyDict, maxsize)
  <2>1. Bounded => maxsize \in Nat
    BY <1>2, LruAssumption DEF Bounded, Types
  <2> QED BY <2>1, EmptyCache DEF Entries, Init
<1> QED BY <1>1, <1>2, <1>3, <1>4, <1>5, <1>6 DEF IInv

-----------------------------------------------------------------------------
(* Storing a result *)

\* pop_lru() finds a key to drive out.
Evicts == Full /\ links.head # None

\* What is left of the list and of the dict that the call holds.
LEMMA EvictedOK ==
    ASSUME IInv, stack # <<>>, NEW s, ListOf(links, s)
    PROVE  /\ LinkType(Evicted.links) /\ FreeOK(Evicted.links)
           /\ Len(Evicted.links.nodes) = Len(links.nodes)
           /\ ListOf(Evicted.links, IF Evicts THEN Tail(s) ELSE s)
           /\ \A x : LiveAt(Evicted.links, x) =>
                LiveAt(links, x) /\ Evicted.links.nodes[x].key = links.nodes[x].key
           /\ Held \in Dict /\ Evicted.dict \in Dict
           /\ DOMAIN Evicted.dict = IF Evicts THEN DOMAIN Held \ {links.nodes[links.head].key}
                                    ELSE DOMAIN Held
           /\ Match(links, Held) => Match(Evicted.links, Evicted.dict)
<1> DEFINE d == Held
           l == links
<1>1. LinkType(l) /\ FreeOK(l) /\ ListOf(l, s)
  BY DEF IInv, ListOK
<1>2. d \in Dict
  <2>1. Top.held \in 1..Len(dicts)
    BY TopFacts DEF IInv, FrameOK, Top
  <2>2. dicts \in Seq(Dict)
    BY DEF IInv, Types
  <2> QED BY <2>1, <2>2 DEF Held
<1>3. CASE Evicts
  <2> DEFINE r == RemoveNode(l, l.head)
             e == Restrict(d, DOMAIN d \ {l.nodes[l.head].key})
  <2>1. Evicted.links = r /\ Evicted.dict = e
    BY <1>3 DEF Evicted, Evicts
  <2>2. /\ LiveAt(l, l.head) /\ RemovedHead(l, r, l.head) /\ FreeOK(r) /\ ListOf(r, Tail(s))
    BY <1>1, <1>3, EvictList DEF Evicts
  <2>3. DOMAIN e = DOMAIN d \ {l.nodes[l.head].key} /\ \A k \in DOMAIN e : e[k] = d[k]
    <3>1. e = [k \in DOMAIN d \ {l.nodes[l.head].key} |-> d[k]]
      BY DEF Restrict
    <3> HIDE DEF e, d, l
    <3> QED BY <3>1
  <2>4. e \in Dict
    <3>1. DOMAIN d \subseteq Key /\ IsFiniteSet(DOMAIN d) /\ d \in [DOMAIN d -> Links \cup {None}]
      BY <1>2, DictFacts
    <3>2. IsFiniteSet(DOMAIN e)
      BY <2>3, <3>1, FS_RemoveElement
    <3>3. e \in [DOMAIN e -> Links \cup {None}] /\ DOMAIN e \subseteq Key
      BY <2>3, <3>1 DEF Restrict
    <3> QED BY <3>2, <3>3, DictFacts
  <2> HIDE DEF r, e, d, l
  <2>5. LinkType(r) /\ Len(r.nodes) = Len(l.nodes)
    BY <2>2 DEF RemovedHead
  <2>6. \A x : LiveAt(r, x) => LiveAt(l, x) /\ r.nodes[x].key = l.nodes[x].key
    BY <2>2 DEF RemovedHead, SameNode, LiveAt
  <2>7. Match(l, d) => Match(r, e)
    <3>1. Without(d, e, l.nodes[l.head].key)
      BY <2>3 DEF Without
    <3> QED BY <2>2, <3>1, MatchEvict
  <2> QED BY <1>2, <1>3, <2>1, <2>2, <2>3, <2>4, <2>5, <2>6, <2>7 DEF l, d
<1>4. CASE ~Evicts
  <2>1. Evicted.links = l /\ Evicted.dict = d
    BY <1>4 DEF Evicted, Evicts
  <2> HIDE DEF d, l
  <2> QED BY <1>1, <1>2, <1>4, <2>1 DEF l, d
<1> QED BY <1>3, <1>4

\* With the list and the dict in agreement, a key is driven out exactly from a
\* full cache, and there is room for one more then.
LEMMA EvictsFull ==
    ASSUME IInv, stack # <<>>, NEW s, ListOf(links, s), maxsize \in Nat, maxsize # 0,
           Entries(links, Held, maxsize)
    PROVE  /\ Evicts <=> Len(s) = maxsize
           /\ Cardinality(DOMAIN Evicted.dict) \in Nat
           /\ Cardinality(DOMAIN Evicted.dict) + 1 <= maxsize
<1>1. Held \in Dict /\ Match(links, Held) /\ Cardinality(DOMAIN Held) <= maxsize
      /\ LinkType(links)
  BY EvictedOK DEF Entries, IInv, ListOK
<1>2. IsFiniteSet(DOMAIN Held) /\ Cardinality(DOMAIN Held) \in Nat
  <2>1. IsFiniteSet(DOMAIN Held)
    BY <1>1, DictFacts
  <2> QED BY <2>1, FS_CardinalityType
<1>3. Len(s) = Cardinality(DOMAIN Held)
  BY <1>1, <1>2, MatchCount, OrderOfList
<1>4. Full <=> Len(s) = maxsize
  <2>1. Bounded
    BY LruAssumption DEF Bounded
  <2> QED BY <1>1, <1>2, <1>3, <2>1 DEF Full
<1>5. Len(s) # 0 => links.head # None
  <2>1. s \in Seq(Nat) /\ (Len(s) # 0 => links.head = s[1])
    BY DEF ListOf
  <2>2. Len(s) # 0 => s[1] \in Nat
    BY <2>1
  <2> QED BY <2>1, <2>2, LruAssumption
<1>6. Evicts <=> Len(s) = maxsize
  BY <1>4, <1>5 DEF Evicts
<1>7. CASE Evicts
  <2> DEFINE k == links.nodes[links.head].key
  <2>1. LiveAt(links, links.head)
    BY <1>7, EvictList DEF IInv, ListOK, Evicts
  <2>2. k \in DOMAIN Held
    BY <1>1, <2>1 DEF Match
  <2>3. DOMAIN Evicted.dict = DOMAIN Held \ {k}
    BY <1>7, EvictedOK
  <2> HIDE DEF k
  <2>4. Cardinality(DOMAIN Evicted.dict) = Cardinality(DOMAIN Held) - 1
    BY <1>2, <2>2, <2>3, FS_RemoveElement
  <2>5. Cardinality(DOMAIN Held) # 0
    BY <1>2, <2>2, FS_EmptySet
  <2> QED BY <1>1, <1>2, <1>6, <2>4, <2>5
<1>8. CASE ~Evicts
  <2>1. DOMAIN Evicted.dict = DOMAIN Held
    BY <1>8, EvictedOK
  <2> QED BY <1>1, <1>2, <1>3, <1>6, <1>8, <2>1
<1> QED BY <1>6, <1>7, <1>8

\* d with v stored for k.
Stored(d, k, v) == [x \in DOMAIN d \cup {k} |-> IF x = k THEN v ELSE d[x]]

\* It is a dict with one more key.
LEMMA StoredDict ==
    ASSUME NEW d \in Dict, NEW k \in Key, k \notin DOMAIN d, NEW v \in Links \cup {None}
    PROVE  /\ Stored(d, k, v) \in Dict /\ DOMAIN Stored(d, k, v) = DOMAIN d \cup {k}
           /\ Stored(d, k, v)[k] = v /\ \A j \in DOMAIN d : Stored(d, k, v)[j] = d[j]
           /\ Cardinality(DOMAIN Stored(d, k, v)) = Cardinality(DOMAIN d) + 1
<1> DEFINE e == Stored(d, k, v)
<1>1. DOMAIN d \subseteq Key /\ IsFiniteSet(DOMAIN d) /\ d \in [DOMAIN d -> Links \cup {None}]
  BY DictFacts
<1>2. DOMAIN e = DOMAIN d \cup {k} /\ e[k] = v /\ \A j \in DOMAIN d : e[j] = d[j]
  BY DEF Stored
<1>3. IsFiniteSet(DOMAIN e) /\ Cardinality(DOMAIN e) = Cardinality(DOMAIN d) + 1
  BY <1>1, <1>2, FS_AddElement
<1>4. e \in [DOMAIN e -> Links \cup {None}] /\ DOMAIN e \subseteq Key
  BY <1>1, <1>2 DEF Stored
<1>5. e \in Dict
  BY <1>3, <1>4, DictFacts
<1> QED BY <1>2, <1>3, <1>5

\* Storing the result of a call in a bounded cache: the list.
LEMMA StoreLinks ==
    ASSUME IInv, Store, Bounded, NEW s, ListOf(links, s)
    PROVE  LET i == FreshNode(Evicted.links)
               u == IF Evicts THEN Tail(s) ELSE s
           IN /\ Inserted(Evicted.links, links', i, Top.key)
              /\ ListOf(links', Append(u, i))
              /\ LinkType(links') /\ FreeOK(links') /\ i \in Links
              /\ Len(links'.nodes) \in Nat /\ Len(links'.nodes) <= Len(links.nodes) + 1
<1> DEFINE l1 == Evicted.links
           i == FreshNode(l1)
           u == IF Evicts THEN Tail(s) ELSE s
<1>1. stack # <<>> /\ links' = InsertMru(l1, Top.key)
  BY DEF Store
<1>2. LinkType(l1) /\ FreeOK(l1) /\ Len(l1.nodes) = Len(links.nodes) /\ ListOf(l1, u)
  BY <1>1, EvictedOK
<1>3. Top.key \in Key
  BY <1>1, TopFacts DEF IInv, Top, Frame
<1> HIDE DEF u
<1>4. Inserted(l1, links', i, Top.key) /\ ListOf(links', Append(u, i))
  BY <1>1, <1>2, <1>3, InsertList
<1> HIDE DEF l1, i
<1>5. LinkType(links') /\ FreeOK(links') /\ i \in Nat /\ i >= 1 /\ i <= Len(links.nodes) + 1
      /\ Len(links'.nodes) \in Len(links.nodes)..(Len(links.nodes) + 1)
  BY <1>2, <1>4 DEF Inserted
<1>6. Len(links.nodes) + 1 <= MaxCalls
  <2>1. Len(stack) \in Nat /\ Len(stack) >= 1
    BY <1>1, TopFacts DEF IInv
  <2>2. Len(links.nodes) + Len(stack) <= calls /\ calls <= MaxCalls
    BY DEF IInv
  <2> QED BY <2>1, <2>2, StateFacts
<1>7. i \in Links
  BY <1>5, <1>6, StateFacts DEF Links
<1>8. Len(links'.nodes) \in Nat /\ Len(links'.nodes) <= Len(links.nodes) + 1
  BY <1>5, StateFacts
<1> QED BY <1>4, <1>5, <1>7, <1>8 DEF l1, i, u

-----------------------------------------------------------------------------
(* The steps *)

\* A step that leaves the cache alone.
LEMMA OnlyStack ==
    ASSUME IInv, UNCHANGED <<maxsize, dicts, links, torn>>,
           StackOK(stack', maxsize, Len(dicts), torn),
           Len(links.nodes) + Len(stack') <= calls', calls' <= MaxCalls,
           hits' \in Nat, misses' \in Nat, calls' \in Nat
    PROVE  IInv'
<1>1. Types'
  BY DEF IInv, Types
<1>2. ListOK(links')
  BY DEF IInv
<1>3. (Bounded /\ ~torn => Entries(links, dicts[Len(dicts)], maxsize))'
  BY DEF IInv, Bounded
<1> QED BY <1>1, <1>2, <1>3 DEF IInv

\* __call__
LEMMA CallKeeps == ASSUME IInv, NEW k \in Key, Call(k) PROVE IInv'
<1> DEFINE f == [key |-> k, held |-> Len(dicts), pc |-> IF maxsize = 0 THEN "function" ELSE "lookup"]
<1>1. f \in Frame /\ FrameOK(f, maxsize, Len(dicts), torn)
  <2>1. f.held = Len(dicts) /\ f.pc # "recheck"
    OBVIOUS
  <2>2. f \in Frame
    BY StateFacts DEF Frame
  <2> QED BY <2>1, <2>2, StateFacts DEF FrameOK
<1>2. stack' = Append(stack, f) /\ calls' = calls + 1 /\ calls < MaxCalls
      /\ UNCHANGED <<maxsize, dicts, links, torn>> /\ hits' = hits
  BY DEF Call
<1> HIDE DEF f
<1>3. StackOK(stack', maxsize, Len(dicts), torn) /\ Len(stack') = Len(stack) + 1
  BY <1>1, <1>2, PushFrame DEF IInv
<1>4. hits' \in Nat /\ misses' \in Nat
  <2>1. hits' = hits /\ (misses' = misses \/ misses' = misses + 1)
    BY DEF Call
  <2>2. hits \in Nat /\ misses \in Nat
    BY DEF IInv, Types
  <2>3. CASE misses' = misses
    BY <2>1, <2>2, <2>3
  <2>4. CASE misses' = misses + 1
    <3>1. misses + 1 \in Nat
      BY <2>2
    <3> QED BY <2>1, <2>2, <2>4, <3>1
  <2> QED BY <2>1, <2>3, <2>4
<1>5. Len(links.nodes) + Len(stack) <= calls
  BY DEF IInv
<1>6. Len(links.nodes) + Len(stack') <= calls' /\ calls' <= MaxCalls /\ calls' \in Nat
  <2>1. calls' = calls + 1 /\ calls < MaxCalls /\ Len(stack') = Len(stack) + 1
    BY <1>2, <1>3
  <2>2. Len(links.nodes) \in Nat /\ Len(stack) \in Nat /\ calls \in Nat /\ MaxCalls \in Nat
    BY StateFacts
  <2> DEFINE a == Len(links.nodes)
             b == Len(stack)
  <2> HIDE DEF a, b
  <2>3. a + (b + 1) <= calls + 1 /\ calls + 1 <= MaxCalls /\ calls + 1 \in Nat
    <3>1. a + b <= calls /\ a \in Nat /\ b \in Nat
      BY <1>5, <2>2 DEF a, b
    <3> QED BY <2>1, <2>2, <3>1
  <2> QED BY <2>1, <2>3 DEF a, b
<1> QED BY <1>2, <1>3, <1>4, <1>6, OnlyStack

\* The steps after which the call has returned and the cache is as before.
LEMMA PopKeeps ==
    ASSUME IInv, stack # <<>>, stack' = Returned, UNCHANGED <<maxsize, dicts, links, torn, calls>>,
           hits' \in Nat, misses' \in Nat
    PROVE  IInv'
<1>1. StackOK(stack', maxsize, Len(dicts), torn) /\ Len(stack') = Len(stack) - 1
  BY TopFacts DEF IInv, Returned
<1>2. Len(links.nodes) + Len(stack) <= calls /\ calls <= MaxCalls
  BY DEF IInv
<1>3. Len(links.nodes) + Len(stack') <= calls' /\ calls' <= MaxCalls /\ calls' \in Nat
  BY <1>1, <1>2, StateFacts
<1> QED BY <1>1, <1>3, OnlyStack

\* The steps after which the call goes on.
LEMMA GoOnKeeps ==
    ASSUME IInv, stack # <<>>, NEW f \in Frame, FrameOK(f, maxsize, Len(dicts), torn),
           stack' = Append(Returned, f), UNCHANGED <<maxsize, dicts, links, torn, calls>>,
           hits' \in Nat, misses' \in Nat
    PROVE  IInv'
<1>1. StackOK(Returned, maxsize, Len(dicts), torn) /\ Len(Returned) = Len(stack) - 1
  BY TopFacts DEF IInv, Returned
<1>2. StackOK(stack', maxsize, Len(dicts), torn) /\ Len(stack') = Len(Returned) + 1
  BY <1>1, PushFrame
<1>3. Len(links.nodes) + Len(stack) <= calls /\ calls <= MaxCalls
  BY DEF IInv
<1>4. Len(links.nodes) + Len(stack') <= calls' /\ calls' <= MaxCalls /\ calls' \in Nat
  BY <1>1, <1>2, <1>3, StateFacts
<1> QED BY <1>2, <1>4, OnlyStack

\* A miss runs the wrapped function.
LEMMA MissKeeps == ASSUME IInv, Miss PROVE IInv'
<1> DEFINE f == [Top EXCEPT !.pc = "function"]
<1>1. stack # <<>> /\ stack' = Append(Returned, f) /\ hits' \in Nat /\ misses' \in Nat
      /\ UNCHANGED <<maxsize, dicts, links, torn, calls>>
  BY DEF Miss, IInv, Types
<1>2. Top \in Frame /\ FrameOK(Top, maxsize, Len(dicts), torn)
  BY <1>1, TopFacts DEF IInv, Top
<1>3. f \in Frame /\ f.held = Top.held /\ f.pc = "function"
  BY <1>2 DEF Frame
<1> HIDE DEF f
<1>4. FrameOK(f, maxsize, Len(dicts), torn)
  BY <1>2, <1>3 DEF FrameOK
<1> QED BY <1>1, <1>3, <1>4, GoOnKeeps

\* insert_cache fetches the cache that is current when the function returns.
LEMMA FunctionReturnsKeeps == ASSUME IInv, FunctionReturns PROVE IInv'
<1>1. stack # <<>> /\ hits' \in Nat /\ misses' \in Nat
      /\ UNCHANGED <<maxsize, dicts, links, torn, calls>>
  BY DEF FunctionReturns, IInv, Types
<1>2. CASE maxsize = 0
  <2>1. stack' = Returned
    BY <1>2 DEF FunctionReturns
  <2> QED BY <1>1, <2>1, PopKeeps
<1>3. CASE maxsize # 0
  <2> DEFINE f == [Top EXCEPT !.pc = "recheck", !.held = Len(dicts)]
  <2>1. stack' = Append(Returned, f)
    BY <1>3 DEF FunctionReturns
  <2>2. Top \in Frame
    BY <1>1, TopFacts DEF IInv, Top
  <2>3. f \in Frame /\ f.held = Len(dicts) /\ f.pc = "recheck"
    BY <2>2, StateFacts DEF Frame
  <2> HIDE DEF f
  <2>4. FrameOK(f, maxsize, Len(dicts), torn)
    BY <1>3, <2>3, StateFacts DEF FrameOK
  <2> QED BY <1>1, <2>1, <2>3, <2>4, GoOnKeeps
<1> QED BY <1>2, <1>3

\* A hit moves a node, and the entries do not notice.
LEMMA HitKeeps == ASSUME IInv, Hit PROVE IInv'
<1>1. stack # <<>> /\ stack' = Returned /\ hits' = hits + 1 /\ hits' \in Nat /\ misses' \in Nat
      /\ UNCHANGED <<maxsize, dicts, torn, calls>>
  BY DEF Hit, IInv, Types
<1>2. PICK s : LinkType(links) /\ FreeOK(links) /\ ListOf(links, s)
  BY DEF IInv, ListOK
<1> DEFINE x == Held[Top.key]
<1>3. SameNodes(links, links') /\ \E t : ListOf(links', t)
  <2>1. CASE Bounded /\ maxsize # 1
    <3>1. links' = Promote(links, x)
      BY <2>1 DEF Hit
    <3> HIDE DEF x
    <3>2. /\ SameNodes(links, Promote(links, x))
          /\ ~LiveAt(links, x) => Promote(links, x) = links
          /\ LiveAt(links, x) => \E t : ListOf(Promote(links, x), t)
      BY <1>2, PromoteList
    <3> QED BY <1>2, <3>1, <3>2
  <2>2. CASE ~(Bounded /\ maxsize # 1)
    <3>1. links' = links
      BY <2>2 DEF Hit
    <3>2. SameNodes(links, links)
      BY <1>2 DEF SameNodes
    <3> QED BY <1>2, <3>1, <3>2
  <2> QED BY <2>1, <2>2
<1>4. ListOK(links')
  <2>1. LinkType(links')
    BY <1>3 DEF SameNodes
  <2>2. FreeOK(links')
    BY <1>2, <1>3, SameFree
  <2> QED BY <1>3, <2>1, <2>2 DEF ListOK
<1>5. StackOK(stack', maxsize, Len(dicts), torn) /\ Len(stack') = Len(stack) - 1
  BY <1>1, TopFacts DEF IInv, Returned
<1>6. Len(links'.nodes) = Len(links.nodes)
  BY <1>3 DEF SameNodes
<1>7. Len(links'.nodes) + Len(stack') <= calls' /\ calls' <= MaxCalls
  <2>1. Len(links.nodes) + Len(stack) <= calls /\ calls <= MaxCalls
    BY DEF IInv
  <2> QED BY <1>1, <1>5, <1>6, <2>1, StateFacts
<1>8. Bounded /\ ~torn => Entries(links', dicts[Len(dicts)], maxsize)
  BY <1>3, MatchSame DEF IInv, Entries
<1>9. Types'
  BY <1>1 DEF IInv, Types
<1> QED BY <1>1, <1>4, <1>5, <1>7, <1>8, <1>9 DEF IInv, Bounded

\* The state after Store, part by part.
LEMMA StoreKeeps == ASSUME IInv, Store PROVE IInv'
<1> DEFINE k == Top.key
           h == Top.held
           e == IF Bounded THEN FreshNode(Evicted.links) ELSE None
           d == Stored(Evicted.dict, k, e)
<1>1. stack # <<>> /\ stack' = Returned /\ k \notin DOMAIN Held /\ Top.pc = "recheck"
      /\ UNCHANGED <<maxsize, hits, misses, calls, torn>>
  BY DEF Store
<1>2. dicts' = [dicts EXCEPT ![h] = d]
  BY DEF Store, Stored
<1>3. Top \in Frame /\ FrameOK(Top, maxsize, Len(dicts), torn)
      /\ StackOK(stack', maxsize, Len(dicts), torn) /\ Len(stack') = Len(stack) - 1
      /\ Len(stack) >= 1
  BY <1>1, TopFacts DEF IInv, Top, Returned
<1>4. k \in Key /\ h \in 1..Len(dicts) /\ maxsize # 0 /\ (torn \/ h = Len(dicts))
  <2>1. Top.key \in Key
    BY <1>3 DEF Frame
  <2>2. h \in 1..Len(dicts) /\ maxsize # 0 /\ (torn \/ h = Len(dicts))
    BY <1>1, <1>3 DEF FrameOK
  <2> QED BY <2>1, <2>2
<1>5. PICK s : LinkType(links) /\ FreeOK(links) /\ ListOf(links, s)
  BY DEF IInv, ListOK
<1>6. /\ Evicted.dict \in Dict /\ k \notin DOMAIN Evicted.dict
  BY <1>1, <1>5, EvictedOK
<1>7. e \in Links \cup {None}
  BY <1>5, StoreLinks
<1> HIDE DEF k, h, e
<1>8. /\ d \in Dict /\ DOMAIN d = DOMAIN Evicted.dict \cup {k}
      /\ d[k] = e /\ \A j \in DOMAIN Evicted.dict : d[j] = Evicted.dict[j]
      /\ Cardinality(DOMAIN d) = Cardinality(DOMAIN Evicted.dict) + 1
  BY <1>4, <1>6, <1>7, StoredDict
<1> HIDE DEF d
<1>9. /\ dicts' \in Seq(Dict) /\ Len(dicts') = Len(dicts)
      /\ \A i \in 1..Len(dicts) : dicts'[i] = IF i = h THEN d ELSE dicts[i]
  <2>1. dicts \in Seq(Dict)
    BY DEF IInv, Types
  <2> QED BY <1>2, <1>8, <2>1, SetSeq
<1>10. Types'
  BY <1>1, <1>9 DEF IInv, Types
<1>11. StackOK(stack', maxsize', Len(dicts'), torn')
  BY <1>1, <1>3, <1>9
<1>12. ListOK(links') /\ Len(links'.nodes) \in Nat /\ Len(links'.nodes) <= Len(links.nodes) + 1
  <2>1. CASE Bounded
    BY <1>5, <2>1, StoreLinks DEF ListOK
  <2>2. CASE ~Bounded
    <3>1. links' = links
      BY <2>2 DEF Store
    <3> QED BY <3>1, StateFacts DEF IInv
  <2> QED BY <2>1, <2>2
<1>13. Len(links'.nodes) + Len(stack') <= calls' /\ calls' <= MaxCalls
  <2>1. Len(links.nodes) + Len(stack) <= calls /\ calls <= MaxCalls
    BY DEF IInv
  <2> QED BY <1>1, <1>3, <1>12, <2>1, StateFacts
<1>14. ASSUME Bounded, ~torn
       PROVE  Entries(links', dicts'[Len(dicts')], maxsize)
  <2>1. h = Len(dicts) /\ dicts'[Len(dicts')] = d
    BY <1>4, <1>9, <1>14, StateFacts
  <2>2. Entries(links, Held, maxsize)
    BY <1>14, <2>1 DEF IInv, Held, h
  <2>3. maxsize \in Nat
    BY <1>14, StateFacts DEF Bounded
  <2>4. /\ Cardinality(DOMAIN Evicted.dict) \in Nat
        /\ Cardinality(DOMAIN Evicted.dict) + 1 <= maxsize
    BY <1>1, <1>4, <1>5, <2>2, <2>3, EvictsFull
  <2>5. Match(Evicted.links, Evicted.dict)
    BY <1>1, <1>5, <2>2, EvictedOK DEF Entries
  <2>6. Inserted(Evicted.links, links', e, k)
    BY <1>5, <1>14, StoreLinks DEF e, k
  <2>7. Match(links', d)
    BY <1>6, <1>8, <2>5, <2>6, MatchInsert
  <2> QED BY <1>8, <2>1, <2>4, <2>7 DEF Entries
<1> QED BY <1>1, <1>10, <1>11, <1>12, <1>13, <1>14 DEF IInv, Bounded

\* cache_clear()
LEMMA CacheClearKeeps == ASSUME IInv, CacheClear PROVE IInv'
<1> DEFINE n == Len(dicts)
           cleared == \E f \in Range(stack) : f.pc = "recheck"
<1>1. /\ UNCHANGED <<maxsize, stack, calls>> /\ hits' = 0 /\ misses' = 0
      /\ dicts' = Append(dicts, EmptyDict) /\ links' = EmptyLinks /\ torn' = cleared
  BY DEF CacheClear
<1>2. dicts \in Seq(Dict) /\ n \in Nat /\ EmptyDict \in Dict
  BY EmptyCache, StateFacts DEF IInv, Types
<1>3. dicts' \in Seq(Dict) /\ Len(dicts') = n + 1 /\ dicts'[n + 1] = EmptyDict
  BY <1>1, <1>2, AppendProperties
<1> HIDE DEF n
<1>4. Types'
  <2>1. n + 1 >= 1 /\ 0 \in Nat
    BY <1>2
  <2>2. torn' \in BOOLEAN
    BY <1>1
  <2> QED BY <1>1, <1>3, <2>1, <2>2 DEF IInv, Types
<1>5. StackOK(stack, maxsize, n, torn)
  BY DEF IInv, n
<1>6. StackOK(stack', maxsize', n + 1, cleared)
  <2>1. ASSUME NEW i \in 1..Len(stack)
        PROVE  FrameOK(stack[i], maxsize, n + 1, cleared)
    <3>1. FrameOK(stack[i], maxsize, n, torn) /\ stack \in Seq(Frame)
      BY <1>5 DEF StackOK
    <3>2. stack[i].held \in 1..(n + 1)
      BY <1>2, <3>1 DEF FrameOK
    <3>3. stack[i] \in Range(stack)
      BY <3>1 DEF Range
    <3>4. stack[i].pc = "recheck" => cleared
      BY <3>3
    <3> HIDE DEF cleared
    <3> QED BY <3>1, <3>2, <3>4 DEF FrameOK
  <2> HIDE DEF cleared
  <2> QED BY <1>1, <1>5, <2>1 DEF StackOK
<1>7. ListOK(links') /\ Len(links'.nodes) = 0
  BY <1>1, EmptyCache
<1>8. Len(links'.nodes) + Len(stack') <= calls' /\ calls' <= MaxCalls
  <2>1. Len(links.nodes) + Len(stack) <= calls /\ calls <= MaxCalls
    BY DEF IInv
  <2> QED BY <1>1, <1>7, <2>1, StateFacts
<1>9. Bounded => Entries(links', EmptyDict, maxsize)
  <2>1. Bounded => maxsize \in Nat
    BY StateFacts DEF Bounded
  <2>2. Match(links', EmptyDict) /\ Cardinality(DOMAIN EmptyDict) = 0
    BY <1>1, EmptyCache
  <2> QED BY <2>1, <2>2 DEF Entries
<1> HIDE DEF cleared
<1> QED BY <1>1, <1>3, <1>4, <1>6, <1>7, <1>8, <1>9 DEF IInv, Bounded

\* Every step preserves the invariant.
LEMMA NextIInv == ASSUME IInv, [Next]_vars PROVE IInv'
<1>1. ASSUME NEW k \in Key, Call(k) PROVE IInv'
  BY <1>1, CallKeeps
<1>2. CASE Hit
  BY <1>2, HitKeeps
<1>3. CASE Miss
  BY <1>3, MissKeeps
<1>4. CASE FunctionReturns
  BY <1>4, FunctionReturnsKeeps
<1>5. CASE Raises
  BY <1>5, PopKeeps DEF Raises, IInv, Types
<1>6. CASE AlreadyThere
  BY <1>6, PopKeeps DEF AlreadyThere, IInv, Types
<1>7. CASE Store
  BY <1>7, StoreKeeps
<1>8. CASE CacheClear
  BY <1>8, CacheClearKeeps
<1>9. CASE UNCHANGED vars
  BY <1>9 DEF vars, IInv, Types, Bounded
<1> QED BY <1>1, <1>2, <1>3, <1>4, <1>5, <1>6, <1>7, <1>8, <1>9 DEF Next

\* The invariant holds in every reachable state.
THEOREM Inductive == Spec => []IInv
<1>1. Init => IInv
  BY InitIInv
<1>2. IInv /\ [Next]_vars => IInv'
  BY NextIInv
<1> QED BY <1>1, <1>2, PTL DEF Spec

-----------------------------------------------------------------------------
(* The properties *)

\* What the list and the entries look like in every reachable state.
LEMMA SoundState == ASSUME IInv PROVE ListIsSound
<1>1. LinkType(links) /\ FreeOK(links)
  BY DEF IInv, ListOK
<1>2. PICK s : ListOf(links, s)
  BY DEF IInv, ListOK
<1>3. s \in SetToSeqs(Live) /\ InOrder(links, s)
  BY <1>1, <1>2, OrderOfList DEF Live
<1>4. /\ links.free \in Seq(Nat) /\ DOMAIN links.nodes = 1..Len(links.nodes)
      /\ DOMAIN links.free = 1..Len(links.free)
  BY <1>1, LinkFields
<1>5. Range(links.free) = DOMAIN links.nodes \ Live
  <2>1. \A a \in 1..Len(links.free) : links.free[a] \in 1..Len(links.nodes)
                                      /\ links.nodes[links.free[a]] = None
    BY <1>1 DEF FreeOK
  <2>2. \A x \in 1..Len(links.nodes) : links.nodes[x] = None =>
          \E a \in 1..Len(links.free) : links.free[a] = x
    BY <1>1 DEF FreeOK
  <2> QED BY <1>4, <2>1, <2>2 DEF Live, LiveIn, Range
<1>6. IsInjective(links.free)
  BY <1>1, <1>4 DEF FreeOK, IsInjective
<1>7. 1..Len(links.nodes) \subseteq Links
  <2>1. Len(links.nodes) + Len(stack) <= calls /\ calls <= MaxCalls
    BY DEF IInv
  <2> QED BY <2>1, StateFacts DEF Links
<1>8. TypeOK
  <2>1. ASSUME NEW d \in Range(dicts)
        PROVE  DOMAIN d \subseteq Key /\ Range(d) \subseteq Links \cup {None}
    <3>1. dicts \in Seq(Dict)
      BY DEF IInv, Types
    <3>2. d \in Dict
      BY <3>1 DEF Range
    <3>3. DOMAIN d \subseteq Key /\ d \in [DOMAIN d -> Links \cup {None}]
      BY <3>2, DictFacts
    <3> QED BY <3>3 DEF Range
  <2>2. Range(links.free) \subseteq Links
    BY <1>4, <1>5, <1>7
  <2>3. links.head \in Links \cup {None} /\ links.tail \in Links \cup {None}
    <3>1. s \in Seq(Nat)
      BY <1>2 DEF ListOf
    <3>2. Len(s) # 0 => 1 \in 1..Len(s) /\ Len(s) \in 1..Len(s)
      BY <3>1
    <3>3. \A a \in 1..Len(s) : s[a] \in Links
      BY <1>2, <1>7 DEF ListOf, LiveAt
    <3>4. links.head = (IF Len(s) = 0 THEN None ELSE s[1])
          /\ links.tail = (IF Len(s) = 0 THEN None ELSE s[Len(s)])
      BY <1>2 DEF ListOf
    <3> QED BY <3>2, <3>3, <3>4
  <2>4. ASSUME NEW f \in Range(stack)
        PROVE  f.pc \in {"lookup", "function", "recheck"} /\ f.held \in DOMAIN dicts
    <3>1. dicts \in Seq(Dict) /\ stack \in Seq(Frame)
      BY DEF IInv, Types, StackOK
    <3>2. PICK i \in 1..Len(stack) : f = stack[i]
      BY <3>1 DEF Range
    <3>3. f \in Frame /\ f.held \in 1..Len(dicts)
      BY <3>1, <3>2 DEF IInv, StackOK, FrameOK
    <3> QED BY <3>1, <3>3 DEF Frame
  <2>5. maxsize \in MaxSizes /\ hits \in Nat /\ misses \in Nat
    BY DEF IInv, Types
  <2> QED BY <2>1, <2>2, <2>3, <2>4, <2>5 DEF TypeOK
<1> QED BY <1>3, <1>5, <1>6, <1>8 DEF ListIsSound

\* The private list of lru_cache is one doubly linked list in every state,
\* whichever calls interrupt each other and whatever is cleared meanwhile.
THEOREM ListAlwaysSound == Spec => []ListIsSound
<1>1. IInv => ListIsSound
  BY SoundState
<1> QED BY <1>1, Inductive, PTL

\* The list and the entries describe the same keys.
LEMMA CacheState == ASSUME IInv PROVE ListIsCache
<1> SUFFICES ASSUME Bounded, ~torn
             PROVE  /\ Cardinality(Live) = Cardinality(DOMAIN Cache)
                    /\ \A k \in DOMAIN Cache : Cache[k] \in Live /\ links.nodes[Cache[k]].key = k
                    /\ Cardinality(DOMAIN Cache) <= maxsize
  BY DEF ListIsCache
<1>1. Match(links, Cache) /\ Cardinality(DOMAIN Cache) <= maxsize /\ Cache \in Dict
  BY StateFacts DEF IInv, Entries
<1>2. LinkType(links) /\ IsFiniteSet(DOMAIN Cache)
  BY <1>1, DictFacts DEF IInv, ListOK
<1>3. Cardinality(Live) = Cardinality(DOMAIN Cache)
  BY <1>1, <1>2, MatchCount DEF Live
<1>4. \A x : LiveAt(links, x) => x \in Live
  BY <1>2, LinkFields DEF Live, LiveIn, LiveAt
<1> QED BY <1>1, <1>3, <1>4 DEF Match

\* The list holds exactly the cached keys, each in its own node, and never more
\* than maxsize, unless the cache was cleared during the second lookup of a miss.
THEOREM ListAlwaysCache == Spec => []ListIsCache
<1>1. IInv => ListIsCache
  BY CacheState
<1> QED BY <1>1, Inductive, PTL

-----------------------------------------------------------------------------
(* The order of the keys *)

\* The keys in an order are keys.
LEMMA KeysSeq ==
    ASSUME NEW l, LinkType(l), NEW s, ListOf(l, s)
    PROVE  /\ KeysOf(l, s) \in Seq(Key) /\ Len(KeysOf(l, s)) = Len(s) /\ Len(s) \in Nat
           /\ \A i \in 1..Len(s) : KeysOf(l, s)[i] = l.nodes[s[i]].key
<1> DEFINE n == Len(s)
<1>1. n \in Nat
  BY DEF ListOf
<1>2. \A i \in 1..n : l.nodes[s[i]].key \in Key
  <2>1. \A i \in 1..n : l.nodes[s[i]] \in Node
    BY LinkFields DEF ListOf, LiveAt
  <2> HIDE DEF n
  <2> QED BY <2>1 DEF Node
<1>3. KeysOf(l, s) = [i \in 1..n |-> l.nodes[s[i]].key]
  BY DEF KeysOf
<1> HIDE DEF n
<1>4. KeysOf(l, s) \in [1..n -> Key]
  BY <1>2, <1>3
<1>5. KeysOf(l, s) \in Seq(Key) /\ Len(KeysOf(l, s)) = n
  BY <1>1, <1>4
<1> QED BY <1>1, <1>3, <1>5 DEF n

\* Sequences with the same elements.
LEMMA SameSeq ==
    ASSUME NEW S, NEW s \in Seq(S), NEW t \in Seq(S), Len(s) = Len(t),
           \A i \in 1..Len(s) : s[i] = t[i]
    PROVE  s = t
<1>1. s = [i \in 1..Len(s) |-> s[i]] /\ t = [i \in 1..Len(t) |-> t[i]]
  OBVIOUS
<1> QED BY <1>1

\* A node is moved: so is its key.
LEMMA KeysMoved ==
    ASSUME NEW l, LinkType(l), NEW s, ListOf(l, s), NEW p, SameNodes(l, p),
           NEW j \in 1..Len(s), NEW t, ListOf(p, t), Moved(s, t, j, s[j])
    PROVE  KeysOf(p, t) \in MovedLast(KeysOf(l, s), l.nodes[s[j]].key)
<1> DEFINE n == Len(s)
           old == KeysOf(l, s)
           new == KeysOf(p, t)
           k == l.nodes[s[j]].key
           a == Append(RemoveAt(old, j), k)
<1>1. LinkType(p)
  BY DEF SameNodes
<1>2. /\ old \in Seq(Key) /\ Len(old) = n /\ n \in Nat
      /\ \A i \in 1..n : old[i] = l.nodes[s[i]].key
  BY KeysSeq
<1>3. /\ Len(t) = n /\ new \in Seq(Key) /\ Len(new) = n
      /\ \A i \in 1..n : new[i] = p.nodes[t[i]].key
  BY <1>1, KeysSeq DEF Moved
<1>4. k \in Key /\ old[j] = k
  BY <1>2
<1> HIDE DEF old, new, k
<1>5. a \in Seq(Key) /\ Moved(old, a, j, k)
  BY <1>2, <1>4, MovedSeq
<1>6. \A i \in 1..n : p.nodes[t[i]].key = l.nodes[t[i]].key
  <2>1. \A x : LiveAt(p, x) => p.nodes[x].key = l.nodes[x].key
    BY DEF SameNodes, LiveAt
  <2> QED BY <1>3, <2>1 DEF ListOf
<1> HIDE DEF n, a
<1>7. \A i \in 1..n : new[i] = a[i]
  <2> SUFFICES ASSUME NEW i \in 1..n PROVE new[i] = a[i]
    OBVIOUS
  <2>1. t[i] = IF i < j THEN s[i] ELSE IF i < n THEN s[i + 1] ELSE s[j]
    BY DEF Moved, n
  <2>2. a[i] = IF i < j THEN old[i] ELSE IF i < n THEN old[i + 1] ELSE k
    BY <1>2, <1>5 DEF Moved
  <2>3. new[i] = l.nodes[t[i]].key
    BY <1>3, <1>6
  <2>4. CASE i < j
    BY <1>2, <2>1, <2>2, <2>3, <2>4
  <2>5. CASE ~(i < j) /\ i < n
    <3>1. i + 1 \in 1..n
      BY <1>2, <2>5
    <3> QED BY <1>2, <2>1, <2>2, <2>3, <2>5, <3>1
  <2>6. CASE ~(i < j) /\ ~(i < n)
    BY <2>1, <2>2, <2>3, <2>6 DEF k
  <2> QED BY <2>4, <2>5, <2>6
<1>8. Len(a) = n
  BY <1>2, <1>5 DEF Moved
<1>9. new = a
  BY <1>3, <1>5, <1>7, <1>8, SameSeq
<1>10. j \in DOMAIN old
  BY <1>2 DEF n
<1> QED BY <1>4, <1>9, <1>10 DEF MovedLast, a, old, new, k

\* A node is added: so is its key.
LEMMA KeysInserted ==
    ASSUME NEW l, LinkType(l), NEW u, ListOf(l, u), NEW r, NEW i, NEW k \in Key,
           Inserted(l, r, i, k), ListOf(r, Append(u, i))
    PROVE  KeysOf(r, Append(u, i)) = Append(KeysOf(l, u), k)
<1> DEFINE n == Len(u)
           t == Append(u, i)
           old == KeysOf(l, u)
           new == KeysOf(r, t)
           a == Append(old, k)
<1>1. LinkType(r) /\ i \in Nat /\ u \in Seq(Nat)
  BY DEF Inserted, ListOf
<1>2. Len(t) = n + 1 /\ t[n + 1] = i /\ \A m \in 1..n : t[m] = u[m]
  BY <1>1, AppendProperties
<1>3. /\ old \in Seq(Key) /\ Len(old) = n /\ n \in Nat
      /\ \A m \in 1..n : old[m] = l.nodes[u[m]].key
  BY KeysSeq
<1>4. /\ new \in Seq(Key) /\ Len(new) = n + 1
      /\ \A m \in 1..(n + 1) : new[m] = r.nodes[t[m]].key
  <2>0. ListOf(r, t)
    OBVIOUS
  <2> HIDE DEF t
  <2>1. /\ new \in Seq(Key) /\ Len(new) = Len(t)
        /\ \A m \in 1..Len(t) : new[m] = r.nodes[t[m]].key
    BY <1>1, <2>0, KeysSeq
  <2> HIDE DEF new
  <2> QED BY <1>2, <2>1
<1> HIDE DEF old, new
<1>5. /\ a \in Seq(Key) /\ Len(a) = n + 1 /\ a[n + 1] = k
      /\ \A m \in 1..n : a[m] = old[m]
  BY <1>3, AppendProperties
<1>6. \A m \in 1..n : r.nodes[u[m]].key = l.nodes[u[m]].key
  <2>1. \A m \in 1..n : LiveAt(l, u[m])
    BY DEF ListOf
  <2> QED BY <2>1 DEF Inserted
<1>7. r.nodes[i].key = k
  BY DEF Inserted
<1> HIDE DEF n, t, a
<1>8. \A m \in 1..(n + 1) : new[m] = a[m]
  <2> SUFFICES ASSUME NEW m \in 1..(n + 1) PROVE new[m] = a[m]
    OBVIOUS
  <2>1. m \in 1..n \/ m = n + 1
    BY <1>3
  <2>2. CASE m \in 1..n
    BY <1>2, <1>3, <1>4, <1>5, <1>6, <2>2
  <2>3. CASE m = n + 1
    BY <1>2, <1>4, <1>5, <1>7, <2>3
  <2> QED BY <2>1, <2>2, <2>3
<1>9. new = a
  BY <1>4, <1>5, <1>8, SameSeq
<1> QED BY <1>9 DEF new, a, old, t

\* The head is freed: its key is gone from the front.
LEMMA KeysTail ==
    ASSUME NEW l, LinkType(l), NEW s, ListOf(l, s), Len(s) # 0,
           NEW r, LinkType(r), NEW t, TailOf(s, t), ListOf(r, t),
           \A x : LiveAt(r, x) => r.nodes[x].key = l.nodes[x].key
    PROVE  KeysOf(r, t) = Tail(KeysOf(l, s))
<1> DEFINE n == Len(s)
           old == KeysOf(l, s)
           new == KeysOf(r, t)
<1>1. /\ old \in Seq(Key) /\ Len(old) = n /\ n \in Nat
      /\ \A i \in 1..n : old[i] = l.nodes[s[i]].key
  BY KeysSeq
<1>2. /\ new \in Seq(Key) /\ Len(new) = n - 1 /\ Len(t) = n - 1
      /\ \A i \in 1..(n - 1) : new[i] = r.nodes[t[i]].key
  BY KeysSeq DEF TailOf
<1> HIDE DEF old, new
<1>3. /\ Tail(old) \in Seq(Key) /\ Len(Tail(old)) = n - 1
      /\ \A i \in 1..(n - 1) : Tail(old)[i] = old[i + 1]
  <2>1. old # <<>>
    BY <1>1
  <2> QED BY <1>1, <2>1, HeadTailProperties
<1>4. \A i \in 1..(n - 1) : t[i] = s[i + 1] /\ i + 1 \in 1..n
  BY <1>1, <1>2 DEF TailOf
<1>5. \A i \in 1..(n - 1) : r.nodes[t[i]].key = l.nodes[t[i]].key
  BY <1>2 DEF ListOf
<1> HIDE DEF n
<1>6. \A i \in 1..(n - 1) : new[i] = Tail(old)[i]
  BY <1>1, <1>2, <1>3, <1>4, <1>5
<1>7. new = Tail(old)
  BY <1>2, <1>3, <1>6, SameSeq
<1> QED BY <1>7 DEF old, new

\* A step that leaves the dicts, the list and the hits alone.
LEMMA QuietStep ==
    ASSUME IInv, UNCHANGED <<dicts, links, hits>>
    PROVE  LruStep
<1>1. ~(Len(dicts') > Len(dicts)) /\ ~(hits' > hits)
  <2>1. hits \in Nat /\ Len(dicts) \in Nat
    BY StateFacts DEF IInv, Types
  <2> QED BY <2>1
<1>2. RecencyOf(links') = Recency
  BY DEF Recency
<1> QED BY <1>1, <1>2 DEF LruStep

\* A clear empties the list.
LEMMA ClearStep == ASSUME IInv, CacheClear PROVE LruStep
<1>1. dicts' = Append(dicts, EmptyDict) /\ links' = EmptyLinks /\ hits' = 0
  BY DEF CacheClear
<1>2. Len(dicts') > Len(dicts)
  <2>1. dicts \in Seq(Dict) /\ EmptyDict \in Dict /\ Len(dicts) \in Nat
    BY EmptyCache, StateFacts DEF IInv, Types
  <2>2. Len(dicts') = Len(dicts) + 1
    BY <1>1, <2>1, AppendProperties
  <2> QED BY <2>1, <2>2
<1>3. ~(hits' > hits)
  <2>1. hits \in Nat
    BY DEF IInv, Types
  <2> QED BY <1>1, <2>1
<1>4. RecencyOf(EmptyLinks) = <<>>
  <2>1. RecencyOf(EmptyLinks) = KeysOf(EmptyLinks, <<>>)
    BY EmptyCache, RecencyIs DEF ListOK
  <2>2. KeysOf(EmptyLinks, <<>>) \in Seq(Key) /\ Len(KeysOf(EmptyLinks, <<>>)) = 0
    BY EmptyCache, KeysSeq DEF ListOK
  <2> QED BY <2>1, <2>2
<1> QED BY <1>1, <1>2, <1>3, <1>4 DEF LruStep

\* A hit moves its own key to the end.
LEMMA HitStep == ASSUME IInv, Hit PROVE LruStep
<1> DEFINE k == Top.key
           x == Held[k]
<1>1. /\ stack # <<>> /\ k \in DOMAIN Held /\ hits' = hits + 1 /\ dicts' = dicts
  BY DEF Hit
<1>2. ~(Len(dicts') > Len(dicts)) /\ hits' > hits
  <2>1. hits \in Nat /\ Len(dicts) \in Nat
    BY StateFacts DEF IInv, Types
  <2>2. Len(dicts') = Len(dicts)
    BY <1>1
  <2> QED BY <1>1, <2>1, <2>2
<1>3. PICK s : LinkType(links) /\ ListOf(links, s)
  BY DEF IInv, ListOK
<1>4. Recency = KeysOf(links, s)
  BY <1>3, RecencyIs DEF Recency
<1>5. ~Bounded => RecencyOf(links') = Recency
  BY DEF Hit, Recency
<1>6. ASSUME Bounded, ~torn, Top.held = Len(dicts)
      PROVE  RecencyOf(links') \in MovedLast(Recency, k)
  <2>1. Held = Cache /\ Held \in Dict /\ Match(links, Held) /\ Cardinality(DOMAIN Held) <= maxsize
    BY <1>6, StateFacts DEF IInv, Entries, Held
  <2>2. LiveAt(links, x) /\ links.nodes[x].key = k
    BY <1>1, <2>1 DEF Match
  <2> HIDE DEF x, k
  <2>3. SameNodes(links, links') /\ LinkType(links')
        /\ \E j \in 1..Len(s) : \E t : s[j] = x /\ Moved(s, t, j, x) /\ ListOf(links', t)
    <3>1. CASE maxsize # 1
      <4>1. links' = Promote(links, x)
        BY <1>6, <3>1 DEF Hit, x, k
      <4>2. /\ SameNodes(links, Promote(links, x))
            /\ \E j \in 1..Len(s) : \E t \in Seq(Nat) :
                 s[j] = x /\ Moved(s, t, j, x) /\ ListOf(Promote(links, x), t)
        BY <1>3, <2>2, PromoteList
      <4> QED BY <4>1, <4>2 DEF SameNodes
    <3>2. CASE maxsize = 1
      <4>1. links' = links
        BY <3>2 DEF Hit
      <4>2. SameNodes(links, links)
        BY <1>3 DEF SameNodes
      <4>3. PICK j \in 1..Len(s) : s[j] = x
        BY <1>3, <2>2 DEF ListOf
      <4>4. Len(s) = Cardinality(DOMAIN Held) /\ s \in Seq(Nat)
        <5>1. IsFiniteSet(DOMAIN Held)
          BY <2>1, DictFacts
        <5>2. Cardinality(LiveIn(links)) = Cardinality(DOMAIN Held)
          BY <1>3, <2>1, <5>1, MatchCount
        <5>3. Cardinality(LiveIn(links)) = Len(s)
          BY <1>3, OrderOfList
        <5> QED BY <1>3, <5>2, <5>3 DEF ListOf
      <4>5. j = Len(s) /\ Len(s) # 0
        BY <2>1, <3>2, <4>3, <4>4
      <4>6. Moved(s, s, j, x)
        BY <4>3, <4>4, <4>5, MovedLastOne
      <4> QED BY <1>3, <4>1, <4>2, <4>3, <4>6
    <3> QED BY <3>1, <3>2
  <2>3a. PICK j \in 1..Len(s) : \E t : s[j] = x /\ Moved(s, t, j, x) /\ ListOf(links', t)
    BY <2>3
  <2>4. PICK t : s[j] = x /\ Moved(s, t, j, x) /\ ListOf(links', t)
    BY <2>3a
  <2>5. KeysOf(links', t) \in MovedLast(KeysOf(links, s), links.nodes[s[j]].key)
    BY <1>3, <2>3, <2>4, KeysMoved
  <2>6. RecencyOf(links') = KeysOf(links', t)
    BY <2>3, <2>4, RecencyIs
  <2> QED BY <1>4, <2>2, <2>4, <2>5, <2>6
<1> HIDE DEF x
<1> QED BY <1>1, <1>2, <1>5, <1>6 DEF LruStep

\* A stored result comes last, and the key at the front makes room for it.
LEMMA StoreStep == ASSUME IInv, Store PROVE LruStep
<1> DEFINE k == Top.key
           i == FreshNode(Evicted.links)
<1>1. stack # <<>> /\ hits' = hits /\ Top.pc = "recheck" /\ k \notin DOMAIN Held
  BY DEF Store
<1>2. Top \in Frame /\ FrameOK(Top, maxsize, Len(dicts), torn)
  BY <1>1, TopFacts DEF IInv, Top
<1>3. k \in Key /\ Top.held \in 1..Len(dicts) /\ maxsize # 0 /\ (torn \/ Top.held = Len(dicts))
  <2>1. Top.key \in Key
    BY <1>2 DEF Frame
  <2>2. Top.held \in 1..Len(dicts) /\ maxsize # 0 /\ (torn \/ Top.held = Len(dicts))
    BY <1>1, <1>2 DEF FrameOK
  <2> QED BY <2>1, <2>2
<1>4. ~(Len(dicts') > Len(dicts)) /\ dicts' # dicts
  <2> DEFINE d == [j \in DOMAIN Evicted.dict \cup {k} |->
                     IF j = k THEN IF Bounded THEN i ELSE None ELSE Evicted.dict[j]]
  <2>1. dicts' = [dicts EXCEPT ![Top.held] = d]
    BY DEF Store
  <2>2. k \in DOMAIN d
    OBVIOUS
  <2> HIDE DEF d
  <2>3. dicts \in Seq(Dict) /\ Len(dicts) \in Nat
    BY StateFacts DEF IInv, Types
  <2>4. DOMAIN dicts = 1..Len(dicts)
    BY <2>3
  <2>5. DOMAIN dicts' = 1..Len(dicts) /\ dicts'[Top.held] = d
    BY <1>3, <2>1, <2>4
  <2>6. dicts' # dicts
    BY <1>1, <2>2, <2>5 DEF Held
  <2>7. Len(dicts') = Len(dicts)
    BY <2>3, <2>5
  <2> QED BY <2>3, <2>6, <2>7
<1>5. ~(hits' > hits)
  <2>1. hits \in Nat
    BY DEF IInv, Types
  <2> QED BY <1>1, <2>1
<1>6. ~Bounded => RecencyOf(links') = Recency
  BY DEF Store, Recency
<1>7. ASSUME Bounded, ~torn
      PROVE  RecencyOf(links') = Append(IF Len(Recency) = maxsize THEN Tail(Recency) ELSE Recency, k)
  <2>1. PICK s : LinkType(links) /\ FreeOK(links) /\ ListOf(links, s)
    BY DEF IInv, ListOK
  <2> DEFINE u == IF Evicts THEN Tail(s) ELSE s
             l1 == Evicted.links
  <2>2. Recency = KeysOf(links, s) /\ Len(Recency) = Len(s)
    BY <2>1, RecencyIs, KeysSeq DEF Recency
  <2>3. Evicts <=> Len(s) = maxsize
    <3>1. Held = dicts[Len(dicts)]
      BY <1>3, <1>7 DEF Held
    <3>2. Entries(links, Held, maxsize)
      BY <1>7, <3>1 DEF IInv
    <3>3. maxsize \in Nat
      BY <1>7, StateFacts DEF Bounded
    <3> QED BY <1>1, <1>3, <2>1, <3>2, <3>3, EvictsFull
  <2>4. /\ LinkType(l1) /\ ListOf(l1, u)
        /\ \A x : LiveAt(l1, x) => l1.nodes[x].key = links.nodes[x].key
        /\ ~Evicts => \A x : LiveAt(l1, x) => LiveAt(links, x)
    BY <1>1, <2>1, EvictedOK
  <2>5. Inserted(l1, links', i, k) /\ ListOf(links', Append(u, i)) /\ LinkType(links')
    BY <1>7, <2>1, StoreLinks
  <2>6. KeysOf(l1, u) = IF Evicts THEN Tail(KeysOf(links, s)) ELSE KeysOf(links, s)
    <3>1. CASE Evicts
      <4>1. Len(s) # 0 /\ TailOf(s, Tail(s))
        BY <2>1, <3>1, EvictList DEF Evicts
      <4>2. u = Tail(s)
        BY <3>1
      <4> HIDE DEF l1, u
      <4> QED BY <2>1, <2>4, <3>1, <4>1, <4>2, KeysTail
    <3>2. CASE ~Evicts
      BY <3>2 DEF Evicted, Evicts
    <3> QED BY <3>1, <3>2
  <2> HIDE DEF u, l1, i, k
  <2>7. RecencyOf(links') = KeysOf(links', Append(u, i))
    BY <2>5, RecencyIs
  <2>8. KeysOf(links', Append(u, i)) = Append(KeysOf(l1, u), k)
    BY <1>3, <2>4, <2>5, KeysInserted
  <2> QED BY <2>2, <2>3, <2>6, <2>7, <2>8
<1> QED BY <1>4, <1>5, <1>6, <1>7 DEF LruStep

\* A hit moves its own key to the end, a stored result comes last and drives out
\* only the least recently used key of a full cache, and no other step reorders
\* the keys, whichever calls interrupt each other.
THEOREM OrderAlwaysLru == Spec => LruOrder
<1>1. ASSUME IInv, [Next]_vars
      PROVE  [LruStep]_vars
  <2>1. ASSUME NEW k \in Key, Call(k) PROVE LruStep
    BY <1>1, <2>1, QuietStep DEF Call
  <2>2. CASE Hit
    BY <1>1, <2>2, HitStep
  <2>3. CASE Miss
    BY <1>1, <2>3, QuietStep DEF Miss
  <2>4. CASE FunctionReturns
    BY <1>1, <2>4, QuietStep DEF FunctionReturns
  <2>5. CASE Raises
    BY <1>1, <2>5, QuietStep DEF Raises
  <2>6. CASE AlreadyThere
    BY <1>1, <2>6, QuietStep DEF AlreadyThere
  <2>7. CASE Store
    BY <1>1, <2>7, StoreStep
  <2>8. CASE CacheClear
    BY <1>1, <2>8, ClearStep
  <2>9. CASE UNCHANGED vars
    BY <2>9
  <2> QED BY <1>1, <2>1, <2>2, <2>3, <2>4, <2>5, <2>6, <2>7, <2>8, <2>9 DEF Next
<1>2. IInv /\ [Next]_vars => [LruStep]_vars
  BY <1>1
<1> QED BY <1>2, Inductive, PTL DEF Spec, LruOrder
=============================================================================
