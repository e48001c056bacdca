---------------------------- MODULE RouterProofs ----------------------------
(***************************************************************************)
(* The trie that add() builds, for every set of patterns, and what route() *)
(* finds in it, for every path.  TrieIsInOrder is inductive together with  *)
(* the facts that the children of a node are finitely many and have the    *)
(* places 1 to their number: a new child gets the next one, and add()      *)
(* makes one child of each node on its way at most.  The walk of route()   *)
(* is followed by induction over the segments of the path.                 *)
(***************************************************************************)
EXTENDS Router, FiniteSetTheorems, SequenceTheorems, Induction

USE TextAssumption, PatternAssumption, FileAssumption, BoundAssumption

PlacesInv ==
    \A node \in Seq(Texts) :
        /\ IsFiniteSet(Children(node))
        /\ \A n \in Children(node) : trie[n] \in 1..Cardinality(Children(node))

\* With a node, all nodes on the way to it are there.
PrefixInv == \A n \in Nodes : Prefixes(n) \subseteq Nodes

TrieInv == TypeOK /\ TrieIsInOrder /\ PlacesInv /\ PrefixInv

\* What the prefixes of a pattern are.
LEMMA PrefixFacts ==
    ASSUME NEW pattern \in Seq(Texts)
    PROVE  /\ Prefixes(pattern) \subseteq Seq(Texts)
           /\ pattern \in Prefixes(pattern) /\ Root \in Prefixes(pattern)
           /\ \A n \in Prefixes(pattern) : n # Root => Parent(n) \in Prefixes(pattern)
           /\ \A m, n \in Prefixes(pattern) :
                 m # Root /\ n # Root /\ Parent(m) = Parent(n) => m = n
<1>1. ASSUME NEW n \in 0..Len(pattern)
      PROVE  /\ SubSeq(pattern, 1, n) \in Seq(Texts)
             /\ Len(SubSeq(pattern, 1, n)) = n
  OBVIOUS
<1>2. SubSeq(pattern, 1, 0) = Root
  BY DEF Root
<1>3. SubSeq(pattern, 1, Len(pattern)) = pattern
  OBVIOUS
<1>4. ASSUME NEW n \in 1..Len(pattern)
      PROVE  /\ Parent(SubSeq(pattern, 1, n)) = SubSeq(pattern, 1, n - 1)
             /\ Len(SubSeq(pattern, 1, n - 1)) = n - 1
             /\ SubSeq(pattern, 1, n) # Root
  <2>1. Len(SubSeq(pattern, 1, n)) = n
    BY <1>1
  <2>2. SubSeq(SubSeq(pattern, 1, n), 1, n - 1) = SubSeq(pattern, 1, n - 1)
    OBVIOUS
  <2> QED
    BY <2>1, <2>2, <1>1 DEF Parent, Root
<1>5. ASSUME NEW m \in Prefixes(pattern), m # Root
      PROVE  \E n \in 1..Len(pattern) : m = SubSeq(pattern, 1, n)
  BY <1>2, <1>5 DEF Prefixes
<1>6. Prefixes(pattern) \subseteq Seq(Texts)
  BY <1>1 DEF Prefixes
<1>7. pattern \in Prefixes(pattern) /\ Root \in Prefixes(pattern)
  <2>1. 0 \in 0..Len(pattern) /\ Len(pattern) \in 0..Len(pattern)
    OBVIOUS
  <2>2. \A n \in 0..Len(pattern) : SubSeq(pattern, 1, n) \in Prefixes(pattern)
    BY DEF Prefixes
  <2>3. SubSeq(pattern, 1, 0) \in Prefixes(pattern)
    BY <2>1, <2>2
  <2>4. SubSeq(pattern, 1, Len(pattern)) \in Prefixes(pattern)
    BY <2>1, <2>2
  <2> QED
    BY <1>2, <1>3, <2>3, <2>4
<1>8. ASSUME NEW m \in Prefixes(pattern), m # Root PROVE Parent(m) \in Prefixes(pattern)
  <2>1. PICK n \in 1..Len(pattern) : m = SubSeq(pattern, 1, n)
    BY <1>5, <1>8
  <2>2. Parent(m) = SubSeq(pattern, 1, n - 1) /\ n - 1 \in 0..Len(pattern)
    BY <1>4, <2>1
  <2> QED
    BY <2>2 DEF Prefixes
<1>9. ASSUME NEW l \in Prefixes(pattern), NEW m \in Prefixes(pattern),
             l # Root, m # Root, Parent(l) = Parent(m)
      PROVE  l = m
  <2>1. PICK i \in 1..Len(pattern) : l = SubSeq(pattern, 1, i)
    BY <1>5, <1>9
  <2>2. PICK j \in 1..Len(pattern) : m = SubSeq(pattern, 1, j)
    BY <1>5, <1>9
  <2>3. Len(Parent(l)) = i - 1 /\ Len(Parent(m)) = j - 1
    BY <1>4, <2>1, <2>2
  <2>4. i = j
    BY <1>9, <2>3
  <2> QED
    BY <2>1, <2>2, <2>4
<1> QED
  BY <1>6, <1>7, <1>8, <1>9

\* The parent of a node is a sequence of segments too.
LEMMA ParentType ==
    ASSUME NEW n \in Seq(Texts), n # Root PROVE Parent(n) \in Seq(Texts)
  BY DEF Parent, Root

\* The prefixes of a prefix.
LEMMA PrefixOfPrefix ==
    ASSUME NEW pattern \in Seq(Texts), NEW n \in Prefixes(pattern)
    PROVE  Prefixes(n) \subseteq Prefixes(pattern)
<1>1. PICK j \in 0..Len(pattern) : n = SubSeq(pattern, 1, j)
  BY DEF Prefixes
<1>2. Len(n) = j
  BY <1>1
<1>3. ASSUME NEW k \in 0..j
      PROVE  SubSeq(n, 1, k) = SubSeq(pattern, 1, k) /\ k \in 0..Len(pattern)
  <2>1. k \in 0..Len(pattern)
    BY <1>1
  <2>2. SubSeq(n, 1, k) \in Seq(Texts) /\ Len(SubSeq(n, 1, k)) = k
        /\ \A i \in 1..k : SubSeq(n, 1, k)[i] = pattern[i]
    BY <1>1, <1>2
  <2>3. SubSeq(pattern, 1, k) \in Seq(Texts) /\ Len(SubSeq(pattern, 1, k)) = k
        /\ \A i \in 1..k : SubSeq(pattern, 1, k)[i] = pattern[i]
    BY <2>1
  <2> QED
    BY <2>1, <2>2, <2>3, SeqEqual
<1> QED
  BY <1>2, <1>3 DEF Prefixes

\* The initial state: no trie at all.
LEMMA InitEstablishes == Init => TrieInv
<1> SUFFICES ASSUME Init PROVE TrieInv
  OBVIOUS
<1>1. Nodes = {} /\ DOMAIN handlers = {} /\ added = 0
  BY DEF Init, Nodes
<1>2. \A node : Children(node) = {}
  BY <1>1 DEF Children
<1>3. TypeOK
  <2>1. trie \in [Nodes -> Nat] /\ handlers \in [DOMAIN handlers -> 1..added]
    BY <1>1 DEF Init, Nodes
  <2> QED
    BY <1>1, <2>1 DEF TypeOK
<1>4. PlacesInv
  BY <1>2, FS_EmptySet DEF PlacesInv
<1> QED
  BY <1>1, <1>3, <1>4 DEF TrieInv, TrieIsInOrder, PrefixInv

\* add() keeps the trie in order.
LEMMA AddPreserves ==
    ASSUME TrieInv, NEW method \in Methods, NEW pattern \in Patterns, Add(method, pattern)
    PROVE  TrieInv'
<1>1. pattern \in Seq(Texts)
  OBVIOUS
<1>2. Nodes' = Nodes \cup Prefixes(pattern)
  BY DEF Add, Nodes
<1>3. \A n \in Nodes' : trie'[n] = IF n \in Nodes THEN trie[n] ELSE Place(n)
  BY <1>2 DEF Add
<1>4. Nodes' \subseteq Seq(Texts)
  BY <1>1, <1>2, PrefixFacts DEF TrieInv, TypeOK
<1>5. ASSUME NEW node \in Seq(Texts)
      PROVE  /\ IsFiniteSet(Children(node)')
             /\ Cardinality(Children(node)) \in Nat
             /\ \/ Children(node)' = Children(node)
                \/ \E n \in Nodes' \ Nodes :
                      /\ n # Root /\ Parent(n) = node
                      /\ Children(node)' = Children(node) \cup {n}
                      /\ Cardinality(Children(node)') = Cardinality(Children(node)) + 1
  <2>1. IsFiniteSet(Children(node)) /\ Cardinality(Children(node)) \in Nat
    BY FS_CardinalityType DEF TrieInv, PlacesInv
  <2>2. Children(node)' = {n \in Nodes' : n # Root /\ Parent(n) = node}
    BY DEF Children, Parent, Root
  <2>3. CASE \E n \in Nodes' \ Nodes : n # Root /\ Parent(n) = node
    <3>1. PICK n \in Nodes' \ Nodes : n # Root /\ Parent(n) = node
      BY <2>3
    <3>2. \A m \in Nodes' \ Nodes : m # Root /\ Parent(m) = node => m = n
      BY <1>1, <1>2, <3>1, PrefixFacts
    <3>3. Children(node)' = Children(node) \cup {n}
      BY <1>2, <2>2, <3>1, <3>2 DEF Children
    <3>4. n \notin Children(node)
      BY <3>1 DEF Children
    <3>5. /\ IsFiniteSet(Children(node)')
          /\ Cardinality(Children(node)') = Cardinality(Children(node)) + 1
      BY <2>1, <3>3, <3>4, FS_AddElement
    <3> QED
      BY <2>1, <3>1, <3>3, <3>5
  <2>4. CASE ~ \E n \in Nodes' \ Nodes : n # Root /\ Parent(n) = node
    <3>1. Children(node)' = Children(node)
      BY <1>2, <2>2, <2>4 DEF Children
    <3> QED
      BY <2>1, <3>1
  <2> QED
    BY <2>3, <2>4
<1>6. ASSUME NEW n \in Nodes' \ Nodes, n # Root
      PROVE  trie'[n] = Cardinality(Children(Parent(n))) + 1
  BY <1>3, <1>6 DEF Place
<1>7. TypeOK'
  <2>1. added' = added + 1 /\ added' \in 1..MaxRoutes /\ added \in Nat
    BY DEF Add, TrieInv, TypeOK
  <2>2. ASSUME NEW n \in Nodes' PROVE trie'[n] \in Nat
    <3>1. CASE n \in Nodes
      BY <1>3, <3>1 DEF TrieInv, TypeOK
    <3>2. CASE n \notin Nodes
      <4>1. CASE n = Root
        BY <1>3, <3>2, <4>1 DEF Place
      <4>2. CASE n # Root
        BY <1>4, <1>5, <1>6, <3>2, <4>2, ParentType
      <4> QED
        BY <4>1, <4>2
    <3> QED
      BY <3>1, <3>2
  <2>3. trie' \in [Nodes' -> Nat]
    <3>1. trie' = [n \in Nodes' |-> trie'[n]]
      BY <1>2 DEF Add
    <3> QED
      BY <2>2, <3>1
  <2>4. DOMAIN handlers' \subseteq Methods \X Patterns
    BY DEF Add, TrieInv, TypeOK
  <2>5. handlers' \in [DOMAIN handlers' -> 1..added']
    BY <2>1 DEF Add, TrieInv, TypeOK
  <2> QED
    BY <1>4, <2>1, <2>3, <2>4, <2>5 DEF TypeOK
<1>8. /\ \A k \in DOMAIN handlers' : k[2] \in Nodes'
      /\ \A n \in Nodes' \ {Root} : Parent(n) \in Nodes'
  <2>1. ASSUME NEW k \in DOMAIN handlers' PROVE k[2] \in Nodes'
    <3>1. k \in DOMAIN handlers \/ k = <<method, pattern>>
      BY <2>1 DEF Add
    <3> QED
      BY <1>1, <1>2, <3>1, PrefixFacts DEF TrieInv, TrieIsInOrder
  <2>2. ASSUME NEW n \in Nodes', n # Root PROVE Parent(n) \in Nodes'
    BY <1>1, <1>2, <2>2, PrefixFacts DEF TrieInv, TrieIsInOrder
  <2> QED
    BY <2>1, <2>2
<1>9. ASSUME NEW m \in Nodes, m # Root
      PROVE  trie'[m] \in 1..Cardinality(Children(Parent(m)))
  <2>1. Parent(m) \in Seq(Texts) /\ m \in Children(Parent(m))
    BY <1>9, ParentType DEF Children, TrieInv, TypeOK
  <2> QED
    BY <1>2, <1>3, <2>1 DEF TrieInv, PlacesInv
<1>10. ASSUME NEW m \in Nodes' \ {Root}, NEW n \in Nodes' \ {Root},
              Parent(m) = Parent(n), trie'[m] = trie'[n]
       PROVE  m = n
  <2>1. Cardinality(Children(Parent(m))) \in Nat
    BY <1>4, <1>5, ParentType
  <2>2. CASE m \in Nodes /\ n \in Nodes
    BY <1>3, <1>10, <2>2 DEF TrieInv, TrieIsInOrder
  <2>3. CASE m \in Nodes /\ n \notin Nodes
    BY <1>6, <1>9, <1>10, <2>1, <2>3
  <2>4. CASE m \notin Nodes /\ n \in Nodes
    BY <1>6, <1>9, <1>10, <2>1, <2>4
  <2>5. CASE m \notin Nodes /\ n \notin Nodes
    BY <1>1, <1>2, <1>10, <2>5, PrefixFacts
  <2> QED
    BY <2>2, <2>3, <2>4, <2>5
<1>11. PlacesInv'
  <2> SUFFICES ASSUME NEW node \in Seq(Texts)
               PROVE  /\ IsFiniteSet(Children(node)')
                      /\ \A n \in Children(node)' : trie'[n] \in 1..Cardinality(Children(node)')
    BY DEF PlacesInv
  <2>1. IsFiniteSet(Children(node)') /\ Cardinality(Children(node)) \in Nat
    BY <1>5
  <2>2. ASSUME NEW n \in Children(node) PROVE trie'[n] \in 1..Cardinality(Children(node))
    BY <1>9 DEF Children
  <2>3. CASE Children(node)' = Children(node)
    BY <2>1, <2>2, <2>3
  <2>4. CASE \E n \in Nodes' \ Nodes :
                /\ n # Root /\ Parent(n) = node
                /\ Children(node)' = Children(node) \cup {n}
                /\ Cardinality(Children(node)') = Cardinality(Children(node)) + 1
    <3>1. PICK n \in Nodes' \ Nodes :
                /\ n # Root /\ Parent(n) = node
                /\ Children(node)' = Children(node) \cup {n}
                /\ Cardinality(Children(node)') = Cardinality(Children(node)) + 1
      BY <2>4
    <3>2. trie'[n] = Cardinality(Children(node)) + 1
      BY <1>6, <3>1
    <3> QED
      BY <2>1, <2>2, <3>1, <3>2
  <2> QED
    BY <1>5, <2>3, <2>4
<1>12. TrieIsInOrder'
  BY <1>8, <1>10 DEF TrieIsInOrder, Parent, Root
<1>13. PrefixInv'
  <2>1. \A n \in Nodes \cup Prefixes(pattern) : Prefixes(n) \subseteq Nodes \cup Prefixes(pattern)
    BY <1>1, PrefixOfPrefix DEF TrieInv, PrefixInv
  <2> QED
    BY <1>2, <2>1 DEF PrefixInv, Prefixes
<1> QED
  BY <1>7, <1>11, <1>12, <1>13 DEF TrieInv

\* The invariant holds always.
LEMMA AlwaysTrieInv == Spec => []TrieInv
<1>1. TrieInv /\ [Next]_vars => TrieInv'
  <2> SUFFICES ASSUME TrieInv, [Next]_vars PROVE TrieInv'
    OBVIOUS
  <2>1. CASE Next
    BY <2>1, AddPreserves DEF Next
  <2>2. CASE UNCHANGED vars
    BY <2>2 DEF vars, TrieInv, TypeOK, TrieIsInOrder, PlacesInv, PrefixInv,
                Children, Nodes, Parent, Prefixes, Root
  <2> QED
    BY <2>1, <2>2
<1> QED
  BY <1>1, InitEstablishes, PTL DEF Spec

\* The types of the trie and of its handlers (add()).
THEOREM TypeCorrect == Spec => []TypeOK
  BY AlwaysTrieInv, PTL DEF TrieInv

\* Whatever is registered in whatever order, every handler add() has stored is
\* at a node to which a chain of children leads from the root, and the children
\* vectors order the siblings, so that the choice route() makes between several
\* parameters or wildcards is one of a single node.
THEOREM TrieStaysInOrder == Spec => []TrieIsInOrder
  BY AlwaysTrieInv, PTL DEF TrieInv

-----------------------------------------------------------------------------
(* The walk of route().                                                    *)

\* The null pointer is not a node.
LEMMA NoNodeIsNoNode == NoNode \notin Seq(Texts)
<1> DEFINE e == "no node"
<1>1. e \notin Texts
  BY NullAssumption
<1>2. NoNode = <<e>>
  BY DEF NoNode
<1> HIDE DEF e
<1> QED
  BY <1>1, <1>2

\* A child has the segments of its parent and one more.
LEMMA ChildFacts ==
    ASSUME TypeOK, NEW node \in Seq(Texts), NEW n \in Children(node)
    PROVE  /\ n \in Seq(Texts) /\ n \in Nodes
           /\ Len(n) = Len(node) + 1
           /\ \A j \in 1..Len(node) : n[j] = node[j]
           /\ Segment(n) = n[Len(node) + 1] /\ Segment(n) \in Texts
<1>1. n \in Seq(Texts) /\ n \in Nodes /\ n # <<>> /\ SubSeq(n, 1, Len(n) - 1) = node
  BY DEF Children, TypeOK, Parent, Root
<1>2. Len(n) \in Nat \ {0} /\ Len(node) = Len(n) - 1
  BY <1>1
<1>3. \A j \in 1..(Len(n) - 1) : SubSeq(n, 1, Len(n) - 1)[j] = n[j]
  BY <1>1, <1>2
<1>4. \A j \in 1..Len(node) : n[j] = node[j]
  BY <1>1, <1>2, <1>3
<1>5. Segment(n) = n[Len(node) + 1] /\ Segment(n) \in Texts
  BY <1>1, <1>2 DEF Segment
<1> QED
  BY <1>1, <1>2, <1>4, <1>5

\* The child with a given segment.
LEMMA AppendFacts ==
    ASSUME NEW node \in Seq(Texts), NEW seg \in Texts
    PROVE  /\ Append(node, seg) \in Seq(Texts) /\ Append(node, seg) # Root
           /\ Parent(Append(node, seg)) = node /\ Segment(Append(node, seg)) = seg
           /\ Len(Append(node, seg)) = Len(node) + 1
           /\ \A j \in 1..Len(node) : Append(node, seg)[j] = node[j]
           /\ Append(node, seg)[Len(node) + 1] = seg
<1> DEFINE n == Append(node, seg)
<1>1. /\ n \in Seq(Texts) /\ Len(n) = Len(node) + 1 /\ n # <<>>
      /\ \A j \in 1..Len(node) : n[j] = node[j]
      /\ n[Len(node) + 1] = seg
  OBVIOUS
<1> HIDE DEF n
<1>2. SubSeq(n, 1, Len(node)) = node
  <2>1. /\ SubSeq(n, 1, Len(node)) \in Seq(Texts) /\ Len(SubSeq(n, 1, Len(node))) = Len(node)
        /\ \A j \in 1..Len(node) : SubSeq(n, 1, Len(node))[j] = node[j]
    BY <1>1
  <2> QED
    BY <2>1, SeqEqual
<1>3. Parent(n) = node /\ Segment(n) = seg
  BY <1>1, <1>2 DEF Parent, Segment
<1> QED
  BY <1>1, <1>3 DEF n, Root

\* First(S), as a function of the places.
Least(S, t) == CHOOSE n \in S : \A m \in S : t[n] <= t[m]

\* Of some nodes with places one comes first.
LEMMA LeastFacts ==
    ASSUME NEW S, NEW t, S # {}, \A n \in S : t[n] \in Nat
    PROVE  Least(S, t) \in S /\ \A m \in S : t[Least(S, t)] <= t[m]
<1> DEFINE T == {t[n] : n \in S}
<1>1. T \subseteq Nat /\ T # {}
  OBVIOUS
<1>2. PICK x \in T : \A y \in T : ~(y < x)
  BY <1>1, LeastElement
<1>3. PICK n \in S : t[n] = x
  BY <1>2
<1>4. ASSUME NEW m \in S PROVE t[n] <= t[m]
  <2>1. ~(t[m] < x) /\ t[m] \in Nat /\ x \in Nat
    BY <1>1, <1>2
  <2> HIDE DEF T
  <2> QED
    BY <1>3, <2>1
<1> QED
  BY <1>4 DEF Least

\* Places that agree, with no two nodes at one place, have the same node first.
LEMMA LeastSame ==
    ASSUME NEW S, NEW t, NEW u, S # {},
           \A n \in S : t[n] \in Nat /\ u[n] = t[n],
           \A m, n \in S : t[m] = t[n] => m = n
    PROVE  Least(S, u) = Least(S, t)
<1>1. Least(S, t) \in S /\ \A m \in S : t[Least(S, t)] <= t[m]
  BY LeastFacts
<1>2. Least(S, u) \in S /\ \A m \in S : u[Least(S, u)] <= u[m]
  BY LeastFacts
<1>3. /\ t[Least(S, t)] <= t[Least(S, u)] /\ t[Least(S, u)] <= t[Least(S, t)]
      /\ t[Least(S, t)] \in Nat /\ t[Least(S, u)] \in Nat
  BY <1>1, <1>2
<1> QED
  BY <1>1, <1>2, <1>3

\* The first of some siblings is one of them.
LEMMA FirstFacts ==
    ASSUME TypeOK, NEW S, S \subseteq Nodes, S # {}
    PROVE  First(S) \in S
<1>1. \A n \in S : trie[n] \in Nat
  BY DEF TypeOK
<1>2. First(S) = Least(S, trie)
  BY DEF First, Least
<1> QED
  BY <1>1, <1>2, LeastFacts

WalkState == [node : Seq(Texts) \cup {NoNode}, stop : BOOLEAN]

Exact(node, seg) == Append(node, seg) \in Children(node)
ParamsOf(node) == {n \in Children(node) : Segment(n) \in Params}
WildcardsOf(node) == {n \in Children(node) : Segment(n) \in Wildcards}

\* The four outcomes of a turn.
LEMMA StepFacts ==
    ASSUME TypeOK, NEW node, NEW seg
    PROVE  /\ Step(node, seg) \in WalkState
           /\ Exact(node, seg) => Step(node, seg) = [node |-> Append(node, seg), stop |-> FALSE]
           /\ ~Exact(node, seg) /\ ParamsOf(node) # {} =>
                 /\ Step(node, seg) = [node |-> First(ParamsOf(node)), stop |-> FALSE]
                 /\ First(ParamsOf(node)) \in ParamsOf(node)
           /\ ~Exact(node, seg) /\ ParamsOf(node) = {} /\ WildcardsOf(node) # {} =>
                 /\ Step(node, seg) = [node |-> First(WildcardsOf(node)), stop |-> TRUE]
                 /\ First(WildcardsOf(node)) \in WildcardsOf(node)
           /\ ~Exact(node, seg) /\ ParamsOf(node) = {} /\ WildcardsOf(node) = {} =>
                 Step(node, seg) = [node |-> NoNode, stop |-> TRUE]
<1>1. Step(node, seg) =
        IF Exact(node, seg) THEN [node |-> Append(node, seg), stop |-> FALSE]
        ELSE IF ParamsOf(node) # {} THEN [node |-> First(ParamsOf(node)), stop |-> FALSE]
        ELSE IF WildcardsOf(node) # {} THEN [node |-> First(WildcardsOf(node)), stop |-> TRUE]
        ELSE [node |-> NoNode, stop |-> TRUE]
  BY DEF Step, Exact, ParamsOf, WildcardsOf
<1>2. /\ ParamsOf(node) # {} => First(ParamsOf(node)) \in ParamsOf(node)
      /\ WildcardsOf(node) # {} => First(WildcardsOf(node)) \in WildcardsOf(node)
  <2>1. ParamsOf(node) \subseteq Nodes /\ WildcardsOf(node) \subseteq Nodes
    BY DEF ParamsOf, WildcardsOf, Children
  <2> QED
    BY <2>1, FirstFacts
<1>3. /\ \A n \in ParamsOf(node) \cup WildcardsOf(node) : n \in Seq(Texts)
      /\ Exact(node, seg) => Append(node, seg) \in Seq(Texts)
  BY DEF ParamsOf, WildcardsOf, Exact, Children, TypeOK
<1>4. Step(node, seg) \in WalkState
  BY <1>1, <1>2, <1>3 DEF WalkState
<1> QED
  BY <1>1, <1>2, <1>4

\* w is the walk along path.
IsWalk(w, path) ==
    /\ w \in [0..Len(path) -> WalkState]
    /\ w[0] = [node |-> Root, stop |-> FALSE]
    /\ \A i \in 1..Len(path) :
          w[i] = IF w[i - 1].stop THEN w[i - 1] ELSE Step(w[i - 1].node, path[i])

WalksAlong(path) == \E w : IsWalk(w, path) /\ Walk(path) = w[Len(path)].node

\* The loop of route() makes one walk.
LEMMA WalkExists == TypeOK => \A path \in Seq(Texts) : WalksAlong(path)
<1> SUFFICES ASSUME TypeOK, NEW path \in Seq(Texts) PROVE WalksAlong(path)
  OBVIOUS
<1> DEFINE N == Len(path)
           start == [node |-> Root, stop |-> FALSE]
           step == [i \in 1..N |-> [x \in WalkState |->
                       IF x.stop THEN x ELSE Step(x.node, path[i])]]
           w == CHOOSE f : f = [i \in 0..Len(path) |->
                    IF i = 0 THEN [node |-> Root, stop |-> FALSE]
                    ELSE IF f[i - 1].stop THEN f[i - 1]
                    ELSE Step(f[i - 1].node, path[i])]
<1>1. N \in Nat /\ start \in WalkState
  BY DEF WalkState, Root
<1>2. step \in [1..N -> [WalkState -> WalkState]]
  BY StepFacts
<1>3. Walk(path) = w[N].node
  BY DEF Walk
<1> HIDE DEF N, start
<1>4. PICK f : IsRecursion(f, N, WalkState, start, step)
  <2> HIDE DEF step
  <2> QED
    BY <1>1, <1>2, RecursionExists
<1>5. /\ f \in [0..N -> WalkState] /\ f[0] = start
      /\ \A i \in 1..N : f[i] = IF f[i - 1].stop THEN f[i - 1] ELSE Step(f[i - 1].node, path[i])
  <2>1. f \in [0..N -> WalkState] /\ f[0] = start /\ \A i \in 1..N : f[i] = step[i][f[i - 1]]
    <3> HIDE DEF step
    <3> QED
      BY <1>4 DEF IsRecursion
  <2>2. \A i \in 1..N : f[i - 1] \in WalkState
    BY <1>1, <2>1
  <2> QED
    BY <2>1, <2>2
<1> HIDE DEF step
<1>6. f = [i \in 0..N |-> IF i = 0 THEN start
                          ELSE IF f[i - 1].stop THEN f[i - 1] ELSE Step(f[i - 1].node, path[i])]
  BY <1>1, <1>5
<1>7. w = [i \in 0..N |-> IF i = 0 THEN start
                          ELSE IF w[i - 1].stop THEN w[i - 1] ELSE Step(w[i - 1].node, path[i])]
  BY <1>6 DEF N, start
<1> HIDE DEF w
<1>8. /\ DOMAIN w = 0..N /\ w[0] = start
      /\ \A i \in 1..N : w[i] = IF w[i - 1].stop THEN w[i - 1] ELSE Step(w[i - 1].node, path[i])
  BY <1>1, <1>7
<1> DEFINE T == {i \in Nat : i <= N => w[i] \in WalkState}
<1>9. 0 \in T
  BY <1>1, <1>8
<1>10. ASSUME NEW i \in Nat, i \in T PROVE i + 1 \in T
  <2>1. SUFFICES ASSUME i + 1 <= N PROVE w[i + 1] \in WalkState
    OBVIOUS
  <2>2. w[i] \in WalkState /\ i + 1 \in 1..N /\ (i + 1) - 1 = i
    BY <1>1, <1>10, <2>1
  <2>3. w[i + 1] = IF w[i].stop THEN w[i] ELSE Step(w[i].node, path[i + 1])
    BY <1>8, <2>2
  <2> QED
    BY <2>2, <2>3, StepFacts
<1>11. \A i \in 0..N : w[i] \in WalkState
  <2>1. Nat \subseteq T
    <3> HIDE DEF T
    <3> QED
      BY <1>9, <1>10, SetInduction
  <2> QED
    BY <1>1, <2>1
<1>12. w \in [0..N -> WalkState]
  BY <1>7, <1>11
<1> QED
  BY <1>3, <1>8, <1>12 DEF WalksAlong, IsWalk, N, start


\* What the walk has found after i segments: a node whose segments fit them, or,
\* where it has stopped, nothing or a node whose last segment is a wildcard.
Found(node, stop, path, i) ==
    IF stop
    THEN \/ node = NoNode
         \/ /\ node \in Seq(Texts)
            /\ \E n \in Nat :
                  /\ n < i /\ Len(node) = n + 1 /\ node[n + 1] \in Wildcards
                  /\ \A j \in 1..n : FitsSegment(node[j], path[j])
    ELSE /\ node \in Seq(Texts) /\ Len(node) = i
         /\ \A j \in 1..i : FitsSegment(node[j], path[j])

\* A turn of the walk goes from a node that fits to one that fits.
LEMMA StepFinds ==
    ASSUME TypeOK, NEW path \in Seq(Texts), NEW i \in Nat, i < Len(path),
           NEW node, Found(node, FALSE, path, i)
    PROVE  Found(Step(node, path[i + 1]).node, Step(node, path[i + 1]).stop, path, i + 1)
<1> DEFINE seg == path[i + 1]
           s == Step(node, seg)
<1>1. /\ node \in Seq(Texts) /\ Len(node) = i /\ seg \in Texts
      /\ \A j \in 1..i : FitsSegment(node[j], path[j])
  BY DEF Found
<1> SUFFICES Found(s.node, s.stop, path, i + 1)
  OBVIOUS
<1> HIDE DEF seg, s
<1>2. CASE Exact(node, seg)
  <2>1. s = [node |-> Append(node, seg), stop |-> FALSE]
    BY <1>2, StepFacts DEF s
  <2>2. /\ Append(node, seg) \in Seq(Texts) /\ Len(Append(node, seg)) = i + 1
        /\ \A j \in 1..i : Append(node, seg)[j] = node[j]
        /\ Append(node, seg)[i + 1] = seg
    BY <1>1, AppendFacts
  <2>3. \A j \in 1..(i + 1) : FitsSegment(Append(node, seg)[j], path[j])
    <3> TAKE j \in 1..(i + 1)
    <3>1. CASE j = i + 1
      BY <2>2, <3>1 DEF FitsSegment, seg
    <3>2. CASE j # i + 1
      <4>1. j \in 1..i
        BY <3>2
      <4> QED
        BY <1>1, <2>2, <4>1
    <3> QED
      BY <3>1, <3>2
  <2>4. Found(Append(node, seg), FALSE, path, i + 1)
    BY <2>2, <2>3 DEF Found
  <2> QED
    BY <2>1, <2>4
<1>3. CASE ~Exact(node, seg) /\ ParamsOf(node) # {}
  <2> DEFINE m == First(ParamsOf(node))
  <2>1. s = [node |-> m, stop |-> FALSE] /\ m \in Children(node) /\ Segment(m) \in Params
    <3>1. s = [node |-> m, stop |-> FALSE] /\ m \in ParamsOf(node)
      BY <1>3, StepFacts DEF s
    <3> QED
      BY <3>1 DEF ParamsOf
  <2> HIDE DEF m
  <2>2. /\ m \in Seq(Texts) /\ Len(m) = i + 1 /\ m[i + 1] \in Params
        /\ \A j \in 1..i : m[j] = node[j]
    BY <1>1, <2>1, ChildFacts
  <2>3. \A j \in 1..(i + 1) : FitsSegment(m[j], path[j])
    <3> TAKE j \in 1..(i + 1)
    <3>1. CASE j = i + 1
      BY <2>2, <3>1 DEF FitsSegment
    <3>2. CASE j # i + 1
      <4>1. j \in 1..i
        BY <3>2
      <4> QED
        BY <1>1, <2>2, <4>1
    <3> QED
      BY <3>1, <3>2
  <2>4. Found(m, FALSE, path, i + 1)
    BY <2>2, <2>3 DEF Found
  <2> QED
    BY <2>1, <2>4
<1>4. CASE ~Exact(node, seg) /\ ParamsOf(node) = {} /\ WildcardsOf(node) # {}
  <2> DEFINE m == First(WildcardsOf(node))
  <2>1. s = [node |-> m, stop |-> TRUE] /\ m \in Children(node) /\ Segment(m) \in Wildcards
    <3>1. s = [node |-> m, stop |-> TRUE] /\ m \in WildcardsOf(node)
      BY <1>4, StepFacts DEF s
    <3> QED
      BY <3>1 DEF WildcardsOf
  <2> HIDE DEF m
  <2>2. /\ m \in Seq(Texts) /\ Len(m) = i + 1 /\ m[i + 1] \in Wildcards
        /\ \A j \in 1..i : m[j] = node[j]
    BY <1>1, <2>1, ChildFacts
  <2>3. i < i + 1 /\ \A j \in 1..i : FitsSegment(m[j], path[j])
    BY <1>1, <2>2
  <2>4. Found(m, TRUE, path, i + 1)
    BY <2>2, <2>3 DEF Found
  <2> QED
    BY <2>1, <2>4
<1>5. CASE ~Exact(node, seg) /\ ParamsOf(node) = {} /\ WildcardsOf(node) = {}
  <2>1. s = [node |-> NoNode, stop |-> TRUE]
    BY <1>5, StepFacts DEF s
  <2>2. Found(NoNode, TRUE, path, i + 1)
    BY DEF Found
  <2> QED
    BY <2>1, <2>2
<1> QED
  BY <1>2, <1>3, <1>4, <1>5

\* The walk keeps to nodes that fit.
LEMMA WalkFinds ==
    ASSUME TypeOK, NEW path \in Seq(Texts), NEW w, IsWalk(w, path)
    PROVE  \A i \in 0..Len(path) : Found(w[i].node, w[i].stop, path, i)
<1> DEFINE T == {i \in Nat : i <= Len(path) => Found(w[i].node, w[i].stop, path, i)}
<1>1. 0 \in T
  <2>1. w[0].node = <<>> /\ w[0].stop = FALSE
    BY DEF IsWalk, Root
  <2>2. Found(<<>>, FALSE, path, 0)
    BY DEF Found
  <2> QED
    BY <2>1, <2>2
<1>2. ASSUME NEW i \in Nat, i \in T PROVE i + 1 \in T
  <2>1. SUFFICES ASSUME i + 1 <= Len(path)
                 PROVE  Found(w[i + 1].node, w[i + 1].stop, path, i + 1)
    OBVIOUS
  <2>2. i < Len(path) /\ i + 1 \in 1..Len(path) /\ (i + 1) - 1 = i /\ i \in 0..Len(path)
    BY <2>1
  <2>3. Found(w[i].node, w[i].stop, path, i)
    BY <1>2, <2>2
  <2>4. w[i + 1] = IF w[i].stop THEN w[i] ELSE Step(w[i].node, path[i + 1])
    BY <2>2 DEF IsWalk
  <2>5. w[i].stop \in BOOLEAN
    BY <2>2 DEF IsWalk, WalkState
  <2>6. CASE w[i].stop
    BY <2>3, <2>4, <2>6 DEF Found
  <2>7. CASE w[i].stop = FALSE
    <3>1. Found(w[i].node, FALSE, path, i)
      BY <2>3, <2>7
    <3>2. w[i + 1] = Step(w[i].node, path[i + 1])
      BY <2>4, <2>7
    <3> QED
      BY <2>2, <3>1, <3>2, StepFinds
  <2> QED
    BY <2>5, <2>6, <2>7
<1>3. Nat \subseteq T
  <2> HIDE DEF T
  <2> QED
    BY <1>1, <1>2, SetInduction
<1> QED
  BY <1>3

\* The walk ends at a node that fits the path, or nowhere.
LEMMA WalkMatches ==
    ASSUME TypeOK, NEW path \in Seq(Texts)
    PROVE  Walk(path) = NoNode \/ Matches(Walk(path), path)
<1>1. PICK w : IsWalk(w, path) /\ Walk(path) = w[Len(path)].node
  BY WalkExists DEF WalksAlong
<1>2. Len(path) \in 0..Len(path)
  OBVIOUS
<1> DEFINE node == Walk(path)
<1>5. Found(node, w[Len(path)].stop, path, Len(path))
  BY <1>1, <1>2, WalkFinds
<1> HIDE DEF node
<1>6. CASE node # NoNode
  <2>1. CASE w[Len(path)].stop
    <3>1. PICK n \in Nat : /\ n < Len(path) /\ Len(node) = n + 1 /\ node[n + 1] \in Wildcards
                           /\ \A j \in 1..n : FitsSegment(node[j], path[j])
      BY <1>5, <1>6, <2>1 DEF Found
    <3> QED
      BY <3>1 DEF Matches, node
  <2>2. CASE ~ w[Len(path)].stop
    BY <1>5, <2>2 DEF Found, Matches, node
  <2> QED
    BY <2>1, <2>2
<1> QED
  BY <1>6 DEF node

\* What route() and handle_request() do with the node the walk ends at.
LEMMA AnswerFacts ==
    ASSUME NEW method, NEW path
    PROVE  LET h == HandlerOf(method, Walk(path))
               found == Nodes # {} /\ Walk(path) # NoNode /\ h # NoHandler
           IN  /\ Route(method, path).handler = IF found THEN h ELSE NoHandler
               /\ HandleRequest(method, path).handler = Route(method, path).handler
               /\ found => HandleRequest(method, path) = Answer("handler", h)
<1>1. LET h == HandlerOf(method, Walk(path))
          found == Nodes # {} /\ Walk(path) # NoNode /\ h # NoHandler
      IN  Route(method, path).handler = IF found THEN h ELSE NoHandler
  BY DEF Route
<1>2. /\ HandleRequest(method, path).handler = Route(method, path).handler
      /\ Route(method, path).handler # NoHandler =>
            HandleRequest(method, path) = Answer("handler", Route(method, path).handler)
  BY DEF HandleRequest, Answer
<1> QED
  BY <1>1, <1>2

\* A stored handler is at a pattern and at a node.
LEMMA HandlerFacts ==
    ASSUME TypeOK, TrieIsInOrder, NEW method, NEW node, HandlerOf(method, node) # NoHandler
    PROVE  node \in Patterns /\ node \in Nodes
<1>1. <<method, node>> \in DOMAIN handlers
  BY DEF HandlerOf
<1>2. <<method, node>>[2] \in Nodes
  BY <1>1 DEF TrieIsInOrder
<1> QED
  BY <1>1, <1>2 DEF TypeOK

\* Whatever is registered in whatever order, a request that gets a handler gets
\* one whose pattern fits its path and whose method is its own.
THEOREM RoutesOnlyMatch == Spec => []RouteMatches
<1>1. TrieInv => RouteMatches
  <2> SUFFICES ASSUME TrieInv, NEW method \in Methods, NEW path \in Paths,
                      HandleRequest(method, path).handler # NoHandler
               PROVE  \E pattern \in Patterns :
                         /\ Matches(pattern, path)
                         /\ HandlerOf(method, pattern) = HandleRequest(method, path).handler
    BY DEF RouteMatches
  <2> DEFINE node == Walk(path)
  <2>1. /\ node # NoNode /\ HandlerOf(method, node) # NoHandler
        /\ HandleRequest(method, path).handler = HandlerOf(method, node)
    BY AnswerFacts
  <2>2. Matches(node, path)
    BY <2>1, WalkMatches DEF TrieInv
  <2>3. node \in Patterns
    BY <2>1, HandlerFacts DEF TrieInv
  <2> HIDE DEF node
  <2> QED
    BY <2>1, <2>2, <2>3
<1> QED
  BY <1>1, AlwaysTrieInv, PTL


\* A prefix, and the prefix that is one segment longer, which is its child.
LEMMA NextPrefix ==
    ASSUME NEW pattern \in Seq(Texts), NEW i \in Nat, i < Len(pattern)
    PROVE  /\ SubSeq(pattern, 1, i) \in Seq(Texts) /\ Len(SubSeq(pattern, 1, i)) = i
           /\ \A j \in 1..i : SubSeq(pattern, 1, i)[j] = pattern[j]
           /\ SubSeq(pattern, 1, i) \in Prefixes(pattern)
           /\ SubSeq(pattern, 1, i + 1) = Append(SubSeq(pattern, 1, i), pattern[i + 1])
           /\ SubSeq(pattern, 1, i + 1) \in Prefixes(pattern)
           /\ SubSeq(pattern, 1, i + 1) # Root
           /\ Parent(SubSeq(pattern, 1, i + 1)) = SubSeq(pattern, 1, i)
           /\ Segment(SubSeq(pattern, 1, i + 1)) = pattern[i + 1]
           /\ pattern[i + 1] \in Texts
<1> DEFINE a == SubSeq(pattern, 1, i)
           b == SubSeq(pattern, 1, i + 1)
<1>1. i \in 0..Len(pattern) /\ i + 1 \in 0..Len(pattern) /\ pattern[i + 1] \in Texts
  OBVIOUS
<1>2. a \in Seq(Texts) /\ Len(a) = i /\ \A j \in 1..i : a[j] = pattern[j]
  BY <1>1
<1>3. b \in Seq(Texts) /\ Len(b) = i + 1 /\ \A j \in 1..(i + 1) : b[j] = pattern[j]
  BY <1>1
<1>4. a \in Prefixes(pattern) /\ b \in Prefixes(pattern)
  BY <1>1 DEF Prefixes
<1> HIDE DEF a, b
<1>5. b = Append(a, pattern[i + 1])
  <2>1. /\ Append(a, pattern[i + 1]) \in Seq(Texts) /\ Len(Append(a, pattern[i + 1])) = i + 1
        /\ \A j \in 1..(i + 1) : Append(a, pattern[i + 1])[j] = pattern[j]
    BY <1>1, <1>2
  <2> QED
    BY <1>3, <2>1, SeqEqual
<1>6. b # Root /\ Parent(b) = a /\ Segment(b) = pattern[i + 1]
  BY <1>1, <1>2, <1>5, AppendFacts
<1> QED
  BY <1>1, <1>2, <1>4, <1>5, <1>6 DEF a, b

\* From each of the first n prefixes of the pattern, the segment of the path
\* leads to the next one.
Leads(path, pattern, n) ==
    \A i \in Nat : i < n =>
        Step(SubSeq(pattern, 1, i), path[i + 1])
            = [node |-> SubSeq(pattern, 1, i + 1), stop |-> FALSE]

\* A walk each turn of which goes on along a pattern is at its prefixes.
LEMMA FollowsPattern ==
    ASSUME NEW path \in Seq(Texts), NEW w, IsWalk(w, path), NEW pattern \in Seq(Texts),
           NEW n \in Nat, n <= Len(path), n <= Len(pattern), Leads(path, pattern, n)
    PROVE  w[n] = [node |-> SubSeq(pattern, 1, n), stop |-> FALSE]
<1> DEFINE T == {i \in Nat : i <= n => w[i] = [node |-> SubSeq(pattern, 1, i), stop |-> FALSE]}
<1>1. 0 \in T
  <2>1. SubSeq(pattern, 1, 0) = Root
    BY DEF Root
  <2> QED
    BY <2>1 DEF IsWalk
<1>2. ASSUME NEW i \in Nat, i \in T PROVE i + 1 \in T
  <2>1. SUFFICES ASSUME i + 1 <= n
                 PROVE  w[i + 1] = [node |-> SubSeq(pattern, 1, i + 1), stop |-> FALSE]
    OBVIOUS
  <2>2. i < n /\ i + 1 \in 1..Len(path) /\ (i + 1) - 1 = i
    BY <2>1
  <2>3. w[i].node = SubSeq(pattern, 1, i) /\ w[i].stop = FALSE
    BY <1>2, <2>2
  <2>4. w[i + 1] = IF w[i].stop THEN w[i] ELSE Step(w[i].node, path[i + 1])
    BY <2>2 DEF IsWalk
  <2> QED
    BY <2>2, <2>3, <2>4 DEF Leads
<1>3. n \in T
  <2>1. Nat \subseteq T
    <3> HIDE DEF T
    <3> QED
      BY <1>1, <1>2, SetInduction
  <2> QED
    BY <2>1
<1> QED
  BY <1>3

\* A walk that has stopped goes no further.
LEMMA StaysStopped ==
    ASSUME NEW path \in Seq(Texts), NEW w, IsWalk(w, path),
           NEW n \in Nat, n <= Len(path), w[n].stop
    PROVE  w[Len(path)] = w[n]
<1> DEFINE T == {i \in Nat : n + i <= Len(path) => w[n + i] = w[n]}
<1>1. 0 \in T
  OBVIOUS
<1>2. ASSUME NEW i \in Nat, i \in T PROVE i + 1 \in T
  <2>1. SUFFICES ASSUME n + (i + 1) <= Len(path) PROVE w[n + (i + 1)] = w[n]
    OBVIOUS
  <2>2. /\ n + (i + 1) \in 1..Len(path) /\ (n + (i + 1)) - 1 = n + i
        /\ n + i <= Len(path)
    BY <2>1
  <2>3. w[n + i] = w[n]
    BY <1>2, <2>2
  <2>4. w[n + (i + 1)] = IF w[n + i].stop THEN w[n + i]
                         ELSE Step(w[n + i].node, path[n + (i + 1)])
    BY <2>2 DEF IsWalk
  <2> QED
    BY <2>3, <2>4
<1>3. Len(path) - n \in T /\ n + (Len(path) - n) = Len(path)
  <2>1. Nat \subseteq T
    <3> HIDE DEF T
    <3> QED
      BY <1>1, <1>2, SetInduction
  <2>2. Len(path) - n \in Nat
    OBVIOUS
  <2> QED
    BY <2>1, <2>2
<1> QED
  BY <1>3

\* A node is not the null pointer.
LEMMA NodeIsNode ==
    ASSUME TypeOK, NEW node \in Nodes PROVE node # NoNode
  BY NoNodeIsNoNode DEF TypeOK

\* Along a path that is itself a node the walk takes the exact child each time.
LEMMA WalkFindsLiteral ==
    ASSUME TrieInv, NEW path \in Nodes PROVE Walk(path) = path
<1>1. path \in Seq(Texts) /\ Prefixes(path) \subseteq Nodes /\ TypeOK
  BY DEF TrieInv, TypeOK, PrefixInv
<1>2. PICK w : IsWalk(w, path) /\ Walk(path) = w[Len(path)].node
  BY <1>1, WalkExists DEF WalksAlong
<1>3. ASSUME NEW i \in Nat, i < Len(path)
      PROVE  Step(SubSeq(path, 1, i), path[i + 1])
                = [node |-> SubSeq(path, 1, i + 1), stop |-> FALSE]
  <2> DEFINE a == SubSeq(path, 1, i)
             b == SubSeq(path, 1, i + 1)
  <2>1. b = Append(a, path[i + 1]) /\ b \in Prefixes(path) /\ b # Root /\ Parent(b) = a
    BY <1>1, <1>3, NextPrefix
  <2> HIDE DEF a, b
  <2>2. Exact(a, path[i + 1])
    BY <1>1, <2>1 DEF Exact, Children
  <2>3. Step(a, path[i + 1]) = [node |-> b, stop |-> FALSE]
    BY <1>1, <2>1, <2>2, StepFacts
  <2> QED
    BY <2>3 DEF a, b
<1>4. w[Len(path)] = [node |-> SubSeq(path, 1, Len(path)), stop |-> FALSE]
  <2>1. Len(path) \in Nat /\ Len(path) <= Len(path)
    BY <1>1
  <2>2. Leads(path, path, Len(path))
    BY <1>3 DEF Leads
  <2> QED
    BY <1>1, <1>2, <2>1, <2>2, FollowsPattern, ZenonT(30)
<1> QED
  BY <1>1, <1>2, <1>4

\* "Exact match" (router.h), for every set of patterns: a path registered as it
\* is gets its own handler, whatever else is registered and whatever files there
\* are.
THEOREM LiteralsAlwaysWin == Spec => []LiteralRouteWins
<1>1. TrieInv => LiteralRouteWins
  <2> SUFFICES ASSUME TrieInv, NEW method \in Methods, NEW path \in Paths,
                      HandlerOf(method, path) # NoHandler
               PROVE  HandleRequest(method, path) = Answer("handler", HandlerOf(method, path))
    BY DEF LiteralRouteWins
  <2>1. path \in Nodes
    BY HandlerFacts DEF TrieInv
  <2>2. Walk(path) = path /\ path # NoNode
    BY <2>1, WalkFindsLiteral, NodeIsNode DEF TrieInv
  <2> QED
    BY <2>1, <2>2, AnswerFacts
<1> QED
  BY <1>1, AlwaysTrieInv, PTL

\* Where nothing else can take the path away, a child that could take its next
\* segment is the pattern's own.
LEMMA OnlyOwnChild ==
    ASSUME TypeOK, NEW path \in Seq(Texts), NEW pattern \in Seq(Texts),
           Unrivalled(pattern, path),
           NEW i \in Nat, i < Len(path), i < Len(pattern),
           \A j \in 1..i : FitsSegment(pattern[j], path[j]),
           NEW m \in Children(SubSeq(pattern, 1, i)),
           Segment(m) \in Params \cup Wildcards \cup {path[i + 1]}
    PROVE  m = SubSeq(pattern, 1, i + 1)
<1> DEFINE a == SubSeq(pattern, 1, i)
<1>1. /\ a \in Seq(Texts) /\ Len(a) = i /\ \A j \in 1..i : a[j] = pattern[j]
      /\ a \in Prefixes(pattern)
  BY NextPrefix
<1>2. m \in Nodes /\ m # Root /\ Parent(m) = a
  BY DEF Children
<1>3. /\ m \in Seq(Texts) /\ Len(m) = i + 1 /\ \A j \in 1..i : m[j] = a[j]
      /\ m[i + 1] = Segment(m)
  <2>1. m \in Children(a)
    OBVIOUS
  <2> HIDE DEF a
  <2>2. /\ m \in Seq(Texts) /\ Len(m) = Len(a) + 1 /\ \A j \in 1..Len(a) : m[j] = a[j]
        /\ Segment(m) = m[Len(a) + 1]
    BY <1>1, <2>1, ChildFacts, Zenon
  <2> QED
    BY ONLY <1>1, <2>2, Zenon
<1> HIDE DEF a
<1>4. OnTheWay(m, path)
  <2>1. \A j \in 1..Len(m) : j \in 1..i \/ (j = i + 1 /\ j = Len(m))
    BY <1>3
  <2>2. \A j \in 1..i : FitsSegment(m[j], path[j])
    BY <1>1, <1>3
  <2>3. FitsSegment(m[i + 1], path[i + 1]) \/ m[i + 1] \in Wildcards
    BY <1>3 DEF FitsSegment
  <2>4. Len(m) <= Len(path)
    BY <1>3
  <2> QED
    BY <2>1, <2>2, <2>3, <2>4 DEF OnTheWay
<1>5. m \in Prefixes(pattern)
  BY <1>1, <1>2, <1>4 DEF Unrivalled
<1> DEFINE b == SubSeq(pattern, 1, i + 1)
<1>6. b \in Prefixes(pattern) /\ b # Root /\ Parent(b) = a
  BY NextPrefix DEF a
<1> HIDE DEF b
<1>7. \A k, l \in Prefixes(pattern) : k # Root /\ l # Root /\ Parent(k) = Parent(l) => k = l
  BY PrefixFacts, Zenon
<1>8. m = b
  BY <1>2, <1>5, <1>6, <1>7, Zenon
<1> QED
  BY <1>8 DEF b

\* A pattern that fits the path and has no rival is where the walk ends.
LEMMA WalkFindsUnrivalled ==
    ASSUME TrieInv, NEW path \in Seq(Texts), NEW pattern \in Nodes,
           Matches(pattern, path), Unrivalled(pattern, path)
    PROVE  Walk(path) = pattern
<1>1. pattern \in Seq(Texts) /\ Prefixes(pattern) \subseteq Nodes /\ TypeOK
  BY DEF TrieInv, TypeOK, PrefixInv
<1>2. PICK w : IsWalk(w, path) /\ Walk(path) = w[Len(path)].node
  BY <1>1, WalkExists DEF WalksAlong
<1>3. PICK n \in 0..Len(path) :
        /\ \A i \in 1..n : i <= Len(pattern) /\ FitsSegment(pattern[i], path[i])
        /\ \/ n = Len(path) /\ Len(pattern) = n
           \/ n < Len(path) /\ Len(pattern) = n + 1 /\ pattern[n + 1] \in Wildcards
  BY DEF Matches
<1>4. n \in Nat /\ n <= Len(path) /\ n <= Len(pattern)
  BY <1>1, <1>3
<1>5. ASSUME NEW i \in Nat, i < Len(path), i < Len(pattern),
             \A j \in 1..i : FitsSegment(pattern[j], path[j])
      PROVE  /\ SubSeq(pattern, 1, i + 1) \in Children(SubSeq(pattern, 1, i))
             /\ Segment(SubSeq(pattern, 1, i + 1)) = pattern[i + 1]
             /\ Exact(SubSeq(pattern, 1, i), path[i + 1]) =>
                   /\ SubSeq(pattern, 1, i + 1) = Append(SubSeq(pattern, 1, i), path[i + 1])
                   /\ pattern[i + 1] = path[i + 1]
             /\ pattern[i + 1] = path[i + 1] => Exact(SubSeq(pattern, 1, i), path[i + 1])
             /\ \A m \in ParamsOf(SubSeq(pattern, 1, i)) \cup WildcardsOf(SubSeq(pattern, 1, i)) :
                   m = SubSeq(pattern, 1, i + 1)
  <2> DEFINE a == SubSeq(pattern, 1, i)
             b == SubSeq(pattern, 1, i + 1)
  <2>1. /\ a \in Seq(Texts) /\ b = Append(a, pattern[i + 1]) /\ b \in Prefixes(pattern)
        /\ b # Root /\ Parent(b) = a /\ Segment(b) = pattern[i + 1] /\ path[i + 1] \in Texts
    BY <1>1, <1>5, NextPrefix
  <2>2. ASSUME NEW m \in Children(a), Segment(m) \in Params \cup Wildcards \cup {path[i + 1]}
        PROVE  m = b
    BY <1>1, <1>5, <2>2, OnlyOwnChild
  <2> HIDE DEF a, b
  <2>3. b \in Children(a)
    BY <1>1, <2>1 DEF Children
  <2>4. Segment(Append(a, path[i + 1])) = path[i + 1]
    BY <2>1, AppendFacts
  <2>5. Exact(a, path[i + 1]) => b = Append(a, path[i + 1]) /\ pattern[i + 1] = path[i + 1]
    BY <2>1, <2>2, <2>4 DEF Exact
  <2>6. pattern[i + 1] = path[i + 1] => Exact(a, path[i + 1])
    BY <2>1, <2>3 DEF Exact
  <2>7. \A m \in ParamsOf(a) \cup WildcardsOf(a) : m = b
    BY <2>2 DEF ParamsOf, WildcardsOf
  <2> QED
    BY <2>1, <2>3, <2>5, <2>6, <2>7 DEF a, b
<1>6. ASSUME NEW i \in Nat, i < n
      PROVE  Step(SubSeq(pattern, 1, i), path[i + 1])
                = [node |-> SubSeq(pattern, 1, i + 1), stop |-> FALSE]
  <2> DEFINE a == SubSeq(pattern, 1, i)
             b == SubSeq(pattern, 1, i + 1)
  <2>1. /\ i < Len(path) /\ i < Len(pattern) /\ FitsSegment(pattern[i + 1], path[i + 1])
        /\ \A j \in 1..i : FitsSegment(pattern[j], path[j])
    BY <1>3, <1>4, <1>6
  <2>2. /\ b \in Children(a) /\ Segment(b) = pattern[i + 1]
        /\ Exact(a, path[i + 1]) => b = Append(a, path[i + 1])
        /\ pattern[i + 1] = path[i + 1] => Exact(a, path[i + 1])
        /\ \A m \in ParamsOf(a) \cup WildcardsOf(a) : m = b
    BY <1>5, <2>1
  <2> HIDE DEF a, b
  <2>3. CASE Exact(a, path[i + 1])
    BY <1>1, <2>2, <2>3, StepFacts DEF a, b
  <2>4. CASE ~Exact(a, path[i + 1])
    <3>1. b \in ParamsOf(a)
      BY <2>1, <2>2, <2>4 DEF FitsSegment, ParamsOf
    <3>2. /\ Step(a, path[i + 1]) = [node |-> First(ParamsOf(a)), stop |-> FALSE]
          /\ First(ParamsOf(a)) \in ParamsOf(a)
      BY <1>1, <2>4, <3>1, StepFacts
    <3> QED
      BY <2>2, <3>2 DEF a, b
  <2> QED
    BY <2>3, <2>4
<1>7. w[n] = [node |-> SubSeq(pattern, 1, n), stop |-> FALSE]
  <2>1. pattern \in Seq(Texts) /\ IsWalk(w, path)
    BY <1>1, <1>2
  <2>2. Leads(path, pattern, n)
    BY <1>6 DEF Leads
  <2> QED
    BY <1>1, <1>4, <2>1, <2>2, FollowsPattern, Zenon
<1>8. CASE n = Len(path) /\ Len(pattern) = n
  BY <1>1, <1>2, <1>7, <1>8
<1>9. CASE n < Len(path) /\ Len(pattern) = n + 1 /\ pattern[n + 1] \in Wildcards
  <2> DEFINE a == SubSeq(pattern, 1, n)
             b == SubSeq(pattern, 1, n + 1)
  <2>1. n < Len(pattern) /\ \A j \in 1..n : FitsSegment(pattern[j], path[j])
    BY <1>3, <1>4, <1>9
  <2>2. /\ b \in Children(a) /\ Segment(b) = pattern[n + 1]
        /\ Exact(a, path[n + 1]) => pattern[n + 1] = path[n + 1]
        /\ \A m \in ParamsOf(a) \cup WildcardsOf(a) : m = b
    BY <1>4, <1>5, <1>9, <2>1
  <2>3. b = pattern
    BY <1>1, <1>9
  <2> HIDE DEF a, b
  <2>4. ~Exact(a, path[n + 1])
    <3>1. n + 1 \in DOMAIN path
      BY <1>4, <1>9
    <3> QED
      BY <1>9, <2>2, <3>1 DEF Unrivalled
  <2>5. ParamsOf(a) = {}
    BY <1>9, <2>2 DEF ParamsOf
  <2>6. b \in WildcardsOf(a)
    BY <1>9, <2>2 DEF WildcardsOf
  <2>7. Step(a, path[n + 1]) = [node |-> pattern, stop |-> TRUE]
    <3>1. /\ Step(a, path[n + 1]) = [node |-> First(WildcardsOf(a)), stop |-> TRUE]
          /\ First(WildcardsOf(a)) \in WildcardsOf(a)
      BY <1>1, <2>4, <2>5, <2>6, StepFacts
    <3> QED
      BY <2>2, <2>3, <3>1
  <2>8. w[n + 1] = [node |-> pattern, stop |-> TRUE]
    <3>1. n + 1 \in 1..Len(path) /\ (n + 1) - 1 = n
      BY <1>4, <1>9
    <3>2. w[n + 1] = IF w[n].stop THEN w[n] ELSE Step(w[n].node, path[n + 1])
      BY <1>2, <3>1 DEF IsWalk
    <3> QED
      BY <1>7, <2>7, <3>2 DEF a
  <2>9. w[Len(path)] = w[n + 1]
    <3>1. n + 1 \in Nat /\ n + 1 <= Len(path) /\ w[n + 1].stop
      BY <1>4, <1>9, <2>8
    <3> QED
      BY <1>2, <3>1, StaysStopped
  <2> QED
    BY <1>2, <2>8, <2>9
<1> QED
  BY <1>3, <1>8, <1>9

\* A pattern that fits is found for every path on whose way nothing else lies:
\* route() misses a route only by leaving its nodes for others.
THEOREM UnrivalledRoutesAreFound == Spec => []UnrivalledRouteIsFound
<1>1. TrieInv => UnrivalledRouteIsFound
  <2> SUFFICES ASSUME TrieInv, NEW method \in Methods, NEW path \in Paths,
                      NEW pattern \in Patterns,
                      HandlerOf(method, pattern) # NoHandler,
                      Matches(pattern, path), Unrivalled(pattern, path)
               PROVE  HandleRequest(method, path)
                         = Answer("handler", HandlerOf(method, pattern))
    BY DEF UnrivalledRouteIsFound
  <2>1. pattern \in Nodes
    BY HandlerFacts DEF TrieInv
  <2>2. Walk(path) = pattern /\ pattern # NoNode
    BY <2>1, WalkFindsUnrivalled, NodeIsNode DEF TrieInv
  <2> QED
    BY <2>1, <2>2, AnswerFacts
<1> QED
  BY <1>1, AlwaysTrieInv, PTL


-----------------------------------------------------------------------------
(* What a registration does to the walks of route().                       *)

\* A node one segment below a node that fits is on the way, if its segment could
\* take the next one of the path.
LEMMA SonOnTheWay ==
    ASSUME NEW path \in Seq(Texts), NEW i \in Nat, i < Len(path),
           NEW node, Found(node, FALSE, path, i),
           NEW m \in Seq(Texts), m # Root, Parent(m) = node,
           Segment(m) \in Params \cup Wildcards \cup {path[i + 1]}
    PROVE  OnTheWay(m, path)
<1>1. /\ node \in Seq(Texts) /\ Len(node) = i
      /\ \A j \in 1..i : FitsSegment(node[j], path[j])
  BY DEF Found
<1>2. m # <<>> /\ SubSeq(m, 1, Len(m) - 1) = node
  BY DEF Parent, Root
<1>3. Len(m) \in Nat \ {0} /\ Len(node) = Len(m) - 1
  BY <1>2
<1>4. Len(m) = i + 1
  BY <1>1, <1>3
<1>5. \A j \in 1..(Len(m) - 1) : SubSeq(m, 1, Len(m) - 1)[j] = m[j]
  BY <1>3
<1>6. \A j \in 1..i : FitsSegment(m[j], path[j])
  BY <1>1, <1>2, <1>4, <1>5
<1>7. FitsSegment(m[i + 1], path[i + 1]) \/ m[i + 1] \in Wildcards
  BY <1>4 DEF Segment, FitsSegment
<1>8. \A j \in 1..Len(m) : j \in 1..i \/ (j = i + 1 /\ j = Len(m))
  BY <1>4
<1>9. Len(m) <= Len(path)
  BY <1>4
<1> QED
  BY <1>6, <1>7, <1>8, <1>9 DEF OnTheWay

\* A turn of the walk is the same after an add() that puts no node on the way.
LEMMA StepUndisturbed ==
    ASSUME TrieInv, TrieInv', NEW method, NEW pattern \in Patterns, Add(method, pattern),
           NEW path \in Seq(Texts), \A n \in Nodes' \ Nodes : ~OnTheWay(n, path),
           NEW i \in Nat, i < Len(path), NEW node, Found(node, FALSE, path, i)
    PROVE  Step(node, path[i + 1])' = Step(node, path[i + 1])
<1> SUFFICES ASSUME NEW seg, seg = path[i + 1] PROVE Step(node, seg)' = Step(node, seg)
  OBVIOUS
<1>1. seg \in Texts /\ node \in Seq(Texts)
  BY DEF Found
<1>2. Nodes \subseteq Nodes' /\ Nodes' \subseteq Seq(Texts)
      /\ \A n \in Nodes : trie'[n] = trie[n]
  <2>1. Nodes' = Nodes \cup Prefixes(pattern)
    BY DEF Add, Nodes
  <2>2. \A n \in Nodes : trie'[n] = trie[n]
    BY DEF Add
  <2> QED
    BY <2>1, <2>2 DEF TrieInv, TypeOK
<1>3. Children(node)' = {n \in Nodes' : n # Root /\ Parent(n) = node}
  BY DEF Children, Parent, Root
<1>4. ASSUME NEW m \in Children(node)', Segment(m) \in Params \cup Wildcards \cup {seg}
      PROVE  m \in Children(node)
  <2>1. m \in Nodes' /\ m \in Seq(Texts) /\ m # Root /\ Parent(m) = node
    BY <1>2, <1>3
  <2>2. OnTheWay(m, path)
    BY <1>4, <2>1, SonOnTheWay
  <2> QED
    BY <2>1, <2>2 DEF Children
<1>5. Children(node) \subseteq Children(node)'
  BY <1>2, <1>3 DEF Children
<1>6. Exact(node, seg)' <=> Exact(node, seg)
  <2>1. Exact(node, seg)' <=> Append(node, seg) \in Children(node)'
    BY DEF Exact
  <2>2. Segment(Append(node, seg)) = seg
    BY <1>1, AppendFacts
  <2> QED
    BY <1>4, <1>5, <2>1, <2>2 DEF Exact
<1>7. ParamsOf(node)' = ParamsOf(node) /\ WildcardsOf(node)' = WildcardsOf(node)
  <2>1. /\ ParamsOf(node)' = {n \in Children(node)' : Segment(n) \in Params}
        /\ WildcardsOf(node)' = {n \in Children(node)' : Segment(n) \in Wildcards}
    BY DEF ParamsOf, WildcardsOf, Segment
  <2> QED
    BY <1>4, <1>5, <2>1 DEF ParamsOf, WildcardsOf
<1>8. ASSUME NEW S, S \subseteq Children(node), S # {}
      PROVE  Least(S, trie') = Least(S, trie)
  <2>1. \A n \in S : n \in Nodes /\ n # Root /\ Parent(n) = node
    BY <1>8 DEF Children
  <2>2. \A n \in S : trie[n] \in Nat /\ trie'[n] = trie[n]
    BY <1>2, <2>1 DEF TrieInv, TypeOK
  <2>3. \A m, n \in S : trie[m] = trie[n] => m = n
    BY <2>1 DEF TrieInv, TrieIsInOrder
  <2> QED
    BY <1>8, <2>2, <2>3, LeastSame
<1>9. /\ ParamsOf(node) # {} => Least(ParamsOf(node), trie') = Least(ParamsOf(node), trie)
      /\ WildcardsOf(node) # {} => Least(WildcardsOf(node), trie') = Least(WildcardsOf(node), trie)
  BY <1>8 DEF ParamsOf, WildcardsOf
<1>10. Step(node, seg) =
        IF Exact(node, seg) THEN [node |-> Append(node, seg), stop |-> FALSE]
        ELSE IF ParamsOf(node) # {} THEN [node |-> Least(ParamsOf(node), trie), stop |-> FALSE]
        ELSE IF WildcardsOf(node) # {} THEN [node |-> Least(WildcardsOf(node), trie), stop |-> TRUE]
        ELSE [node |-> NoNode, stop |-> TRUE]
  BY DEF Step, Exact, ParamsOf, WildcardsOf, First, Least
<1>11. Step(node, seg)' =
        IF Exact(node, seg)' THEN [node |-> Append(node, seg), stop |-> FALSE]
        ELSE IF ParamsOf(node)' # {} THEN [node |-> Least(ParamsOf(node)', trie'), stop |-> FALSE]
        ELSE IF WildcardsOf(node)' # {} THEN [node |-> Least(WildcardsOf(node)', trie'), stop |-> TRUE]
        ELSE [node |-> NoNode, stop |-> TRUE]
  BY DEF Step, Exact, ParamsOf, WildcardsOf, First, Least, NoNode
<1> QED
  BY <1>6, <1>7, <1>9, <1>10, <1>11


\* The loop of route() makes one walk after the registration, too.
LEMMA WalkExistsNext == TypeOK' => (\A path \in Seq(Texts) : WalksAlong(path))'
  BY WalkExists, PTL

\* A walk is the same after an add() that puts no node on its way.
LEMMA WalkUndisturbed ==
    ASSUME TrieInv, TrieInv', NEW method, NEW pattern \in Patterns, Add(method, pattern),
           NEW path \in Seq(Texts), \A n \in Nodes' \ Nodes : ~OnTheWay(n, path)
    PROVE  Walk(path)' = Walk(path)
<1>1. PICK w : IsWalk(w, path) /\ Walk(path) = w[Len(path)].node
  BY WalkExists DEF WalksAlong, TrieInv
<1>2. PICK v : /\ v[0] = [node |-> Root, stop |-> FALSE]
               /\ \A i \in 1..Len(path) :
                     v[i] = IF v[i - 1].stop THEN v[i - 1] ELSE Step(v[i - 1].node, path[i])'
               /\ Walk(path)' = v[Len(path)].node
  <2>1. WalksAlong(path)'
    BY WalkExistsNext DEF TrieInv
  <2> QED
    BY <2>1 DEF WalksAlong, IsWalk, Root
<1>3. \A i \in 0..Len(path) : Found(w[i].node, w[i].stop, path, i)
  BY <1>1, WalkFinds DEF TrieInv
<1> DEFINE T == {i \in Nat : i <= Len(path) => v[i] = w[i]}
<1>4. 0 \in T
  BY <1>1, <1>2 DEF IsWalk
<1>5. ASSUME NEW i \in Nat, i \in T PROVE i + 1 \in T
  <2>1. SUFFICES ASSUME i + 1 <= Len(path) PROVE v[i + 1] = w[i + 1]
    OBVIOUS
  <2>2. i < Len(path) /\ i + 1 \in 1..Len(path) /\ (i + 1) - 1 = i /\ i \in 0..Len(path)
    BY <2>1
  <2>3. v[i] = w[i] /\ Found(w[i].node, w[i].stop, path, i)
    BY <1>3, <1>5, <2>2
  <2>4. /\ w[i + 1] = IF w[i].stop THEN w[i] ELSE Step(w[i].node, path[i + 1])
        /\ w[i].stop \in BOOLEAN
    BY <1>1, <2>2 DEF IsWalk, WalkState
  <2>5. v[i + 1] = IF v[i].stop THEN v[i] ELSE Step(v[i].node, path[i + 1])'
    BY <1>2, <2>2
  <2>6. CASE w[i].stop
    BY <2>3, <2>4, <2>5, <2>6
  <2>7. CASE w[i].stop = FALSE
    <3>1. Found(w[i].node, FALSE, path, i)
      BY <2>3, <2>7
    <3>2. Step(w[i].node, path[i + 1])' = Step(w[i].node, path[i + 1])
      BY <2>2, <3>1, StepUndisturbed
    <3> QED
      BY <2>3, <2>4, <2>5, <2>7, <3>2
  <2> QED
    BY <2>4, <2>6, <2>7
<1>6. Len(path) \in T
  <2>1. Nat \subseteq T
    <3> HIDE DEF T
    <3> QED
      BY <1>4, <1>5, SetInduction
  <2> QED
    BY <2>1
<1> QED
  BY <1>1, <1>2, <1>6

\* What AddOnlyShadows says of a step.
ShadowStep ==
    \A method \in Methods, path \in Paths :
          LET before == Route(method, path).handler
          IN  before # NoHandler /\ Route(method, path).handler' # before =>
                  \/ HandlerOf(method, Walk(path))' = added'
                  \/ \E n \in Nodes' \ Nodes : OnTheWay(n, path)

\* The answer of route() after the registration.
LEMMA AnswerNext ==
    \A method \in Methods, path \in Paths :
        Route(method, path).handler' =
            IF (Nodes # {} /\ Walk(path) # NoNode /\ HandlerOf(method, Walk(path)) # NoHandler)'
            THEN HandlerOf(method, Walk(path))' ELSE NoHandler
<1>1. \A method \in Methods, path \in Paths :
        Route(method, path).handler =
            IF Nodes # {} /\ Walk(path) # NoNode /\ HandlerOf(method, Walk(path)) # NoHandler
            THEN HandlerOf(method, Walk(path)) ELSE NoHandler
  BY AnswerFacts
<1>2. (\A method \in Methods, path \in Paths :
        Route(method, path).handler =
            IF Nodes # {} /\ Walk(path) # NoNode /\ HandlerOf(method, Walk(path)) # NoHandler
            THEN HandlerOf(method, Walk(path)) ELSE NoHandler)'
  BY <1>1, PTL
<1> QED
  BY <1>2 DEF NoHandler

\* A registration takes a handler away from a request only by giving it the new
\* one, or by a new node on the request's way: routes that have nothing to do
\* with the new pattern are not disturbed, whatever the trie holds.
THEOREM AddsOnlyShadow == Spec => AddOnlyShadows
<1>1. TrieInv /\ TrieInv' /\ [Next]_vars => [ShadowStep]_vars
  <2> SUFFICES ASSUME TrieInv, TrieInv', Next,
                      NEW method \in Methods, NEW path \in Paths,
                      Route(method, path).handler # NoHandler,
                      Route(method, path).handler' # Route(method, path).handler,
                      ~ \E n \in Nodes' \ Nodes : OnTheWay(n, path)
               PROVE  HandlerOf(method, Walk(path))' = added'
    BY DEF ShadowStep
  <2>1. PICK m \in Methods, pattern \in Patterns : Add(m, pattern)
    BY DEF Next
  <2>2. Walk(path)' = Walk(path)
    BY <2>1, WalkUndisturbed
  <2> DEFINE h == HandlerOf(method, Walk(path))
  <2>3. /\ Nodes # {} /\ Walk(path) # NoNode /\ h # NoHandler
        /\ Route(method, path).handler = h
    BY AnswerFacts
  <2>4. Nodes' # {}
    BY <2>1, <2>3 DEF Add, Nodes
  <2>5. Route(method, path).handler' = IF h' # NoHandler THEN h' ELSE NoHandler
    BY <2>2, <2>3, <2>4, AnswerNext DEF NoHandler, NoNode
  <2>6. <<method, Walk(path)>> \in DOMAIN handlers /\ h = handlers[<<method, Walk(path)>>]
    BY <2>3 DEF HandlerOf
  <2>7. h' = IF <<method, Walk(path)>> = <<m, pattern>> THEN added' ELSE h
    <3>1. /\ <<method, Walk(path)>> \in DOMAIN handlers'
          /\ handlers'[<<method, Walk(path)>>]
                = IF <<method, Walk(path)>> = <<m, pattern>> THEN added' ELSE h
      BY <2>1, <2>6 DEF Add
    <3>2. h' = handlers'[<<method, Walk(path)>>]
      BY <2>2, <3>1 DEF HandlerOf
    <3> QED
      BY <3>1, <3>2
  <2> QED
    BY <2>3, <2>5, <2>7
<1> QED
  BY <1>1, AlwaysTrieInv, PTL DEF Spec, AddOnlyShadows, ShadowStep

=============================================================================
