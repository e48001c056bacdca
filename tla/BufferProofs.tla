---------------------------- MODULE BufferProofs ---------------------------
(***************************************************************************)
(* Buffer is a queue of bytes, for every block size.  The first part is    *)
(* about FlattenSeq, which says what bytes a chain of blocks holds; the    *)
(* second about the methods, each of which takes a chain in order to a     *)
(* chain in order with the bytes that ByteQueue asks for.  The loops of    *)
(* append() and retrieve() are followed by induction over their turns.     *)
(* The third part is about the searches: the ends of the blocks are marks  *)
(* on a ruler along the bytes, and a position of a block is a position of  *)
(* the bytes.                                                              *)
(***************************************************************************)
EXTENDS BufferSearch, SequenceTheorems, Induction

USE BlockAssumption, BoundAssumption

-----------------------------------------------------------------------------
(* Flattening.                                                             *)

Parts(S) == Seq(Seq(S))

\* c[i] is the concatenation of the first i parts.
IsFlat(c, parts, S) ==
    /\ c \in [0..Len(parts) -> Seq(S)]
    /\ c[0] = <<>>
    /\ \A i \in 1..Len(parts) : c[i] = c[i - 1] \o parts[i]

\* The types of parts.
LEMMA PartsFacts ==
    ASSUME NEW S, NEW p \in Parts(S)
    PROVE  /\ Len(p) \in Nat
           /\ p # <<>> <=> Len(p) # 0
           /\ \A i \in 1..Len(p) : p[i] \in Seq(S)
           /\ DOMAIN p = 1..Len(p)
  BY DEF Parts

\* FlattenSeq(parts) is the last of the concatenations.
LEMMA FlatExists ==
    ASSUME NEW S, NEW parts \in Parts(S), parts # <<>>
    PROVE  \E c : IsFlat(c, parts, S) /\ FlattenSeq(parts) = c[Len(parts)]
<1> DEFINE N == Len(parts)
           step == [i \in 1..N |-> [x \in Seq(S) |-> x \o parts[i]]]
           w == CHOOSE f : f = [i \in 1..Len(parts) |->
                    IF i = 1 THEN parts[i] ELSE f[i - 1] \o parts[i]]
<1>1. N \in Nat /\ N # 0 /\ <<>> \in Seq(S) /\ \A i \in 1..N : parts[i] \in Seq(S)
  BY PartsFacts
<1>2. step \in [1..N -> [Seq(S) -> Seq(S)]]
  BY <1>1, ConcatProperties
<1>3. FlattenSeq(parts) = w[N]
  BY <1>1 DEF FlattenSeq
<1> HIDE DEF N
<1>4. PICK c : IsRecursion(c, N, Seq(S), <<>>, step)
  <2> HIDE DEF step
  <2> QED
    BY <1>1, <1>2, RecursionExists
<1>5. /\ c \in [0..N -> Seq(S)] /\ c[0] = <<>>
      /\ \A i \in 1..N : c[i] = c[i - 1] \o parts[i]
  <2>1. c \in [0..N -> Seq(S)] /\ c[0] = <<>> /\ \A i \in 1..N : c[i] = step[i][c[i - 1]]
    <3> HIDE DEF step
    <3> QED
      BY <1>4 DEF IsRecursion
  <2>2. \A i \in 1..N : c[i - 1] \in Seq(S)
    BY <1>1, <2>1
  <2> QED
    BY <2>1, <2>2
<1> HIDE DEF step
<1>6. c[1] = parts[1]
  <2>1. 1 \in 1..N /\ 1 - 1 = 0
    BY <1>1
  <2>2. c[1] = <<>> \o parts[1] /\ parts[1] \in Seq(S)
    BY <1>1, <1>5, <2>1
  <2> QED
    BY <2>2, ConcatEmptySeq
<1> DEFINE g == [i \in 1..N |-> c[i]]
<1>7. g = [i \in 1..N |-> IF i = 1 THEN parts[i] ELSE g[i - 1] \o parts[i]]
  <2>1. ASSUME NEW i \in 1..N, i # 1 PROVE c[i] = g[i - 1] \o parts[i]
    <3>1. i - 1 \in 1..N
      BY <1>1, <2>1
    <3> QED
      BY <1>5, <3>1
  <2> QED
    BY <1>6, <2>1
<1> HIDE DEF g
<1>8. w = [i \in 1..N |-> IF i = 1 THEN parts[i] ELSE w[i - 1] \o parts[i]]
  BY <1>7 DEF N
<1> HIDE DEF w
<1> DEFINE T == {i \in Nat : i + 1 <= N => w[i + 1] = c[i + 1]}
<1>9. 0 \in T
  BY <1>1, <1>6, <1>8
<1>10. ASSUME NEW i \in Nat, i \in T PROVE i + 1 \in T
  <2>1. SUFFICES ASSUME (i + 1) + 1 <= N PROVE w[(i + 1) + 1] = c[(i + 1) + 1]
    OBVIOUS
  <2>2. /\ w[i + 1] = c[i + 1] /\ (i + 1) + 1 \in 1..N /\ (i + 1) + 1 # 1
        /\ ((i + 1) + 1) - 1 = i + 1
    BY <1>1, <1>10, <2>1
  <2>3. w[(i + 1) + 1] = w[((i + 1) + 1) - 1] \o parts[(i + 1) + 1]
    BY <1>8, <2>2
  <2>4. c[(i + 1) + 1] = c[((i + 1) + 1) - 1] \o parts[(i + 1) + 1]
    BY <1>5, <2>2
  <2> QED
    BY <2>2, <2>3, <2>4
<1>11. w[N] = c[N]
  <2>1. Nat \subseteq T
    <3> HIDE DEF T
    <3> QED
      BY <1>9, <1>10, SetInduction
  <2>2. N - 1 \in Nat /\ (N - 1) + 1 = N
    BY <1>1
  <2>3. N - 1 \in T
    BY <2>1, <2>2
  <2> QED
    BY <1>1, <2>2, <2>3
<1> QED
  BY <1>3, <1>5, <1>11 DEF IsFlat, N

\* The type of the flat bytes.
LEMMA FlatType ==
    ASSUME NEW S, NEW parts \in Parts(S), parts # <<>>
    PROVE  FlattenSeq(parts) \in Seq(S)
<1>1. PICK c : IsFlat(c, parts, S) /\ FlattenSeq(parts) = c[Len(parts)]
  BY FlatExists
<1>2. Len(parts) \in 0..Len(parts)
  OBVIOUS
<1> QED
  BY <1>1, <1>2 DEF IsFlat

\* Parts that begin alike have the same concatenations.
LEMMA FlatPrefix ==
    ASSUME NEW S, NEW p \in Parts(S), NEW q \in Parts(S), NEW c, NEW d,
           IsFlat(c, p, S), IsFlat(d, q, S)
    PROVE  \A k \in Nat : /\ k <= Len(p) /\ k <= Len(q)
                          /\ \A j \in 1..k : p[j] = q[j]
                          => c[k] = d[k]
<1> SUFFICES ASSUME NEW k \in Nat, k <= Len(p), k <= Len(q), \A j \in 1..k : p[j] = q[j]
             PROVE  c[k] = d[k]
  OBVIOUS
<1> DEFINE T == {i \in Nat : i <= k => c[i] = d[i]}
<1>1. 0 \in T
  BY DEF IsFlat
<1>2. ASSUME NEW i \in Nat, i \in T PROVE i + 1 \in T
  <2>1. SUFFICES ASSUME i + 1 <= k PROVE c[i + 1] = d[i + 1]
    OBVIOUS
  <2>2. /\ c[i] = d[i] /\ i + 1 \in 1..k /\ i + 1 \in 1..Len(p) /\ i + 1 \in 1..Len(q)
        /\ (i + 1) - 1 = i
    BY <1>2, <2>1
  <2>3. c[i + 1] = c[i] \o p[i + 1] /\ d[i + 1] = d[i] \o q[i + 1]
    BY <2>2 DEF IsFlat
  <2> QED
    BY <2>2, <2>3
<1>3. k \in T
  <2>1. Nat \subseteq T
    <3> HIDE DEF T
    <3> QED
      BY <1>1, <1>2, SetInduction
  <2> QED
    BY <2>1
<1> QED
  BY <1>3

\* Empty parts add nothing.
LEMMA FlatRest ==
    ASSUME NEW S, NEW p \in Parts(S), NEW c, IsFlat(c, p, S)
    PROVE  \A k, l \in Nat : /\ k <= l /\ l <= Len(p)
                             /\ \A j \in (k + 1)..l : p[j] = <<>>
                             => c[l] = c[k]
<1> SUFFICES ASSUME NEW k \in Nat, NEW l \in Nat, k <= l, l <= Len(p),
                    \A j \in (k + 1)..l : p[j] = <<>>
             PROVE  c[l] = c[k]
  OBVIOUS
<1> DEFINE T == {i \in Nat : k + i <= l => c[k + i] = c[k]}
<1>1. 0 \in T
  OBVIOUS
<1>2. ASSUME NEW i \in Nat, i \in T PROVE i + 1 \in T
  <2>1. SUFFICES ASSUME k + (i + 1) <= l PROVE c[k + (i + 1)] = c[k]
    OBVIOUS
  <2>2. /\ k + i <= l /\ k + (i + 1) \in 1..Len(p) /\ k + (i + 1) \in (k + 1)..l
        /\ (k + (i + 1)) - 1 = k + i /\ k + i \in 0..Len(p)
    BY <2>1
  <2>3. c[k + i] = c[k] /\ c[k + i] \in Seq(S)
    BY <1>2, <2>2 DEF IsFlat
  <2>4. c[k + (i + 1)] = c[k + i] \o p[k + (i + 1)] /\ p[k + (i + 1)] = <<>>
    BY <2>2 DEF IsFlat
  <2>5. c[k + i] \o <<>> = c[k + i]
    BY <2>3, ConcatEmptySeq
  <2> QED
    BY <2>3, <2>4, <2>5
<1>3. l - k \in T
  <2> HIDE DEF T
  <2>1. Nat \subseteq T
    BY <1>1, <1>2, SetInduction
  <2>2. l - k \in Nat
    OBVIOUS
  <2> QED
    BY <2>1, <2>2
<1>4. k + (l - k) = l
  OBVIOUS
<1> QED
  BY <1>3, <1>4

\* A concatenation begins with each earlier one.
LEMMA FlatBegins ==
    ASSUME NEW S, NEW p \in Parts(S), NEW c, IsFlat(c, p, S), NEW k \in 0..Len(p)
    PROVE  /\ Len(c[k]) \in Nat /\ Len(c[k]) <= Len(c[Len(p)])
           /\ \A i \in 1..Len(c[k]) : c[Len(p)][i] = c[k][i]
<1> DEFINE Begins(d) == /\ Len(c[k]) <= Len(c[k + d])
                        /\ \A i \in 1..Len(c[k]) : c[k + d][i] = c[k][i]
           T == {d \in Nat : k + d <= Len(p) => Begins(d)}
<1>1. /\ Len(p) \in Nat /\ k \in Nat /\ c[k] \in Seq(S) /\ Len(c[k]) \in Nat
  BY PartsFacts DEF IsFlat
<1>2. 0 \in T
  BY <1>1
<1>3. ASSUME NEW d \in Nat, d \in T PROVE d + 1 \in T
  <2>1. SUFFICES ASSUME k + (d + 1) <= Len(p) PROVE Begins(d + 1)
    OBVIOUS
  <2> DEFINE u == c[k + d]
             v == p[k + (d + 1)]
  <2>2. /\ k + d \in 0..Len(p) /\ k + (d + 1) \in 1..Len(p) /\ (k + (d + 1)) - 1 = k + d
        /\ Begins(d)
    BY <1>1, <1>3, <2>1
  <2>3. u \in Seq(S) /\ v \in Seq(S) /\ c[k + (d + 1)] = u \o v
    BY <2>2, PartsFacts DEF IsFlat
  <2>4. Len(c[k]) <= Len(u) /\ \A i \in 1..Len(c[k]) : u[i] = c[k][i]
    BY <2>2
  <2> HIDE DEF u, v
  <2>5. /\ Len(u \o v) = Len(u) + Len(v) /\ Len(u) \in Nat /\ Len(v) \in Nat
        /\ \A i \in 1..(Len(u) + Len(v)) : i <= Len(u) => (u \o v)[i] = u[i]
    BY <2>3, ConcatProperties, LenProperties
  <2>6. \A i \in 1..Len(c[k]) : i \in 1..(Len(u) + Len(v)) /\ i <= Len(u)
    BY <1>1, <2>4, <2>5
  <2>7. Len(c[k]) <= Len(u) + Len(v)
    BY <1>1, <2>4, <2>5
  <2> QED
    BY <2>3, <2>4, <2>5, <2>6, <2>7
<1>4. Begins(Len(p) - k)
  <2>1. Nat \subseteq T
    <3> HIDE DEF T
    <3> QED
      BY <1>2, <1>3, SetInduction
  <2>2. Len(p) - k \in Nat /\ k + (Len(p) - k) <= Len(p)
    BY <1>1
  <2> HIDE DEF Begins
  <2> QED
    BY <2>1, <2>2
<1>5. k + (Len(p) - k) = Len(p)
  BY <1>1
<1> QED
  BY <1>1, <1>4, <1>5

\* Concatenation is associative.
LEMMA Associative ==
    \A S : \A x, y, z \in Seq(S) : (x \o y) \o z = x \o (y \o z)
  BY ConcatAssociative

\* Bytes added to the last part that is not empty come last.
GrowsAt(p, q, k, s) ==
    /\ Len(p) <= Len(q)
    /\ \A j \in 1..(k - 1) : q[j] = p[j]
    /\ q[k] = p[k] \o s
    /\ \A j \in (k + 1)..Len(p) : p[j] = <<>>
    /\ \A j \in (k + 1)..Len(q) : q[j] = <<>>

LEMMA FlatGrow ==
    ASSUME NEW S, NEW p \in Parts(S), NEW q \in Parts(S), NEW s \in Seq(S),
           NEW k \in 1..Len(p), GrowsAt(p, q, k, s)
    PROVE  FlattenSeq(q) = FlattenSeq(p) \o s
<1> USE DEF GrowsAt
<1>1. p # <<>> /\ q # <<>> /\ k \in Nat /\ k - 1 \in Nat
      /\ k <= Len(p) /\ k <= Len(q) /\ k \in 1..Len(q) /\ Len(p) \in Nat /\ Len(q) \in Nat
  OBVIOUS
<1>2. PICK c : IsFlat(c, p, S) /\ FlattenSeq(p) = c[Len(p)]
  BY <1>1, FlatExists
<1>3. PICK d : IsFlat(d, q, S) /\ FlattenSeq(q) = d[Len(q)]
  BY <1>1, FlatExists
<1>4. d[k - 1] = c[k - 1] /\ c[k - 1] \in Seq(S)
  <2>1. k - 1 <= Len(p) /\ k - 1 <= Len(q) /\ k - 1 \in 0..Len(p)
    BY <1>1
  <2>2. \A j \in 1..(k - 1) : p[j] = q[j]
    OBVIOUS
  <2>3. \A i \in Nat : /\ i <= Len(p) /\ i <= Len(q)
                       /\ \A j \in 1..i : p[j] = q[j]
                       => c[i] = d[i]
    BY <1>2, <1>3, FlatPrefix
  <2>4. c[k - 1] = d[k - 1]
    BY <1>1, <2>1, <2>2, <2>3
  <2> QED
    BY <1>2, <2>1, <2>4 DEF IsFlat
<1>5. c[k] = c[k - 1] \o p[k] /\ d[k] = d[k - 1] \o q[k]
  BY <1>1, <1>2, <1>3 DEF IsFlat
<1>6. d[k] = c[k] \o s
  <2>1. p[k] \in Seq(S)
    BY PartsFacts
  <2>2. \A x, y, z \in Seq(S) : (x \o y) \o z = x \o (y \o z)
    BY ONLY Associative, SMTT(30)
  <2>3. (c[k - 1] \o p[k]) \o s = c[k - 1] \o (p[k] \o s)
    BY <1>4, <2>1, <2>2
  <2> QED
    BY <1>4, <1>5, <2>3
<1>7. c[Len(p)] = c[k]
  <2>1. \A i, l \in Nat : /\ i <= l /\ l <= Len(p)
                          /\ \A j \in (i + 1)..l : p[j] = <<>>
                          => c[l] = c[i]
    BY <1>2, FlatRest, SMTT(30)
  <2>2. Len(p) <= Len(p) /\ \A j \in (k + 1)..Len(p) : p[j] = <<>>
    OBVIOUS
  <2> QED
    BY ONLY <1>1, <2>1, <2>2
<1>8. d[Len(q)] = d[k]
  <2>1. \A i, l \in Nat : /\ i <= l /\ l <= Len(q)
                          /\ \A j \in (i + 1)..l : q[j] = <<>>
                          => d[l] = d[i]
    BY <1>3, FlatRest
  <2>2. Len(q) <= Len(q) /\ \A j \in (k + 1)..Len(q) : q[j] = <<>>
    OBVIOUS
  <2> QED
    BY ONLY <1>1, <2>1, <2>2
<1> QED
  BY <1>2, <1>3, <1>6, <1>7, <1>8

\* One part among empty ones.
LEMMA FlatOne ==
    ASSUME NEW S, NEW p \in Parts(S), NEW k \in 1..Len(p),
           \A j \in 1..Len(p) : j # k => p[j] = <<>>
    PROVE  FlattenSeq(p) = p[k]
<1>1. p # <<>> /\ k \in Nat /\ k - 1 \in Nat /\ k <= Len(p) /\ Len(p) \in Nat
      /\ 0 <= k - 1 /\ k - 1 <= Len(p) /\ p[k] \in Seq(S)
  BY PartsFacts
<1>2. PICK c : IsFlat(c, p, S) /\ FlattenSeq(p) = c[Len(p)]
  BY <1>1, FlatExists
<1>3. \A i, l \in Nat : /\ i <= l /\ l <= Len(p)
                        /\ \A j \in (i + 1)..l : p[j] = <<>>
                        => c[l] = c[i]
  BY <1>2, FlatRest, SMTT(30)
<1>4. c[k - 1] = <<>>
  <2>1. \A j \in (0 + 1)..(k - 1) : p[j] = <<>>
    BY <1>1
  <2>2. c[k - 1] = c[0]
    BY <1>1, <1>3, <2>1
  <2> QED
    BY <1>2, <2>2 DEF IsFlat
<1>5. c[k] = c[k - 1] \o p[k]
  BY <1>1, <1>2 DEF IsFlat
<1>6. c[k] = p[k]
  BY <1>1, <1>4, <1>5, ConcatEmptySeq
<1>7. c[Len(p)] = c[k]
  BY <1>1, <1>3
<1> QED
  BY <1>2, <1>6, <1>7

\* What is left of a sequence without its first n elements.
Dropped(s, n) == SubSeq(s, n + 1, Len(s))

\* Its type and its elements.
LEMMA DroppedFacts ==
    ASSUME NEW S, NEW s \in Seq(S), NEW n \in 0..Len(s)
    PROVE  /\ Dropped(s, n) \in Seq(S)
           /\ Len(Dropped(s, n)) = Len(s) - n
           /\ \A i \in 1..(Len(s) - n) : Dropped(s, n)[i] = s[n + i]
<1>1. n + 1 \in Int /\ Len(s) \in Int /\ \A i \in (n + 1)..Len(s) : s[i] \in S
  OBVIOUS
<1>2. /\ SubSeq(s, n + 1, Len(s)) \in Seq(S)
      /\ Len(SubSeq(s, n + 1, Len(s)))
            = IF n + 1 <= Len(s) THEN Len(s) - (n + 1) + 1 ELSE 0
      /\ \A i \in 1..(Len(s) - (n + 1) + 1) : SubSeq(s, n + 1, Len(s))[i] = s[(n + 1) + i - 1]
  BY <1>1, SubSeqProperties
<1> QED
  BY <1>1, <1>2 DEF Dropped

\* Dropping no more than the first of two sequences.
LEMMA DroppedConcat ==
    ASSUME NEW S, NEW s \in Seq(S), NEW t \in Seq(S), NEW n \in 0..Len(s)
    PROVE  n \in 0..Len(s \o t) /\ Dropped(s \o t, n) = Dropped(s, n) \o t
<1>1. /\ s \o t \in Seq(S) /\ Len(s \o t) = Len(s) + Len(t) /\ n \in 0..Len(s \o t)
      /\ \A i \in 1..(Len(s) + Len(t)) :
            (s \o t)[i] = IF i <= Len(s) THEN s[i] ELSE t[i - Len(s)]
  BY ConcatProperties
<1> DEFINE a == Dropped(s \o t, n)
           d == Dropped(s, n)
<1>2. /\ a \in Seq(S) /\ Len(a) = (Len(s) + Len(t)) - n
      /\ \A i \in 1..((Len(s) + Len(t)) - n) : a[i] = (s \o t)[n + i]
  <2> DEFINE u == s \o t
  <2>1. u \in Seq(S) /\ n \in 0..Len(u) /\ Len(u) = Len(s) + Len(t)
    BY <1>1
  <2> HIDE DEF u
  <2>2. /\ Dropped(u, n) \in Seq(S) /\ Len(Dropped(u, n)) = Len(u) - n
        /\ \A i \in 1..(Len(u) - n) : Dropped(u, n)[i] = u[n + i]
    BY <2>1, DroppedFacts
  <2> QED
    BY <2>1, <2>2 DEF u
<1>3. d \in Seq(S) /\ Len(d) = Len(s) - n /\ \A i \in 1..(Len(s) - n) : d[i] = s[n + i]
  BY DroppedFacts
<1> HIDE DEF a, d
<1>4. /\ d \o t \in Seq(S) /\ Len(d \o t) = Len(d) + Len(t)
      /\ \A i \in 1..(Len(d) + Len(t)) :
            (d \o t)[i] = IF i <= Len(d) THEN d[i] ELSE t[i - Len(d)]
  BY <1>3, ConcatProperties
<1>5. ASSUME NEW i \in 1..Len(a) PROVE a[i] = (d \o t)[i]
  <2>1. /\ i \in 1..((Len(s) + Len(t)) - n) /\ n + i \in 1..(Len(s) + Len(t))
        /\ i \in 1..(Len(d) + Len(t)) /\ i \in Int /\ n \in Int /\ Len(s) \in Nat
    BY <1>2, <1>3
  <2>2. a[i] = IF n + i <= Len(s) THEN s[n + i] ELSE t[(n + i) - Len(s)]
    BY <1>1, <1>2, <2>1
  <2>3. (d \o t)[i] = IF i <= Len(d) THEN d[i] ELSE t[i - Len(d)]
    BY <1>4, <2>1
  <2>4. CASE n + i <= Len(s)
    <3>1. i \in 1..(Len(s) - n) /\ i <= Len(d)
      BY <1>3, <2>1, <2>4
    <3> QED
      BY <1>3, <2>2, <2>3, <2>4, <3>1
  <2>5. CASE ~(n + i <= Len(s))
    <3>1. ~(i <= Len(d)) /\ (n + i) - Len(s) = i - Len(d)
      BY <1>3, <2>1, <2>5
    <3> QED
      BY <2>2, <2>3, <2>5, <3>1
  <2> QED
    BY <2>4, <2>5
<1>6. Len(a) = Len(d \o t)
  BY <1>2, <1>3, <1>4
<1>7. a = d \o t
  BY <1>2, <1>4, <1>5, <1>6, SeqEqual
<1> QED
  BY <1>1, <1>7 DEF a, d


\* Bytes taken from the first part that is not empty are the first ones.
DropsAt(p, q, k, n) ==
    /\ Len(q) = Len(p)
    /\ \A j \in 1..(k - 1) : p[j] = <<>> /\ q[j] = <<>>
    /\ n \in 0..Len(p[k]) /\ q[k] = Dropped(p[k], n)
    /\ \A j \in (k + 1)..Len(p) : q[j] = p[j]

LEMMA FlatDrop ==
    ASSUME NEW S, NEW p \in Parts(S), NEW q \in Parts(S),
           NEW k \in 1..Len(p), NEW n, DropsAt(p, q, k, n)
    PROVE  n \in 0..Len(FlattenSeq(p)) /\ FlattenSeq(q) = Dropped(FlattenSeq(p), n)
<1> USE DEF DropsAt
<1>1. /\ p # <<>> /\ q # <<>> /\ k \in Nat /\ k - 1 \in Nat /\ k <= Len(p) /\ Len(p) \in Nat
      /\ 0 <= k - 1 /\ k - 1 <= Len(p) /\ k \in 1..Len(q) /\ p[k] \in Seq(S) /\ n \in Nat
  BY PartsFacts
<1>2. PICK c : IsFlat(c, p, S) /\ FlattenSeq(p) = c[Len(p)]
  BY <1>1, FlatExists
<1>3. PICK d : IsFlat(d, q, S) /\ FlattenSeq(q) = d[Len(q)]
  BY <1>1, FlatExists
<1>4. c[k - 1] = <<>> /\ d[k - 1] = <<>>
  <2>1. \A j \in (0 + 1)..(k - 1) : p[j] = <<>> /\ q[j] = <<>>
    BY <1>1
  <2>2. \A i, l \in Nat : /\ i <= l /\ l <= Len(p)
                          /\ \A j \in (i + 1)..l : p[j] = <<>>
                          => c[l] = c[i]
    BY <1>2, FlatRest
  <2>3. \A i, l \in Nat : /\ i <= l /\ l <= Len(q)
                          /\ \A j \in (i + 1)..l : q[j] = <<>>
                          => d[l] = d[i]
    BY <1>3, FlatRest
  <2>4. c[k - 1] = c[0]
    BY ONLY <1>1, <2>1, <2>2
  <2>5. d[k - 1] = d[0]
    BY ONLY <1>1, <2>1, <2>3, Len(q) = Len(p)
  <2> QED
    BY <1>2, <1>3, <2>4, <2>5 DEF IsFlat
<1>5. c[k] = p[k] /\ d[k] = q[k]
  <2>1. c[k] = c[k - 1] \o p[k] /\ d[k] = d[k - 1] \o q[k]
    BY <1>1, <1>2, <1>3 DEF IsFlat
  <2>2. q[k] \in Seq(S)
    BY <1>1, PartsFacts
  <2> QED
    BY <1>1, <1>4, <2>1, <2>2, ConcatEmptySeq
<1> DEFINE Here(i) == n \in 0..Len(c[i]) /\ d[i] = Dropped(c[i], n)
           T == {i \in Nat : k + i <= Len(p) => Here(k + i)}
<1>6. 0 \in T
  <2>1. k + 0 = k /\ Here(k)
    BY <1>1, <1>5
  <2> HIDE DEF Here
  <2> QED
    BY <2>1
<1>7. ASSUME NEW i \in Nat, i \in T PROVE i + 1 \in T
  <2>1. SUFFICES ASSUME k + (i + 1) <= Len(p) PROVE Here(k + (i + 1))
    BY DEF T
  <2> DEFINE l == k + i
             m == k + (i + 1)
  <2>2. Here(l)
    <3>1. k + i <= Len(p)
      BY <1>1, <2>1
    <3> HIDE DEF Here
    <3> QED
      BY <1>7, <3>1
  <2>3. /\ l \in 0..Len(p) /\ m \in 1..Len(p) /\ m \in (k + 1)..Len(p) /\ m \in 1..Len(q)
        /\ m - 1 = l
    BY <1>1, <2>1
  <2> HIDE DEF l, m
  <2>4. c[l] \in Seq(S) /\ c[m] = c[l] \o p[m] /\ d[m] = d[l] \o p[m] /\ p[m] \in Seq(S)
    <3>1. c[l] \in Seq(S) /\ c[m] = c[l] \o p[m] /\ d[m] = d[l] \o q[m]
      BY <1>2, <1>3, <2>3 DEF IsFlat
    <3>2. q[m] = p[m] /\ p[m] \in Seq(S)
      BY <2>3, PartsFacts
    <3> QED
      BY <3>1, <3>2
  <2>5. /\ n \in 0..Len(c[l] \o p[m])
        /\ Dropped(c[l] \o p[m], n) = Dropped(c[l], n) \o p[m]
    <3>1. \A x, y \in Seq(S) :
             n \in 0..Len(x) =>
                n \in 0..Len(x \o y) /\ Dropped(x \o y, n) = Dropped(x, n) \o y
      BY DroppedConcat
    <3> QED
      BY <2>2, <2>4, <3>1
  <2>6. Here(m)
    BY <2>2, <2>4, <2>5
  <2> HIDE DEF Here
  <2> QED
    BY <2>6 DEF m
<1>8. Here(Len(p))
  <2> HIDE DEF Here
  <2>1. Nat \subseteq T
    <3> HIDE DEF T
    <3> QED
      BY <1>6, <1>7, SetInduction
  <2>2. Len(p) - k \in Nat /\ k + (Len(p) - k) = Len(p)
    BY <1>1
  <2>3. Len(p) - k \in T
    BY <2>1, <2>2
  <2> QED
    BY <1>1, <2>2, <2>3
<1> QED
  BY <1>2, <1>3, <1>8

\* Parts that fit into blocks are together no longer than the blocks.
LEMMA FlatBound ==
    ASSUME NEW S, NEW p \in Parts(S), p # <<>>,
           \A j \in 1..Len(p) : Len(p[j]) <= kBlockSize
    PROVE  Len(FlattenSeq(p)) <= kBlockSize * Len(p)
<1>1. PICK c : IsFlat(c, p, S) /\ FlattenSeq(p) = c[Len(p)]
  BY FlatExists
<1>2. Len(p) \in Nat /\ kBlockSize \in Nat
  BY PartsFacts
<1> DEFINE T == {i \in Nat : i <= Len(p) => Len(c[i]) <= kBlockSize * i}
<1>3. 0 \in T
  BY <1>1 DEF IsFlat
<1>4. ASSUME NEW i \in Nat, i \in T PROVE i + 1 \in T
  <2>1. SUFFICES ASSUME i + 1 <= Len(p) PROVE Len(c[i + 1]) <= kBlockSize * (i + 1)
    OBVIOUS
  <2>2. i + 1 \in 1..Len(p) /\ (i + 1) - 1 = i /\ i \in 0..Len(p) /\ i <= Len(p)
    BY <1>2, <2>1
  <2>3. /\ Len(c[i]) <= kBlockSize * i /\ c[i] \in Seq(S) /\ p[i + 1] \in Seq(S)
        /\ c[i + 1] = c[i] \o p[i + 1] /\ Len(p[i + 1]) <= kBlockSize
    BY <1>1, <1>4, <2>2, PartsFacts DEF IsFlat
  <2>4. /\ Len(c[i] \o p[i + 1]) = Len(c[i]) + Len(p[i + 1])
        /\ Len(c[i]) \in Nat /\ Len(p[i + 1]) \in Nat
    BY <2>3, ConcatProperties, LenProperties
  <2>5. kBlockSize * (i + 1) = kBlockSize * i + kBlockSize /\ kBlockSize * i \in Nat
    BY <1>2
  <2>6. Len(c[i + 1]) = Len(c[i]) + Len(p[i + 1])
    BY <2>3, <2>4
  <2>7. \A a, b, x, K \in Nat : a <= x /\ b <= K => a + b <= x + K
    OBVIOUS
  <2>8. Len(c[i]) + Len(p[i + 1]) <= kBlockSize * i + kBlockSize
    BY <1>2, <2>3, <2>4, <2>5, <2>7
  <2> QED
    BY ONLY <2>5, <2>6, <2>8
<1>5. Len(p) \in T
  <2> HIDE DEF T
  <2>1. Nat \subseteq T
    BY <1>3, <1>4, SetInduction
  <2> QED
    BY <1>2, <2>1
<1> QED
  BY <1>1, <1>2, <1>5


-----------------------------------------------------------------------------
(* Chains of blocks.                                                       *)

Block == [data : Seq(Byte), read_idx : Nat]
BufferType == [blocks : Seq(Block), read_block_ : Nat, write_block_ : Nat, size_ : Nat]

\* A block no fuller than it may be, not read beyond what was written.
BlockOK(x) == x \in Block /\ Len(x.data) <= kBlockSize /\ x.read_idx <= Len(x.data)

\* What each block adds to the content.
PartsOf(b) ==
    [i \in DOMAIN b.blocks |->
        IF i < b.read_block_ THEN <<>> ELSE ReadableBytes(b.blocks[i])]

\* A chain in order: ChainInOrder for any object, without MaxBlocks.
Chain(b) ==
    /\ b \in BufferType
    /\ b.read_block_ \in 1..Len(b.blocks)
    /\ b.write_block_ \in 1..Len(b.blocks)
    /\ b.read_block_ <= b.write_block_
    /\ \A i \in 1..Len(b.blocks) :
          /\ BlockOK(b.blocks[i])
          /\ i < b.read_block_ => Readable(b.blocks[i]) = 0
          /\ i > b.write_block_ => b.blocks[i] = EmptyBlock

Good(b) == Chain(b) /\ b.size_ = Len(Content(b))

\* The readable bytes of a block.
LEMMA BlockFacts ==
    ASSUME NEW x, BlockOK(x)
    PROVE  /\ x.data \in Seq(Byte) /\ x.read_idx \in 0..Len(x.data) /\ Len(x.data) \in Nat
           /\ ReadableBytes(x) = Dropped(x.data, x.read_idx)
           /\ ReadableBytes(x) \in Seq(Byte)
           /\ Len(ReadableBytes(x)) = Readable(x) /\ Readable(x) \in 0..kBlockSize
           /\ Writable(x) \in 0..kBlockSize
           /\ Readable(x) = 0 => ReadableBytes(x) = <<>>
<1>1. x.data \in Seq(Byte) /\ x.read_idx \in 0..Len(x.data) /\ Len(x.data) \in Nat
  BY DEF BlockOK, Block
<1>2. ReadableBytes(x) = Dropped(x.data, x.read_idx)
  BY DEF ReadableBytes, Dropped
<1>3. Dropped(x.data, x.read_idx) \in Seq(Byte)
      /\ Len(Dropped(x.data, x.read_idx)) = Len(x.data) - x.read_idx
  BY <1>1, DroppedFacts
<1>4. /\ Readable(x) = Len(x.data) - x.read_idx /\ Readable(x) \in 0..kBlockSize
      /\ Writable(x) \in 0..kBlockSize
  BY <1>1 DEF Readable, Writable, BlockOK
<1>5. Readable(x) = 0 => ReadableBytes(x) = <<>>
  <2>1. \A s \in Seq(Byte) : Len(s) = 0 => s = <<>>
    OBVIOUS
  <2> QED
    BY <1>2, <1>3, <1>4, <2>1
<1> QED
  BY <1>1, <1>2, <1>3, <1>4, <1>5

\* An empty block.
LEMMA EmptyFacts ==
    /\ BlockOK(EmptyBlock) /\ EmptyBlock.data = <<>> /\ EmptyBlock.read_idx = 0
    /\ Readable(EmptyBlock) = 0 /\ ReadableBytes(EmptyBlock) = <<>>
    /\ Writable(EmptyBlock) = kBlockSize
<1>1. EmptyBlock \in Block /\ EmptyBlock.data = <<>> /\ EmptyBlock.read_idx = 0
  BY DEF EmptyBlock, Block
<1>2. BlockOK(EmptyBlock)
  BY <1>1 DEF BlockOK
<1>3. Readable(EmptyBlock) = 0 /\ Writable(EmptyBlock) = kBlockSize
  BY <1>1 DEF Readable, Writable
<1> QED
  BY <1>1, <1>2, <1>3, BlockFacts

\* The parts of a chain.
LEMMA PartsOfFacts ==
    ASSUME NEW b, Chain(b)
    PROVE  /\ PartsOf(b) \in Parts(Byte) /\ PartsOf(b) # <<>>
           /\ Len(PartsOf(b)) = Len(b.blocks) /\ Len(b.blocks) \in Nat
           /\ \A i \in 1..Len(b.blocks) :
                 /\ PartsOf(b)[i] \in Seq(Byte)
                 /\ i < b.read_block_ => PartsOf(b)[i] = <<>>
                 /\ i >= b.read_block_ => PartsOf(b)[i] = ReadableBytes(b.blocks[i])
                 /\ i > b.write_block_ => PartsOf(b)[i] = <<>>
           /\ Content(b) = FlattenSeq(PartsOf(b)) /\ Content(b) \in Seq(Byte)
<1>1. /\ b.blocks \in Seq(Block) /\ DOMAIN b.blocks = 1..Len(b.blocks) /\ Len(b.blocks) \in Nat
      /\ b.read_block_ \in 1..Len(b.blocks) /\ b.write_block_ \in 1..Len(b.blocks)
      /\ b.read_block_ <= b.write_block_
  BY DEF Chain, BufferType
<1>2. \A i \in 1..Len(b.blocks) : ReadableBytes(b.blocks[i]) \in Seq(Byte)
  BY BlockFacts DEF Chain
<1> DEFINE p == PartsOf(b)
<1>3. \A i \in 1..Len(b.blocks) :
         p[i] = IF i < b.read_block_ THEN <<>> ELSE ReadableBytes(b.blocks[i])
  BY <1>1 DEF PartsOf
<1>4. \A i \in 1..Len(b.blocks) :
         /\ p[i] \in Seq(Byte)
         /\ i < b.read_block_ => p[i] = <<>>
         /\ i >= b.read_block_ => p[i] = ReadableBytes(b.blocks[i])
  <2>1. <<>> \in Seq(Byte)
    OBVIOUS
  <2>2. \A i \in 1..Len(b.blocks) : i >= b.read_block_ <=> ~(i < b.read_block_)
    BY <1>1
  <2> HIDE DEF p
  <2> TAKE i \in 1..Len(b.blocks)
  <2>3. CASE i < b.read_block_
    BY <1>3, <2>1, <2>2, <2>3
  <2>4. CASE ~(i < b.read_block_)
    BY <1>2, <1>3, <2>2, <2>4
  <2> QED
    BY <2>3, <2>4
<1>5. p \in [1..Len(b.blocks) -> Seq(Byte)]
  BY <1>1, <1>2 DEF PartsOf
<1> HIDE DEF p
<1>6. p \in Seq(Seq(Byte)) /\ Len(p) = Len(b.blocks) /\ p # <<>>
  BY <1>1, <1>5
<1>7. ASSUME NEW i \in 1..Len(b.blocks), i > b.write_block_ PROVE p[i] = <<>>
  <2>1. i >= b.read_block_ /\ b.blocks[i] = EmptyBlock
    BY <1>1, <1>7 DEF Chain
  <2> QED
    BY <1>4, <2>1, EmptyFacts
<1>8. Content(b) = FlattenSeq(p)
  BY DEF Content, p, PartsOf
<1>9. p \in Parts(Byte)
  BY <1>6 DEF Parts
<1>10. FlattenSeq(p) \in Seq(Byte)
  BY <1>6, <1>9, FlatType
<1> QED
  BY <1>1, <1>4, <1>6, <1>7, <1>8, <1>9, <1>10 DEF p


-----------------------------------------------------------------------------
(* Writing.                                                                *)

\* What memcpy() into the write block changes.
LEMMA CopyInFields ==
    ASSUME NEW b, Chain(b), NEW s \in Seq(Byte)
    PROVE  LET c == CopyIn(b, s)
               w == b.write_block_
           IN  /\ c.read_block_ = b.read_block_ /\ c.write_block_ = w
               /\ c.size_ = b.size_ + Len(s)
               /\ c.blocks \in Seq(Block) /\ Len(c.blocks) = Len(b.blocks)
               /\ \A i \in 1..Len(b.blocks) : i # w => c.blocks[i] = b.blocks[i]
               /\ c.blocks[w] = [data |-> b.blocks[w].data \o s,
                                 read_idx |-> b.blocks[w].read_idx]
               /\ c \in BufferType
<1> DEFINE c == CopyIn(b, s)
           w == b.write_block_
           x == b.blocks[w]
           y == [data |-> x.data \o s, read_idx |-> x.read_idx]
<1>1. /\ b \in BufferType /\ b.blocks \in Seq(Block) /\ w \in 1..Len(b.blocks)
      /\ x \in Block /\ b.size_ \in Nat /\ Len(s) \in Nat
  BY DEF Chain, BufferType
<1>2. y \in Block
  BY <1>1, ConcatProperties DEF Block
<1>3. [x EXCEPT !.data = @ \o s] = y
  <2>1. \A v : \A z \in Block : [z EXCEPT !.data = v] = [data |-> v, read_idx |-> z.read_idx]
    BY DEF Block
  <2> QED
    BY <1>1, <2>1
<1>4. c = [b EXCEPT !.blocks = [b.blocks EXCEPT ![w] = y], !.size_ = b.size_ + Len(s)]
  BY <1>1, <1>3 DEF CopyIn, BufferType
<1> HIDE DEF c, w, x, y
<1>5. /\ [b.blocks EXCEPT ![w] = y] \in Seq(Block)
      /\ Len([b.blocks EXCEPT ![w] = y]) = Len(b.blocks)
      /\ \A i \in 1..Len(b.blocks) :
            [b.blocks EXCEPT ![w] = y][i] = IF i = w THEN y ELSE b.blocks[i]
  BY <1>1, <1>2, ExceptSeq
<1>6. /\ c.blocks = [b.blocks EXCEPT ![w] = y] /\ c.size_ = b.size_ + Len(s)
      /\ c.read_block_ = b.read_block_ /\ c.write_block_ = b.write_block_
      /\ c \in BufferType
  <2> DEFINE z == [b.blocks EXCEPT ![w] = y]
             n == b.size_ + Len(s)
  <2>1. z \in Seq(Block) /\ n \in Nat
    BY <1>1, <1>5
  <2>2. c = [b EXCEPT !.blocks = z, !.size_ = n]
    BY <1>4
  <2> HIDE DEF z, n
  <2>3. /\ c.blocks = z /\ c.size_ = n /\ c.read_block_ = b.read_block_
        /\ c.write_block_ = b.write_block_ /\ c \in BufferType
    BY <1>1, <2>1, <2>2 DEF BufferType
  <2> QED
    BY <2>3 DEF z, n
<1>7. \A i \in 1..Len(b.blocks) : c.blocks[i] = IF i = w THEN y ELSE b.blocks[i]
  BY <1>5, <1>6
<1>8. c.blocks[w] = y /\ \A i \in 1..Len(b.blocks) : i # w => c.blocks[i] = b.blocks[i]
  BY <1>1, <1>7
<1> QED
  BY <1>5, <1>6, <1>8 DEF c, w, x, y

\* Bytes that fit into the write block come last in the content.
LEMMA CopyInGood ==
    ASSUME NEW b, Good(b), NEW s \in Seq(Byte), Len(s) <= Writable(WriteBlock(b))
    PROVE  /\ Good(CopyIn(b, s)) /\ Content(CopyIn(b, s)) = Content(b) \o s
           /\ CopyIn(b, s).write_block_ = b.write_block_
           /\ Len(CopyIn(b, s).blocks) = Len(b.blocks)
           /\ Len(WriteBlock(CopyIn(b, s)).data) = Len(WriteBlock(b).data) + Len(s)
<1> DEFINE c == CopyIn(b, s)
           w == b.write_block_
           x == b.blocks[w]
           y == c.blocks[w]
<1>1. Chain(b) /\ b.size_ = Len(Content(b))
  BY DEF Good
<1>2. /\ c.read_block_ = b.read_block_ /\ c.write_block_ = w
      /\ c.size_ = b.size_ + Len(s)
      /\ c.blocks \in Seq(Block) /\ Len(c.blocks) = Len(b.blocks)
      /\ \A i \in 1..Len(b.blocks) : i # w => c.blocks[i] = b.blocks[i]
      /\ y = [data |-> x.data \o s, read_idx |-> x.read_idx]
      /\ c \in BufferType
  BY <1>1, CopyInFields
<1>3. w \in 1..Len(b.blocks) /\ BlockOK(x) /\ Len(b.blocks) \in Nat
      /\ b.read_block_ \in 1..Len(b.blocks) /\ b.read_block_ <= w
  BY <1>1 DEF Chain, BufferType
<1>4. Len(s) <= kBlockSize - Len(x.data) /\ Len(s) \in Nat
  BY DEF Writable, WriteBlock
<1> HIDE DEF c, x, y
<1>5. /\ x.data \in Seq(Byte) /\ x.read_idx \in 0..Len(x.data) /\ Len(x.data) \in Nat
      /\ ReadableBytes(x) = Dropped(x.data, x.read_idx)
  BY <1>3, BlockFacts
<1>6. /\ y.data = x.data \o s /\ y.read_idx = x.read_idx /\ y.data \in Seq(Byte)
      /\ Len(y.data) = Len(x.data) + Len(s) /\ y \in Block
  BY <1>2, <1>5, ConcatProperties DEF Block
<1>7. BlockOK(y)
  BY <1>4, <1>5, <1>6 DEF BlockOK
<1>8. ReadableBytes(y) = ReadableBytes(x) \o s
  <2>1. ReadableBytes(y) = Dropped(y.data, y.read_idx)
    BY <1>7, BlockFacts
  <2>2. Dropped(x.data \o s, x.read_idx) = Dropped(x.data, x.read_idx) \o s
    BY <1>5, DroppedConcat
  <2> QED
    BY <1>5, <1>6, <2>1, <2>2
<1>9. Chain(c)
  <2>1. ASSUME NEW i \in 1..Len(b.blocks)
        PROVE  /\ BlockOK(c.blocks[i])
               /\ i < b.read_block_ => Readable(c.blocks[i]) = 0
               /\ i > w => c.blocks[i] = EmptyBlock
    <3>1. CASE i = w
      <4>1. ~(i < b.read_block_) /\ ~(i > w)
        BY <1>3, <3>1
      <4> QED
        BY <1>7, <3>1, <4>1 DEF y
    <3>2. CASE i # w
      <4>1. c.blocks[i] = b.blocks[i]
        BY <1>2, <3>2
      <4> QED
        BY <1>1, <4>1 DEF Chain
    <3> QED
      BY <3>1, <3>2
  <2> QED
    BY <1>2, <1>3, <2>1 DEF Chain
<1> DEFINE p == PartsOf(b)
           q == PartsOf(c)
<1>10. /\ p \in Parts(Byte) /\ Len(p) = Len(b.blocks)
       /\ \A i \in 1..Len(b.blocks) :
             /\ i < b.read_block_ => p[i] = <<>>
             /\ i >= b.read_block_ => p[i] = ReadableBytes(b.blocks[i])
             /\ i > w => p[i] = <<>>
       /\ Content(b) = FlattenSeq(p) /\ Content(b) \in Seq(Byte)
  BY <1>1, PartsOfFacts
<1>11. /\ q \in Parts(Byte) /\ Len(q) = Len(b.blocks)
       /\ \A i \in 1..Len(b.blocks) :
             /\ i < b.read_block_ => q[i] = <<>>
             /\ i >= b.read_block_ => q[i] = ReadableBytes(c.blocks[i])
             /\ i > w => q[i] = <<>>
       /\ Content(c) = FlattenSeq(q)
  BY <1>2, <1>9, PartsOfFacts
<1> HIDE DEF p, q
<1>12. q[w] = p[w] \o s
  <2>1. w >= b.read_block_
    BY <1>3
  <2> QED
    BY <1>3, <1>8, <1>10, <1>11, <2>1 DEF x, y
<1>13. ASSUME NEW j \in 1..(w - 1) PROVE q[j] = p[j]
  <2>1. j \in 1..Len(b.blocks) /\ j # w
    BY <1>3
  <2>2. c.blocks[j] = b.blocks[j]
    BY <1>2, <2>1
  <2>3. j < b.read_block_ \/ j >= b.read_block_
    BY <1>3
  <2> QED
    BY <1>10, <1>11, <2>1, <2>2, <2>3
<1>14. ASSUME NEW j \in (w + 1)..Len(b.blocks) PROVE p[j] = <<>> /\ q[j] = <<>>
  <2>1. j \in 1..Len(b.blocks) /\ j > w
    BY <1>3
  <2> QED
    BY <1>10, <1>11, <2>1
<1>15. FlattenSeq(q) = FlattenSeq(p) \o s
  <2>1. Len(p) <= Len(q) /\ w \in 1..Len(p)
    BY <1>3, <1>10, <1>11
  <2>2. /\ \A j \in (w + 1)..Len(p) : p[j] = <<>>
        /\ \A j \in (w + 1)..Len(q) : q[j] = <<>>
    BY <1>10, <1>11, <1>14
  <2>3. p \in Parts(Byte) /\ q \in Parts(Byte)
    BY <1>10, <1>11
  <2>4. GrowsAt(p, q, w, s)
    BY <1>12, <1>13, <2>1, <2>2 DEF GrowsAt
  <2> HIDE DEF w
  <2> QED
    BY <2>1, <2>3, <2>4, FlatGrow
<1>16. Content(c) = Content(b) \o s
  BY <1>10, <1>11, <1>15
<1>17. c.size_ = Len(Content(c))
  <2>1. Len(Content(b) \o s) = Len(Content(b)) + Len(s)
    BY <1>10, ConcatProperties
  <2> QED
    BY <1>1, <1>2, <1>16, <2>1
<1>18. Len(WriteBlock(c).data) = Len(WriteBlock(b).data) + Len(s)
  BY <1>2, <1>6 DEF WriteBlock, x, y
<1> QED
  BY <1>2, <1>9, <1>16, <1>17, <1>18 DEF Good, c


\* The next block: empty, and nothing else has changed for the reader.
LEMMA NextGood ==
    ASSUME NEW b, Good(b)
    PROVE  LET c == NextWriteBlock(b)
           IN  /\ Good(c) /\ Content(c) = Content(b)
               /\ c.write_block_ = b.write_block_ + 1
               /\ Len(c.blocks) = IF b.write_block_ = Len(b.blocks)
                                  THEN Len(b.blocks) + 1 ELSE Len(b.blocks)
               /\ WriteBlock(c) = EmptyBlock
<1> DEFINE c == NextWriteBlock(b)
           w == b.write_block_
           z == IF w = Len(b.blocks) THEN Append(b.blocks, EmptyBlock) ELSE b.blocks
<1>1. /\ b \in BufferType /\ b.blocks \in Seq(Block) /\ w \in 1..Len(b.blocks)
      /\ Len(b.blocks) \in Nat /\ b.read_block_ \in 1..Len(b.blocks) /\ b.read_block_ <= w
      /\ Chain(b) /\ b.size_ = Len(Content(b)) /\ w \in Nat
  BY DEF Good, Chain, BufferType
<1>2. EmptyBlock \in Block
  BY EmptyFacts DEF BlockOK
<1>3. z \in Seq(Block)
  BY <1>1, <1>2, AppendProperties
<1>4. c = [b EXCEPT !.write_block_ = w + 1, !.blocks = z]
  BY DEF NextWriteBlock
<1>5. Len(z) = (IF w = Len(b.blocks) THEN Len(b.blocks) + 1 ELSE Len(b.blocks))
      /\ \A i \in 1..Len(b.blocks) : z[i] = b.blocks[i]
  BY <1>1, <1>2, AppendProperties
<1>6. w = Len(b.blocks) => z[w + 1] = EmptyBlock
  BY <1>1, <1>2, AppendProperties
<1> HIDE DEF c, z
<1>7. /\ c.read_block_ = b.read_block_ /\ c.write_block_ = w + 1 /\ c.blocks = z
      /\ c.size_ = b.size_ /\ c \in BufferType
  <2>1. w + 1 \in Nat
    BY <1>1
  <2> QED
    BY <1>1, <1>3, <1>4, <2>1 DEF BufferType
<1>8. ASSUME NEW i \in 1..Len(z)
      PROVE  i \in 1..Len(b.blocks) \/ (w = Len(b.blocks) /\ i = w + 1 /\ z[i] = EmptyBlock)
  BY <1>1, <1>5, <1>6
<1>9. w + 1 \in 1..Len(z) /\ Len(z) \in Nat /\ Len(b.blocks) <= Len(z)
  BY <1>1, <1>5
<1>10. z[w + 1] = EmptyBlock
  <2>1. CASE w = Len(b.blocks)
    BY <1>6, <2>1
  <2>2. CASE w # Len(b.blocks)
    <3>1. w + 1 \in 1..Len(b.blocks) /\ w + 1 > w
      BY <1>1, <2>2
    <3> QED
      BY <1>1, <1>5, <3>1 DEF Chain
  <2> QED
    BY <2>1, <2>2
<1>11. Chain(c)
  <2>1. ASSUME NEW i \in 1..Len(z)
        PROVE  /\ BlockOK(z[i])
               /\ i < b.read_block_ => Readable(z[i]) = 0
               /\ i > w + 1 => z[i] = EmptyBlock
    <3>1. CASE i \in 1..Len(b.blocks)
      <4>1. z[i] = b.blocks[i] /\ (i > w + 1 => i > w)
        BY <1>1, <1>5, <3>1
      <4> QED
        BY <1>1, <3>1, <4>1 DEF Chain
    <3>2. CASE w = Len(b.blocks) /\ i = w + 1 /\ z[i] = EmptyBlock
      BY <3>2, EmptyFacts
    <3> QED
      BY <1>8, <3>1, <3>2
  <2>2. c.read_block_ \in 1..Len(z) /\ c.read_block_ <= w + 1
    BY <1>1, <1>7, <1>9
  <2> QED
    BY <1>7, <1>9, <2>1, <2>2 DEF Chain
<1> DEFINE p == PartsOf(b)
           q == PartsOf(c)
           e == <<>>
<1>12. /\ p \in Parts(Byte) /\ Len(p) = Len(b.blocks)
       /\ \A i \in 1..Len(b.blocks) :
             /\ p[i] \in Seq(Byte)
             /\ i < b.read_block_ => p[i] = <<>>
             /\ i >= b.read_block_ => p[i] = ReadableBytes(b.blocks[i])
             /\ i > w => p[i] = <<>>
       /\ Content(b) = FlattenSeq(p) /\ Content(b) \in Seq(Byte)
  BY <1>1, PartsOfFacts
<1>13. /\ q \in Parts(Byte) /\ Len(q) = Len(z)
       /\ \A i \in 1..Len(z) :
             /\ i < b.read_block_ => q[i] = <<>>
             /\ i >= b.read_block_ => q[i] = ReadableBytes(z[i])
             /\ i > w + 1 => q[i] = <<>>
       /\ Content(c) = FlattenSeq(q)
  BY <1>7, <1>11, PartsOfFacts
<1> HIDE DEF p, q
<1>14. ASSUME NEW j \in 1..Len(b.blocks) PROVE q[j] = p[j]
  <2>1. j \in 1..Len(z) /\ z[j] = b.blocks[j] /\ (j < b.read_block_ \/ j >= b.read_block_)
    BY <1>1, <1>5, <1>9
  <2> QED
    BY <1>12, <1>13, <2>1
<1>15. GrowsAt(p, q, w, e)
  <2>1. \A j \in 1..(w - 1) : q[j] = p[j]
    BY <1>1, <1>14
  <2>2. q[w] = p[w] \o e
    <3>1. p[w] \in Seq(Byte) /\ q[w] = p[w]
      BY <1>1, <1>12, <1>14
    <3> QED
      BY <3>1, ConcatEmptySeq
  <2>3. \A j \in (w + 1)..Len(p) : p[j] = <<>>
    <3> TAKE j \in (w + 1)..Len(p)
    <3>1. j \in 1..Len(b.blocks) /\ j > w
      BY <1>1, <1>12
    <3> QED
      BY <1>12, <3>1
  <2>4. \A j \in (w + 1)..Len(q) : q[j] = <<>>
    <3> TAKE j \in (w + 1)..Len(q)
    <3>1. j \in 1..Len(z) /\ (j = w + 1 \/ j > w + 1)
      BY <1>1, <1>13
    <3>2. CASE j > w + 1
      BY <1>13, <3>1, <3>2
    <3>3. CASE j = w + 1
      <4>1. j >= b.read_block_
        BY <1>1, <3>3
      <4> QED
        BY <1>10, <1>13, <3>1, <3>3, <4>1, EmptyFacts
    <3> QED
      BY <3>1, <3>2, <3>3
  <2>5. Len(p) <= Len(q)
    BY <1>9, <1>12, <1>13
  <2> QED
    BY <2>1, <2>2, <2>3, <2>4, <2>5 DEF GrowsAt
<1>16. Content(c) = Content(b)
  <2>1. e \in Seq(Byte) /\ w \in 1..Len(p)
    BY <1>1, <1>12
  <2> HIDE DEF e, w
  <2>2. FlattenSeq(q) = FlattenSeq(p) \o e
    BY <1>12, <1>13, <1>15, <2>1, FlatGrow, ZenonT(30)
  <2>3. FlattenSeq(p) \o <<>> = FlattenSeq(p)
    BY <1>12, ConcatEmptySeq
  <2> QED
    BY <1>12, <1>13, <2>2, <2>3 DEF e
<1>17. WriteBlock(c) = EmptyBlock
  BY <1>7, <1>10 DEF WriteBlock
<1>18. Good(c)
  BY <1>1, <1>7, <1>11, <1>16 DEF Good
<1> QED
  BY <1>5, <1>7, <1>16, <1>17, <1>18 DEF c

\* begin_write(): a block with room, and the same bytes.
LEMMA BeginGood ==
    ASSUME NEW b, Good(b)
    PROVE  LET c == BeginWrite(b)
           IN  /\ Good(c) /\ Content(c) = Content(b)
               /\ Writable(WriteBlock(c)) \in 1..kBlockSize
               /\ \/ c = b
                  \/ /\ Len(WriteBlock(b).data) = kBlockSize /\ WriteBlock(c) = EmptyBlock
                     /\ c.write_block_ = b.write_block_ + 1
                     /\ Len(c.blocks) = IF b.write_block_ = Len(b.blocks)
                                        THEN Len(b.blocks) + 1 ELSE Len(b.blocks)
<1>1. BlockOK(WriteBlock(b))
  BY DEF Good, Chain, WriteBlock
<1>2. Writable(WriteBlock(b)) \in 0..kBlockSize /\ Len(WriteBlock(b).data) \in Nat
  BY <1>1, BlockFacts
<1>3. CASE Writable(WriteBlock(b)) = 0
  <2>1. BeginWrite(b) = NextWriteBlock(b)
    BY <1>3 DEF BeginWrite
  <2>2. Len(WriteBlock(b).data) = kBlockSize
    BY <1>2, <1>3 DEF Writable
  <2> QED
    BY <2>1, <2>2, NextGood, EmptyFacts
<1>4. CASE Writable(WriteBlock(b)) # 0
  <2>1. BeginWrite(b) = b
    BY <1>4 DEF BeginWrite
  <2> QED
    BY <1>2, <1>4, <2>1
<1> QED
  BY <1>3, <1>4


-----------------------------------------------------------------------------
(* append().                                                               *)

GoodBuffers == {b \in BufferType : Good(b)}

\* One byte: room is made for it, and it comes last.
LEMMA PutGood ==
    ASSUME NEW b \in GoodBuffers, NEW x \in Byte
    PROVE  LET c == CopyIn(BeginWrite(b), <<x>>)
               w == b.write_block_
           IN  /\ c \in GoodBuffers /\ Content(c) = Append(Content(b), x)
               /\ \/ /\ c.write_block_ = w /\ Len(c.blocks) = Len(b.blocks)
                     /\ Len(WriteBlock(c).data) = Len(WriteBlock(b).data) + 1
                  \/ /\ c.write_block_ = w + 1 /\ Len(WriteBlock(c).data) = 1
                     /\ Len(WriteBlock(b).data) = kBlockSize
                     /\ Len(c.blocks) = IF w = Len(b.blocks)
                                        THEN Len(b.blocks) + 1 ELSE Len(b.blocks)
<1> DEFINE d == BeginWrite(b)
           s == <<x>>
           c == CopyIn(d, s)
<1>1. Good(b)
  BY DEF GoodBuffers
<1>2. /\ Good(d) /\ Content(d) = Content(b)
      /\ Writable(WriteBlock(d)) \in 1..kBlockSize
      /\ \/ d = b
         \/ /\ Len(WriteBlock(b).data) = kBlockSize /\ WriteBlock(d) = EmptyBlock
            /\ d.write_block_ = b.write_block_ + 1
            /\ Len(d.blocks) = IF b.write_block_ = Len(b.blocks)
                               THEN Len(b.blocks) + 1 ELSE Len(b.blocks)
  BY <1>1, BeginGood
<1>3. s \in Seq(Byte) /\ Len(s) = 1
  OBVIOUS
<1> HIDE DEF d
<1>4. Len(s) <= Writable(WriteBlock(d))
  BY <1>2, <1>3
<1>5. Content(b) \o s = Append(Content(b), x)
  <2>1. Content(b) \in Seq(Byte)
    BY <1>1, PartsOfFacts DEF Good
  <2> QED
    BY <2>1, AppendIsConcat
<1> HIDE DEF s
<1>6. /\ Good(c) /\ Content(c) = Content(d) \o s
      /\ c.write_block_ = d.write_block_
      /\ Len(c.blocks) = Len(d.blocks)
      /\ Len(WriteBlock(c).data) = Len(WriteBlock(d).data) + Len(s)
  BY <1>2, <1>3, <1>4, CopyInGood
<1> HIDE DEF c
<1>7. c \in GoodBuffers /\ Content(c) = Append(Content(b), x)
  BY <1>2, <1>5, <1>6 DEF GoodBuffers, Good, Chain
<1>8. EmptyBlock.data = <<>> /\ Len(<<>>) = 0
  BY EmptyFacts
<1>9. \/ /\ c.write_block_ = b.write_block_ /\ Len(c.blocks) = Len(b.blocks)
         /\ Len(WriteBlock(c).data) = Len(WriteBlock(b).data) + 1
      \/ /\ c.write_block_ = b.write_block_ + 1 /\ Len(WriteBlock(c).data) = 1
         /\ Len(WriteBlock(b).data) = kBlockSize
         /\ Len(c.blocks) = IF b.write_block_ = Len(b.blocks)
                            THEN Len(b.blocks) + 1 ELSE Len(b.blocks)
  <2>1. CASE d = b
    BY <1>3, <1>6, <2>1
  <2>2. CASE d # b
    <3>1. Len(WriteBlock(d).data) = 0
      BY <1>2, <1>8, <2>2
    <3> QED
      BY <1>2, <1>3, <1>6, <2>2, <3>1
  <2> QED
    BY <2>1, <2>2
<1> QED
  BY <1>7, <1>9 DEF c, d, s

\* a[i] is the object after i bytes of s.
IsAppend(a, b, s) ==
    /\ a \in [0..Len(s) -> GoodBuffers]
    /\ a[0] = b
    /\ \A i \in 1..Len(s) : a[i] = CopyIn(BeginWrite(a[i - 1]), <<s[i]>>)

\* The loop of append() runs through chains in order.
LEMMA AppendExists ==
    ASSUME NEW b \in GoodBuffers, NEW s \in Seq(Byte)
    PROVE  \E a : IsAppend(a, b, s) /\ AppendTo(b, s) = a[Len(s)]
<1> DEFINE N == Len(s)
           step == [i \in 1..N |-> [x \in GoodBuffers |-> CopyIn(BeginWrite(x), <<s[i]>>)]]
           w == CHOOSE f : f = [i \in 0..Len(s) |->
                    IF i = 0 THEN b ELSE CopyIn(BeginWrite(f[i - 1]), <<s[i]>>)]
<1>1. N \in Nat /\ \A i \in 1..N : s[i] \in Byte
  OBVIOUS
<1>2. step \in [1..N -> [GoodBuffers -> GoodBuffers]]
  <2>1. ASSUME NEW i \in 1..N, NEW x \in GoodBuffers
        PROVE  CopyIn(BeginWrite(x), <<s[i]>>) \in GoodBuffers
    BY <1>1, PutGood
  <2> QED
    BY <2>1
<1>3. AppendTo(b, s) = w[N]
  BY DEF AppendTo
<1> HIDE DEF N
<1>4. PICK f : IsRecursion(f, N, GoodBuffers, b, step)
  <2> HIDE DEF step
  <2> QED
    BY <1>1, <1>2, RecursionExists
<1>5. /\ f \in [0..N -> GoodBuffers] /\ f[0] = b
      /\ \A i \in 1..N : f[i] = CopyIn(BeginWrite(f[i - 1]), <<s[i]>>)
  <2>1. f \in [0..N -> GoodBuffers] /\ f[0] = b /\ \A i \in 1..N : f[i] = step[i][f[i - 1]]
    <3> HIDE DEF step
    <3> QED
      BY <1>4 DEF IsRecursion
  <2>2. \A i \in 1..N : f[i - 1] \in GoodBuffers
    BY <1>1, <2>1
  <2> QED
    BY <2>1, <2>2
<1> HIDE DEF step
<1>6. f = [i \in 0..N |-> IF i = 0 THEN b ELSE CopyIn(BeginWrite(f[i - 1]), <<s[i]>>)]
  BY <1>1, <1>5
<1>7. w = [i \in 0..N |-> IF i = 0 THEN b ELSE CopyIn(BeginWrite(w[i - 1]), <<s[i]>>)]
  BY <1>6 DEF N
<1> HIDE DEF w
<1>8. /\ DOMAIN w = 0..N /\ w[0] = b
      /\ \A i \in 1..N : w[i] = CopyIn(BeginWrite(w[i - 1]), <<s[i]>>)
  BY <1>1, <1>7
<1>9. ASSUME NEW i \in 1..N, w[i - 1] \in GoodBuffers PROVE w[i] \in GoodBuffers
  BY <1>1, <1>8, <1>9, PutGood
<1>10. \A i \in 0..N : w[i] \in GoodBuffers
  BY <1>1, <1>8, <1>9, LoopInvariant
<1>11. w \in [0..N -> GoodBuffers]
  BY <1>7, <1>10
<1> QED
  BY <1>3, <1>8, <1>11 DEF IsAppend, N

\* An element put behind two sequences is put behind the second.
LEMMA AppendConcat ==
    \A u, v \in Seq(Byte) : \A e \in Byte : Append(u \o v, e) = u \o Append(v, e)
<1> TAKE u, v \in Seq(Byte)
<1> TAKE e \in Byte
<1>1. u \o v \in Seq(Byte) /\ <<e>> \in Seq(Byte)
  BY ConcatProperties
<1>2. Append(u \o v, e) = (u \o v) \o <<e>> /\ Append(v, e) = v \o <<e>>
  BY <1>1, AppendIsConcat
<1>3. (u \o v) \o <<e>> = u \o (v \o <<e>>)
  BY <1>1, Associative
<1> QED
  BY <1>2, <1>3

\* append() puts s behind the content, and goes to a further block only when one
\* is full: L blocks take kBlockSize * L bytes, if the first of them was empty.
LEMMA AppendGood ==
    ASSUME NEW b \in GoodBuffers, NEW s \in Seq(Byte)
    PROVE  /\ AppendTo(b, s) \in GoodBuffers
           /\ Content(AppendTo(b, s)) = Content(b) \o s
           /\ /\ b.write_block_ = 1 /\ WriteBlock(b) = EmptyBlock
              /\ Len(s) <= kBlockSize * Len(b.blocks)
              => Len(AppendTo(b, s).blocks) = Len(b.blocks)
<1>1. PICK a : IsAppend(a, b, s) /\ AppendTo(b, s) = a[Len(s)]
  BY AppendExists
<1> DEFINE N == Len(s)
           L == Len(b.blocks)
           Room == /\ b.write_block_ = 1 /\ WriteBlock(b) = EmptyBlock
                   /\ N <= kBlockSize * L
           Filled(x, i) == /\ Len(x.blocks) = L
                           /\ kBlockSize * (x.write_block_ - 1) + Len(WriteBlock(x).data) = i
<1>2. /\ N \in Nat /\ \A i \in 1..N : s[i] \in Byte /\ a[i - 1] \in GoodBuffers
      /\ a[0] = b /\ \A i \in 0..N : a[i] \in GoodBuffers
      /\ \A i \in 1..N : a[i] = CopyIn(BeginWrite(a[i - 1]), <<s[i]>>)
  BY <1>1 DEF IsAppend
<1>3. \A x \in GoodBuffers : /\ Content(x) \in Seq(Byte)
                             /\ x.write_block_ \in 1..Len(x.blocks) /\ Len(x.blocks) \in Nat
                             /\ Len(WriteBlock(x).data) \in 0..kBlockSize
  <2> TAKE x \in GoodBuffers
  <2>1. Chain(x) /\ x.write_block_ \in 1..Len(x.blocks) /\ BlockOK(WriteBlock(x))
    BY DEF GoodBuffers, Good, Chain, WriteBlock
  <2>2. Content(x) \in Seq(Byte) /\ Len(x.blocks) \in Nat
    BY <2>1, PartsOfFacts
  <2>3. Len(WriteBlock(x).data) \in 0..kBlockSize
    BY <2>1, BlockFacts DEF BlockOK
  <2> QED
    BY <2>1, <2>2, <2>3
<1> HIDE DEF N, L
<1> DEFINE T == {i \in Nat : i <= N => /\ Content(a[i]) = Content(b) \o SubSeq(s, 1, i)
                                       /\ Room => Filled(a[i], i)}
<1>4. 0 \in T
  <2>1. Content(b) \o SubSeq(s, 1, 0) = Content(b)
    <3>1. SubSeq(s, 1, 0) = <<>>
      OBVIOUS
    <3> QED
      BY <1>3, <3>1, ConcatEmptySeq
  <2>2. Room => Filled(b, 0)
    <3>1. ASSUME Room PROVE Len(WriteBlock(b).data) = 0 /\ kBlockSize * (b.write_block_ - 1) = 0
      BY <3>1, EmptyFacts
    <3> SUFFICES ASSUME Room
                 PROVE  kBlockSize * (b.write_block_ - 1) + Len(WriteBlock(b).data) = 0
      BY DEF L
    <3>2. Len(WriteBlock(b).data) = 0 /\ kBlockSize * (b.write_block_ - 1) = 0
      BY <3>1
    <3> HIDE DEF Room
    <3>3. \A u, v : u = 0 /\ v = 0 => u + v = 0
      OBVIOUS
    <3> QED
      BY <3>2, <3>3
  <2> HIDE DEF Room, Filled
  <2> QED
    BY <1>2, <2>1, <2>2
<1>5. ASSUME NEW i \in Nat, i \in T PROVE i + 1 \in T
  <2>1. SUFFICES ASSUME i + 1 <= N
                 PROVE  /\ Content(a[i + 1]) = Content(b) \o SubSeq(s, 1, i + 1)
                        /\ Room => Filled(a[i + 1], i + 1)
    BY DEF T
  <2> DEFINE x == a[i]
             y == a[i + 1]
             e == s[i + 1]
  <2>2. /\ i + 1 \in 1..N /\ (i + 1) - 1 = i /\ i \in 0..N /\ i + 1 \in 0..N /\ i <= N
        /\ i < N
    BY <1>2, <2>1
  <2>3. Content(x) = Content(b) \o SubSeq(s, 1, i) /\ (Room => Filled(x, i))
    <3> HIDE DEF Room, Filled
    <3> QED
      BY <1>5, <2>2
  <2>4. x \in GoodBuffers /\ y \in GoodBuffers /\ e \in Byte /\ y = CopyIn(BeginWrite(x), <<e>>)
    BY <1>2, <2>2
  <2> HIDE DEF x, y, e
  <2>5. /\ Content(y) = Append(Content(x), e)
        /\ \/ /\ y.write_block_ = x.write_block_ /\ Len(y.blocks) = Len(x.blocks)
              /\ Len(WriteBlock(y).data) = Len(WriteBlock(x).data) + 1
           \/ /\ y.write_block_ = x.write_block_ + 1 /\ Len(WriteBlock(y).data) = 1
              /\ Len(WriteBlock(x).data) = kBlockSize
              /\ Len(y.blocks) = IF x.write_block_ = Len(x.blocks)
                                 THEN Len(x.blocks) + 1 ELSE Len(x.blocks)
    BY <2>4, PutGood
  <2>6. Content(y) = Content(b) \o SubSeq(s, 1, i + 1)
    <3>1. SubSeq(s, 1, i + 1) = Append(SubSeq(s, 1, i), e)
      BY <2>2 DEF e, N
    <3>2. SubSeq(s, 1, i) \in Seq(Byte) /\ Content(b) \in Seq(Byte)
      BY <1>3, <2>2 DEF N
    <3>3. Content(y) = Append(Content(b) \o SubSeq(s, 1, i), e)
      BY ONLY <2>3, <2>5, Zenon
    <3>4. Append(Content(b) \o SubSeq(s, 1, i), e) = Content(b) \o Append(SubSeq(s, 1, i), e)
      BY ONLY <2>4, <3>2, AppendConcat, Zenon
    <3> QED
      BY ONLY <3>1, <3>3, <3>4, Zenon
  <2>7. ASSUME Room PROVE Filled(y, i + 1)
    <3>1. /\ Len(x.blocks) = L /\ N <= kBlockSize * L
          /\ kBlockSize * (x.write_block_ - 1) + Len(WriteBlock(x).data) = i
      BY <2>3, <2>7
    <3>2. x.write_block_ \in 1..L /\ L \in Nat /\ Len(WriteBlock(x).data) \in Nat
      BY <1>3, <2>4, <3>1, SMTT(30)
    <3> SUFFICES /\ Len(y.blocks) = L
                 /\ kBlockSize * (y.write_block_ - 1) + Len(WriteBlock(y).data) = i + 1
      OBVIOUS
    <3> HIDE DEF Room, Filled
    <3>3. CASE /\ y.write_block_ = x.write_block_ /\ Len(y.blocks) = Len(x.blocks)
               /\ Len(WriteBlock(y).data) = Len(WriteBlock(x).data) + 1
      <4>1. kBlockSize * (x.write_block_ - 1) \in Nat
        BY <3>2
      <4>2. \A u, v \in Nat : u + v = i => u + (v + 1) = i + 1
        OBVIOUS
      <4>3. kBlockSize * (x.write_block_ - 1) + (Len(WriteBlock(x).data) + 1) = i + 1
        BY <3>1, <3>2, <4>1, <4>2
      <4> QED
        BY <3>1, <3>3, <4>3
    <3>4. CASE /\ y.write_block_ = x.write_block_ + 1 /\ Len(WriteBlock(y).data) = 1
               /\ Len(WriteBlock(x).data) = kBlockSize
               /\ Len(y.blocks) = IF x.write_block_ = Len(x.blocks)
                                  THEN Len(x.blocks) + 1 ELSE Len(x.blocks)
      <4>1. kBlockSize * (x.write_block_ - 1) + kBlockSize = kBlockSize * x.write_block_
        BY <3>2
      <4>2. kBlockSize * x.write_block_ = i
        BY <3>1, <3>4, <4>1
      <4>3. x.write_block_ # L
        BY <1>2, <2>2, <3>1, <4>2
      <4>4. (x.write_block_ + 1) - 1 = x.write_block_
        BY <3>2
      <4> QED
        BY <3>1, <3>4, <4>2, <4>3, <4>4
    <3> QED
      BY <2>5, <3>3, <3>4
  <2> HIDE DEF Room, Filled
  <2> QED
    BY <2>6, <2>7 DEF y
<1>6. N \in T
  <2> HIDE DEF T
  <2>1. Nat \subseteq T
    BY <1>4, <1>5, SetInduction
  <2> QED
    BY <1>2, <2>1
<1>7. SubSeq(s, 1, N) = s /\ N \in 0..N
  BY <1>2 DEF N
<1>8. Content(a[N]) = Content(b) \o s /\ (Room => Filled(a[N], N))
  <2> HIDE DEF Room, Filled
  <2> QED
    BY <1>2, <1>6, <1>7
<1>9. Room => Len(a[N].blocks) = L
  BY <1>8
<1> QED
  BY <1>1, <1>2, <1>7, <1>8, <1>9 DEF N, L


-----------------------------------------------------------------------------
(* Reading.                                                                *)

\* What is read first is not longer than all there is.
LEMMA PartBound ==
    ASSUME NEW S, NEW p \in Parts(S), NEW k \in 1..Len(p), \A j \in 1..(k - 1) : p[j] = <<>>
    PROVE  Len(p[k]) <= Len(FlattenSeq(p))
<1> DEFINE n == Len(p[k])
           x == Dropped(p[k], n)
           q == [p EXCEPT ![k] = x]
<1>1. p \in Seq(Seq(S)) /\ p[k] \in Seq(S) /\ n \in Nat /\ k \in Nat /\ Len(p) \in Nat
  BY PartsFacts DEF Parts
<1>2. n \in 0..Len(p[k]) /\ x \in Seq(S)
  <2>1. \A t \in Seq(S) : Len(t) \in 0..Len(t) /\ Dropped(t, Len(t)) \in Seq(S)
    BY DroppedFacts
  <2> QED
    BY <1>1, <2>1
<1> HIDE DEF n, x
<1>3. /\ q \in Seq(Seq(S)) /\ Len(q) = Len(p)
      /\ \A j \in 1..Len(p) : q[j] = IF j = k THEN x ELSE p[j]
  BY <1>1, <1>2, ExceptSeq
<1> HIDE DEF q
<1>4. DropsAt(p, q, k, n)
  <2>1. q[k] = x
    BY <1>3
  <2>2. \A j \in 1..(k - 1) : p[j] = <<>> /\ q[j] = <<>>
    BY <1>1, <1>3, SMTT(30)
  <2>3. \A j \in (k + 1)..Len(p) : q[j] = p[j]
    BY <1>1, <1>3
  <2> QED
    BY <1>2, <1>3, <2>1, <2>2, <2>3 DEF DropsAt, x
<1>5. n \in 0..Len(FlattenSeq(p))
  <2>1. q \in Parts(S)
    BY <1>3 DEF Parts
  <2> QED
    BY <1>4, <2>1, FlatDrop
<1> QED
  BY <1>5 DEF n

\* What is in the read block is part of the content; if it is the write block
\* too, all of it.
LEMMA ReadBlockFacts ==
    ASSUME NEW b, Good(b)
    PROVE  /\ BlockOK(ReadBlock(b)) /\ Readable(ReadBlock(b)) \in Nat
           /\ Readable(ReadBlock(b)) <= b.size_ /\ b.size_ \in Nat
           /\ b.read_block_ = b.write_block_ => Readable(ReadBlock(b)) = b.size_
<1> DEFINE r == b.read_block_
           p == PartsOf(b)
<1>1. /\ Chain(b) /\ b.size_ = Len(Content(b)) /\ BlockOK(b.blocks[r])
      /\ r \in 1..Len(b.blocks) /\ b.size_ \in Nat /\ r \in Nat
      /\ b.write_block_ \in 1..Len(b.blocks)
  BY DEF Good, Chain, BufferType
<1>2. /\ p \in Parts(Byte) /\ Len(p) = Len(b.blocks) /\ Len(b.blocks) \in Nat
      /\ \A i \in 1..Len(b.blocks) :
            /\ i < r => p[i] = <<>>
            /\ i >= r => p[i] = ReadableBytes(b.blocks[i])
            /\ i > b.write_block_ => p[i] = <<>>
      /\ Content(b) = FlattenSeq(p)
  BY <1>1, PartsOfFacts
<1> HIDE DEF p
<1>3. p[r] = ReadableBytes(b.blocks[r])
  <2>1. r >= r
    BY <1>1
  <2> QED
    BY <1>1, <1>2, <2>1
<1>4. Len(p[r]) = Readable(b.blocks[r]) /\ Readable(b.blocks[r]) \in Nat
  BY <1>1, <1>3, BlockFacts
<1>5. Len(p[r]) <= Len(FlattenSeq(p))
  <2>1. \A j \in 1..(r - 1) : p[j] = <<>>
    BY <1>1, <1>2
  <2>2. r \in 1..Len(p)
    BY <1>1, <1>2
  <2> HIDE DEF r
  <2> QED
    BY <1>2, <2>1, <2>2, PartBound
<1>6. ASSUME r = b.write_block_ PROVE FlattenSeq(p) = p[r]
  <2>1. ASSUME NEW j \in 1..Len(p), j # r PROVE p[j] = <<>>
    <3>1. j < r \/ j > r
      BY <1>1, <2>1
    <3> QED
      BY <1>2, <1>6, <3>1
  <2>2. r \in 1..Len(p)
    BY <1>1, <1>2
  <2> HIDE DEF r
  <2> QED
    BY <1>2, <2>1, <2>2, FlatOne
<1>7. ReadBlock(b) = b.blocks[r]
  BY DEF ReadBlock
<1> QED
  BY <1>1, <1>2, <1>4, <1>5, <1>6, <1>7

\* What consuming in the read block changes.
LEMMA ConsumeFields ==
    ASSUME NEW b, Good(b), NEW n \in 0..Readable(ReadBlock(b))
    PROVE  LET c == ConsumeInBlock(b, n)
               r == b.read_block_
           IN  /\ c.read_block_ = r /\ c.write_block_ = b.write_block_
               /\ c.size_ = b.size_ - n
               /\ c.blocks \in Seq(Block) /\ Len(c.blocks) = Len(b.blocks)
               /\ \A i \in 1..Len(b.blocks) : i # r => c.blocks[i] = b.blocks[i]
               /\ c.blocks[r] = [data |-> b.blocks[r].data,
                                 read_idx |-> b.blocks[r].read_idx + n]
               /\ c \in BufferType
<1> DEFINE c == ConsumeInBlock(b, n)
           r == b.read_block_
           x == b.blocks[r]
           y == [data |-> x.data, read_idx |-> x.read_idx + n]
           z == [b.blocks EXCEPT ![r] = y]
           l == b.size_ - n
<1>1. /\ b \in BufferType /\ b.blocks \in Seq(Block) /\ r \in 1..Len(b.blocks)
      /\ x \in Block /\ x.read_idx \in Nat
  <2>1. b \in BufferType /\ b.blocks \in Seq(Block) /\ r \in 1..Len(b.blocks)
    BY DEF Good, Chain, BufferType
  <2>2. x \in Block
    BY <2>1
  <2>3. \A v \in Block : v.read_idx \in Nat
    BY DEF Block
  <2> QED
    BY <2>1, <2>2, <2>3
<1>2. n \in Nat /\ l \in Nat
  BY ReadBlockFacts
<1>3. y \in Block
  BY <1>1, <1>2, SMTT(30) DEF Block
<1>4. [x EXCEPT !.read_idx = @ + n] = y
  <2>1. \A u : \A v \in Block : [v EXCEPT !.read_idx = u] = [data |-> v.data, read_idx |-> u]
    BY DEF Block
  <2> QED
    BY <1>1, <2>1
<1>5. c = [b EXCEPT !.blocks = z, !.size_ = l]
  BY <1>1, <1>4 DEF ConsumeInBlock, BufferType
<1> HIDE DEF c, r, x, y, l
<1>6. /\ z \in Seq(Block) /\ Len(z) = Len(b.blocks)
      /\ \A i \in 1..Len(b.blocks) : z[i] = IF i = r THEN y ELSE b.blocks[i]
  BY <1>1, <1>3, ExceptSeq
<1> HIDE DEF z
<1>7. /\ c.blocks = z /\ c.size_ = l /\ c.read_block_ = b.read_block_
      /\ c.write_block_ = b.write_block_ /\ c \in BufferType
  BY <1>1, <1>2, <1>5, <1>6 DEF BufferType
<1>8. c.blocks[r] = y /\ \A i \in 1..Len(b.blocks) : i # r => c.blocks[i] = b.blocks[i]
  BY <1>1, <1>6, <1>7
<1> QED
  BY <1>6, <1>7, <1>8 DEF c, r, x, y, l

\* Dropping twice.
LEMMA DroppedTwice ==
    \A s \in Seq(Byte), m, n \in Nat :
        m + n <= Len(s) => Dropped(Dropped(s, m), n) = Dropped(s, m + n)
<1> SUFFICES ASSUME NEW s \in Seq(Byte), NEW m \in Nat, NEW n \in Nat, m + n <= Len(s)
             PROVE  Dropped(Dropped(s, m), n) = Dropped(s, m + n)
  OBVIOUS
<1> DEFINE t == Dropped(s, m)
           u == Dropped(t, n)
           v == Dropped(s, m + n)
<1>1. Len(s) \in Nat /\ m \in 0..Len(s) /\ m + n \in 0..Len(s)
  OBVIOUS
<1>2. t \in Seq(Byte) /\ Len(t) = Len(s) - m /\ \A i \in 1..(Len(s) - m) : t[i] = s[m + i]
  BY <1>1, DroppedFacts
<1>3. /\ v \in Seq(Byte) /\ Len(v) = Len(s) - (m + n)
      /\ \A i \in 1..(Len(s) - (m + n)) : v[i] = s[(m + n) + i]
  <2> DEFINE k == m + n
  <2>1. k \in 0..Len(s)
    BY <1>1
  <2> HIDE DEF k
  <2>2. /\ Dropped(s, k) \in Seq(Byte) /\ Len(Dropped(s, k)) = Len(s) - k
        /\ \A i \in 1..(Len(s) - k) : Dropped(s, k)[i] = s[k + i]
    BY <2>1, DroppedFacts
  <2> QED
    BY <2>2 DEF k
<1> HIDE DEF t, v
<1>4. u \in Seq(Byte) /\ Len(u) = Len(t) - n /\ \A i \in 1..(Len(t) - n) : u[i] = t[n + i]
  <2>1. n \in 0..Len(t)
    BY <1>1, <1>2
  <2> QED
    BY <1>2, <2>1, DroppedFacts, ZenonT(30)
<1> HIDE DEF u
<1>5. Len(u) = Len(v)
  BY <1>1, <1>2, <1>3, <1>4
<1>6. ASSUME NEW i \in 1..Len(u) PROVE u[i] = v[i]
  <2>1. /\ i \in 1..(Len(t) - n) /\ n + i \in 1..(Len(s) - m) /\ i \in 1..(Len(s) - (m + n))
        /\ m + (n + i) = (m + n) + i
    BY <1>1, <1>2, <1>4
  <2> QED
    BY <1>2, <1>3, <1>4, <2>1
<1> QED
  BY <1>3, <1>4, <1>5, <1>6, SeqEqual DEF t, u, v

\* Consuming bytes of the read block takes the first bytes of the content.
LEMMA ConsumeGood ==
    ASSUME NEW b, Good(b), NEW n \in 0..Readable(ReadBlock(b))
    PROVE  LET c == ConsumeInBlock(b, n)
           IN  /\ Good(c) /\ Content(c) = Dropped(Content(b), n)
               /\ c.read_block_ = b.read_block_ /\ c.write_block_ = b.write_block_
               /\ c.size_ = b.size_ - n /\ Len(c.blocks) = Len(b.blocks)
               /\ Readable(ReadBlock(c)) = Readable(ReadBlock(b)) - n
<1> DEFINE c == ConsumeInBlock(b, n)
           r == b.read_block_
           w == b.write_block_
           x == b.blocks[r]
           y == c.blocks[r]
           m == x.read_idx
<1>1. /\ c.read_block_ = r /\ c.write_block_ = w
      /\ c.size_ = b.size_ - n
      /\ c.blocks \in Seq(Block) /\ Len(c.blocks) = Len(b.blocks)
      /\ \A i \in 1..Len(b.blocks) : i # r => c.blocks[i] = b.blocks[i]
      /\ y = [data |-> x.data, read_idx |-> m + n]
      /\ c \in BufferType
  BY ConsumeFields
<1>2. /\ Chain(b) /\ b.size_ = Len(Content(b)) /\ BlockOK(x) /\ ReadBlock(b) = x
      /\ r \in 1..Len(b.blocks) /\ r \in Nat /\ w \in 1..Len(b.blocks) /\ r <= w
      /\ Len(b.blocks) \in Nat
  BY DEF Good, Chain, BufferType, ReadBlock
<1>3. /\ x.data \in Seq(Byte) /\ m \in 0..Len(x.data) /\ Len(x.data) \in Nat
      /\ ReadableBytes(x) = Dropped(x.data, m)
      /\ ReadableBytes(x) \in Seq(Byte)
      /\ Len(ReadableBytes(x)) = Readable(x) /\ Readable(x) = Len(x.data) - m
      /\ Len(x.data) <= kBlockSize
  BY <1>2, BlockFacts DEF Readable, BlockOK
<1>4. n \in Nat /\ m \in Nat /\ n \in 0..Readable(x) /\ m + n <= Len(x.data) /\ m + n \in Nat
  <2>1. n \in 0..Readable(x)
    BY <1>2
  <2> DEFINE l == Len(x.data)
             k == Readable(x)
  <2>2. l \in Nat /\ m \in 0..l /\ k = l - m /\ n \in 0..k
    BY <1>3, <2>1
  <2> HIDE DEF l, k, m
  <2>3. n \in Nat /\ m \in Nat /\ m + n <= l /\ m + n \in Nat
    BY ONLY <2>2
  <2> QED
    BY <2>1, <2>3 DEF l
<1>5. y.data = x.data /\ y.read_idx = m + n /\ y \in Block
  <2>1. \A u \in Seq(Byte), v \in Nat : [data |-> u, read_idx |-> v] \in Block
    BY DEF Block
  <2> HIDE DEF m, x, y, c
  <2> QED
    BY <1>1, <1>3, <1>4, <2>1
<1> HIDE DEF c, r, w, x, y, m
<1>6. BlockOK(y) /\ Readable(y) = Readable(x) - n
  BY <1>3, <1>4, <1>5 DEF BlockOK, Readable
<1>7. ReadableBytes(y) = Dropped(ReadableBytes(x), n)
  <2>1. ReadableBytes(y) = Dropped(x.data, m + n)
    BY <1>5, <1>6, BlockFacts
  <2> QED
    BY <1>3, <1>4, <2>1, DroppedTwice
<1>8. Chain(c)
  <2>1. ASSUME NEW i \in 1..Len(b.blocks)
        PROVE  /\ BlockOK(c.blocks[i])
               /\ i < r => Readable(c.blocks[i]) = 0
               /\ i > w => c.blocks[i] = EmptyBlock
    <3>1. CASE i = r
      BY <1>2, <1>6, <3>1 DEF y
    <3>2. CASE i # r
      BY <1>1, <1>2, <3>2 DEF Chain, r, w
    <3> QED
      BY <3>1, <3>2
  <2> QED
    BY <1>1, <1>2, <2>1 DEF Chain
<1> DEFINE p == PartsOf(b)
           q == PartsOf(c)
<1>9. /\ p \in Parts(Byte) /\ Len(p) = Len(b.blocks)
      /\ \A i \in 1..Len(b.blocks) :
            /\ i < r => p[i] = <<>>
            /\ i >= r => p[i] = ReadableBytes(b.blocks[i])
      /\ Content(b) = FlattenSeq(p) /\ Content(b) \in Seq(Byte)
  BY <1>2, PartsOfFacts DEF r
<1>10. /\ q \in Parts(Byte) /\ Len(q) = Len(b.blocks)
       /\ \A i \in 1..Len(b.blocks) :
             /\ i < r => q[i] = <<>>
             /\ i >= r => q[i] = ReadableBytes(c.blocks[i])
       /\ Content(c) = FlattenSeq(q)
  BY <1>1, <1>8, PartsOfFacts
<1> HIDE DEF p, q
<1>11. p[r] = ReadableBytes(x) /\ q[r] = ReadableBytes(y)
  <2>1. r >= r
    BY <1>2
  <2> QED
    BY <1>2, <1>9, <1>10, <2>1 DEF x, y
<1>12. DropsAt(p, q, r, n)
  <2>1. \A j \in 1..(r - 1) : p[j] = <<>> /\ q[j] = <<>>
    BY <1>2, <1>9, <1>10
  <2>2. n \in 0..Len(p[r]) /\ q[r] = Dropped(p[r], n)
    BY <1>3, <1>4, <1>7, <1>11
  <2>3. \A j \in (r + 1)..Len(p) : q[j] = p[j]
    <3> TAKE j \in (r + 1)..Len(p)
    <3>1. j \in 1..Len(b.blocks) /\ j # r /\ j >= r
      BY <1>2, <1>9
    <3> QED
      BY <1>1, <1>9, <1>10, <3>1
  <2> QED
    BY <1>9, <1>10, <2>1, <2>2, <2>3 DEF DropsAt
<1>13. n \in 0..Len(FlattenSeq(p)) /\ FlattenSeq(q) = Dropped(FlattenSeq(p), n)
  <2>1. r \in 1..Len(p)
    BY <1>2, <1>9
  <2> QED
    BY <1>9, <1>10, <1>12, <2>1, FlatDrop
<1>14. Len(Content(c)) = Len(Content(b)) - n
  BY <1>9, <1>10, <1>13, DroppedFacts
<1>15. Good(c)
  BY <1>1, <1>2, <1>8, <1>14 DEF Good
<1>16. ReadBlock(c) = y
  BY <1>1 DEF ReadBlock, y
<1> QED
  BY <1>1, <1>2, <1>6, <1>9, <1>10, <1>13, <1>15, <1>16 DEF c, r, w

\* A read block that is used up is left, and nothing has changed for the reader.
LEMMA LeaveGood ==
    ASSUME NEW b, Good(b), Readable(ReadBlock(b)) = 0, b.read_block_ < b.write_block_
    PROVE  LET c == [b EXCEPT !.read_block_ = @ + 1]
           IN  /\ Good(c) /\ Content(c) = Content(b)
               /\ c.read_block_ = b.read_block_ + 1 /\ c.write_block_ = b.write_block_
               /\ c.size_ = b.size_ /\ Len(c.blocks) = Len(b.blocks)
<1> DEFINE c == [b EXCEPT !.read_block_ = @ + 1]
           r == b.read_block_
           w == b.write_block_
<1>1. /\ Chain(b) /\ b.size_ = Len(Content(b)) /\ BlockOK(b.blocks[r])
      /\ ReadBlock(b) = b.blocks[r]
      /\ r \in 1..Len(b.blocks) /\ r \in Nat /\ w \in 1..Len(b.blocks) /\ r < w
      /\ Len(b.blocks) \in Nat /\ b \in BufferType
  BY DEF Good, Chain, BufferType, ReadBlock
<1>2. /\ c.read_block_ = r + 1 /\ c.write_block_ = w /\ c.blocks = b.blocks
      /\ c.size_ = b.size_ /\ c \in BufferType
  <2> DEFINE k == r + 1
  <2>1. k \in Nat /\ c = [b EXCEPT !.read_block_ = k]
    BY <1>1
  <2> HIDE DEF k, c
  <2>2. /\ c.read_block_ = k /\ c.write_block_ = w /\ c.blocks = b.blocks
        /\ c.size_ = b.size_ /\ c \in BufferType
    BY <1>1, <2>1 DEF BufferType
  <2> QED
    BY <2>2 DEF k
<1> HIDE DEF c, r, w
<1>3. Readable(b.blocks[r]) = 0 /\ ReadableBytes(b.blocks[r]) = <<>>
  BY <1>1, BlockFacts
<1>4. Chain(c)
  <2>1. ASSUME NEW i \in 1..Len(b.blocks)
        PROVE  /\ BlockOK(b.blocks[i])
               /\ i < r + 1 => Readable(b.blocks[i]) = 0
               /\ i > w => b.blocks[i] = EmptyBlock
    <3>1. i < r + 1 => i < r \/ i = r
      BY <1>1
    <3> QED
      BY <1>1, <1>3, <3>1 DEF Chain, r, w
  <2>2. r + 1 \in 1..Len(b.blocks) /\ r + 1 <= w
    BY <1>1
  <2> QED
    BY <1>1, <1>2, <2>1, <2>2 DEF Chain
<1> DEFINE p == PartsOf(b)
           q == PartsOf(c)
<1>5. /\ p \in Parts(Byte) /\ Len(p) = Len(b.blocks)
      /\ \A i \in 1..Len(b.blocks) :
            /\ i < r => p[i] = <<>>
            /\ i >= r => p[i] = ReadableBytes(b.blocks[i])
      /\ Content(b) = FlattenSeq(p)
  BY <1>1, PartsOfFacts DEF r
<1>6. /\ q \in Parts(Byte) /\ Len(q) = Len(b.blocks)
      /\ \A i \in 1..Len(b.blocks) :
            /\ i < r + 1 => q[i] = <<>>
            /\ i >= r + 1 => q[i] = ReadableBytes(b.blocks[i])
      /\ Content(c) = FlattenSeq(q)
  BY <1>2, <1>4, PartsOfFacts
<1> HIDE DEF p, q
<1>7. ASSUME NEW i \in 1..Len(b.blocks) PROVE q[i] = p[i]
  <2>1. CASE i < r
    <3>1. i < r + 1
      BY <1>1, <2>1
    <3> QED
      BY <1>5, <1>6, <2>1, <3>1
  <2>2. CASE i = r
    <3>1. i < r + 1 /\ i >= r
      BY <1>1, <2>2
    <3> QED
      BY <1>3, <1>5, <1>6, <2>2, <3>1
  <2>3. CASE i > r
    <3>1. i >= r + 1 /\ i >= r
      BY <1>1, <2>3
    <3> QED
      BY <1>5, <1>6, <3>1
  <2> QED
    BY <1>1, <2>1, <2>2, <2>3
<1>8. q = p
  <2>1. q \in Seq(Seq(Byte)) /\ p \in Seq(Seq(Byte))
    BY <1>5, <1>6 DEF Parts
  <2> QED
    BY <1>5, <1>6, <1>7, <2>1, SeqEqual
<1> QED
  BY <1>1, <1>2, <1>4, <1>5, <1>6, <1>8 DEF Good, c, r, w



-----------------------------------------------------------------------------
(* retrieve().                                                             *)

\* The loop's variables, when no more is asked for than there is.
Consuming == {st \in [b : BufferType, remaining : Nat] : Good(st.b) /\ st.remaining <= st.b.size_}

\* st is a state of the loop that is to take n bytes of b.
Taking(st, b, n) ==
    /\ st \in Consuming /\ st.remaining <= n
    /\ Content(st.b) = Dropped(Content(b), n - st.remaining)
    /\ st.b.write_block_ = b.write_block_ /\ Len(st.b.blocks) = Len(b.blocks)

\* What a turn of the loop takes is taken from the front; it takes all that is
\* asked for, or leaves the block.
LEMMA StepGood ==
    ASSUME NEW st \in Consuming
    PROVE  LET t == ConsumeStep(st)
               k == st.remaining - t.remaining
           IN  /\ t \in Consuming /\ k \in 0..st.remaining
               /\ Content(t.b) = Dropped(Content(st.b), k)
               /\ t.b.write_block_ = st.b.write_block_ /\ Len(t.b.blocks) = Len(st.b.blocks)
               /\ \/ t.remaining = 0
                  \/ t.b.read_block_ = t.b.write_block_
                  \/ t.b.read_block_ = st.b.read_block_ + 1
<1> DEFINE b == st.b
           m == st.remaining
           rd == Readable(ReadBlock(b))
           n == Smaller(m, rd)
           a == ConsumeInBlock(b, n)
           c == [a EXCEPT !.read_block_ = @ + 1]
           d == IF Readable(ReadBlock(a)) = 0 THEN c ELSE a
           t == ConsumeStep(st)
<1>1. /\ Good(b) /\ m \in Nat /\ m <= b.size_ /\ b \in BufferType
      /\ st \in [b : BufferType, remaining : Nat]
  BY DEF Consuming
<1>2. rd \in Nat /\ rd <= b.size_ /\ b.size_ \in Nat /\ Content(b) \in Seq(Byte)
  BY <1>1, ReadBlockFacts, PartsOfFacts DEF Good
<1>3. /\ b.read_block_ \in Nat /\ b.write_block_ \in Nat /\ b.read_block_ <= b.write_block_
  BY <1>1 DEF Good, Chain, BufferType
<1>4. CASE m = 0 \/ b.read_block_ = b.write_block_
  <2>1. t = st
    BY <1>4 DEF ConsumeStep
  <2>2. m - m = 0 /\ 0 \in 0..m
    BY <1>1
  <2>3. Dropped(Content(b), 0) = Content(b)
    BY <1>2 DEF Dropped
  <2> HIDE DEF t
  <2> QED
    BY <1>4, <2>1, <2>2, <2>3 DEF t
<1>5. CASE ~(m = 0 \/ b.read_block_ = b.write_block_)
  <2>1. t = [b |-> d, remaining |-> m - n]
    BY <1>5 DEF ConsumeStep
  <2> HIDE DEF b, m, rd, t
  <2>2. n \in 0..rd /\ n \in 0..m /\ (n = m \/ n = rd) /\ n \in Nat /\ m - n \in 0..m
    BY <1>1, <1>2 DEF Smaller
  <2> HIDE DEF n
  <2>3. n \in 0..Readable(ReadBlock(b))
    BY <2>2 DEF rd
  <2>4. /\ Good(a) /\ Content(a) = Dropped(Content(b), n)
        /\ a.read_block_ = b.read_block_ /\ a.write_block_ = b.write_block_
        /\ a.size_ = b.size_ - n /\ Len(a.blocks) = Len(b.blocks)
        /\ Readable(ReadBlock(a)) = rd - n
    BY <1>1, <2>3, ConsumeGood DEF rd
  <2> HIDE DEF a
  <2>5. a.read_block_ < a.write_block_
    BY <1>3, <1>5, <2>4
  <2>6. /\ Good(d) /\ Content(d) = Dropped(Content(b), n)
        /\ d.write_block_ = b.write_block_
        /\ d.size_ = b.size_ - n /\ Len(d.blocks) = Len(b.blocks)
        /\ Readable(ReadBlock(a)) = 0 => d.read_block_ = b.read_block_ + 1
    <3>1. CASE Readable(ReadBlock(a)) = 0
      <4>1. /\ Good(c) /\ Content(c) = Content(a)
            /\ c.read_block_ = a.read_block_ + 1 /\ c.write_block_ = a.write_block_
            /\ c.size_ = a.size_ /\ Len(c.blocks) = Len(a.blocks)
        BY <2>4, <2>5, <3>1, LeaveGood
      <4>2. d = c
        BY <3>1
      <4> HIDE DEF c, d
      <4> QED
        BY <2>4, <4>1, <4>2
    <3>2. CASE Readable(ReadBlock(a)) # 0
      <4>1. d = a
        BY <3>2
      <4> HIDE DEF c, d
      <4> QED
        BY <2>4, <3>2, <4>1
    <3> QED
      BY <3>1, <3>2
  <2> HIDE DEF d
  <2>7. t.b = d /\ t.remaining = m - n
    BY <2>1
  <2>8. t \in Consuming
    <3>1. d \in BufferType
      BY <2>6 DEF Good, Chain
    <3>2. m - n <= d.size_ /\ m - n \in Nat
      BY <1>1, <1>2, <2>2, <2>6
    <3>3. t \in [b : BufferType, remaining : Nat]
      BY <2>1, <3>1, <3>2
    <3> QED
      BY <2>6, <2>7, <3>2, <3>3 DEF Consuming
  <2>9. m - t.remaining = n
    BY <1>1, <2>2, <2>7
  <2>10. t.remaining = 0 \/ t.b.read_block_ = b.read_block_ + 1
    <3>1. CASE n = m
      BY <1>1, <2>7, <3>1
    <3>2. CASE n = rd
      <4>1. rd - n = 0
        BY <1>2, <3>2
      <4> QED
        BY <2>4, <2>6, <2>7, <4>1
    <3> QED
      BY <2>2, <3>1, <3>2
  <2> QED
    BY <2>2, <2>6, <2>7, <2>8, <2>9, <2>10 DEF b, m, t
<1> QED
  BY <1>4, <1>5

\* A turn goes on taking what is to be taken.
LEMMA StepTakes ==
    ASSUME NEW b, Good(b), NEW n \in 0..b.size_, NEW st, Taking(st, b, n)
    PROVE  Taking(ConsumeStep(st), b, n)
<1> DEFINE t == ConsumeStep(st)
           k == st.remaining - t.remaining
           s == Content(b)
           m == n - st.remaining
<1>1. st \in Consuming /\ st.remaining <= n /\ st.remaining \in Nat
      /\ Content(st.b) = Dropped(s, m)
      /\ st.b.write_block_ = b.write_block_ /\ Len(st.b.blocks) = Len(b.blocks)
  BY DEF Taking, Consuming
<1>2. /\ t \in Consuming /\ k \in 0..st.remaining
      /\ Content(t.b) = Dropped(Content(st.b), k)
      /\ t.b.write_block_ = st.b.write_block_ /\ Len(t.b.blocks) = Len(st.b.blocks)
  BY <1>1, StepGood
<1>3. s \in Seq(Byte) /\ Len(s) = b.size_ /\ Len(s) \in Nat
  BY PartsOfFacts DEF Good
<1>4. t.remaining \in Nat
  BY <1>2 DEF Consuming
<1> HIDE DEF t, s
<1>5. m \in Nat /\ k \in Nat /\ m + k <= Len(s) /\ m + k = n - t.remaining /\ t.remaining <= n
  <2>1. \A a, u, v, z \in Nat :
           u <= a /\ a <= z /\ u - v \in 0..u
           => /\ a - u \in Nat /\ u - v \in Nat /\ (a - u) + (u - v) <= z
              /\ (a - u) + (u - v) = a - v /\ v <= a
    OBVIOUS
  <2>2. n \in Nat /\ n <= Len(s) /\ Len(s) \in Nat
    BY ONLY <1>3, n \in 0..b.size_
  <2>3. st.remaining \in Nat /\ st.remaining <= n /\ t.remaining \in Nat
        /\ st.remaining - t.remaining \in 0..st.remaining
    BY <1>1, <1>2, <1>4
  <2> DEFINE u == st.remaining
             v == t.remaining
             z == Len(s)
  <2> HIDE DEF u, v, z
  <2>4. n - u \in Nat /\ u - v \in Nat /\ (n - u) + (u - v) <= z
        /\ (n - u) + (u - v) = n - v /\ v <= n
    <3>1. n \in Nat /\ n <= z /\ z \in Nat /\ u \in Nat /\ u <= n /\ v \in Nat
          /\ u - v \in 0..u
      BY <2>2, <2>3 DEF u, v, z
    <3> QED
      BY ONLY <2>1, <3>1
  <2> QED
    BY ONLY <2>4 DEF u, v, z, m, k
<1> HIDE DEF m, k
<1>6. Content(t.b) = Dropped(s, n - t.remaining)
  BY <1>1, <1>2, <1>3, <1>5, DroppedTwice
<1> QED
  BY <1>1, <1>2, <1>5, <1>6 DEF Taking, t, s

\* u[k] is the state of the loop after k turns.
IsLoop(u, b, n, most) ==
    /\ u \in [0..most -> Consuming]
    /\ u[0] = [b |-> b, remaining |-> n]
    /\ \A k \in 1..most : u[k] = ConsumeStep(u[k - 1])

\* retrieve()'s loop runs through chains in order.
LEMMA LoopExists ==
    ASSUME NEW b \in GoodBuffers, NEW n \in 0..b.size_
    PROVE  LET most == b.write_block_ - b.read_block_ + 1
           IN  \E u : /\ IsLoop(u, b, n, most)
                      /\ Consume(b, n)
                            = ConsumeInBlock(u[most].b,
                                 Smaller(u[most].remaining, Readable(ReadBlock(u[most].b))))
<1> DEFINE N == b.write_block_ - b.read_block_ + 1
           st0 == [b |-> b, remaining |-> n]
           step == [k \in 1..N |-> [x \in Consuming |-> ConsumeStep(x)]]
           w == CHOOSE f : f = [k \in 0..N |-> IF k = 0 THEN st0 ELSE ConsumeStep(f[k - 1])]
<1>1. N \in Nat /\ b \in BufferType /\ Good(b) /\ n \in Nat /\ n <= b.size_
  BY DEF GoodBuffers, Good, Chain, BufferType
<1>2. st0 \in Consuming
  BY <1>1 DEF Consuming
<1>3. Consume(b, n) = ConsumeInBlock(w[N].b, Smaller(w[N].remaining, Readable(ReadBlock(w[N].b))))
  BY DEF Consume, ConsumeLoop
<1> HIDE DEF N, st0
<1>4. \A x \in Consuming : ConsumeStep(x) \in Consuming
  BY StepGood
<1>5. step \in [1..N -> [Consuming -> Consuming]]
  BY <1>4
<1>6. PICK g : IsRecursion(g, N, Consuming, st0, step)
  <2> HIDE DEF step
  <2> QED
    BY <1>1, <1>2, <1>5, RecursionExists
<1>7. g = [k \in 0..N |-> IF k = 0 THEN st0 ELSE ConsumeStep(g[k - 1])]
  <2>1. /\ g \in [0..N -> Consuming] /\ g[0] = st0
        /\ \A k \in 1..N : g[k] = step[k][g[k - 1]]
    BY <1>6 DEF IsRecursion
  <2>2. \A k \in 1..N : k - 1 \in 0..N /\ g[k - 1] \in Consuming
    BY <1>1, <2>1
  <2>3. \A k \in 1..N : g[k] = ConsumeStep(g[k - 1])
    BY <2>1, <2>2
  <2>4. \A k \in 0..N : g[k] = IF k = 0 THEN st0 ELSE ConsumeStep(g[k - 1])
    <3> TAKE k \in 0..N
    <3>1. k = 0 \/ k \in 1..N
      BY <1>1
    <3> QED
      BY <2>1, <2>3, <3>1
  <2> QED
    BY <2>1, <2>4
<1>8. w = [k \in 0..N |-> IF k = 0 THEN st0 ELSE ConsumeStep(w[k - 1])]
  BY <1>7
<1> HIDE DEF w
<1>9. w[0] = st0 /\ \A k \in 1..N : w[k] = ConsumeStep(w[k - 1])
  BY <1>1, <1>8
<1>10. \A k \in 0..N : w[k] \in Consuming
  BY <1>1, <1>2, <1>4, <1>9, LoopInvariant
<1>11. w \in [0..N -> Consuming]
  BY <1>8, <1>10
<1> QED
  BY <1>3, <1>9, <1>11 DEF IsLoop, N, st0


\* The loop ends before its turns do: with nothing left to take, or in the write block.
LEMMA LoopEnds ==
    ASSUME NEW b, Good(b), NEW n \in 0..b.size_, NEW u,
           IsLoop(u, b, n, b.write_block_ - b.read_block_ + 1)
    PROVE  LET last == u[b.write_block_ - b.read_block_ + 1]
           IN  /\ Taking(last, b, n)
               /\ last.remaining = 0 \/ last.b.read_block_ = last.b.write_block_
<1> DEFINE r == b.read_block_
           w == b.write_block_
           N == w - r + 1
           X == {st \in Consuming : Taking(st, b, n)}
           Far(k) == \/ u[k].remaining = 0
                     \/ u[k].b.read_block_ = w
                     \/ u[k].b.read_block_ >= r + k
           T == {k \in Nat : k <= N => Far(k)}
<1>1. r \in Nat /\ w \in Nat /\ r <= w /\ N \in Nat /\ b \in BufferType /\ n \in Nat
  BY DEF Good, Chain, BufferType
<1>2. /\ u \in [0..N -> Consuming] /\ u[0] = [b |-> b, remaining |-> n]
      /\ \A k \in 1..N : u[k] = ConsumeStep(u[k - 1])
  BY DEF IsLoop
<1> HIDE DEF r, w, N
<1>3. \A k \in 0..N : Taking(u[k], b, n)
  <2>1. u[0] \in X
    <3>1. Content(b) \in Seq(Byte)
      BY PartsOfFacts DEF Good
    <3>2. n - n = 0 /\ Dropped(Content(b), 0) = Content(b)
      BY <1>1, <3>1 DEF Dropped
    <3>3. u[0] \in Consuming /\ u[0].b = b /\ u[0].remaining = n /\ n <= n
      BY <1>1, <1>2
    <3> QED
      BY <3>2, <3>3 DEF Taking
  <2>2. \A i \in 1..N : u[i - 1] \in X => u[i] \in X
    <3> TAKE i \in 1..N
    <3>1. ASSUME Taking(u[i - 1], b, n) PROVE Taking(u[i], b, n)
      BY <1>2, <3>1, StepTakes
    <3>2. \A st : Taking(st, b, n) => st \in Consuming
      BY DEF Taking
    <3> QED
      BY <3>1, <3>2
  <2>3. \A k \in 0..N : u[k] \in X
    <3> HIDE DEF X
    <3> QED
      BY <1>1, <2>1, <2>2, LoopInvariant
  <2> QED
    BY <2>3
<1>4. \A k \in 0..N : /\ u[k] \in Consuming /\ u[k].remaining \in Nat
                      /\ u[k].b.read_block_ \in Nat /\ u[k].b.write_block_ = w
                      /\ u[k].b.read_block_ <= w
  <2> TAKE k \in 0..N
  <2>1. u[k] \in Consuming /\ u[k].b.write_block_ = w
    BY <1>3 DEF Taking, w
  <2> QED
    BY <2>1 DEF Consuming, Good, Chain, BufferType
<1>5. 0 \in T
  <2>1. u[0].b.read_block_ = r
    BY <1>2 DEF r
  <2> QED
    BY <1>1, <2>1
<1>6. ASSUME NEW k \in Nat, k \in T PROVE k + 1 \in T
  <2>1. SUFFICES ASSUME k + 1 <= N PROVE Far(k + 1)
    OBVIOUS
  <2> DEFINE st == u[k]
             t == u[k + 1]
  <2>2. k \in 0..N /\ k + 1 \in 0..N /\ k + 1 \in 1..N /\ (k + 1) - 1 = k /\ Far(k)
    BY <1>1, <1>6, <2>1
  <2>3. t = ConsumeStep(st) /\ st \in Consuming
    BY <1>2, <1>4, <2>2
  <2>4. /\ st.remaining - t.remaining \in 0..st.remaining
        /\ \/ t.remaining = 0
           \/ t.b.read_block_ = t.b.write_block_
           \/ t.b.read_block_ = st.b.read_block_ + 1
    BY <2>3, StepGood
  <2>5. /\ st.remaining \in Nat /\ st.b.read_block_ \in Nat
        /\ t.remaining \in Nat /\ t.b.read_block_ \in Nat
        /\ t.b.write_block_ = w /\ t.b.read_block_ <= w
    BY <1>4, <2>2
  <2>6. st.remaining = 0 \/ st.b.read_block_ = w \/ st.b.read_block_ >= r + k
    BY <2>2
  <2> HIDE DEF st, t
  <2>7. t.remaining = 0 \/ t.b.read_block_ = w \/ t.b.read_block_ >= r + (k + 1)
    BY <1>1, <2>4, <2>5, <2>6
  <2> QED
    BY <2>7 DEF t
<1>7. Far(N)
  <2>1. Nat \subseteq T
    <3> HIDE DEF T
    <3> QED
      BY <1>5, <1>6, SetInduction
  <2> QED
    BY <1>1, <2>1
<1>8. u[N].remaining = 0 \/ u[N].b.read_block_ = u[N].b.write_block_
  <2>1. N \in 0..N /\ r + N = w + 1
    BY <1>1 DEF N
  <2> QED
    BY <1>1, <1>4, <1>7, <2>1
<1> QED
  BY <1>1, <1>3, <1>8 DEF N, r, w

\* The loop and what follows it take the first n bytes, no more and no fewer.
LEMMA ConsumeAll ==
    ASSUME NEW b \in GoodBuffers, NEW n \in 0..b.size_
    PROVE  LET c == Consume(b, n)
           IN  /\ c \in GoodBuffers /\ Content(c) = Dropped(Content(b), n)
               /\ Len(c.blocks) = Len(b.blocks)
<1> DEFINE N == b.write_block_ - b.read_block_ + 1
<1>1. Good(b) /\ b.size_ = Len(Content(b)) /\ Content(b) \in Seq(Byte) /\ n \in Nat
  BY PartsOfFacts DEF GoodBuffers, Good
<1>2. PICK u : /\ IsLoop(u, b, n, N)
               /\ Consume(b, n) = ConsumeInBlock(u[N].b,
                                     Smaller(u[N].remaining, Readable(ReadBlock(u[N].b))))
  BY LoopExists
<1> DEFINE a == u[N].b
           m == u[N].remaining
           rd == Readable(ReadBlock(a))
           c == ConsumeInBlock(a, m)
<1>3. /\ Taking(u[N], b, n)
      /\ m = 0 \/ a.read_block_ = a.write_block_
  BY <1>1, <1>2, LoopEnds
<1>4. /\ Good(a) /\ m \in Nat /\ m <= n /\ m <= a.size_
      /\ Content(a) = Dropped(Content(b), n - m) /\ Len(a.blocks) = Len(b.blocks)
  BY <1>3 DEF Taking, Consuming
<1> HIDE DEF a, m
<1>5. rd \in Nat /\ (a.read_block_ = a.write_block_ => rd = a.size_) /\ a.size_ \in Nat
  BY <1>4, ReadBlockFacts
<1>6. Smaller(m, rd) = m /\ m \in 0..rd
  BY <1>3, <1>4, <1>5 DEF Smaller
<1>7. Consume(b, n) = c
  BY <1>2, <1>6 DEF a, m
<1>8. Good(c) /\ Content(c) = Dropped(Content(a), m) /\ Len(c.blocks) = Len(a.blocks)
  BY <1>4, <1>6, ConsumeGood
<1>9. Dropped(Dropped(Content(b), n - m), m) = Dropped(Content(b), n)
  <2> DEFINE j == n - m
             s == Content(b)
  <2>1. j \in Nat /\ j + m = n /\ s \in Seq(Byte) /\ n <= Len(s)
    BY <1>1, <1>4
  <2> HIDE DEF j, s
  <2> QED
    BY <1>4, <2>1, DroppedTwice DEF j, s
<1> HIDE DEF c, N
<1>10. c \in GoodBuffers
  BY <1>8 DEF GoodBuffers, Good, Chain
<1> QED
  BY <1>4, <1>7, <1>8, <1>9, <1>10

\* An empty chain of the length it had.
LEMMA ResetGood ==
    ASSUME NEW b, Good(b)
    PROVE  LET c == ResetAll(b)
           IN  /\ c \in GoodBuffers /\ Content(c) = <<>> /\ c.size_ = 0
               /\ c.write_block_ = 1 /\ WriteBlock(c) = EmptyBlock
               /\ Len(c.blocks) = Len(b.blocks)
<1> DEFINE c == ResetAll(b)
           z == [i \in DOMAIN b.blocks |-> EmptyBlock]
           L == Len(b.blocks)
<1>1. /\ b \in BufferType /\ b.blocks \in Seq(Block) /\ L \in Nat /\ DOMAIN b.blocks = 1..L
      /\ b.read_block_ \in 1..L
  BY DEF Good, Chain, BufferType
<1>2. EmptyBlock \in Block
  BY EmptyFacts DEF BlockOK
<1>3. z \in Seq(Block) /\ Len(z) = L /\ \A i \in 1..L : z[i] = EmptyBlock
  BY <1>1, <1>2
<1>4. c = [b EXCEPT !.blocks = z, !.read_block_ = 1, !.write_block_ = 1, !.size_ = 0]
  BY DEF ResetAll
<1> HIDE DEF c, z
<1>5. /\ c.blocks = z /\ c.read_block_ = 1 /\ c.write_block_ = 1 /\ c.size_ = 0
      /\ c \in BufferType
  BY <1>1, <1>3, <1>4 DEF BufferType
<1> HIDE DEF L
<1>6. 1 \in 1..L
  BY <1>1
<1>7. Chain(c)
  <2>1. \A i \in 1..L : /\ BlockOK(z[i]) /\ (i < 1 => Readable(z[i]) = 0)
                        /\ (i > 1 => z[i] = EmptyBlock)
    BY <1>3, EmptyFacts
  <2> QED
    BY <1>3, <1>5, <1>6, <2>1 DEF Chain
<1>8. Content(c) = <<>>
  <2> DEFINE p == PartsOf(c)
             k == 1
  <2>1. /\ p \in Parts(Byte) /\ Len(p) = L /\ Content(c) = FlattenSeq(p)
        /\ \A i \in 1..L : i >= 1 => p[i] = ReadableBytes(z[i])
    BY <1>3, <1>5, <1>7, PartsOfFacts
  <2>2. \A i \in 1..L : p[i] = <<>>
    <3>1. \A i \in 1..L : i >= 1
      BY <1>1
    <3> HIDE DEF p
    <3> QED
      BY <1>3, <2>1, <3>1, EmptyFacts
  <2> HIDE DEF p
  <2>3. k \in 1..Len(p) /\ \A j \in 1..Len(p) : j # k => p[j] = <<>>
    BY <1>6, <2>1, <2>2
  <2>4. FlattenSeq(p) = p[k]
    <3> HIDE DEF k
    <3> QED
      BY <2>1, <2>3, FlatOne
  <2> QED
    BY <1>6, <2>1, <2>2, <2>4
<1>9. Len(<<>>) = 0
  OBVIOUS
<1>10. c \in GoodBuffers
  BY <1>5, <1>7, <1>8, <1>9 DEF GoodBuffers, Good
<1>11. WriteBlock(c) = EmptyBlock
  BY <1>3, <1>5, <1>6 DEF WriteBlock
<1> QED
  BY <1>3, <1>5, <1>8, <1>10, <1>11 DEF c, L


\* A chain holds no more than its blocks do.
LEMMA SizeBound ==
    ASSUME NEW b, Good(b)
    PROVE  b.size_ <= kBlockSize * Len(b.blocks) /\ Content(b) \in Seq(Byte)
<1> DEFINE p == PartsOf(b)
           L == Len(b.blocks)
           r == b.read_block_
<1>1. Chain(b) /\ r \in Nat /\ L \in Nat /\ b.size_ = Len(Content(b)) /\ kBlockSize \in Nat
  BY DEF Good, Chain, BufferType
<1>2. /\ p \in Parts(Byte) /\ p # <<>> /\ Len(p) = L
      /\ \A i \in 1..L : /\ i < r => p[i] = <<>>
                         /\ i >= r => p[i] = ReadableBytes(b.blocks[i])
      /\ Content(b) = FlattenSeq(p) /\ Content(b) \in Seq(Byte)
  BY <1>1, PartsOfFacts
<1> HIDE DEF p
<1>3. ASSUME NEW j \in 1..L PROVE Len(p[j]) <= kBlockSize
  <2>1. BlockOK(b.blocks[j])
    BY <1>1 DEF Chain
  <2>2. Len(ReadableBytes(b.blocks[j])) \in 0..kBlockSize
    BY <2>1, BlockFacts
  <2>3. CASE j < r
    <3>1. Len(<<>>) <= kBlockSize
      BY <1>1
    <3> QED
      BY <1>2, <2>3, <3>1
  <2>4. CASE j >= r
    <3>1. \A k \in 0..kBlockSize : k <= kBlockSize
      BY <1>1
    <3> QED
      BY <1>2, <2>2, <2>4, <3>1
  <2> QED
    BY <1>1, <2>3, <2>4
<1> HIDE DEF L, r
<1>4. Len(FlattenSeq(p)) <= kBlockSize * Len(p)
  BY <1>2, <1>3, FlatBound
<1> QED
  BY <1>1, <1>2, <1>4 DEF L

\* Compaction moves the bytes, changes none and needs no further block.
LEMMA CompactGood ==
    ASSUME NEW b \in GoodBuffers
    PROVE  /\ Compact(b) \in GoodBuffers /\ Content(Compact(b)) = Content(b)
           /\ Len(Compact(b).blocks) = Len(b.blocks)
<1>1. CASE ~(b.read_block_ # 1 /\ b.size_ > 0)
  BY <1>1 DEF Compact
<1>2. CASE b.read_block_ # 1 /\ b.size_ > 0
  <2> DEFINE c == ResetAll(b)
             s == Content(b)
  <2>1. Good(b) /\ b.size_ = Len(s) /\ s \in Seq(Byte) /\ Len(s) \in Nat
        /\ Len(s) <= kBlockSize * Len(b.blocks)
    BY SizeBound DEF GoodBuffers, Good
  <2>2. ReadN(b, b.size_) = s
    <3>1. \A t \in Seq(Byte) : SubSeq(t, 1, Len(t)) = t
      OBVIOUS
    <3>2. ~(b.size_ > b.size_)
      BY <2>1
    <3> QED
      BY <2>1, <3>1, <3>2 DEF ReadN
  <2>3. Compact(b) = AppendTo(c, s)
    BY <1>2, <2>2 DEF Compact
  <2>4. /\ c \in GoodBuffers /\ Content(c) = <<>>
        /\ c.write_block_ = 1 /\ WriteBlock(c) = EmptyBlock
        /\ Len(c.blocks) = Len(b.blocks)
    BY <2>1, ResetGood
  <2> HIDE DEF c, s
  <2>5. /\ AppendTo(c, s) \in GoodBuffers
        /\ Content(AppendTo(c, s)) = Content(c) \o s
        /\ Len(AppendTo(c, s).blocks) = Len(c.blocks)
    BY <2>1, <2>4, AppendGood
  <2>6. <<>> \o s = s
    BY <2>1, ConcatEmptySeq
  <2> QED
    BY <2>3, <2>4, <2>5, <2>6 DEF s
<1> QED
  BY <1>1, <1>2

\* retrieve() takes the first n bytes, or all there are.
LEMMA RetrieveGood ==
    ASSUME NEW b \in GoodBuffers, NEW n \in Nat
    PROVE  LET c == RetrieveFrom(b, n)
           IN  /\ c \in GoodBuffers
               /\ Content(c) = SubSeq(Content(b), n + 1, Len(Content(b)))
               /\ Len(c.blocks) = Len(b.blocks)
<1> DEFINE s == Content(b)
           m == Smaller(n, b.size_)
           d == Consume(b, m)
<1>1. b.size_ = Len(s) /\ s \in Seq(Byte) /\ Len(s) \in Nat
  BY SizeBound DEF GoodBuffers, Good
<1>2. CASE n = 0
  <2>1. SubSeq(s, 0 + 1, Len(s)) = s
    BY <1>1
  <2> QED
    BY <1>2, <2>1 DEF RetrieveFrom
<1>3. CASE n # 0
  <2>1. m \in 0..b.size_
    BY <1>1 DEF Smaller
  <2>2. RetrieveFrom(b, n) = Compact(d)
    BY <1>3 DEF RetrieveFrom
  <2> HIDE DEF m, s
  <2>3. d \in GoodBuffers /\ Content(d) = Dropped(s, m) /\ Len(d.blocks) = Len(b.blocks)
    BY <2>1, ConsumeAll DEF s
  <2> HIDE DEF d
  <2>4. /\ Compact(d) \in GoodBuffers /\ Content(Compact(d)) = Content(d)
        /\ Len(Compact(d).blocks) = Len(d.blocks)
    BY <2>3, CompactGood
  <2>5. Dropped(s, m) = SubSeq(s, n + 1, Len(s))
    <3>1. CASE n <= Len(s)
      <4>1. m = n
        BY <1>1, <3>1 DEF m, Smaller
      <4> QED
        BY <4>1 DEF Dropped
    <3>2. CASE ~(n <= Len(s))
      <4>1. m = Len(s)
        BY <1>1, <3>2 DEF m, Smaller
      <4>2. Dropped(s, Len(s)) = <<>>
        BY <1>1 DEF Dropped
      <4>3. SubSeq(s, n + 1, Len(s)) = <<>>
        BY <1>1, <3>2
      <4> QED
        BY <4>1, <4>2, <4>3
    <3> QED
      BY <3>1, <3>2
  <2> QED
    BY <2>2, <2>3, <2>4, <2>5 DEF s
<1> QED
  BY <1>2, <1>3

\* begin_write(), a read that fits into the space, has_written().
LEMMA ReadSocketGood ==
    ASSUME NEW b \in GoodBuffers, NEW s \in Seq(Byte),
           Len(s) <= Writable(WriteBlock(BeginWrite(b)))
    PROVE  LET c == HasWritten(BeginWrite(b), s)
           IN  c \in GoodBuffers /\ Content(c) = Content(b) \o s
<1> DEFINE d == BeginWrite(b)
           k == Writable(WriteBlock(d))
<1>1. Good(d) /\ Content(d) = Content(b) /\ k \in 1..kBlockSize
  BY BeginGood DEF GoodBuffers
<1>2. Len(s) \in Nat /\ Len(s) <= k /\ k \in Nat
  BY <1>1
<1> HIDE DEF d
<1>3. HasWritten(d, s) = CopyIn(d, s)
  <2>1. Smaller(Len(s), k) = Len(s)
    BY <1>2 DEF Smaller
  <2>2. SubSeq(s, 1, Len(s)) = s
    OBVIOUS
  <2> QED
    BY <2>1, <2>2 DEF HasWritten
<1>4. Good(CopyIn(d, s)) /\ Content(CopyIn(d, s)) = Content(d) \o s
  BY <1>1, <1>2, CopyInGood
<1> QED
  BY <1>1, <1>3, <1>4 DEF GoodBuffers, Good, Chain, d

\* ensure_writable() changes no byte.
LEMMA EnsureGood ==
    ASSUME NEW b \in GoodBuffers, NEW len
    PROVE  LET c == EnsureWritable(b, len)
           IN  c \in GoodBuffers /\ Content(c) = Content(b)
<1>1. Good(b) /\ Good(NextWriteBlock(b)) /\ Content(NextWriteBlock(b)) = Content(b)
  BY NextGood DEF GoodBuffers
<1>2. NextWriteBlock(b) \in GoodBuffers
  BY <1>1 DEF GoodBuffers, Good, Chain
<1> QED
  BY <1>1, <1>2 DEF EnsureWritable



-----------------------------------------------------------------------------
(* The object through any sequence of calls.                               *)

\* What peek() shows is the front of the content, and all of it in a chain of
\* one block.
LEMMA PeekGood ==
    ASSUME NEW b \in GoodBuffers
    PROVE  /\ Peek(b) \in Seq(Byte)
           /\ \E x \in Seq(Byte) : Content(b) = Peek(b) \o x
           /\ Len(b.blocks) = 1 => Content(b) = Peek(b)
<1> DEFINE p == PartsOf(b)
           r == b.read_block_
           f == Content(b)
           d == ReadableBytes(b.blocks[r])
<1>1. /\ Chain(b) /\ b.size_ = Len(f) /\ r \in 1..Len(b.blocks) /\ Len(b.blocks) \in Nat
      /\ b.write_block_ \in 1..Len(b.blocks) /\ BlockOK(b.blocks[r]) /\ r \in Nat
  BY DEF GoodBuffers, Good, Chain, BufferType
<1>2. /\ p \in Parts(Byte) /\ p # <<>> /\ Len(p) = Len(b.blocks)
      /\ \A i \in 1..Len(b.blocks) :
            /\ i < r => p[i] = <<>>
            /\ i >= r => p[i] = ReadableBytes(b.blocks[i])
      /\ f = FlattenSeq(p) /\ f \in Seq(Byte)
  BY <1>1, PartsOfFacts
<1>3. r \in 1..Len(p) /\ r - 1 \in Nat /\ 0 <= r - 1 /\ r - 1 <= Len(p) /\ r \in 0..Len(p)
      /\ Len(p) \in 0..Len(p) /\ Len(p) \in Nat /\ r >= r
  BY <1>1, <1>2
<1>4. d \in Seq(Byte) /\ p[r] = d
  BY <1>1, <1>2, <1>3, BlockFacts
<1>5. Peek(b) = IF b.size_ = 0 THEN <<>> ELSE d
  BY DEF Peek, ReadBlock
<1> HIDE DEF p, f, d, r
<1>6. PICK c : IsFlat(c, p, Byte) /\ FlattenSeq(p) = c[Len(p)]
  BY <1>2, FlatExists
<1>7. c[r] = d
  <2>1. \A i, l \in Nat : /\ i <= l /\ l <= Len(p)
                          /\ \A j \in (i + 1)..l : p[j] = <<>>
                          => c[l] = c[i]
    BY <1>2, <1>6, FlatRest, SMTT(30)
  <2>2. \A j \in (0 + 1)..(r - 1) : p[j] = <<>>
    BY <1>1, <1>2
  <2>3. c[r - 1] = <<>>
    BY <1>3, <1>6, <2>1, <2>2 DEF IsFlat
  <2>4. c[r] = c[r - 1] \o p[r]
    BY <1>3, <1>6 DEF IsFlat
  <2> QED
    BY <1>4, <2>3, <2>4, ConcatEmptySeq
<1>8. /\ Len(d) \in Nat /\ Len(d) <= Len(f) /\ \A i \in 1..Len(d) : f[i] = d[i]
  BY <1>2, <1>3, <1>6, <1>7, FlatBegins
<1>9. \E x \in Seq(Byte) : f = d \o x
  <2> DEFINE x == Dropped(f, Len(d))
  <2>1. Len(f) \in Nat /\ Len(d) \in 0..Len(f)
    BY <1>2, <1>8
  <2>2. x \in Seq(Byte) /\ f = SubSeq(f, 1, Len(d)) \o x
    <3>1. x \in Seq(Byte)
      BY <1>2, <2>1, DroppedFacts
    <3> DEFINE k == Len(d)
               n == Len(f)
    <3>2. 1 \in 1..(n + 1) /\ k \in (1 - 1)..n /\ n \in k..n
      BY <2>1
    <3> HIDE DEF k, n
    <3>3. SubSeq(f, 1, k) \o SubSeq(f, k + 1, n) = SubSeq(f, 1, n)
      BY <1>2, <3>2, ConcatAdjacentSubSeq DEF n
    <3>4. SubSeq(f, 1, n) = f
      BY <1>2 DEF n
    <3> QED
      BY <3>1, <3>3, <3>4 DEF Dropped, k, n
  <2>3. SubSeq(f, 1, Len(d)) = d
    <3>1. /\ SubSeq(f, 1, Len(d)) \in Seq(Byte) /\ Len(SubSeq(f, 1, Len(d))) = Len(d)
          /\ \A i \in 1..Len(d) : SubSeq(f, 1, Len(d))[i] = f[i]
      BY <1>2, <2>1, SubSeqProperties
    <3>2. \A i \in 1..Len(d) : SubSeq(f, 1, Len(d))[i] = d[i]
      BY <1>8, <3>1
    <3> QED
      BY <1>4, <3>1, <3>2, SeqEqual
  <2> HIDE DEF x
  <2> QED
    BY <2>2, <2>3
<1>10. ASSUME Len(b.blocks) = 1 PROVE f = d
  <2>1. r = Len(p)
    BY <1>2, <1>3, <1>10
  <2> QED
    BY <1>2, <1>6, <1>7, <2>1
<1>11. CASE b.size_ = 0
  <2>1. f = <<>>
    BY <1>1, <1>2, <1>11
  <2>2. <<>> \in Seq(Byte) /\ <<>> = <<>> \o <<>>
    OBVIOUS
  <2> QED
    BY <1>5, <1>11, <2>1, <2>2 DEF f
<1>12. CASE b.size_ # 0
  BY <1>4, <1>5, <1>9, <1>10, <1>12 DEF f
<1> QED
  BY <1>11, <1>12

\* A chain of one block: what is read stays in it, and what is written to it
\* makes it longer, as long as it fits.
LEMMA OneBlockRead ==
    ASSUME NEW b \in GoodBuffers, Len(b.blocks) = 1, NEW n \in Nat
    PROVE  RetrieveFrom(b, n).blocks[1].data = b.blocks[1].data
<1> DEFINE m == Smaller(n, b.size_)
           c == ConsumeInBlock(b, m)
<1>1. /\ Good(b) /\ b \in BufferType /\ b.size_ \in Nat
      /\ b.read_block_ = 1 /\ b.write_block_ = 1
  BY DEF GoodBuffers, Good, Chain, BufferType
<1>2. Readable(ReadBlock(b)) = b.size_
  BY <1>1, ReadBlockFacts
<1>3. m \in 0..b.size_ /\ m \in Nat /\ Smaller(m, b.size_) = m
  BY <1>1 DEF Smaller
<1> HIDE DEF m
<1>4. Consume(b, m) = c
  <2> DEFINE most == b.write_block_ - b.read_block_ + 1
  <2>1. PICK u : /\ IsLoop(u, b, m, most)
                 /\ Consume(b, m)
                       = ConsumeInBlock(u[most].b,
                            Smaller(u[most].remaining, Readable(ReadBlock(u[most].b))))
    BY <1>3, LoopExists
  <2>2. most = 1
    BY <1>1
  <2> HIDE DEF most
  <2>3. u[0] = [b |-> b, remaining |-> m] /\ u[1] = ConsumeStep(u[0])
    <3>1. 1 \in 1..most /\ 1 - 1 = 0
      BY <2>2
    <3> QED
      BY <2>1, <3>1 DEF IsLoop
  <2>4. u[0].b = b /\ u[0].remaining = m
    BY <2>3
  <2>5. u[1] = u[0]
    BY <1>1, <2>3, <2>4 DEF ConsumeStep
  <2> QED
    BY <1>2, <1>3, <2>1, <2>2, <2>4, <2>5
<1>5. /\ c.read_block_ = 1 /\ c.blocks[1].data = b.blocks[1].data
  <2>1. m \in 0..Readable(ReadBlock(b))
    BY <1>2, <1>3
  <2>2. /\ c.read_block_ = b.read_block_
        /\ c.blocks[b.read_block_] = [data |-> b.blocks[b.read_block_].data,
                                      read_idx |-> b.blocks[b.read_block_].read_idx + m]
    BY <1>1, <2>1, ConsumeFields
  <2> QED
    BY <1>1, <2>2
<1> HIDE DEF c
<1>6. Compact(c) = c
  BY <1>5 DEF Compact
<1> QED
  BY <1>4, <1>5, <1>6 DEF RetrieveFrom, m

LEMMA OneBlockWrite ==
    ASSUME NEW b \in GoodBuffers, Len(b.blocks) = 1, Len(b.blocks[1].data) < kBlockSize,
           NEW s \in Seq(Byte), Len(s) <= Writable(WriteBlock(BeginWrite(b)))
    PROVE  LET c == HasWritten(BeginWrite(b), s)
           IN  /\ Len(c.blocks) = 1
               /\ Len(c.blocks[1].data) = Len(b.blocks[1].data) + Len(s)
<1>1. Good(b) /\ b.write_block_ = 1 /\ BlockOK(b.blocks[1])
  BY DEF GoodBuffers, Good, Chain, BufferType
<1>2. WriteBlock(b) = b.blocks[1] /\ Len(b.blocks[1].data) \in Nat
  BY <1>1, BlockFacts DEF WriteBlock
<1>3. Writable(WriteBlock(b)) # 0
  BY <1>2 DEF Writable
<1>4. BeginWrite(b) = b
  BY <1>3 DEF BeginWrite
<1>5. Len(s) <= Writable(WriteBlock(b))
  BY <1>4
<1>6. HasWritten(b, s) = CopyIn(b, s)
  <2>1. Smaller(Len(s), Writable(WriteBlock(b))) = Len(s)
    BY <1>2, <1>5 DEF Smaller, Writable
  <2>2. SubSeq(s, 1, Len(s)) = s
    OBVIOUS
  <2> QED
    BY <2>1, <2>2 DEF HasWritten
<1>7. /\ CopyIn(b, s).write_block_ = b.write_block_
      /\ Len(CopyIn(b, s).blocks) = Len(b.blocks)
      /\ Len(WriteBlock(CopyIn(b, s)).data) = Len(WriteBlock(b).data) + Len(s)
  BY <1>1, <1>5, CopyInGood
<1> QED
  BY <1>1, <1>2, <1>4, <1>6, <1>7 DEF WriteBlock

\* The inductive invariant.
BufferInv == buf \in GoodBuffers /\ Len(buf.blocks) <= MaxBlocks

\* What a call may add.
LEMMA ChunkFacts ==
    /\ \A s \in Chunks : s \in Seq(Byte)
    /\ Chunks = Queue!Chunks /\ <<>> \in Chunks
<1>1. Chunks = UNION {[1..m -> Byte] : m \in 0..MaxChunk}
  BY DEF Chunks, BoundedSeq, SeqOf
<1>2. Queue!Chunks = UNION {[1..m -> Byte] : m \in 0..MaxChunk}
  BY DEF Queue!Chunks, Queue!BoundedSeq, Queue!SeqOf
<1>3. ASSUME NEW s \in Chunks PROVE s \in Seq(Byte)
  <2>1. PICK m \in 0..MaxChunk : s \in [1..m -> Byte]
    BY <1>1
  <2> QED
    BY <2>1
<1>4. <<>> \in Chunks
  <2>1. <<>> \in [1..0 -> Byte] /\ 0 \in 0..MaxChunk
    OBVIOUS
  <2> QED
    BY <1>1, <2>1
<1> QED
  BY <1>1, <1>2, <1>3, <1>4

\* A new Buffer: one block, empty.
LEMMA NewGood ==
    NewBuffer \in GoodBuffers /\ Content(NewBuffer) = <<>> /\ Len(NewBuffer.blocks) = 1
<1> DEFINE b == NewBuffer
           z == <<EmptyBlock>>
<1>1. EmptyBlock \in Block
  BY EmptyFacts DEF BlockOK
<1>2. z \in Seq(Block) /\ Len(z) = 1 /\ z[1] = EmptyBlock
  BY <1>1
<1> HIDE DEF z
<1>3. /\ b.blocks = z /\ b.read_block_ = 1 /\ b.write_block_ = 1 /\ b.size_ = 0
      /\ b \in BufferType
  BY <1>2 DEF NewBuffer, BufferType, z
<1> HIDE DEF b
<1>4. Chain(b)
  <2>1. \A i \in 1..1 : /\ BlockOK(z[i]) /\ (i < 1 => Readable(z[i]) = 0)
                        /\ (i > 1 => z[i] = EmptyBlock)
    BY <1>2, EmptyFacts
  <2>2. 1 \in 1..1 /\ 1 <= 1
    OBVIOUS
  <2>3. Len(b.blocks) = 1 /\ \A i \in 1..1 :
           /\ BlockOK(b.blocks[i])
           /\ i < b.read_block_ => Readable(b.blocks[i]) = 0
           /\ i > b.write_block_ => b.blocks[i] = EmptyBlock
    BY <1>2, <1>3, <2>1
  <2>4. /\ b.read_block_ \in 1..1 /\ b.write_block_ \in 1..1
        /\ b.read_block_ <= b.write_block_
    BY <1>3, <2>2
  <2> QED
    BY <1>3, <2>3, <2>4 DEF Chain
<1>5. Content(b) = <<>>
  <2> DEFINE p == PartsOf(b)
             k == 1
  <2>1. /\ p \in Parts(Byte) /\ Len(p) = 1 /\ Content(b) = FlattenSeq(p)
        /\ \A i \in 1..1 : i >= 1 => p[i] = ReadableBytes(z[i])
    BY <1>2, <1>3, <1>4, PartsOfFacts
  <2> HIDE DEF p
  <2>2. p[1] = <<>>
    BY <1>2, <2>1, EmptyFacts
  <2>3. k \in 1..Len(p) /\ \A j \in 1..Len(p) : j # k => p[j] = <<>>
    BY <2>1
  <2>4. FlattenSeq(p) = p[k]
    <3> HIDE DEF k
    <3> QED
      BY <2>1, <2>3, FlatOne
  <2> QED
    BY <2>1, <2>2, <2>4
<1>6. Len(<<>>) = 0
  OBVIOUS
<1> QED
  BY <1>2, <1>3, <1>4, <1>5, <1>6 DEF GoodBuffers, Good, b

\* Each call keeps the invariant and has the effect of its call of ByteQueue.
LEMMA CallsGood ==
    ASSUME BufferInv, Next
    PROVE  BufferInv' /\ Queue!Next
<1> USE DEF BufferInv
<1>1. /\ buf \in GoodBuffers /\ Len(buf.blocks) <= MaxBlocks /\ Good(buf)
      /\ buf.size_ = Len(Content(buf)) /\ buf.size_ \in Nat
  BY SizeBound DEF GoodBuffers, Good, Chain, BufferType
<1>2. CASE \E s \in Chunks : AppendData(s) /\ WithinBounds
  <2>1. PICK s \in Chunks : AppendData(s) /\ WithinBounds
    BY <1>2
  <2>2. buf' \in GoodBuffers /\ Content(buf') = Content(buf) \o s
    BY <1>1, <2>1, ChunkFacts, AppendGood DEF AppendData
  <2>3. Queue!Write(s)
    BY <2>1, <2>2 DEF AppendData, Queue!Write, Content
  <2> QED
    BY <2>1, <2>2, <2>3, ChunkFacts DEF WithinBounds, Queue!Next
<1>3. CASE \E s \in Chunks : ReadSocket(s) /\ WithinBounds
  <2>1. PICK s \in Chunks : ReadSocket(s) /\ WithinBounds
    BY <1>3
  <2>2. buf' \in GoodBuffers /\ Content(buf') = Content(buf) \o s
    BY <1>1, <2>1, ChunkFacts, ReadSocketGood DEF ReadSocket
  <2>3. Queue!Write(s)
    BY <2>1, <2>2 DEF ReadSocket, Queue!Write, Content
  <2> QED
    BY <2>1, <2>2, <2>3, ChunkFacts DEF WithinBounds, Queue!Next
<1>4. CASE \E len \in 1..(kBlockSize + 1) : Ensure(len) /\ WithinBounds
  <2>1. PICK len \in 1..(kBlockSize + 1) : Ensure(len) /\ WithinBounds
    BY <1>4
  <2>2. buf' \in GoodBuffers /\ Content(buf') = Content(buf)
    BY <1>1, <2>1, EnsureGood DEF Ensure
  <2>3. Content(buf) \o <<>> = Content(buf)
    BY <1>1, SizeBound, ConcatEmptySeq
  <2>4. Queue!Write(<<>>)
    BY <2>1, <2>2, <2>3 DEF Ensure, Queue!Write, Content
  <2> QED
    BY <2>1, <2>2, <2>4, ChunkFacts DEF WithinBounds, Queue!Next
<1>5. CASE \E n \in 0..(buf.size_ + 1) : Retrieve(n)
  <2>1. PICK n \in 0..(buf.size_ + 1) : Retrieve(n)
    BY <1>5
  <2>2. n \in Nat /\ n \in 0..(Len(Content(buf)) + 1)
    BY <1>1, <2>1
  <2>3. /\ buf' \in GoodBuffers /\ Len(buf'.blocks) = Len(buf.blocks)
        /\ Content(buf') = SubSeq(Content(buf), n + 1, Len(Content(buf)))
    BY <1>1, <2>1, <2>2, RetrieveGood DEF Retrieve
  <2>4. Queue!Retrieve(n)
    BY <2>1, <2>3 DEF Retrieve, Queue!Retrieve, Content
  <2> QED
    BY <1>1, <2>2, <2>3, <2>4 DEF Queue!Next
<1>6. CASE RetrieveAll
  <2>1. /\ buf' \in GoodBuffers /\ Content(buf') = <<>>
        /\ Len(buf'.blocks) = Len(buf.blocks)
    BY <1>1, <1>6, ResetGood DEF RetrieveAll
  <2>2. Queue!RetrieveAll
    BY <1>6, <2>1 DEF RetrieveAll, Queue!RetrieveAll, Content
  <2> QED
    BY <1>1, <2>1, <2>2 DEF Queue!Next
<1> QED
  BY <1>2, <1>3, <1>4, <1>5, <1>6 DEF Next

\* The invariant holds from the start, through every call.
LEMMA BufferInvariant == Spec => []BufferInv
<1>1. Init => BufferInv
  <2>1. 1 <= MaxBlocks
    OBVIOUS
  <2> QED
    BY <2>1, NewGood DEF Init, BufferInv
<1>2. BufferInv /\ [Next]_vars => BufferInv'
  <2>1. CASE Next
    BY <2>1, CallsGood
  <2>2. CASE UNCHANGED vars
    BY <2>2 DEF vars, BufferInv
  <2> QED
    BY <2>1, <2>2
<1> QED
  BY <1>1, <1>2, PTL DEF Spec

\* Through any sequence of calls the chain of blocks is in order: reading never
\* passes writing, blocks that were read are used up, blocks that are written
\* next are empty, and size_ is the number of bytes in between (ChainInOrder).
THEOREM BufferStaysInOrder == Spec => []ChainInOrder
<1>1. BufferInv => ChainInOrder
  <2> SUFFICES ASSUME BufferInv PROVE ChainInOrder
    OBVIOUS
  <2>1. /\ Chain(buf) /\ buf.size_ = Len(Content(buf)) /\ Len(buf.blocks) <= MaxBlocks
    BY DEF BufferInv, GoodBuffers, Good
  <2>2. /\ buf.blocks \in Seq(Block) /\ Len(buf.blocks) \in Nat
        /\ DOMAIN buf.blocks = 1..Len(buf.blocks)
        /\ buf.read_block_ \in 1..Len(buf.blocks)
        /\ buf.write_block_ \in 1..Len(buf.blocks)
        /\ buf.read_block_ <= buf.write_block_ /\ buf.size_ \in Nat
    BY <2>1 DEF Chain, BufferType
  <2>3. ASSUME NEW i \in 1..Len(buf.blocks)
        PROVE  /\ buf.blocks[i].data \in Seq(Byte)
               /\ Len(buf.blocks[i].data) <= kBlockSize
               /\ buf.blocks[i].read_idx \in 0..Len(buf.blocks[i].data)
               /\ i < buf.read_block_ => Readable(buf.blocks[i]) = 0
               /\ i > buf.write_block_ => buf.blocks[i] = EmptyBlock
    <3>1. BlockOK(buf.blocks[i])
      BY <2>1 DEF Chain
    <3>2. /\ buf.blocks[i].data \in Seq(Byte)
          /\ buf.blocks[i].read_idx \in 0..Len(buf.blocks[i].data)
      BY <3>1, BlockFacts
    <3> QED
      BY <2>1, <3>1, <3>2 DEF Chain, BlockOK
  <2>4. TypeOK
    <3>1. Len(buf.blocks) \in 1..MaxBlocks
      BY <2>1, <2>2
    <3> QED
      BY <2>2, <2>3, <3>1 DEF TypeOK
  <2> QED
    BY <2>1, <2>2, <2>3, <2>4 DEF ChainInOrder
<1> QED
  BY <1>1, BufferInvariant, PTL

\* Buffer implements a queue of bytes: append(), the socket reads through
\* begin_write() and has_written(), ensure_writable(), retrieve() with its
\* compaction, and retrieve_all() show the effect that ByteQueue gives each of
\* them, whatever the block size (ImplementsByteQueue).
THEOREM BufferImplementsByteQueue == Spec => ImplementsByteQueue
<1>1. Init => Queue!Init
  BY NewGood DEF Init, Queue!Init, Content
<1>2. BufferInv /\ [Next]_vars => [Queue!Next]_Queue!vars
  <2>1. CASE Next
    BY <2>1, CallsGood
  <2>2. CASE UNCHANGED vars
    BY <2>2 DEF vars, Queue!vars, Content
  <2> QED
    BY <2>1, <2>2
<1> QED
  BY <1>1, <1>2, BufferInvariant, PTL DEF Spec, ImplementsByteQueue, Queue!Spec



-----------------------------------------------------------------------------
(* Searching.  A ruler gives the place in the content at which each block  *)
(* ends.                                                                   *)

\* Where parts end in the flat bytes.
Ends(o, p) ==
    LET f == FlattenSeq(p)
    IN  /\ o \in [0..Len(p) -> Nat] /\ o[0] = 0 /\ o[Len(p)] = Len(f)
        /\ \A k \in 1..Len(p) :
              /\ o[k] = o[k - 1] + Len(p[k])
              /\ \A i \in 1..Len(p[k]) : f[o[k - 1] + i] = p[k][i]

\* Parts have ends.
LEMMA EndsExist ==
    ASSUME NEW S, NEW p \in Parts(S), p # <<>>
    PROVE  \E o : Ends(o, p)
<1>1. PICK c : IsFlat(c, p, S) /\ FlattenSeq(p) = c[Len(p)]
  BY FlatExists
<1>2. Len(p) \in Nat /\ Len(p) \in 0..Len(p) /\ \A k \in 1..Len(p) : p[k] \in Seq(S)
  BY PartsFacts
<1> DEFINE o == [k \in 0..Len(p) |-> Len(c[k])]
           f == c[Len(p)]
<1>3. \A k \in 0..Len(p) : /\ Len(c[k]) \in Nat /\ Len(c[k]) <= Len(f)
                           /\ \A i \in 1..Len(c[k]) : f[i] = c[k][i]
  BY <1>1, FlatBegins
<1>4. o \in [0..Len(p) -> Nat] /\ o[0] = 0 /\ o[Len(p)] = Len(f)
  <2>1. o \in [0..Len(p) -> Nat] /\ o[Len(p)] = Len(f) /\ o[0] = Len(c[0])
    BY <1>2, <1>3
  <2>2. Len(c[0]) = 0
    BY <1>1 DEF IsFlat
  <2> QED
    BY <2>1, <2>2
<1>5. ASSUME NEW k \in 1..Len(p)
      PROVE  /\ o[k] = o[k - 1] + Len(p[k])
             /\ \A i \in 1..Len(p[k]) : f[o[k - 1] + i] = p[k][i]
  <2> DEFINE u == c[k - 1]
             v == p[k]
             w == c[k]
  <2>1. k \in 0..Len(p) /\ k - 1 \in 0..Len(p)
    BY <1>2
  <2>2. u \in Seq(S) /\ v \in Seq(S) /\ w = u \o v /\ o[k] = Len(w) /\ o[k - 1] = Len(u)
    BY <1>1, <1>2, <2>1 DEF IsFlat
  <2>3. \A i \in 1..Len(w) : f[i] = w[i]
    BY <1>3, <2>1
  <2> HIDE DEF u, v, w, f, o
  <2>4. /\ Len(w) = Len(u) + Len(v) /\ Len(u) \in Nat /\ Len(v) \in Nat
        /\ \A j \in 1..(Len(u) + Len(v)) : w[j] = IF j <= Len(u) THEN u[j] ELSE v[j - Len(u)]
    BY <2>2, ConcatProperties, LenProperties
  <2>5. ASSUME NEW i \in 1..Len(v) PROVE f[Len(u) + i] = v[i]
    <3>1. /\ Len(u) + i \in 1..(Len(u) + Len(v)) /\ ~(Len(u) + i <= Len(u))
          /\ (Len(u) + i) - Len(u) = i
      BY <2>4
    <3> QED
      BY <2>3, <2>4, <3>1
  <2> QED
    BY <2>2, <2>4, <2>5 DEF v
<1> HIDE DEF o
<1>6. Ends(o, p)
  BY <1>1, <1>4, <1>5 DEF Ends
<1> QED
  BY <1>6

\* o[k] is where block k ends in the content, and the content has its bytes.
Ruler(o, b) ==
    LET r == b.read_block_
        L == Len(b.blocks)
    IN  /\ r \in 1..L /\ L \in Nat
        /\ o \in [0..L -> Nat] /\ o[r - 1] = 0 /\ o[L] = b.size_
        /\ \A k \in r..L :
              /\ Readable(b.blocks[k]) \in Nat
              /\ ReadableBytes(b.blocks[k]) \in Seq(Byte)
              /\ Len(ReadableBytes(b.blocks[k])) = Readable(b.blocks[k])
              /\ o[k] = o[k - 1] + Readable(b.blocks[k])
              /\ \A i \in 1..Readable(b.blocks[k]) :
                    Content(b)[o[k - 1] + i] = ReadableBytes(b.blocks[k])[i]
        /\ \A j, k \in (r - 1)..L : j <= k => o[j] <= o[k]

\* A chain in order has a ruler.
LEMMA RulerExists ==
    ASSUME NEW b, Good(b)
    PROVE  \E o : Ruler(o, b)
<1> DEFINE p == PartsOf(b)
           r == b.read_block_
           L == Len(b.blocks)
           rd(k) == Readable(b.blocks[k])
           bytes(k) == ReadableBytes(b.blocks[k])
<1>1. /\ Chain(b) /\ b.size_ = Len(Content(b)) /\ r \in 1..L /\ r \in Nat /\ L \in Nat
      /\ \A k \in 1..L : BlockOK(b.blocks[k])
  BY DEF Good, Chain, BufferType
<1>2. /\ p \in Parts(Byte) /\ p # <<>> /\ Len(p) = L
      /\ \A i \in 1..L : /\ i < r => p[i] = <<>>
                         /\ i >= r => p[i] = bytes(i)
      /\ Content(b) = FlattenSeq(p)
  BY <1>1, PartsOfFacts
<1>3. \A k \in 1..L : rd(k) \in Nat /\ bytes(k) \in Seq(Byte) /\ Len(bytes(k)) = rd(k)
  BY <1>1, BlockFacts
<1> HIDE DEF p, r, L, rd, bytes
<1>4. PICK o : Ends(o, p)
  BY <1>2, EndsExist
<1>5. /\ o \in [0..L -> Nat] /\ o[0] = 0 /\ o[L] = Len(Content(b))
      /\ \A k \in 1..L : /\ o[k] = o[k - 1] + Len(p[k])
                         /\ \A i \in 1..Len(p[k]) : Content(b)[o[k - 1] + i] = p[k][i]
  BY <1>2, <1>4 DEF Ends
<1>6. o[r - 1] = 0
  <2> DEFINE T == {j \in Nat : j < r => o[j] = 0}
  <2>1. 0 \in T
    BY <1>5
  <2>2. ASSUME NEW j \in Nat, j \in T PROVE j + 1 \in T
    <3>1. SUFFICES ASSUME j + 1 < r PROVE o[j + 1] = 0
      OBVIOUS
    <3>2. j < r /\ j + 1 \in 1..L /\ (j + 1) - 1 = j /\ o[j] = 0
      BY <1>1, <2>2, <3>1
    <3>3. p[j + 1] = <<>> /\ Len(<<>>) = 0
      BY <1>2, <3>1, <3>2
    <3> QED
      BY <1>5, <3>2, <3>3
  <2>3. Nat \subseteq T
    <3> HIDE DEF T
    <3> QED
      BY <2>1, <2>2, SetInduction
  <2> QED
    BY <1>1, <2>3
<1>7. ASSUME NEW k \in r..L
      PROVE  /\ rd(k) \in Nat /\ bytes(k) \in Seq(Byte) /\ Len(bytes(k)) = rd(k)
             /\ o[k] = o[k - 1] + rd(k)
             /\ \A i \in 1..rd(k) : Content(b)[o[k - 1] + i] = bytes(k)[i]
  <2>1. k \in 1..L /\ k >= r
    BY <1>1
  <2> QED
    BY <1>2, <1>3, <1>5, <2>1
<1>8. ASSUME NEW j \in (r - 1)..L, NEW k \in (r - 1)..L, j <= k PROVE o[j] <= o[k]
  <2> DEFINE T == {d \in Nat : j + d <= k => o[j] <= o[j + d]}
  <2>1. \A i \in 0..L : o[i] \in Nat
    BY <1>5
  <2>2. j \in Nat /\ k \in Nat /\ j \in 0..L /\ k \in 0..L /\ k - j \in Nat
    BY <1>1, <1>8
  <2>3. 0 \in T
    BY <2>1, <2>2
  <2>4. ASSUME NEW d \in Nat, d \in T PROVE d + 1 \in T
    <3>1. SUFFICES ASSUME j + (d + 1) <= k PROVE o[j] <= o[j + (d + 1)]
      OBVIOUS
    <3> DEFINE e == j + (d + 1)
    <3>2. e \in r..L /\ e - 1 = j + d /\ j + d <= k /\ j + d \in 0..L /\ e \in 0..L
      BY <1>1, <2>2, <3>1
    <3>3. o[e] = o[j + d] + rd(e) /\ rd(e) \in Nat /\ o[j] <= o[j + d]
      BY <1>7, <2>4, <3>2
    <3>4. o[j] \in Nat /\ o[j + d] \in Nat
      BY <2>1, <2>2, <3>2
    <3> HIDE DEF e
    <3>5. o[j] <= o[e]
      BY <3>3, <3>4
    <3> QED
      BY <3>5 DEF e
  <2>5. k - j \in T
    <3>1. Nat \subseteq T
      <4> HIDE DEF T
      <4> QED
        BY <2>3, <2>4, SetInduction
    <3> QED
      BY <2>2, <3>1
  <2>6. j + (k - j) = k /\ k <= k
    BY <2>2
  <2> QED
    BY <2>5, <2>6
<1>9. Ruler(o, b)
  BY <1>1, <1>5, <1>6, <1>7, <1>8 DEF Ruler, r, L, rd, bytes
<1> QED
  BY <1>9


\* offset is where the previous block ends.
LEMMA OffsetIs ==
    ASSUME NEW b, NEW o, Ruler(o, b), NEW k \in b.read_block_..Len(b.blocks)
    PROVE  Offset(b, k) = o[k - 1]
<1> DEFINE r == b.read_block_
           L == Len(b.blocks)
           N == k - r
           w == CHOOSE f : f = [t \in 0..N |->
                    IF t = 0 THEN 0 ELSE f[t - 1] + Readable(b.blocks[r + t - 1])]
           g == [t \in 0..N |-> o[(r - 1) + t]]
<1>1. /\ r \in 1..L /\ L \in Nat /\ r \in Nat /\ k \in Nat /\ N \in Nat /\ k \in r..L
      /\ o[r - 1] = 0
      /\ \A j \in r..L : o[j] = o[j - 1] + Readable(b.blocks[j])
  BY DEF Ruler
<1>2. Offset(b, k) = w[N]
  BY DEF Offset
<1> HIDE DEF N, r, L
<1>3. g = [t \in 0..N |-> IF t = 0 THEN 0 ELSE g[t - 1] + Readable(b.blocks[r + t - 1])]
  <2>1. ASSUME NEW t \in 0..N, t # 0
        PROVE  g[t] = g[t - 1] + Readable(b.blocks[r + t - 1])
    <3> DEFINE j == r + t - 1
    <3>1. /\ t - 1 \in 0..N /\ (r - 1) + t = j /\ (r - 1) + (t - 1) = j - 1 /\ j \in r..L
      BY <1>1, <2>1 DEF N
    <3>2. g[t] = o[j] /\ g[t - 1] = o[j - 1]
      BY <3>1
    <3> HIDE DEF g, j
    <3> QED
      BY <1>1, <3>1, <3>2 DEF j
  <2>2. g[0] = 0
    <3>1. 0 \in 0..N /\ (r - 1) + 0 = r - 1
      BY <1>1
    <3> QED
      BY <1>1, <3>1
  <2>3. \A t \in 0..N : g[t] = IF t = 0 THEN 0 ELSE g[t - 1] + Readable(b.blocks[r + t - 1])
    <3> HIDE DEF g
    <3> QED
      BY <2>1, <2>2
  <2>4. g = [t \in 0..N |-> g[t]]
    OBVIOUS
  <2> HIDE DEF g
  <2> QED
    BY <2>3, <2>4
<1> HIDE DEF g
<1>4. w = [t \in 0..N |-> IF t = 0 THEN 0 ELSE w[t - 1] + Readable(b.blocks[r + t - 1])]
  BY <1>3
<1> HIDE DEF w
<1>5. \A t \in 0..N : w[t] = g[t]
  <2> DEFINE T == {t \in Nat : t <= N => w[t] = g[t]}
  <2>1. 0 \in T
    <3>1. 0 \in 0..N
      BY <1>1
    <3> QED
      BY <1>3, <1>4, <3>1
  <2>2. ASSUME NEW t \in Nat, t \in T PROVE t + 1 \in T
    <3>1. SUFFICES ASSUME t + 1 <= N PROVE w[t + 1] = g[t + 1]
      OBVIOUS
    <3> DEFINE u == t + 1
    <3>2. u \in 0..N /\ u # 0 /\ u - 1 = t /\ w[t] = g[t]
      BY <1>1, <2>2, <3>1
    <3> HIDE DEF u
    <3>3. /\ w[u] = w[u - 1] + Readable(b.blocks[r + u - 1])
          /\ g[u] = g[u - 1] + Readable(b.blocks[r + u - 1])
      BY <1>3, <1>4, <3>2
    <3> QED
      BY <3>2, <3>3 DEF u
  <2>3. Nat \subseteq T
    <3> HIDE DEF T
    <3> QED
      BY <2>1, <2>2, SetInduction
  <2> QED
    BY <1>1, <2>3
<1>6. N \in 0..N /\ (r - 1) + N = k - 1
  BY <1>1 DEF N
<1> QED
  BY <1>2, <1>5, <1>6 DEF g

\* Every place of the content is in one of the blocks.
LEMMA Located ==
    ASSUME NEW b, NEW o, Ruler(o, b), NEW q \in 0..(b.size_ - 1)
    PROVE  \E k \in b.read_block_..Len(b.blocks) :
              \E i \in 0..(Readable(b.blocks[k]) - 1) : q = o[k - 1] + i
<1> DEFINE r == b.read_block_
           L == Len(b.blocks)
           T == {k \in r..L : q < o[k]}
<1>1. /\ r \in 1..L /\ L \in Nat /\ r \in Nat
      /\ \A j \in 0..L : o[j] \in Nat
      /\ o[r - 1] = 0 /\ o[L] = b.size_
      /\ \A j \in r..L : o[j] = o[j - 1] + Readable(b.blocks[j]) /\ Readable(b.blocks[j]) \in Nat
  <2>1. r \in 1..L /\ L \in Nat /\ o \in [0..L -> Nat] /\ o[r - 1] = 0 /\ o[L] = b.size_
    BY DEF Ruler
  <2>2. \A j \in r..L : /\ o[j] = o[j - 1] + Readable(b.blocks[j])
                        /\ Readable(b.blocks[j]) \in Nat
    BY DEF Ruler
  <2> HIDE DEF r, L
  <2> QED
    BY <2>1, <2>2
<1> HIDE DEF r, L
<1>2. T \subseteq Nat /\ T # {}
  <2>1. L \in r..L /\ q < o[L]
    BY <1>1
  <2> QED
    BY <1>1, <2>1
<1>3. PICK k \in T : \A y \in T : ~(y < k)
  <2> HIDE DEF T
  <2> QED
    BY <1>2, LeastElement
<1>4. k \in r..L /\ q < o[k] /\ k - 1 \in 0..L
  BY <1>1, <1>3
<1>5. o[k - 1] <= q
  <2>1. CASE k = r
    BY <1>1, <2>1
  <2>2. CASE k # r
    <3>1. k - 1 \in r..L /\ k - 1 < k
      BY <1>1, <1>4, <2>2
    <3>2. ~(q < o[k - 1])
      BY <1>3, <3>1
    <3> QED
      BY <1>1, <1>4, <3>2
  <2> QED
    BY <2>1, <2>2
<1> DEFINE i == q - o[k - 1]
<1>6. i \in 0..(Readable(b.blocks[k]) - 1) /\ q = o[k - 1] + i
  <2> DEFINE x == o[k - 1]
             y == Readable(b.blocks[k])
  <2>1. x \in Nat /\ y \in Nat /\ q < x + y /\ x <= q /\ q \in Nat
    BY <1>1, <1>4, <1>5
  <2> HIDE DEF x, y
  <2>2. q - x \in 0..(y - 1) /\ q = x + (q - x)
    BY <2>1
  <2> QED
    BY <2>2 DEF x, y
<1> QED
  BY <1>4, <1>6 DEF r, L

\* A piece of a sequence.
LEMMA PieceFacts ==
    ASSUME NEW S, NEW s \in Seq(S), NEW a \in Nat, NEW n \in Nat, a + n <= Len(s)
    PROVE  /\ SubSeq(s, a + 1, a + n) \in Seq(S) /\ Len(SubSeq(s, a + 1, a + n)) = n
           /\ \A x \in 1..n : SubSeq(s, a + 1, a + n)[x] = s[a + x]
<1> DEFINE l == a + 1
           h == a + n
           u == SubSeq(s, l, h)
<1>1. /\ l \in Int /\ h \in Int /\ (\A i \in l..h : s[i] \in S)
      /\ h - l + 1 = n /\ (l <= h <=> n # 0) /\ \A x \in 1..n : l + x - 1 = a + x
  OBVIOUS
<1> HIDE DEF l, h
<1>2. /\ u \in Seq(S) /\ Len(u) = IF l <= h THEN h - l + 1 ELSE 0
      /\ \A x \in 1..(h - l + 1) : u[x] = s[l + x - 1]
  BY <1>1, SubSeqProperties
<1> HIDE DEF u
<1>3. Len(u) = n /\ \A x \in 1..n : u[x] = s[a + x]
  BY <1>1, <1>2
<1> QED
  BY <1>2, <1>3 DEF u, l, h

Piece(s, a, n) == SubSeq(s, a + 1, a + n)
Alike(s, a, t, c, n) == \A x \in 1..n : s[a + x] = t[c + x]

\* memcmp(): equal pieces.
LEMMA SamePiece ==
    ASSUME NEW s \in Seq(Byte), NEW t \in Seq(Byte), NEW a \in Nat, NEW c \in Nat,
           NEW n \in Nat, a + n <= Len(s), c + n <= Len(t)
    PROVE  Piece(s, a, n) = Piece(t, c, n) <=> Alike(s, a, t, c, n)
<1> DEFINE u == SubSeq(s, a + 1, a + n)
           v == SubSeq(t, c + 1, c + n)
<1>1. u \in Seq(Byte) /\ Len(u) = n /\ \A x \in 1..n : u[x] = s[a + x]
  BY PieceFacts
<1>2. v \in Seq(Byte) /\ Len(v) = n /\ \A x \in 1..n : v[x] = t[c + x]
  BY PieceFacts
<1> HIDE DEF u, v
<1>3. u = v <=> \A x \in 1..n : u[x] = v[x]
  BY <1>1, <1>2, SeqEqual
<1>4. u = v <=> \A x \in 1..n : s[a + x] = t[c + x]
  BY <1>1, <1>2, <1>3
<1> QED
  BY <1>4 DEF u, v, Piece, Alike


\* How much of a needle of length n, at place q of the content, is in the blocks
\* up to the one that ends at e.
Covered(n, q, e) == IF e < q THEN 0 ELSE Smaller(n, e - q)

\* What comes to it in a block of y bytes.
LEMMA CoveredNext ==
    \A n, q, e, y \in Nat :
        q <= e => /\ Covered(n, q, e) \in 0..n
                  /\ Covered(n, q, e + y)
                        = Covered(n, q, e) + Smaller(n - Covered(n, q, e), y)
                  /\ Smaller(n - Covered(n, q, e), y) \in 0..n
                  /\ Smaller(n - Covered(n, q, e), y) <= y
                  /\ Smaller(n - Covered(n, q, e), y) # 0 => Covered(n, q, e) = e - q
  BY DEF Covered, Smaller

\* The match loop: m[t] bytes of the needle are compared before its block t, c[t]
\* in it.
IsMatching(m, c, b, k, i, needle) ==
    LET N == Len(b.blocks) - k
    IN  /\ m \in [0..N -> Nat] /\ c \in [0..N -> Nat] /\ m[0] = 0
        /\ \A t \in 0..N :
              c[t] = Smaller(Len(needle) - m[t],
                             Readable(b.blocks[k + t]) - (IF t = 0 THEN i ELSE 0))
        /\ \A t \in 1..N : m[t] = m[t - 1] + c[t - 1]

\* What the loop compares is equal.
Compared(m, c, b, k, i, needle) ==
    \A t \in 0..(Len(b.blocks) - k) :
        LET x == IF t = 0 THEN i ELSE 0
        IN  SubSeq(ReadableBytes(b.blocks[k + t]), x + 1, x + c[t])
               = SubSeq(needle, m[t] + 1, m[t] + c[t])

\* The loop exists, and MatchesAt is what it compares.
LEMMA MatchingExists ==
    ASSUME NEW b, NEW o, Ruler(o, b), NEW k \in b.read_block_..Len(b.blocks),
           NEW i \in 0..(Readable(b.blocks[k]) - 1), NEW needle \in Seq(Byte)
    PROVE  \E m, c :
              /\ IsMatching(m, c, b, k, i, needle)
              /\ MatchesAt(b, k, i, needle) <=> Compared(m, c, b, k, i, needle)
<1> DEFINE L == Len(b.blocks)
           N == L - k
           n == Len(needle)
           idx(t) == IF t = 0 THEN i ELSE 0
           room(t) == Readable(b.blocks[k + t]) - idx(t)
           chk(t, v) == Smaller(n - v, room(t))
           step == [t \in 1..N |-> [v \in 0..n |-> v + chk(t - 1, v)]]
           w == CHOOSE f : f = [t \in 0..N |->
                    IF t = 0 THEN 0 ELSE f[t - 1] + chk(t - 1, f[t - 1])]
           c == [t \in 0..N |-> chk(t, w[t])]
<1>1. /\ N \in Nat /\ k \in Nat /\ L \in Nat /\ n \in Nat /\ i \in Nat
      /\ \A t \in 0..N : k + t \in b.read_block_..L
  BY DEF Ruler
<1>2. \A t \in 0..N : room(t) \in Nat
  <2>1. \A j \in b.read_block_..L : Readable(b.blocks[j]) \in Nat
    BY DEF Ruler
  <2> TAKE t \in 0..N
  <2>2. Readable(b.blocks[k + t]) \in Nat
    BY <1>1, <2>1
  <2>3. CASE t = 0
    BY <1>1, <2>2, <2>3
  <2>4. CASE t # 0
    BY <2>2, <2>4
  <2> QED
    BY <2>3, <2>4
<1>3. MatchesAt(b, k, i, needle)
         <=> \A t \in 0..N : SubSeq(ReadableBytes(b.blocks[k + t]), idx(t) + 1, idx(t) + chk(t, w[t]))
                                = SubSeq(needle, w[t] + 1, w[t] + chk(t, w[t]))
  BY DEF MatchesAt
<1> HIDE DEF N, n, room
<1>4. \A t \in 0..N, v \in 0..n : v + chk(t, v) \in 0..n /\ chk(t, v) \in Nat
  BY <1>1, <1>2 DEF Smaller
<1> HIDE DEF chk
<1>5. step \in [1..N -> [0..n -> 0..n]]
  <2>1. \A t \in 1..N : t - 1 \in 0..N
    BY <1>1
  <2> QED
    BY <1>4, <2>1
<1>6. PICK g : IsRecursion(g, N, 0..n, 0, step)
  <2>1. 0 \in 0..n
    BY <1>1
  <2> HIDE DEF step
  <2> QED
    BY <1>1, <1>5, <2>1, RecursionExists
<1>7. g = [t \in 0..N |-> IF t = 0 THEN 0 ELSE g[t - 1] + chk(t - 1, g[t - 1])]
  <2>1. g \in [0..N -> 0..n] /\ g[0] = 0 /\ \A t \in 1..N : g[t] = step[t][g[t - 1]]
    <3> HIDE DEF step
    <3> QED
      BY <1>6 DEF IsRecursion
  <2>2. \A t \in 1..N : t - 1 \in 0..N /\ g[t - 1] \in 0..n
    BY <1>1, <2>1, SMTT(30)
  <2>3. \A t \in 1..N : g[t] = g[t - 1] + chk(t - 1, g[t - 1])
    BY <2>1, <2>2
  <2> HIDE DEF step
  <2>4. \A t \in 0..N : g[t] = IF t = 0 THEN 0 ELSE g[t - 1] + chk(t - 1, g[t - 1])
    <3> TAKE t \in 0..N
    <3>1. t = 0 \/ t \in 1..N
      BY <1>1
    <3> QED
      BY <2>1, <2>3, <3>1
  <2> QED
    BY <2>1, <2>4
<1> HIDE DEF step
<1>8. w = [t \in 0..N |-> IF t = 0 THEN 0 ELSE w[t - 1] + chk(t - 1, w[t - 1])]
  BY <1>7
<1> HIDE DEF w
<1>9. w[0] = 0 /\ \A t \in 1..N : w[t] = w[t - 1] + chk(t - 1, w[t - 1])
  BY <1>1, <1>8
<1>10. \A t \in 0..N : w[t] \in 0..n
  <2>1. w[0] \in 0..n
    BY <1>1, <1>9
  <2>2. \A t \in 1..N : w[t - 1] \in 0..n => w[t] \in 0..n
    <3> TAKE t \in 1..N
    <3>1. t - 1 \in 0..N
      BY <1>1
    <3> QED
      BY <1>4, <1>9, <3>1
  <2> DEFINE X == 0..n
  <2>3. w[0] \in X /\ \A t \in 1..N : w[t - 1] \in X => w[t] \in X
    BY <2>1, <2>2
  <2> HIDE DEF X
  <2>4. \A t \in 0..N : w[t] \in X
    BY <1>1, <2>3, LoopInvariant
  <2> QED
    BY <2>4 DEF X
<1>11. /\ \A t \in 0..N : c[t] = chk(t, w[t])
       /\ c \in [0..N -> Nat] /\ w \in [0..N -> Nat]
  <2>1. \A t \in 0..N : chk(t, w[t]) \in Nat /\ w[t] \in Nat
    <3>1. \A v \in 0..n : v \in Nat
      BY <1>1
    <3>2. \A t \in 0..N : chk(t, w[t]) \in Nat
      BY <1>4, <1>10
    <3> QED
      BY <1>10, <3>1, <3>2
  <2> QED
    BY <1>8, <2>1
<1> HIDE DEF c
<1>12. \A t \in 1..N : w[t] = w[t - 1] + c[t - 1]
  <2>1. \A t \in 1..N : t - 1 \in 0..N
    BY <1>1
  <2> QED
    BY <1>9, <1>11, <2>1
<1>13. IsMatching(w, c, b, k, i, needle)
  <2>1. \A t \in 0..N : c[t] = Smaller(Len(needle) - w[t],
                                 Readable(b.blocks[k + t]) - (IF t = 0 THEN i ELSE 0))
    BY <1>11 DEF chk, room, n
  <2> QED
    BY <1>9, <1>11, <1>12, <2>1 DEF IsMatching, N
<1>14. MatchesAt(b, k, i, needle)
          <=> \A t \in 0..N : LET x == IF t = 0 THEN i ELSE 0
                              IN  SubSeq(ReadableBytes(b.blocks[k + t]), x + 1, x + c[t])
                                     = SubSeq(needle, w[t] + 1, w[t] + c[t])
  BY <1>3, <1>11
<1>15. MatchesAt(b, k, i, needle) <=> Compared(w, c, b, k, i, needle)
  BY <1>14 DEF Compared, N
<1> QED
  BY <1>13, <1>15


\* Where each block's share of the needle is, in the needle and in the content.
LEMMA MatchingPlaces ==
    ASSUME NEW b, NEW o, Ruler(o, b), NEW k \in b.read_block_..Len(b.blocks),
           NEW i \in 0..(Readable(b.blocks[k]) - 1), NEW needle \in Seq(Byte),
           NEW m, NEW c, IsMatching(m, c, b, k, i, needle)
    PROVE  \A t \in 0..(Len(b.blocks) - k) :
              LET q == o[k - 1] + i
                  n == Len(needle)
                  x == IF t = 0 THEN i ELSE 0
              IN  /\ m[t] + c[t] = Covered(n, q, o[k + t])
                  /\ m[t] + c[t] <= n /\ x + c[t] <= Readable(b.blocks[k + t])
                  /\ c[t] # 0 => q + m[t] = o[k + t - 1] + x
<1> DEFINE L == Len(b.blocks)
           N == L - k
           n == Len(needle)
           q == o[k - 1] + i
           idx(t) == IF t = 0 THEN i ELSE 0
           e(t) == o[k + t - 1] + idx(t)
           y(t) == Readable(b.blocks[k + t]) - idx(t)
<1>1. /\ N \in Nat /\ k \in Nat /\ L \in Nat /\ n \in Nat /\ i \in Nat
      /\ b.read_block_ \in 1..L
      /\ \A t \in 0..N : k + t \in b.read_block_..L /\ k + t - 1 \in (b.read_block_ - 1)..L
  <2>1. b.read_block_ \in 1..L /\ L \in Nat /\ Readable(b.blocks[k]) \in Nat
    BY DEF Ruler
  <2>2. N \in Nat /\ k \in Nat /\ n \in Nat /\ i \in Nat
    BY <2>1
  <2>3. \A t \in 0..N : k + t \in b.read_block_..L /\ k + t - 1 \in (b.read_block_ - 1)..L
    BY <2>1, <2>2
  <2> QED
    BY <2>1, <2>2, <2>3
<1>2. /\ \A j \in (b.read_block_ - 1)..L : o[j] \in Nat
      /\ \A j, l \in (b.read_block_ - 1)..L : j <= l => o[j] <= o[l]
  <2>1. o \in [0..L -> Nat] /\ \A j \in (b.read_block_ - 1)..L : j \in 0..L
    BY <1>1 DEF Ruler
  <2>2. \A j, l \in (b.read_block_ - 1)..L : j <= l => o[j] <= o[l]
    BY DEF Ruler
  <2> QED
    BY <2>1, <2>2
<1>3. \A j \in b.read_block_..L : /\ Readable(b.blocks[j]) \in Nat
                                  /\ o[j] = o[j - 1] + Readable(b.blocks[j])
  BY DEF Ruler
<1>4. /\ m[0] = 0
      /\ \A t \in 0..N : c[t] = Smaller(n - m[t], y(t)) /\ m[t] \in Nat /\ c[t] \in Nat
      /\ \A t \in 1..N : m[t] = m[t - 1] + c[t - 1]
  BY DEF IsMatching
<1>5. q \in Nat
  <2>1. k - 1 \in (b.read_block_ - 1)..L
    BY <1>1
  <2>2. o[k - 1] \in Nat /\ i \in Nat
    BY <1>1, <1>2, <2>1
  <2> QED
    BY ONLY <2>2
<1> HIDE DEF N, n, L, q
<1>6. ASSUME NEW t \in 0..N
      PROVE  e(t) \in Nat /\ y(t) \in Nat /\ o[k + t] = e(t) + y(t) /\ q <= e(t)
             /\ idx(t) \in Nat /\ Readable(b.blocks[k + t]) = idx(t) + y(t)
  <2> DEFINE z == Readable(b.blocks[k + t])
             p == o[k + t - 1]
  <2>1. z \in Nat /\ p \in Nat /\ o[k + t] = p + z
    <3>1. k + t \in b.read_block_..L /\ k + t - 1 \in (b.read_block_ - 1)..L
      BY <1>1
    <3>2. p \in Nat
      BY <1>2, <3>1
    <3> DEFINE j == k + t
    <3>3. j \in b.read_block_..L
      BY <3>1
    <3> HIDE DEF j
    <3>4. Readable(b.blocks[j]) \in Nat /\ o[j] = o[j - 1] + Readable(b.blocks[j])
      BY <1>3, <3>3
    <3> QED
      BY <3>2, <3>4 DEF j
  <2>2. CASE t = 0
    <3>1. k + t = k /\ k + t - 1 = k - 1
      BY <1>1, <2>2
    <3>2. i <= z /\ q = p + i /\ idx(t) = i
      BY <1>1, <2>1, <2>2, <3>1 DEF q
    <3> HIDE DEF z, p
    <3>3. e(t) = p + i /\ y(t) = z - i
      BY <3>2 DEF p, z
    <3> HIDE DEF e, y, idx
    <3> QED
      <4>1. i \in Nat
        BY <1>1
      <4>2. e(t) \in Nat /\ y(t) \in Nat /\ p + z = e(t) + y(t) /\ q <= e(t)
            /\ idx(t) \in Nat /\ z = idx(t) + y(t)
        BY ONLY <1>5, <2>1, <3>2, <3>3, <4>1
      <4> QED
        BY ONLY <2>1, <4>2 DEF z
  <2>3. CASE t # 0
    <3>1. e(t) = p /\ y(t) = z /\ idx(t) = 0
      BY <2>1, <2>3
    <3>2. o[k] <= p /\ o[k] = o[k - 1] + Readable(b.blocks[k]) /\ o[k - 1] \in Nat
          /\ Readable(b.blocks[k]) \in Nat
      <4>1. k \in (b.read_block_ - 1)..L /\ k + t - 1 \in (b.read_block_ - 1)..L
            /\ k <= k + t - 1 /\ k - 1 \in (b.read_block_ - 1)..L /\ k \in b.read_block_..L
        <5>1. k + t - 1 \in (b.read_block_ - 1)..L
          BY <1>1
        <5>2. k \in b.read_block_..L /\ k \in Nat /\ L \in Nat /\ b.read_block_ \in Nat
              /\ t \in Nat /\ t # 0
          BY <1>1, <2>3 DEF L
        <5> QED
          BY ONLY <5>1, <5>2
      <4> QED
        BY <1>2, <1>3, <4>1
    <3>3. q <= p
      <4>1. i \in Nat /\ i <= Readable(b.blocks[k])
        BY <1>1, <3>2
      <4> HIDE DEF p
      <4> QED
        BY ONLY <2>1, <3>2, <4>1, SMTT(30) DEF q
    <3> HIDE DEF e, y, idx, p
    <3> QED
      BY <2>1, <3>1, <3>3
  <2> QED
    BY <2>2, <2>3
<1> HIDE DEF e, y
<1>7. ASSUME NEW t \in 0..N, m[t] = Covered(n, q, e(t))
      PROVE  /\ m[t] + c[t] = Covered(n, q, o[k + t]) /\ m[t] + c[t] <= n
             /\ c[t] <= y(t) /\ (c[t] # 0 => m[t] = e(t) - q)
  <2> DEFINE u == e(t)
             v == y(t)
  <2>1. u \in Nat /\ v \in Nat /\ q <= u /\ o[k + t] = u + v /\ c[t] = Smaller(n - m[t], v)
    BY <1>4, <1>6
  <2> HIDE DEF u, v
  <2>2. m[t] = Covered(n, q, u)
    BY <1>7 DEF u
  <2>3. /\ Covered(n, q, u + v) = Covered(n, q, u) + Smaller(n - Covered(n, q, u), v)
        /\ Smaller(n - Covered(n, q, u), v) <= v
        /\ Smaller(n - Covered(n, q, u), v) # 0 => Covered(n, q, u) = u - q
    <3>1. n \in Nat /\ q \in Nat /\ u \in Nat /\ v \in Nat /\ q <= u
      BY <1>1, <1>5, <2>1
    <3> QED
      BY ONLY <3>1 DEF Covered, Smaller
  <2>4. Covered(n, q, u + v) \in 0..n
    <3> DEFINE z == u + v
    <3>1. z \in Nat /\ q <= z
      BY <1>5, <2>1
    <3> HIDE DEF z
    <3>2. Covered(n, q, z) \in 0..n
      BY <1>1, <1>5, <3>1, CoveredNext
    <3> QED
      BY <3>2 DEF z
  <2> QED
    BY <1>1, <2>1, <2>2, <2>3, <2>4 DEF u, v
<1>8. \A t \in 0..N : m[t] = Covered(n, q, e(t))
  <2> DEFINE T == {t \in Nat : t <= N => m[t] = Covered(n, q, e(t))}
  <2>1. 0 \in T
    <3>1. e(0) = q
      BY <1>1, <1>5 DEF e, q
    <3>2. Covered(n, q, q) = 0
      BY <1>1, <1>5 DEF Covered, Smaller
    <3> QED
      BY <1>4, <3>1, <3>2
  <2>2. ASSUME NEW t \in Nat, t \in T PROVE t + 1 \in T
    <3>1. SUFFICES ASSUME t + 1 <= N PROVE m[t + 1] = Covered(n, q, e(t + 1))
      OBVIOUS
    <3>2. t \in 0..N /\ t + 1 \in 1..N /\ t + 1 \in 0..N /\ (t + 1) - 1 = t
          /\ k + (t + 1) - 1 = k + t /\ m[t] = Covered(n, q, e(t))
      <4>1. N \in Nat /\ k \in Nat
        BY <1>1
      <4>2. t \in 0..N /\ t + 1 \in 1..N /\ t + 1 \in 0..N /\ (t + 1) - 1 = t
            /\ k + (t + 1) - 1 = k + t /\ t <= N
        BY ONLY <2>2, <3>1, <4>1
      <4>3. m[t] = Covered(n, q, e(t))
        BY ONLY <2>2, <4>2
      <4> QED
        BY <4>2, <4>3
    <3>3. m[t + 1] = m[t] + c[t]
      BY <1>4, <3>2
    <3>4. e(t + 1) = o[k + t]
      <4>1. k + t \in (b.read_block_ - 1)..L
        BY <1>1, <3>2
      <4>2. o[k + t] \in Nat /\ idx(t + 1) = 0
        BY <1>2, <3>2, <4>1
      <4> QED
        BY <3>2, <4>2 DEF e
    <3> QED
      BY <1>7, <3>2, <3>3, <3>4
  <2>3. Nat \subseteq T
    <3> HIDE DEF T
    <3> QED
      BY <2>1, <2>2, SetInduction
  <2> QED
    BY <1>1, <2>3
<1>9. ASSUME NEW t \in 0..N
      PROVE  /\ m[t] + c[t] = Covered(n, q, o[k + t])
             /\ m[t] + c[t] <= n /\ idx(t) + c[t] <= Readable(b.blocks[k + t])
             /\ c[t] # 0 => q + m[t] = o[k + t - 1] + idx(t)
  <2>1. /\ m[t] + c[t] = Covered(n, q, o[k + t]) /\ m[t] + c[t] <= n
        /\ c[t] <= y(t) /\ (c[t] # 0 => m[t] = e(t) - q)
    BY <1>7, <1>8
  <2>2. /\ e(t) \in Nat /\ y(t) \in Nat /\ q <= e(t) /\ idx(t) \in Nat
        /\ Readable(b.blocks[k + t]) = idx(t) + y(t) /\ c[t] \in Nat /\ e(t) = o[k + t - 1] + idx(t)
    BY <1>4, <1>6 DEF e
  <2> HIDE DEF idx, e, y
  <2>3. idx(t) + c[t] <= Readable(b.blocks[k + t])
    BY ONLY <2>1, <2>2
  <2>4. c[t] # 0 => q + m[t] = e(t)
    <3>1. \A u, v \in Nat : u <= v => u + (v - u) = v
      OBVIOUS
    <3>2. c[t] # 0 => m[t] = e(t) - q
      BY ONLY <2>1
    <3> QED
      BY ONLY <1>5, <2>2, <3>1, <3>2
  <2> QED
    BY ONLY <2>1, <2>2, <2>3, <2>4
<1> QED
  BY <1>9 DEF N, n, L, q


\* A match is a match in the content: the needle is compared with the bytes that
\* follow each other there, wherever the blocks end.
LEMMA MatchIs ==
    ASSUME NEW b, NEW o, Ruler(o, b), NEW k \in b.read_block_..Len(b.blocks),
           NEW i \in 0..(Readable(b.blocks[k]) - 1), NEW needle \in Seq(Byte),
           o[k - 1] + i + Len(needle) <= b.size_
    PROVE  MatchesAt(b, k, i, needle)
              <=> \A y \in 1..Len(needle) : Content(b)[o[k - 1] + i + y] = needle[y]
<1> DEFINE L == Len(b.blocks)
           N == L - k
           n == Len(needle)
           q == o[k - 1] + i
           s == Content(b)
           idx(t) == IF t = 0 THEN i ELSE 0
           bytes(t) == ReadableBytes(b.blocks[k + t])
           rd(t) == Readable(b.blocks[k + t])
           e(t) == o[k + t - 1]
<1>1. PICK m, c : /\ IsMatching(m, c, b, k, i, needle)
                  /\ MatchesAt(b, k, i, needle) <=> Compared(m, c, b, k, i, needle)
  BY MatchingExists
<1>2. /\ N \in Nat /\ k \in Nat /\ L \in Nat /\ n \in Nat /\ i \in Nat
      /\ \A t \in 0..N : k + t \in b.read_block_..L
      /\ k + N = L /\ o[L] = b.size_ /\ o[k - 1] \in Nat /\ q \in Nat /\ b.size_ \in Nat
  <2>1. /\ b.read_block_ \in 1..L /\ L \in Nat /\ o \in [0..L -> Nat] /\ o[L] = b.size_
    BY DEF Ruler
  <2>2. k - 1 \in 0..L /\ L \in 0..L
    BY <2>1
  <2>3. o[k - 1] \in Nat /\ o[L] \in Nat
    BY <2>1, <2>2
  <2> QED
    BY <2>1, <2>3, SMTT(30)
<1>3. \A t \in 0..N :
         /\ rd(t) \in Nat /\ bytes(t) \in Seq(Byte) /\ Len(bytes(t)) = rd(t)
         /\ \A j \in 1..rd(t) : s[e(t) + j] = bytes(t)[j]
  <2> TAKE t \in 0..N
  <2> DEFINE l == k + t
  <2>1. l \in b.read_block_..L
    BY <1>2
  <2> HIDE DEF l
  <2>2. /\ Readable(b.blocks[l]) \in Nat /\ ReadableBytes(b.blocks[l]) \in Seq(Byte)
        /\ Len(ReadableBytes(b.blocks[l])) = Readable(b.blocks[l])
        /\ \A j \in 1..Readable(b.blocks[l]) : s[o[l - 1] + j] = ReadableBytes(b.blocks[l])[j]
    BY <2>1 DEF Ruler
  <2> QED
    BY <2>2 DEF l
<1>4. \A t \in 0..N :
         /\ m[t] + c[t] = Covered(n, q, o[k + t])
         /\ m[t] + c[t] <= n /\ idx(t) + c[t] <= rd(t)
         /\ c[t] # 0 => q + m[t] = e(t) + idx(t)
  BY <1>1, MatchingPlaces
<1>5. /\ m[0] = 0 /\ \A t \in 0..N : m[t] \in Nat /\ c[t] \in Nat /\ idx(t) \in Nat
      /\ \A t \in 1..N : m[t] = m[t - 1] + c[t - 1]
  BY <1>1, <1>2 DEF IsMatching
<1>6. m[N] + c[N] = n
  <2>1. N \in 0..N
    BY <1>2
  <2>2. m[N] + c[N] = Covered(n, q, b.size_)
    BY <1>2, <1>4, <2>1
  <2>3. q + n <= b.size_
    OBVIOUS
  <2> HIDE DEF q, n
  <2>4. Covered(n, q, b.size_) = n
    <3>1. n \in Nat /\ q \in Nat /\ b.size_ \in Nat
      BY <1>2
    <3> QED
      BY ONLY <2>3, <3>1 DEF Covered, Smaller
  <2> QED
    BY <2>2, <2>4
<1>7. /\ needle \in Seq(Byte) /\ n = Len(needle)
      /\ Compared(m, c, b, k, i, needle)
            <=> \A t \in 0..N : SubSeq(bytes(t), idx(t) + 1, idx(t) + c[t])
                                   = SubSeq(needle, m[t] + 1, m[t] + c[t])
  BY DEF Compared
<1> DEFINE Same(t) == \A x \in 1..c[t] : s[q + (m[t] + x)] = needle[m[t] + x]
<1> HIDE DEF N, L, n, q, s, idx, bytes, rd, e
<1>8. ASSUME NEW t \in 0..N
      PROVE  SubSeq(bytes(t), idx(t) + 1, idx(t) + c[t])
                = SubSeq(needle, m[t] + 1, m[t] + c[t]) <=> Same(t)
  <2> DEFINE u == bytes(t)
             a == idx(t)
             w == m[t]
             l == c[t]
             p == e(t)
  <2>1. /\ u \in Seq(Byte) /\ a \in Nat /\ w \in Nat /\ l \in Nat
        /\ a + l <= Len(u) /\ w + l <= Len(needle) /\ (l # 0 => q + w = p + a)
        /\ Len(u) \in Nat /\ \A j \in 1..Len(u) : s[p + j] = u[j]
    BY <1>3, <1>4, <1>5, <1>7
  <2>2. p \in Nat
    <3>1. k + t \in b.read_block_..L
      BY <1>2
    <3>2. b.read_block_ \in 1..L /\ o \in [0..L -> Nat]
      BY DEF Ruler, L
    <3>3. k + t - 1 \in 0..L
      BY <1>2, <3>1, <3>2
    <3> QED
      BY <3>2, <3>3 DEF e
  <2> HIDE DEF u, a, w, l, p
  <2>3. SubSeq(u, a + 1, a + l) = SubSeq(needle, w + 1, w + l)
           <=> \A x \in 1..l : u[a + x] = needle[w + x]
    <3>1. /\ u \in Seq(Byte) /\ needle \in Seq(Byte) /\ a \in Nat /\ w \in Nat /\ l \in Nat
          /\ a + l <= Len(u) /\ w + l <= Len(needle)
      BY <1>7, <2>1
    <3>2. Piece(u, a, l) = Piece(needle, w, l) <=> Alike(u, a, needle, w, l)
      BY <3>1, SamePiece
    <3> QED
      BY <3>2 DEF Piece, Alike
  <2>4. ASSUME NEW x \in 1..l PROVE u[a + x] = s[q + (w + x)]
    <3>1. l # 0 /\ a + x \in 1..Len(u) /\ p + (a + x) = q + (w + x)
      BY <1>2, <2>1, <2>2, SMTT(30)
    <3>2. s[p + (a + x)] = u[a + x]
      BY <2>1, <3>1
    <3> QED
      BY <3>1, <3>2
  <2>5. SubSeq(u, a + 1, a + l) = SubSeq(needle, w + 1, w + l)
           <=> \A x \in 1..l : s[q + (w + x)] = needle[w + x]
    BY <2>3, <2>4
  <2> QED
    BY <2>5 DEF u, a, w, l
<1>9. MatchesAt(b, k, i, needle) <=> \A t \in 0..N : Same(t)
  <2> HIDE DEF Same
  <2> QED
    BY <1>1, <1>7, <1>8
<1>10. ASSUME \A t \in 0..N : Same(t), NEW y \in 1..n PROVE s[q + y] = needle[y]
  <2> DEFINE T == {t \in 0..N : y <= m[t] + c[t]}
  <2>1. T \subseteq Nat /\ T # {}
    <3>1. N \in 0..N /\ y <= m[N] + c[N]
      BY <1>2, <1>6
    <3> QED
      BY <3>1
  <2>2. PICK t \in T : \A z \in T : ~(z < t)
    <3> HIDE DEF T
    <3> QED
      BY <2>1, LeastElement
  <2>3. t \in 0..N /\ y <= m[t] + c[t] /\ m[t] \in Nat /\ c[t] \in Nat
    BY <1>5, <2>2
  <2>4. m[t] < y
    <3>1. CASE t = 0
      BY <1>5, <3>1
    <3>2. CASE t # 0
      <4>1. t - 1 \in 0..N /\ t \in 1..N /\ t - 1 < t
        BY <1>2, <2>3, <3>2
      <4>2. ~(y <= m[t - 1] + c[t - 1]) /\ m[t] = m[t - 1] + c[t - 1]
        BY <1>5, <2>2, <4>1
      <4> QED
        BY <2>3, <4>2
    <3> QED
      BY <3>1, <3>2
  <2> DEFINE x == y - m[t]
  <2>5. x \in 1..c[t] /\ m[t] + x = y
    BY <2>3, <2>4, SMTT(30)
  <2> HIDE DEF x
  <2> QED
    BY <1>10, <2>3, <2>5
<1>11. ASSUME \A y \in 1..n : s[q + y] = needle[y], NEW t \in 0..N PROVE Same(t)
  <2> SUFFICES ASSUME NEW x \in 1..c[t] PROVE s[q + (m[t] + x)] = needle[m[t] + x]
    OBVIOUS
  <2>1. m[t] + x \in 1..n
    <3>1. m[t] \in Nat /\ c[t] \in Nat /\ m[t] + c[t] <= n /\ n \in Nat /\ x \in 1..c[t]
      BY <1>2, <1>4, <1>5
    <3>2. \A u, v, z \in Nat : \A l \in 1..v : u + v <= z => u + l \in 1..z
      OBVIOUS
    <3> QED
      BY ONLY <3>1, <3>2
  <2> QED
    BY <1>11, <2>1
<1>12. MatchesAt(b, k, i, needle) <=> \A y \in 1..n : s[q + y] = needle[y]
  <2> HIDE DEF Same
  <2> QED
    BY <1>9, <1>10, <1>11
<1> QED
  BY <1>12 DEF n, s, q


\* An occurrence, byte by byte.
LEMMA OccurrenceIs ==
    ASSUME NEW s \in Seq(Byte), NEW needle \in Seq(Byte), NEW q \in Nat,
           q + Len(needle) <= Len(s)
    PROVE  SubSeq(s, q + 1, q + Len(needle)) = needle
              <=> Alike(s, q, needle, 0, Len(needle))
<1> DEFINE n == Len(needle)
           z == 0
<1>1. n \in Nat /\ z \in Nat /\ z + n <= Len(needle) /\ q + n <= Len(s)
  OBVIOUS
<1>2. Piece(needle, z, n) = needle
  BY DEF Piece
<1> HIDE DEF n, z
<1>3. Piece(s, q, n) = Piece(needle, z, n) <=> Alike(s, q, needle, z, n)
  BY <1>1, SamePiece
<1>4. Piece(s, q, n) = needle <=> Alike(s, q, needle, z, n)
  BY <1>2, <1>3
<1> QED
  BY <1>4 DEF Piece, n, z

\* A place in a block, and the byte there.
LEMMA PlaceFacts ==
    ASSUME NEW b, NEW o, Ruler(o, b), NEW k \in b.read_block_..Len(b.blocks),
           NEW i \in 0..(Readable(b.blocks[k]) - 1)
    PROVE  /\ Offset(b, k) = o[k - 1] /\ o[k - 1] + i \in 0..(b.size_ - 1)
           /\ Content(b)[o[k - 1] + i + 1] = ReadableBytes(b.blocks[k])[i + 1]
<1> DEFINE r == b.read_block_
           L == Len(b.blocks)
           x == Readable(b.blocks[k])
           p == o[k - 1]
<1>1. /\ r \in 1..L /\ L \in Nat /\ o \in [0..L -> Nat] /\ o[L] = b.size_
      /\ \A j, l \in (r - 1)..L : j <= l => o[j] <= o[l]
  BY DEF Ruler
<1>2. /\ x \in Nat /\ o[k] = p + x
      /\ \A j \in 1..x : Content(b)[p + j] = ReadableBytes(b.blocks[k])[j]
  BY DEF Ruler
<1>3. k - 1 \in 0..L /\ k \in (r - 1)..L /\ L \in (r - 1)..L /\ k <= L /\ L \in 0..L
  BY <1>1
<1>4. p \in Nat /\ o[k] <= o[L] /\ b.size_ \in Nat
  BY <1>1, <1>3
<1>5. i \in 0..(x - 1)
  OBVIOUS
<1> HIDE DEF r, L, x, p
<1>6. p + i \in 0..(b.size_ - 1) /\ i + 1 \in 1..x /\ p + i + 1 = p + (i + 1)
  BY <1>1, <1>2, <1>4, <1>5
<1>7. Offset(b, k) = p
  BY OffsetIs DEF p
<1> QED
  BY <1>2, <1>6, <1>7 DEF p

\* find() tries the places of the content at which the needle can be.
LEMMA HitsAre ==
    ASSUME NEW b, Good(b), NEW needle \in Seq(Byte), needle # <<>>
    PROVE  Hits(b, needle) = Occurrences(Content(b), needle)
<1>1. PICK o : Ruler(o, b)
  BY RulerExists
<1> DEFINE s == Content(b)
           n == Len(needle)
           r == b.read_block_
           L == Len(b.blocks)
<1>2. s \in Seq(Byte) /\ b.size_ = Len(s) /\ Len(s) \in Nat /\ n \in Nat /\ n >= 1
  BY SizeBound DEF Good
<1>3. \A h : h \in Hits(b, needle)
               <=> \E k \in r..L : \E i \in 0..(Readable(b.blocks[k]) - 1) :
                      /\ h = Offset(b, k) + i
                      /\ Offset(b, k) + i + n <= b.size_ /\ MatchesAt(b, k, i, needle)
  BY DEF Hits
<1>4. \A h : h \in Occurrences(s, needle)
               <=> h \in 0..(Len(s) - n) /\ SubSeq(s, h + 1, h + n) = needle
  BY DEF Occurrences
<1>5. \A k \in r..L : \A i \in 0..(Readable(b.blocks[k]) - 1) :
         /\ Offset(b, k) = o[k - 1] /\ o[k - 1] + i \in 0..(b.size_ - 1)
         /\ o[k - 1] + i + n <= b.size_
               => (MatchesAt(b, k, i, needle) <=> Alike(s, o[k - 1] + i, needle, 0, n))
  <2> TAKE k \in r..L
  <2> TAKE i \in 0..(Readable(b.blocks[k]) - 1)
  <2>1. Offset(b, k) = o[k - 1] /\ o[k - 1] + i \in 0..(b.size_ - 1)
    BY <1>1, PlaceFacts
  <2>2. ASSUME o[k - 1] + i + n <= b.size_
        PROVE  MatchesAt(b, k, i, needle) <=> Alike(s, o[k - 1] + i, needle, 0, n)
    <3>1. MatchesAt(b, k, i, needle) <=> \A y \in 1..n : s[o[k - 1] + i + y] = needle[y]
      BY <1>1, <2>2, MatchIs
    <3>2. \A y \in 1..n : 0 + y = y
      BY <1>2
    <3>3. Alike(s, o[k - 1] + i, needle, 0, n) <=> \A y \in 1..n : s[o[k - 1] + i + y] = needle[y]
      BY <3>2 DEF Alike
    <3> QED
      BY <3>1, <3>3
  <2> QED
    BY <2>1, <2>2
<1>6. \A q \in 0..(b.size_ - 1) :
         \E k \in r..L : \E i \in 0..(Readable(b.blocks[k]) - 1) : q = o[k - 1] + i
  BY <1>1, Located
<1>7. \A q \in Nat : q + n <= Len(s)
         => (SubSeq(s, q + 1, q + n) = needle <=> Alike(s, q, needle, 0, n))
  BY <1>2, OccurrenceIs
<1> HIDE DEF s, n, r, L
<1>8. ASSUME NEW h \in Hits(b, needle) PROVE h \in Occurrences(s, needle)
  <2>0. PICK k \in r..L : \E i \in 0..(Readable(b.blocks[k]) - 1) :
           /\ h = Offset(b, k) + i
           /\ Offset(b, k) + i + n <= b.size_ /\ MatchesAt(b, k, i, needle)
    BY <1>3
  <2>1. PICK i \in 0..(Readable(b.blocks[k]) - 1) :
           /\ h = Offset(b, k) + i
           /\ Offset(b, k) + i + n <= b.size_ /\ MatchesAt(b, k, i, needle)
    BY <2>0
  <2>2. /\ h = o[k - 1] + i /\ h \in 0..(b.size_ - 1) /\ h + n <= b.size_
        /\ Alike(s, h, needle, 0, n)
    BY <1>5, <2>1
  <2>3. h \in Nat /\ h + n <= Len(s) /\ h \in 0..(Len(s) - n)
    BY <1>2, <2>2
  <2> QED
    BY <1>4, <1>7, <2>2, <2>3
<1>9. ASSUME NEW h \in Occurrences(s, needle) PROVE h \in Hits(b, needle)
  <2>1. h \in 0..(Len(s) - n) /\ SubSeq(s, h + 1, h + n) = needle
    BY <1>4
  <2>2. h \in Nat /\ h + n <= Len(s) /\ h \in 0..(b.size_ - 1) /\ h + n <= b.size_
    BY <1>2, <2>1
  <2>3. Alike(s, h, needle, 0, n)
    BY <1>7, <2>1, <2>2
  <2>4. PICK k \in r..L : \E i \in 0..(Readable(b.blocks[k]) - 1) : h = o[k - 1] + i
    BY <1>6, <2>2
  <2>5. PICK i \in 0..(Readable(b.blocks[k]) - 1) : h = o[k - 1] + i
    BY <2>4
  <2>6. h = Offset(b, k) + i /\ Offset(b, k) + i + n <= b.size_ /\ MatchesAt(b, k, i, needle)
    BY <1>5, <2>2, <2>3, <2>5
  <2> QED
    BY <1>3, <2>5, <2>6
<1> QED
  BY <1>8, <1>9 DEF s

\* find(c) finds what find() finds for a needle of one byte.
LEMMA CharHitsAre ==
    ASSUME NEW b, Good(b), NEW needle \in Seq(Byte), Len(needle) = 1
    PROVE  CharHits(b, needle[1]) = Occurrences(Content(b), needle)
<1>1. PICK o : Ruler(o, b)
  BY RulerExists
<1> DEFINE s == Content(b)
           c == needle[1]
           r == b.read_block_
           L == Len(b.blocks)
<1>2. s \in Seq(Byte) /\ b.size_ = Len(s) /\ Len(s) \in Nat
  BY SizeBound DEF Good
<1>3. \A h : h \in CharHits(b, c)
               <=> \E k \in r..L : \E i \in 0..(Readable(b.blocks[k]) - 1) :
                      h = Offset(b, k) + i /\ ReadableBytes(b.blocks[k])[i + 1] = c
  BY DEF CharHits
<1>4. \A h : h \in Occurrences(s, needle) <=> h \in 0..(Len(s) - 1) /\ s[h + 1] = c
  <2>1. \A h : h \in Occurrences(s, needle)
                  <=> h \in 0..(Len(s) - 1) /\ SubSeq(s, h + 1, h + 1) = needle
    BY DEF Occurrences
  <2>2. ASSUME NEW h \in 0..(Len(s) - 1)
        PROVE  SubSeq(s, h + 1, h + 1) = needle <=> s[h + 1] = c
    <3>1. h \in Nat /\ h + Len(needle) <= Len(s)
      BY <1>2
    <3> HIDE DEF s
    <3>2. SubSeq(s, h + 1, h + Len(needle)) = needle <=> Alike(s, h, needle, 0, Len(needle))
      BY <1>2, <3>1, OccurrenceIs
    <3>3. Alike(s, h, needle, 0, 1) <=> s[h + 1] = needle[1]
      <4>1. \A x \in 1..1 : x = 1
        OBVIOUS
      <4>2. 0 + 1 = 1 /\ 1 \in 1..1
        OBVIOUS
      <4> QED
        BY <4>1, <4>2 DEF Alike
    <3> QED
      BY <3>2, <3>3
  <2> HIDE DEF s, c
  <2> QED
    BY <2>1, <2>2
<1>5. \A k \in r..L : \A i \in 0..(Readable(b.blocks[k]) - 1) :
         /\ Offset(b, k) = o[k - 1] /\ o[k - 1] + i \in 0..(b.size_ - 1)
         /\ s[o[k - 1] + i + 1] = ReadableBytes(b.blocks[k])[i + 1]
  BY <1>1, PlaceFacts
<1>6. \A q \in 0..(b.size_ - 1) :
         \E k \in r..L : \E i \in 0..(Readable(b.blocks[k]) - 1) : q = o[k - 1] + i
  BY <1>1, Located
<1> HIDE DEF s, c, r, L
<1>7. ASSUME NEW h \in CharHits(b, c) PROVE h \in Occurrences(s, needle)
  BY <1>2, <1>3, <1>4, <1>5
<1>8. ASSUME NEW h \in Occurrences(s, needle) PROVE h \in CharHits(b, c)
  <2>1. h \in 0..(b.size_ - 1) /\ s[h + 1] = c
    BY <1>2, <1>4
  <2>2. PICK k \in r..L : \E i \in 0..(Readable(b.blocks[k]) - 1) : h = o[k - 1] + i
    BY <1>6, <2>1
  <2>3. PICK i \in 0..(Readable(b.blocks[k]) - 1) : h = o[k - 1] + i
    BY <2>2
  <2>4. h = Offset(b, k) + i /\ ReadableBytes(b.blocks[k])[i + 1] = c
    BY <1>5, <2>1, <2>3
  <2> QED
    BY <1>3, <2>3, <2>4
<1> QED
  BY <1>7, <1>8 DEF s, c


\* The first of some places is one of them.
LEMMA FirstOfFacts ==
    ASSUME NEW T, T \subseteq Nat
    PROVE  FirstOf(T) = -1 \/ FirstOf(T) \in T
<1>1. CASE T = {}
  BY <1>1 DEF FirstOf
<1>2. CASE T # {}
  <2>1. PICK x \in T : \A y \in T : ~(y < x)
    BY <1>2, LeastElement
  <2>2. \A y \in T : x <= y
    <3>1. \A y \in T : y \in Nat /\ x \in Nat
      OBVIOUS
    <3> QED
      BY <2>1, <3>1
  <2>3. Min(T) \in T
    BY <2>2 DEF Min
  <2> QED
    BY <1>2, <2>3 DEF FirstOf
<1> QED
  BY <1>1, <1>2

\* find() is right on every chain in order.
LEMMA FindGood ==
    ASSUME NEW b, Good(b), NEW needle \in Seq(Byte), needle # <<>>
    PROVE  LET first == FirstOccurrence(Content(b), needle)
           IN  /\ Find(b, needle) = first
               /\ Len(needle) = 1 => FindChar(b, needle[1]) = first
<1> DEFINE s == Content(b)
           T == Occurrences(s, needle)
<1>1. s \in Seq(Byte) /\ b.size_ = Len(s) /\ Len(s) \in Nat /\ Len(needle) \in Nat
      /\ Len(needle) >= 1
  BY SizeBound DEF Good
<1>2. b.size_ < Len(needle) => T = {}
  <2>1. ASSUME b.size_ < Len(needle) PROVE 0..(Len(s) - Len(needle)) = {}
    BY <1>1, <2>1
  <2> QED
    BY <2>1 DEF Occurrences
<1>3. Hits(b, needle) = T
  BY HitsAre
<1>4. Len(needle) = 1 => CharHits(b, needle[1]) = T
  BY CharHitsAre
<1> HIDE DEF s, T
<1>5. FirstOf({}) = -1
  BY DEF FirstOf
<1>6. Find(b, needle) = FirstOf(T)
  BY <1>2, <1>3, <1>5 DEF Find
<1>7. ASSUME Len(needle) = 1 PROVE FindChar(b, needle[1]) = FirstOf(T)
  <2>1. b.size_ = 0 => b.size_ < Len(needle)
    BY <1>1
  <2> QED
    BY <1>2, <1>4, <1>5, <1>7, <2>1 DEF FindChar
<1> QED
  BY <1>6, <1>7 DEF FirstOccurrence, T, s

\* What read_until() returns is the beginning of the content.
LEMMA ReadUntilGood ==
    ASSUME NEW b, Good(b), NEW needle \in Seq(Byte), needle # <<>>,
           ReadUntil(b, needle) # <<>>
    PROVE  ReadUntil(b, needle)
              = SubSeq(Content(b), 1, FirstOccurrence(Content(b), needle) + Len(needle))
<1> DEFINE s == Content(b)
           pos == Find(b, needle)
           total == pos + Len(needle)
           x == b.blocks[b.read_block_]
           u == ReadableBytes(x)
<1>1. pos = FirstOccurrence(s, needle)
  BY FindGood
<1>2. /\ s \in Seq(Byte) /\ b.size_ = Len(s) /\ Len(s) \in Nat /\ Len(needle) \in Nat
      /\ x = ReadBlock(b)
  BY SizeBound DEF Good, ReadBlock
<1>3. ~(pos < 0) /\ ~(total > Readable(x)) /\ ReadUntil(b, needle) = SubSeq(u, 1, total)
  BY <1>2 DEF ReadUntil
<1>4. pos = -1 \/ pos \in Nat
  <2>1. Occurrences(s, needle) \subseteq Nat
    BY DEF Occurrences
  <2>2. FirstOf(Occurrences(s, needle)) = -1
           \/ FirstOf(Occurrences(s, needle)) \in Occurrences(s, needle)
    BY <2>1, FirstOfFacts
  <2> QED
    BY <1>1, <2>1, <2>2 DEF FirstOccurrence
<1> HIDE DEF pos, s
<1>5. pos \in Nat /\ total \in Nat
  BY <1>2, <1>3, <1>4
<1>6. PICK o : Ruler(o, b)
  BY RulerExists
<1>7. /\ u \in Seq(Byte) /\ Len(u) = Readable(x) /\ Readable(x) \in Nat
      /\ \A i \in 1..Len(u) : s[0 + i] = u[i]
      /\ Len(u) <= Len(s)
  <2>1. b.read_block_ \in 1..Len(b.blocks) /\ o[b.read_block_ - 1] = 0 /\ Len(b.blocks) \in Nat
    BY <1>6 DEF Ruler
  <2>2. b.read_block_ \in b.read_block_..Len(b.blocks)
    BY <2>1
  <2>3. /\ u \in Seq(Byte) /\ Len(u) = Readable(x) /\ Readable(x) \in Nat
        /\ \A i \in 1..Readable(x) : s[o[b.read_block_ - 1] + i] = u[i]
    BY <1>6, <2>2 DEF Ruler, s
  <2>4. Readable(x) <= b.size_
    BY <1>2, ReadBlockFacts
  <2> HIDE DEF x, u
  <2> QED
    BY <1>2, <2>1, <2>3, <2>4
<1> HIDE DEF total, u, x
<1> DEFINE z == 0
<1>8. /\ z \in Nat /\ z + total <= Len(u) /\ z + total <= Len(s) /\ z + total = total
      /\ z + 1 = 1
  BY <1>2, <1>3, <1>5, <1>7
<1>9. Alike(u, z, s, z, total)
  <2>1. \A i \in 1..total : i \in 1..Len(u) /\ z + i = i
    BY <1>5, <1>7, <1>8
  <2> QED
    BY <1>7, <2>1 DEF Alike
<1> HIDE DEF z
<1>10. Piece(u, z, total) = Piece(s, z, total)
  BY <1>2, <1>5, <1>7, <1>8, <1>9, SamePiece
<1>11. SubSeq(u, 1, total) = SubSeq(s, 1, total)
  BY <1>8, <1>10 DEF Piece
<1> QED
  BY <1>1, <1>3, <1>11 DEF total, s

\* In every state find(), for needles and for characters, returns the first
\* occurrence in the bytes the buffer holds, and a slice of read_until() ends
\* with the first delimiter: the ends of blocks, for any block size, and needles
\* of any length that lie across several, make no difference.
THEOREM SearchesAreRight == Spec => []FindIsFirstOccurrence
<1>1. BufferInv => FindIsFirstOccurrence
  <2> SUFFICES ASSUME BufferInv PROVE FindIsFirstOccurrence
    OBVIOUS
  <2>1. Good(buf)
    BY DEF BufferInv, GoodBuffers
  <2>2. ASSUME NEW needle \in Needles PROVE needle \in Seq(Byte) /\ needle # <<>>
    <3>1. needle \in UNION {[1..m -> Byte] : m \in 0..MaxNeedle} /\ needle # <<>>
      BY DEF Needles, BoundedSeq, SeqOf
    <3>2. PICK m \in 0..MaxNeedle : needle \in [1..m -> Byte]
      BY <3>1
    <3>3. m \in Nat
      BY NeedleAssumption
    <3> QED
      BY <3>1, <3>2, <3>3
  <2>3. ASSUME NEW needle \in Needles
        PROVE  LET first == FirstOccurrence(Content(buf), needle)
                   slice == ReadUntil(buf, needle)
               IN  /\ Find(buf, needle) = first
                   /\ Len(needle) = 1 => FindChar(buf, needle[1]) = first
                   /\ slice # <<>> => slice = SubSeq(Content(buf), 1, first + Len(needle))
    BY <2>1, <2>2, FindGood, ReadUntilGood
  <2> QED
    BY <2>3 DEF FindIsFirstOccurrence
<1> QED
  BY <1>1, BufferInvariant, PTL


=============================================================================
