------------------------------ MODULE Induction ----------------------------
(***************************************************************************)
(* Induction over the natural numbers, stated for a set instead of a       *)
(* predicate, and the existence of a function that is defined by           *)
(* recursion: what the proofs about loops over vectors rest on.            *)
(***************************************************************************)
EXTENDS Integers, WellFoundedInduction, TLAPS

\* A set of numbers that is not empty has a least element.
LEMMA LeastElement ==
    ASSUME NEW T, T \subseteq Nat, T # {}
    PROVE  \E x \in T : \A y \in T : ~(y < x)
<1> DEFINE R == OpToRel(<, Nat)
<1>1. IsWellFoundedOn(R, Nat)
  BY NatLessThanWellFounded, Zenon
<1>2. \A y, x \in Nat : y < x => <<y, x>> \in R
  BY DEF OpToRel
<1> HIDE DEF R
<1>3. \E x \in T : \A y \in T : ~ (<<y, x>> \in R)
  BY <1>1, WFMin
<1> QED
  BY <1>2, <1>3

\* Induction: a set that holds 0 and, with a number, the next one, holds them all.
LEMMA SetInduction ==
    ASSUME NEW T, 0 \in T, \A n \in Nat : n \in T => n + 1 \in T
    PROVE  Nat \subseteq T
<1> DEFINE U == Nat \ T
<1>1. SUFFICES ASSUME U # {} PROVE FALSE
  OBVIOUS
<1>2. PICK x \in U : \A y \in U : ~(y < x)
  BY <1>1, LeastElement
<1>3. x # 0 /\ x - 1 \in Nat
  BY <1>2
<1>4. x - 1 \in T
  BY <1>2, <1>3
<1>5. (x - 1) + 1 \in T
  BY <1>3, <1>4
<1> QED
  BY <1>2, <1>5

\* f is the function that starts with x0 and goes on with step, on 0..N.
IsRecursion(f, N, X, x0, step) ==
    f \in [0..N -> X] /\ f[0] = x0 /\ \A i \in 1..N : f[i] = step[i][f[i - 1]]

\* A function defined by recursion on 0..N exists.
LEMMA RecursionExists ==
    ASSUME NEW N \in Nat, NEW X, NEW x0 \in X, NEW step \in [1..N -> [X -> X]]
    PROVE  \E f : IsRecursion(f, N, X, x0, step)
<1> DEFINE Up(n) == \E f \in [0..n -> X] :
                       /\ f[0] = x0
                       /\ \A i \in 1..n : f[i] = step[i][f[i - 1]]
           T == {n \in Nat : n <= N => Up(n)}
<1>1. 0 \in T
  <2> DEFINE f == [i \in 0..0 |-> x0]
  <2>1. f \in [0..0 -> X] /\ f[0] = x0 /\ \A i \in 1..0 : f[i] = step[i][f[i - 1]]
    OBVIOUS
  <2> QED
    BY <2>1
<1>2. ASSUME NEW n \in Nat, n \in T PROVE n + 1 \in T
  <2>1. SUFFICES ASSUME n + 1 <= N PROVE Up(n + 1)
    OBVIOUS
  <2>2. PICK f \in [0..n -> X] : f[0] = x0 /\ \A i \in 1..n : f[i] = step[i][f[i - 1]]
    BY <1>2, <2>1
  <2> DEFINE g == [i \in 0..(n + 1) |-> IF i = n + 1 THEN step[n + 1][f[n]] ELSE f[i]]
  <2>3. n + 1 \in 1..N /\ f[n] \in X /\ step[n + 1] \in [X -> X]
    BY <2>1
  <2>4. step[n + 1][f[n]] \in X
    BY <2>3
  <2>5. g \in [0..(n + 1) -> X] /\ g[0] = x0
    BY <2>2, <2>4
  <2>6. \A i \in 0..n : g[i] = f[i]
    OBVIOUS
  <2>7. g[n + 1] = step[n + 1][f[n]]
    OBVIOUS
  <2> HIDE DEF g
  <2>8. ASSUME NEW i \in 1..(n + 1) PROVE g[i] = step[i][g[i - 1]]
    <3>1. CASE i = n + 1
      BY <2>6, <2>7, <3>1
    <3>2. CASE i # n + 1
      <4>1. i \in 1..n /\ i - 1 \in 0..n /\ i \in 0..n
        BY <3>2
      <4> QED
        BY <2>2, <2>6, <4>1
    <3> QED
      BY <3>1, <3>2
  <2> QED
    BY <2>5, <2>8
<1> HIDE DEF Up
<1>3. N \in T
  BY <1>1, <1>2, SetInduction
<1> QED
  BY <1>3 DEF Up, IsRecursion

\* A loop whose turns stay in a set stays in it.
LEMMA LoopInvariant ==
    ASSUME NEW N \in Nat, NEW X, NEW w, w[0] \in X,
           \A i \in 1..N : w[i - 1] \in X => w[i] \in X
    PROVE  \A i \in 0..N : w[i] \in X
<1> DEFINE T == {i \in Nat : i <= N => w[i] \in X}
<1>1. 0 \in T
  OBVIOUS
<1>2. ASSUME NEW i \in Nat, i \in T PROVE i + 1 \in T
  <2>1. SUFFICES ASSUME i + 1 <= N PROVE w[i + 1] \in X
    OBVIOUS
  <2>2. i + 1 \in 1..N /\ (i + 1) - 1 = i /\ w[i] \in X
    BY <1>2, <2>1
  <2> QED
    BY <2>2
<1>3. Nat \subseteq T
  <2> HIDE DEF T
  <2> QED
    BY <1>1, <1>2, SetInduction
<1> QED
  BY <1>3

\* What holds after the first turn and is kept by every turn holds at the end.
LEMMA LoopAfterFirst ==
    ASSUME NEW N \in Nat, N >= 1, NEW X, NEW w, w[1] \in X,
           \A i \in 1..N : w[i - 1] \in X => w[i] \in X
    PROVE  w[N] \in X
<1> DEFINE T == {i \in Nat : i + 1 <= N => w[i + 1] \in X}
<1>1. 0 \in T
  <2>1. 0 + 1 = 1
    OBVIOUS
  <2> QED
    BY <2>1
<1>2. ASSUME NEW i \in Nat, i \in T PROVE i + 1 \in T
  <2>1. SUFFICES ASSUME (i + 1) + 1 <= N PROVE w[(i + 1) + 1] \in X
    OBVIOUS
  <2>2. (i + 1) + 1 \in 1..N /\ ((i + 1) + 1) - 1 = i + 1 /\ w[i + 1] \in X
    BY <1>2, <2>1
  <2> QED
    BY <2>2
<1>3. Nat \subseteq T
  <2> HIDE DEF T
  <2> QED
    BY <1>1, <1>2, SetInduction
<1>4. N - 1 \in Nat /\ (N - 1) + 1 = N
  OBVIOUS
<1>5. N - 1 \in T
  BY <1>3, <1>4
<1> QED
  BY <1>4, <1>5

=============================================================================
