-------------------------- MODULE Recursion_proofs --------------------------
(***************************************************************************)
(* Induction over the natural numbers, stated for sets: what the proofs    *)
(* about functions defined by recursion rest on.  (The induction theorems  *)
(* of the library take an operator, which the provers cannot instantiate.) *)
(***************************************************************************)
EXTENDS Naturals, WellFoundedInduction, TLAPS

\* A set of natural numbers that is not empty has a least member.
LEMMA LeastNatural ==
  ASSUME NEW T \in SUBSET Nat, T # {}
  PROVE  \E n \in T : \A m \in T : ~(m < n)
<1> DEFINE R == OpToRel(<, Nat)
<1>1. IsWellFoundedOn(R, Nat)
  BY NatLessThanWellFounded
<1>2. R = {p \in Nat \X Nat : p[1] < p[2]}
  BY DEF OpToRel
<1> HIDE DEF R
<1>3. PICK n \in T : \A m \in T : ~(<<m, n>> \in R)
  BY <1>1, WFMin
<1>4. ASSUME NEW m \in T, m < n
      PROVE  FALSE
  <2>1. <<m, n>> \in Nat \X Nat /\ <<m, n>>[1] < <<m, n>>[2]
    BY <1>4
  <2>2. <<m, n>> \in R
    BY <1>2, <2>1
  <2>3. QED
    BY <1>3, <2>2
<1>5. QED
  BY <1>3, <1>4

\* What holds of 0, and of n + 1 whenever of n, holds of every natural number.
LEMMA SetInduction ==
  ASSUME NEW P, 0 \in P, \A n \in Nat : n \in P => n + 1 \in P
  PROVE  Nat \subseteq P
<1> SUFFICES ASSUME Nat \ P # {}
             PROVE  FALSE
  OBVIOUS
<1>1. PICK n \in Nat \ P : \A m \in Nat \ P : ~(m < n)
  BY LeastNatural
<1>2. n # 0 /\ n - 1 \in Nat /\ n - 1 < n /\ n = (n - 1) + 1
  BY <1>1
<1>3. n - 1 \in P
  BY <1>1, <1>2
<1>4. QED
  BY <1>1, <1>2, <1>3

\* What holds at 0, and at n whenever at n - 1, holds up to the end.
LEMMA PrefixInduction ==
  ASSUME NEW S, NEW n \in Nat, NEW f, f[0] \in S,
         \A i \in 1..n : f[i - 1] \in S => f[i] \in S
  PROVE  \A i \in 0..n : f[i] \in S
<1> DEFINE P == {i \in Nat : i <= n => f[i] \in S}
<1>1. 0 \in P
  OBVIOUS
<1>2. ASSUME NEW i \in Nat, i \in P
      PROVE  i + 1 \in P
  <2>1. SUFFICES ASSUME i + 1 <= n
                 PROVE  f[i + 1] \in S
    OBVIOUS
  <2> DEFINE j == i + 1
  <2>2. j \in 1..n /\ j - 1 = i /\ f[i] \in S
    BY <1>2, <2>1
  <2> HIDE DEF j
  <2>3. f[j] \in S
    BY <2>2
  <2>4. QED
    BY <2>3 DEF j
<1>3. Nat \subseteq P
  <2> HIDE DEF P
  <2>1. QED
    BY <1>1, <1>2, SetInduction
<1>4. QED
  BY <1>3

AgreeStepwise(n, f, g) == f[0] = g[0] /\ \A i \in 1..n : f[i - 1] = g[i - 1] => f[i] = g[i]

\* Functions that agree at 0, and at n whenever at n - 1, agree up to the end.
LEMMA PrefixEqual ==
  ASSUME NEW n \in Nat, NEW f, NEW g, AgreeStepwise(n, f, g)
  PROVE  \A i \in 0..n : f[i] = g[i]
<1> USE DEF AgreeStepwise
<1> DEFINE P == {i \in Nat : i <= n => f[i] = g[i]}
<1>1. 0 \in P
  OBVIOUS
<1>2. ASSUME NEW i \in Nat, i \in P
      PROVE  i + 1 \in P
  <2>1. SUFFICES ASSUME i + 1 <= n
                 PROVE  f[i + 1] = g[i + 1]
    OBVIOUS
  <2> DEFINE j == i + 1
  <2>2. j \in 1..n /\ j - 1 = i /\ f[i] = g[i]
    BY <1>2, <2>1
  <2> HIDE DEF j
  <2>3. f[j] = g[j]
    BY <2>2
  <2>4. QED
    BY <2>3 DEF j
<1>3. Nat \subseteq P
  <2> HIDE DEF P
  <2>1. QED
    BY <1>1, <1>2, SetInduction
<1>4. QED
  BY <1>3

IsRecursion(S, n, base, before, step) ==
  /\ n \in Nat /\ base \in S
  /\ before \in [1..n -> Nat] /\ \A i \in 1..n : before[i] < i
  /\ step \in [1..n -> [S -> S]]

\* A function that is defined at 0, and at every other place from its value at an earlier
\* place, does exist.
LEMMA RecursionExists ==
  ASSUME NEW S, NEW n, NEW base, NEW before, NEW step, IsRecursion(S, n, base, before, step)
  PROVE  \E f \in [0..n -> S] :
           f[0] = base /\ \A i \in 1..n : f[i] = step[i][f[before[i]]]
<1> USE DEF IsRecursion
<1> DEFINE Is(m, f) == f[0] = base /\ \A i \in 1..m : f[i] = step[i][f[before[i]]]
           P == {m \in Nat : m <= n => \E f \in [0..m -> S] : Is(m, f)}
<1>1. 0 \in P
  <2> DEFINE f == [i \in 0..0 |-> base]
  <2>1. f \in [0..0 -> S] /\ Is(0, f)
    OBVIOUS
  <2>2. QED
    BY <2>1
<1>2. ASSUME NEW m \in Nat, m \in P
      PROVE  m + 1 \in P
  <2>1. SUFFICES ASSUME m + 1 <= n
                 PROVE  \E f \in [0..m + 1 -> S] : Is(m + 1, f)
    <3> HIDE DEF Is
    <3>1. m + 1 \in Nat
      OBVIOUS
    <3>2. QED
      BY <3>1
  <2>2. PICK f \in [0..m -> S] : Is(m, f)
    BY <1>2, <2>1
  <2> DEFINE q == m + 1
             g == [i \in 0..q |-> IF i = q THEN step[q][f[before[q]]] ELSE f[i]]
  <2>3. q \in 1..n /\ q \in Nat /\ before[q] \in 0..m
    BY <2>1
  <2>4. step[q] \in [S -> S] /\ f[before[q]] \in S
    BY <2>2, <2>3
  <2>5. g \in [0..q -> S]
    BY <2>2, <2>4
  <2>6. ASSUME NEW i \in 1..q
        PROVE  g[i] = step[i][g[before[i]]]
    <3>1. i \in 0..q /\ i \in 1..n /\ before[i] \in 0..m /\ before[i] # q /\ before[i] \in 0..q
      BY <2>1
    <3>2. g[before[i]] = f[before[i]]
      BY <3>1
    <3>3. CASE i = q
      <4>1. g[q] = step[q][f[before[q]]]
        BY <2>3
      <4>2. QED
        BY <3>2, <3>3, <4>1
    <3>4. CASE i # q
      <4>1. i \in 1..m /\ g[i] = f[i]
        BY <3>4
      <4>2. f[i] = step[i][f[before[i]]]
        BY <2>2, <4>1
      <4>3. QED
        BY <3>2, <4>1, <4>2
    <3>5. QED
      BY <3>3, <3>4
  <2>7. g[0] = base
    BY <2>2
  <2>8. Is(q, g)
    BY <2>6, <2>7
  <2> HIDE DEF Is, g
  <2>9. QED
    BY <2>5, <2>8
<1> HIDE DEF Is
<1>3. Nat \subseteq P
  BY <1>1, <1>2, SetInduction
<1>4. QED
  BY <1>3 DEF Is

=============================================================================
