------------------------------ MODULE Recursion ------------------------------
(***************************************************************************)
(* Induction over sets of numbers, and what it says of functions that are  *)
(* defined by recursion over an interval: that they satisfy the equation   *)
(* they are defined by. The step is a function, not an operator, so that   *)
(* the lemmas can be applied.                                              *)
(***************************************************************************)
EXTENDS Integers, WellFoundedInduction, TLAPS

\* Of some numbers one is the least.
LEMMA SmallestExists ==
    ASSUME NEW S \in SUBSET Nat, S # {}
    PROVE  \E m \in S : \A n \in S : ~ (n < m)
<1>1. \E m \in S : \A n \in S : ~ (<<n, m>> \in OpToRel(<, Nat))
  <2> HIDE DEF OpToRel
  <2> QED
    BY WFMin, NatLessThanWellFounded
<1> QED
  BY <1>1 DEF OpToRel

\* A set of numbers that has 0, and the successor of each of its elements,
\* has every number.
THEOREM SetInduction ==
    ASSUME NEW S \in SUBSET Nat, 0 \in S, \A n \in S : n + 1 \in S
    PROVE  S = Nat
<1> SUFFICES ASSUME Nat \ S # {}
             PROVE  FALSE
  OBVIOUS
<1>2. PICK m \in Nat \ S : \A n \in Nat \ S : ~ (n < m)
  BY SmallestExists
<1>3. m # 0 /\ m - 1 \in Nat /\ m - 1 < m
  BY <1>2
<1>4. m - 1 \in S
  BY <1>2, <1>3
<1>5. (m - 1) + 1 \in S
  BY <1>4
<1> QED
  BY <1>2, <1>5

\* The same up to a bound.
THEOREM IntervalInduction ==
    ASSUME NEW k \in Nat, NEW S, 0 \in S, \A n \in 0 .. k - 1 : n \in S => n + 1 \in S
    PROVE  0 .. k \subseteq S
<1> DEFINE T == {n \in Nat : n <= k => n \in S}
<1>1. T \in SUBSET Nat /\ 0 \in T
  OBVIOUS
<1>2. ASSUME NEW n \in T
      PROVE  n + 1 \in T
  OBVIOUS
<1>3. T = Nat
  <2> HIDE DEF T
  <2> QED
    BY <1>1, <1>2, SetInduction
<1> QED
  BY <1>3

\* The functions that start with e and take step[n][v] from v to their value
\* at n, for n up to m.
Unfolding(m, V, e, step) ==
    {f \in [0 .. m -> V] : f[0] = e /\ \A n \in 1 .. m : f[n] = step[n][f[n - 1]]}

\* Such a function can be extended by one.
LEMMA OneStepFurther ==
    ASSUME NEW m \in Nat, NEW V, NEW e \in V, NEW step, NEW f \in Unfolding(m, V, e, step),
           step[m + 1][f[m]] \in V
    PROVE  Unfolding(m + 1, V, e, step) # {}
<1> DEFINE g == [n \in 0 .. m + 1 |-> IF n = m + 1 THEN step[m + 1][f[m]] ELSE f[n]]
<1>1. f \in [0 .. m -> V] /\ f[0] = e /\ \A n \in 1 .. m : f[n] = step[n][f[n - 1]]
  BY DEF Unfolding
<1>2. \A n \in 0 .. m + 1 : n # m + 1 => n \in 0 .. m /\ f[n] \in V
  BY <1>1
<1>3. g \in [0 .. m + 1 -> V]
  BY <1>2
<1>4. g[0] = e
  BY <1>1
<1>5. ASSUME NEW n \in 1 .. m + 1
      PROVE  g[n] = step[n][g[n - 1]]
  <2>1. g[n - 1] = f[n - 1]
    OBVIOUS
  <2>2. CASE n = m + 1
    <3>1. n - 1 = m /\ n \in 0 .. m + 1
      BY <2>2
    <3>2. g[n] = step[m + 1][f[m]]
      BY <2>2, <3>1
    <3> QED
      BY <2>1, <2>2, <3>1, <3>2
  <2>3. CASE n # m + 1
    <3>1. n \in 1 .. m /\ g[n] = f[n]
      BY <2>3
    <3> QED
      BY <1>1, <2>1, <3>1
  <2> QED
    BY <2>2, <2>3
<1> HIDE DEF g
<1>6. g \in Unfolding(m + 1, V, e, step)
  BY <1>3, <1>4, <1>5 DEF Unfolding
<1> QED
  BY <1>6

\* There is always such a function.
THEOREM UnfoldingExists ==
    ASSUME NEW k \in Nat, NEW V, NEW e \in V, NEW step,
           \A n \in 1 .. k : \A v \in V : step[n][v] \in V
    PROVE  Unfolding(k, V, e, step) # {}
<1> DEFINE S == {m \in 0 .. k : Unfolding(m, V, e, step) # {}}
<1>1. Unfolding(0, V, e, step) # {}
  <2> DEFINE f == [n \in 0 .. 0 |-> e]
  <2>1. f \in [0 .. 0 -> V] /\ f[0] = e
    OBVIOUS
  <2> HIDE DEF f
  <2>2. f \in Unfolding(0, V, e, step)
    BY <2>1 DEF Unfolding
  <2> QED
    BY <2>2
<1>2. ASSUME NEW m \in 0 .. k - 1, Unfolding(m, V, e, step) # {}
      PROVE  Unfolding(m + 1, V, e, step) # {}
  <2>1. PICK f : f \in Unfolding(m, V, e, step)
    BY <1>2
  <2>2. m \in Nat /\ m + 1 \in 1 .. k
    OBVIOUS
  <2>3. f[m] \in V
    BY <2>1, <2>2 DEF Unfolding
  <2> QED
    BY <2>1, <2>2, <2>3, OneStepFurther
<1>3. 0 \in S /\ \A m \in 0 .. k - 1 : m \in S => m + 1 \in S
  BY <1>1, <1>2
<1>4. 0 .. k \subseteq S
  <2> HIDE DEF S
  <2> QED
    BY <1>3, IntervalInduction
<1> QED
  BY <1>4
=============================================================================
