------------------------------- MODULE Loops -------------------------------
(***************************************************************************)
(* Induction over numbers without an operator parameter, and what a loop   *)
(* needs of it: the values it goes through exist, and what every round     *)
(* keeps holds throughout.                                                 *)
(***************************************************************************)
EXTENDS Integers, WellFoundedInduction, TLAPS

\* Most leaves are first-order steps, the others need arithmetic or sequences.
USE ZenonT(4), SMTT(60), ZenonT(60)

-----------------------------------------------------------------------------
(* Loops *)

\* Every set of numbers has a least one: NatLessThanWellFounded says so of sets,
\* where the library's induction theorems ask for an operator.
LEMMA LeastNumber ==
    ASSUME NEW T \in SUBSET Nat, T # {}
    PROVE  \E m \in T : \A n \in T : m <= n
<1> DEFINE R == OpToRel(<, Nat)
<1>1. IsWellFoundedOn(R, Nat)
  BY NatLessThanWellFounded
<1>2. \A x, y \in Nat : y < x => <<y, x>> \in R
  BY DEF OpToRel
<1> HIDE DEF R
<1>3. PICK x \in T : \A y \in T : ~(<<y, x>> \in R)
  BY <1>1, WFMin
<1>4. \A y \in T : ~(y < x)
  BY <1>2, <1>3
<1>5. \A y \in T : x <= y
  BY <1>4
<1> QED
  BY <1>5

\* Induction for a set of numbers.
LEMMA SetInduction ==
    ASSUME NEW S, 0 \in S, \A n \in Nat : n \in S => n + 1 \in S
    PROVE  Nat \subseteq S
<1> DEFINE T == Nat \ S
<1>1. ASSUME T # {}
      PROVE  FALSE
  <2>1. PICK m \in T : \A n \in T : m <= n
    BY <1>1, LeastNumber
  <2>2. m # 0 /\ m - 1 \in Nat
    BY <2>1
  <2>3. m - 1 \notin T
    BY <2>1, <2>2
  <2> QED
    BY <2>1, <2>2, <2>3
<1> QED
  BY <1>1

\* What a loop over 1 .. N does to a value of V, and the values it goes through.
Loops(N, V) == [(1 .. N) \X V -> V]

Iterates(g, N, V, first, step) ==
    /\ g \in [0 .. N -> V]
    /\ g[0] = first /\ \A i \in 1 .. N : g[i] = step[<<i, g[i - 1]>>]

\* There is such a function, for every loop: what TLC takes for granted when it
\* evaluates a recursive definition.
LEMMA Iteration ==
    ASSUME NEW N \in Nat, NEW V, NEW first \in V, NEW step \in Loops(N, V)
    PROVE  \E g : Iterates(g, N, V, first, step)
<1> DEFINE Upto(g, m) == g[0] = first /\ \A i \in 1 .. m : g[i] = step[<<i, g[i - 1]>>]
           X == {m \in Nat : m <= N => \E g \in [0 .. m -> V] : Upto(g, m)}
<1>1. 0 \in X
  <2>1. [i \in 0 .. 0 |-> first] \in [0 .. 0 -> V] /\ Upto([i \in 0 .. 0 |-> first], 0)
    OBVIOUS
  <2> HIDE DEF Upto
  <2> QED
    BY <2>1
<1>2. ASSUME NEW m \in Nat, m \in X
      PROVE  m + 1 \in X
  <2>1. ASSUME m + 1 <= N
        PROVE  \E g \in [0 .. m + 1 -> V] : Upto(g, m + 1)
    <3>1. PICK g \in [0 .. m -> V] : Upto(g, m)
      <4> HIDE DEF Upto
      <4> QED
        BY <1>2, <2>1
    <3> DEFINE h == [i \in 0 .. m + 1 |-> IF i = m + 1 THEN step[<<m + 1, g[m]>>] ELSE g[i]]
    <3>2. step[<<m + 1, g[m]>>] \in V
      BY <2>1 DEF Loops
    <3>3. h \in [0 .. m + 1 -> V]
      BY <3>2
    <3>4. h[m + 1] = step[<<m + 1, g[m]>>] /\ \A i \in 0 .. m : h[i] = g[i]
      OBVIOUS
    <3>5. ASSUME NEW i \in 1 .. m + 1
          PROVE  h[i] = step[<<i, h[i - 1]>>]
      <4> HIDE DEF h
      <4>1. i - 1 \in 0 .. m /\ (i \in 1 .. m \/ (i = m + 1 /\ i - 1 = m))
        OBVIOUS
      <4>2. h[i - 1] = g[i - 1]
        BY <3>4, <4>1
      <4>3. CASE i \in 1 .. m
        <5>1. i \in 0 .. m
          BY <4>3
        <5> QED
          BY <3>1, <3>4, <4>2, <4>3, <5>1
      <4>4. CASE i = m + 1 /\ i - 1 = m
        BY <3>4, <4>2, <4>4
      <4> QED
        BY <4>1, <4>3, <4>4
    <3>6. Upto(h, m + 1)
      <4>1. 0 \in 0 .. m
        OBVIOUS
      <4> HIDE DEF h
      <4> QED
        BY <3>1, <3>4, <3>5, <4>1
    <3> HIDE DEF Upto, h
    <3> QED
      BY <3>3, <3>6
  <2> HIDE DEF Upto
  <2> QED
    BY <2>1
<1>3. Nat \subseteq X
  <2> HIDE DEF X
  <2> QED
    BY <1>1, <1>2, SetInduction
<1>4. \E g \in [0 .. N -> V] : Upto(g, N)
  <2> HIDE DEF Upto
  <2> QED
    BY <1>3
<1> QED
  BY <1>4 DEF Iterates

\* What holds at the start and is kept by every round holds throughout.
LEMMA Throughout ==
    ASSUME NEW N \in Nat, NEW V, NEW f, f[0] \in V,
           \A i \in 1 .. N : f[i - 1] \in V => f[i] \in V
    PROVE  \A i \in 0 .. N : f[i] \in V
<1> DEFINE X == {k \in Nat : k <= N => f[k] \in V}
<1>1. 0 \in X
  OBVIOUS
<1>2. ASSUME NEW k \in Nat, k \in X
      PROVE  k + 1 \in X
  <2>1. k + 1 <= N => k <= N /\ k + 1 \in 1 .. N /\ (k + 1) - 1 = k
    OBVIOUS
  <2> QED
    BY <1>2, <2>1
<1>3. Nat \subseteq X
  <2> HIDE DEF X
  <2> QED
    BY <1>1, <1>2, SetInduction
<1> QED
  BY <1>3
=============================================================================
