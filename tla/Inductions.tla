----------------------------- MODULE Inductions -----------------------------
(***************************************************************************)
(* Induction over numbers, stated of sets and functions, and the existence *)
(* of the functions that are defined by recursion over an interval: what   *)
(* the proofs about the readers, writers and sums of the models rest on.   *)
(***************************************************************************)
EXTENDS Integers, WellFoundedInduction, TLAPS

LEMMA Smaller == \A x, y \in Nat : <<y, x>> \in OpToRel(<, Nat) <=> y < x
  BY DEF OpToRel

\* A set that holds 0 and, with a number, the next one holds every number.
LEMMA NatInduct ==
  ASSUME NEW S, 0 \in S, \A n \in Nat : n \in S => n + 1 \in S
  PROVE  Nat \subseteq S
  <1>1. SUFFICES ASSUME Nat \ S # {} PROVE FALSE
    OBVIOUS
  <1> DEFINE T == Nat \ S
  <1>2. \E x \in T : \A y \in T : ~(<<y, x>> \in OpToRel(<, Nat))
    <2>1. T \subseteq Nat /\ T # {}
      BY <1>1
    <2> HIDE DEF T
    <2>2. QED
      BY <2>1, WFMin, NatLessThanWellFounded
  <1>3. PICK x \in T : \A y \in T : ~(y < x)
    BY <1>2, Smaller
  <1>4. x # 0 /\ x \in Nat
    BY DEF T
  <1>5. x - 1 \in Nat /\ x - 1 \notin T
    BY <1>3, <1>4
  <1>6. QED
    BY <1>4, <1>5

\* The same up to a bound.
LEMMA IntervalInduct ==
  ASSUME NEW n \in Nat, NEW S, 0 \in S, \A i \in 1..n : i - 1 \in S => i \in S
  PROVE  0..n \subseteq S
  <1> DEFINE T == {i \in Nat : i <= n => i \in S}
  <1>1. 0 \in T
    OBVIOUS
  <1>2. ASSUME NEW i \in Nat, i \in T
        PROVE  i + 1 \in T
    <2>1. CASE i + 1 <= n
      <3>1. i + 1 \in 1..n /\ (i + 1) - 1 = i
        BY <2>1
      <3>2. i \in S
        BY <1>2, <2>1
      <3>3. QED
        BY <3>1, <3>2
    <2>2. CASE ~(i + 1 <= n)
      BY <2>2
    <2>3. QED
      BY <2>1, <2>2
  <1>3. Nat \subseteq T
    <2> HIDE DEF T
    <2>1. QED
      BY <1>1, <1>2, NatInduct
  <1>4. QED
    BY <1>3

\* A set of numbers that is not empty has a least one, and a greatest one when
\* it is bounded.
LEMMA Least ==
  ASSUME NEW S, S \subseteq Nat, S # {}
  PROVE  \E m \in S : \A k \in S : m <= k
  <1>1. PICK m \in S : \A k \in S : ~(<<k, m>> \in OpToRel(<, Nat))
    BY WFMin, NatLessThanWellFounded
  <1>2. \A k \in S : ~(k < m)
    BY <1>1, Smaller
  <1>3. QED
    BY <1>2

LEMMA Greatest ==
  ASSUME NEW n \in Nat, NEW S, S \subseteq 0..n, S # {}
  PROVE  \E m \in S : \A k \in S : k <= m
  <1> DEFINE T == {i \in Nat : i <= n /\ n - i \in S}
  <1>1. T \subseteq Nat /\ T # {}
    <2>1. PICK k \in S : TRUE
      OBVIOUS
    <2>2. n - k \in Nat /\ n - k <= n /\ n - (n - k) = k
      BY <2>1
    <2>3. QED
      BY <2>1, <2>2
  <1>2. PICK i \in T : \A k \in T : i <= k
    <2> HIDE DEF T
    <2>1. QED
      BY <1>1, Least
  <1>3. ASSUME NEW k \in S
        PROVE  k <= n - i
    <2>1. k \in 0..n /\ n - k \in Nat /\ n - (n - k) = k /\ n - k <= n
      OBVIOUS
    <2>2. n - k \in T
      BY <2>1
    <2>3. i \in Nat /\ i <= n - k
      BY <1>2, <2>2
    <2>4. QED
      BY <2>1, <2>3
  <1>4. QED
    BY <1>2, <1>3

\* The values of a recursion stay in the set that its steps stay in.
LEMMA Stays ==
  ASSUME NEW n \in Nat, NEW A, NEW g,
         g[0] \in A, \A i \in 1..n : g[i - 1] \in A => g[i] \in A
  PROVE  \A i \in 0..n : g[i] \in A
  <1> DEFINE S == {i \in 0..n : g[i] \in A}
  <1>1. 0 \in S /\ \A i \in 1..n : i - 1 \in S => i \in S
    OBVIOUS
  <1>2. 0..n \subseteq S
    <2> HIDE DEF S
    <2>1. QED
      BY <1>1, IntervalInduct
  <1>3. QED
    BY <1>2

\* Whatever the steps F are, and wherever it begins, a recursion over an interval
\* has a function.
Follows(n, c, F, g) == g[0] = c /\ \A i \in 1..n : g[i] = F[<<i, g[i - 1]>>]

LEMMA Recursion ==
  ASSUME NEW n \in Nat, NEW A, NEW c \in A, NEW F \in [(1..n) \X A -> A]
  PROVE  \E g \in [0..n -> A] : Follows(n, c, F, g)
  <1> DEFINE Upto(k, g) == Follows(k, c, F, g)
             S == {k \in 0..n : \E g \in [0..k -> A] : Upto(k, g)}
  <1>1. 0 \in S
    <2> DEFINE h == [i \in 0..0 |-> c]
    <2>1. h \in [0..0 -> A] /\ Upto(0, h) /\ 0 \in 0..n
      BY DEF Follows
    <2> HIDE DEF h
    <2>2. QED
      BY <2>1
  <1>2. ASSUME NEW k \in 1..n, k - 1 \in S
        PROVE  k \in S
    <2>1. PICK g \in [0..(k - 1) -> A] : Upto(k - 1, g)
      BY <1>2
    <2> DEFINE h == [i \in 0..k |-> IF i = k THEN F[<<k, g[k - 1]>>] ELSE g[i]]
    <2>2. h \in [0..k -> A]
      <3>1. k - 1 \in 0..(k - 1) /\ k \in 1..n
        OBVIOUS
      <3>2. <<k, g[k - 1]>> \in (1..n) \X A
        BY <2>1, <3>1
      <3>3. F[<<k, g[k - 1]>>] \in A
        BY <3>2
      <3>4. \A i \in 0..k : i # k => i \in 0..(k - 1)
        OBVIOUS
      <3>5. QED
        BY <2>1, <3>3, <3>4
    <2>3. h[0] = c
      <3>1. 0 \in 0..k /\ 0 # k
        OBVIOUS
      <3>2. h[0] = g[0]
        BY <3>1
      <3>3. QED
        BY <2>1, <3>2 DEF Follows
    <2>4. ASSUME NEW i \in 1..k
          PROVE  h[i] = F[<<i, h[i - 1]>>]
      <3>1. CASE i = k
        <4>1. k - 1 \in 0..k /\ k - 1 # k /\ k \in 0..k
          OBVIOUS
        <4>2. h[k] = F[<<k, g[k - 1]>>] /\ h[k - 1] = g[k - 1]
          BY <4>1
        <4>3. QED
          BY <3>1, <4>2
      <3>2. CASE i # k
        <4>1. i \in 1..(k - 1)
          BY <3>2
        <4>2. h[i] = g[i] /\ h[i - 1] = g[i - 1]
          BY <4>1
        <4>3. QED
          BY <2>1, <4>1, <4>2 DEF Follows
      <3>3. QED
        BY <3>1, <3>2
    <2> HIDE DEF h
    <2>5. QED
      BY <2>2, <2>3, <2>4 DEF Follows
  <1>3. n \in S
    <2> HIDE DEF S
    <2>1. QED
      BY <1>1, <1>2, IntervalInduct
  <1>4. QED
    BY <1>3

=============================================================================
