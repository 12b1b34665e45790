-------------------------- MODULE RecursionLemmas --------------------------
(***************************************************************************)
(* Induction over the natural numbers and definition by recursion, stated  *)
(* about sets and functions instead of about operators, so that they can   *)
(* be cited where the library's NatInduction, whose parameter is an        *)
(* operator, cannot.                                                       *)
(***************************************************************************)
EXTENDS Integers, Sequences, WellFoundedInduction, TLAPS

\* A set of numbers that holds 0 and the successor of each of its members is all of Nat:
\* the least number outside of it would have a predecessor inside.
LEMMA NatSetInduction ==
  ASSUME NEW T, T \subseteq Nat, 0 \in T, \A n \in T : n + 1 \in T
  PROVE  T = Nat
<1> SUFFICES ASSUME Nat \ T # {}
             PROVE  FALSE
  OBVIOUS
<1> DEFINE R == OpToRel(<, Nat)
<1>1. IsWellFoundedOn(R, Nat)
  BY NatLessThanWellFounded, Zenon
<1>2. \A x, y \in Nat : y < x => <<y, x>> \in R
  BY DEF OpToRel
<1> HIDE DEF R
<1>3. PICK x \in Nat \ T : \A y \in Nat \ T : ~(<<y, x>> \in R)
  BY <1>1, WFMin
<1>4. x # 0 /\ x - 1 \in Nat /\ x - 1 < x /\ (x - 1) + 1 = x
  BY <1>3
<1>5. x - 1 \in T
  BY <1>2, <1>3, <1>4
<1> QED
  BY <1>3, <1>4, <1>5

\* The same for the numbers from m to n.
LEMMA IntervalInduction ==
  ASSUME NEW m \in Int, NEW n \in Int, NEW T,
         m \in T, \A i \in m..(n - 1) : i \in T => i + 1 \in T
  PROVE  \A i \in m..n : i \in T
<1> DEFINE U == {k \in Nat : m + k \in T \/ m + k > n}
<1>1. 0 \in U
  OBVIOUS
<1>2. ASSUME NEW k \in U
      PROVE  k + 1 \in U
  <2>1. CASE m + k >= n
    BY <2>1
  <2>2. CASE m + k < n
    <3>1. m + k \in T /\ m + k \in m..(n - 1)
      BY <2>2
    <3>2. (m + k) + 1 \in T
      BY <3>1
    <3>3. (m + k) + 1 = m + (k + 1)
      OBVIOUS
    <3> QED
      BY <3>2, <3>3
  <2> QED
    BY <2>1, <2>2
<1>3. U \subseteq Nat
  OBVIOUS
<1> HIDE DEF U
<1>4. U = Nat
  BY <1>1, <1>2, <1>3, NatSetInduction
<1>5. ASSUME NEW i \in m..n
      PROVE  i \in T
  <2>1. i - m \in U /\ m + (i - m) = i
    BY <1>4
  <2> QED
    BY <2>1 DEF U
<1> QED
  BY <1>5

\* g goes from c, in n steps and within S, as the table G says what follows a value.
IsTable(G, n, S) == G \in [S \X (1..n) -> S]
Iterates(g, G, n, c, S) ==
  g \in [0..n -> S] /\ g[0] = c /\ \A i \in 1..n : g[i] = G[<<g[i - 1], i>>]

\* A function on 0..n is defined by its value at 0 and by a table of what follows a value.
LEMMA RecursiveFunction ==
  ASSUME NEW S, NEW n \in Nat, NEW c \in S, NEW G, IsTable(G, n, S)
  PROVE  \E g : Iterates(g, G, n, c, S)
<1> DEFINE U == {m \in 0..n : \E g \in [0..m -> S] : g[0] = c /\ \A i \in 1..m : g[i] = G[<<g[i - 1], i>>]}
<1>0. G \in [S \X (1..n) -> S]
  BY DEF IsTable
<1>1. 0 \in U
  <2> DEFINE h == [i \in 0..0 |-> c]
  <2>1. h \in [0..0 -> S] /\ h[0] = c /\ \A i \in 1..0 : h[i] = G[<<h[i - 1], i>>]
    OBVIOUS
  <2> HIDE DEF h
  <2>2. \E g \in [0..0 -> S] : g[0] = c /\ \A i \in 1..0 : g[i] = G[<<g[i - 1], i>>]
    BY <2>1
  <2>3. 0 \in 0..n
    OBVIOUS
  <2> QED
    BY <2>2, <2>3
<1>2. ASSUME NEW m \in 0..(n - 1), m \in U
      PROVE  m + 1 \in U
  <2>1. PICK g \in [0..m -> S] : g[0] = c /\ \A i \in 1..m : g[i] = G[<<g[i - 1], i>>]
    BY <1>2
  <2> DEFINE h == [i \in 0..(m + 1) |-> IF i <= m THEN g[i] ELSE G[<<g[m], m + 1>>]]
  <2>2. g[m] \in S /\ m + 1 \in 1..n
    BY <2>1
  <2>3. G[<<g[m], m + 1>>] \in S
    BY <1>0, <2>2
  <2>4. h \in [0..(m + 1) -> S]
    BY <2>1, <2>3
  <2>5. h[0] = c
    BY <2>1
  <2>6. ASSUME NEW i \in 1..(m + 1)
        PROVE  h[i] = G[<<h[i - 1], i>>]
    <3>1. i - 1 \in 0..m /\ i \in 0..(m + 1)
      OBVIOUS
    <3>2. h[i - 1] = g[i - 1]
      BY <3>1
    <3>3. CASE i <= m
      <4>1. i \in 1..m /\ h[i] = g[i]
        BY <3>1, <3>3
      <4> QED
        BY <2>1, <3>2, <4>1
    <3>4. CASE i = m + 1
      <4>1. h[i] = G[<<g[m], m + 1>>] /\ i - 1 = m
        BY <3>4
      <4> QED
        BY <3>2, <3>4, <4>1
    <3> QED
      BY <3>3, <3>4
  <2> HIDE DEF h
  <2>7. \E f \in [0..(m + 1) -> S] : f[0] = c /\ \A i \in 1..(m + 1) : f[i] = G[<<f[i - 1], i>>]
    BY <2>4, <2>5, <2>6
  <2>8. m + 1 \in 0..n
    OBVIOUS
  <2> QED
    BY <2>7, <2>8
<1> HIDE DEF U
<1>3. \A m \in 0..n : m \in U
  BY <1>1, <1>2, IntervalInduction
<1>4. n \in U
  BY <1>3
<1> QED
  BY <1>4 DEF U, Iterates
=============================================================================
