------------------------------ MODULE Induction ------------------------------
(* What the proofs share: minima and maxima, induction over the naturals with *)
(* a set for the property, so that the provers can instantiate it, and what a *)
(* recursive function computes.                                               *)
EXTENDS Integers, FiniteSetsExt, WellFoundedInduction, TLAPS

\* Every set of naturals that is not empty has a least element.
LEMMA LeastElement ==
    ASSUME NEW S \in SUBSET Nat, S # {}
    PROVE  \E m \in S : \A n \in S : m <= n
<1>1. PICK m \in S : \A n \in S : <<n, m>> \notin OpToRel(<, Nat)
  BY NatLessThanWellFounded, WFMin
<1>2. \A n \in S : ~(n < m)
  BY <1>1 DEF OpToRel
<1> QED
  BY <1>2

LEMMA MinIsLeast ==
    ASSUME NEW S \in SUBSET Nat, S # {}
    PROVE  Min(S) \in S /\ \A n \in S : Min(S) <= n
BY LeastElement, Zenon DEF Min

LEMMA MinOfTwo ==
    ASSUME NEW a \in Int, NEW b \in Int
    PROVE  Min({a, b}) = IF a <= b THEN a ELSE b
<1>1. PICK m \in {a, b} : m = IF a <= b THEN a ELSE b
  OBVIOUS
<1>2. \A v \in {a, b} : m <= v
  BY <1>1
<1>3. \A w \in {a, b} : (\A v \in {a, b} : w <= v) => w = m
  BY <1>1
<1>4. Min({a, b}) = m
  BY <1>2, <1>3 DEF Min
<1> QED
  BY <1>1, <1>4

LEMMA MaxOfTwo ==
    ASSUME NEW a \in Int, NEW b \in Int
    PROVE  Max({a, b}) = IF a >= b THEN a ELSE b
<1>1. PICK m \in {a, b} : m = IF a >= b THEN a ELSE b
  OBVIOUS
<1>2. \A v \in {a, b} : m >= v
  BY <1>1
<1>3. \A w \in {a, b} : (\A v \in {a, b} : w >= v) => w = m
  BY <1>1
<1>4. Max({a, b}) = m
  BY <1>2, <1>3 DEF Max
<1> QED
  BY <1>1, <1>4

\* A set with 0 and with the successor of each of its elements has every natural.
LEMMA Induction ==
    ASSUME NEW S, 0 \in S, \A n \in Nat : n \in S => n + 1 \in S
    PROVE  Nat \subseteq S
<1> DEFINE T == Nat \ S
<1> SUFFICES ASSUME T # {} PROVE FALSE
  OBVIOUS
<1>1. T \in SUBSET Nat
  OBVIOUS
<1>2. T \subseteq Nat /\ \A n \in Nat : n \in T <=> n \notin S
  OBVIOUS
<1>3. \E m \in T : \A n \in T : m <= n
  <2> HIDE DEF T
  <2> QED BY <1>1, LeastElement
<1>4. PICK m \in T : \A n \in T : m <= n
  BY <1>3
<1>5. m \in Nat /\ m # 0
  BY <1>4
<1>6. m - 1 \in Nat /\ ~(m <= m - 1)
  BY <1>5
<1>7. m - 1 \in S
  BY <1>2, <1>4, <1>6
<1>8. (m - 1) + 1 \in S
  BY <1>6, <1>7
<1> QED
  BY <1>2, <1>4, <1>5, <1>8

\* The same up to a bound.
LEMMA BoundedInduction ==
    ASSUME NEW N \in Nat, NEW S, 0 \in S, \A n \in 0..N - 1 : n \in S => n + 1 \in S
    PROVE  0..N \subseteq S
<1> DEFINE T == S \cup {n \in Nat : n > N}
<1>1. 0 \in T /\ \A n \in Nat : n \in T => n + 1 \in T
  OBVIOUS
<1>2. Nat \subseteq T
  <2> HIDE DEF T
  <2> QED BY <1>1, Induction
<1> QED
  BY <1>2

-----------------------------------------------------------------------------

\* f begins with a, and goes on with G, up to N.
Follows(f, a, G, N) ==
    /\ DOMAIN f = 0..N
    /\ f[0] = a
    /\ \A n \in 0..N : n # 0 => f[n] = G[<<n, f[n - 1]>>]

\* A function that is defined by recursion exists.
LEMMA RecursionExists ==
    ASSUME NEW D, NEW a \in D, NEW N \in Nat, NEW G \in [(0..N) \X D -> D]
    PROVE  \E f \in [0..N -> D] : Follows(f, a, G, N)
<1> DEFINE S == {n \in Nat : n > N \/ \E f \in [0..n -> D] : Follows(f, a, G, n)}
<1>1. 0 \in S
  <2>1. [n \in 0..0 |-> a] \in [0..0 -> D] /\ Follows([n \in 0..0 |-> a], a, G, 0)
    BY DEF Follows
  <2> QED BY <2>1
<1>2. ASSUME NEW n \in Nat, n \in S PROVE n + 1 \in S
  <2>1. CASE n + 1 > N
    BY <2>1
  <2>2. CASE n + 1 <= N
    <3>1. PICK f \in [0..n -> D] : Follows(f, a, G, n)
      BY <1>2, <2>2
    <3> DEFINE g == [k \in 0..n + 1 |-> IF k <= n THEN f[k] ELSE G[<<n + 1, f[n]>>]]
    <3>2. f[n] \in D /\ n + 1 \in 0..N
      BY <2>2
    <3>3. G[<<n + 1, f[n]>>] \in D
      BY <3>2
    <3>4. g \in [0..n + 1 -> D]
      BY <3>3
    <3>5. /\ g[0] = a
          /\ \A k \in 0..n : k # 0 => g[k] = G[<<k, g[k - 1]>>]
      BY <3>1 DEF Follows
    <3>6. g[n + 1] = G[<<n + 1, g[n]>>]
      <4>1. n + 1 \in 0..n + 1 /\ ~(n + 1 <= n) /\ n \in 0..n + 1
        OBVIOUS
      <4>2. g[n + 1] = G[<<n + 1, f[n]>>] /\ g[n] = f[n]
        BY <4>1
      <4> QED BY <4>2
    <3>7. Follows(g, a, G, n + 1)
      <4> HIDE DEF g
      <4>1. DOMAIN g = 0..n + 1 /\ \A k \in 0..n + 1 : k \in 0..n \/ (k = n + 1 /\ k - 1 = n)
        BY <3>4
      <4>2. \A k \in 0..n + 1 : k # 0 => g[k] = G[<<k, g[k - 1]>>]
        <5> TAKE k \in 0..n + 1
        <5>1. CASE k \in 0..n
          BY <3>5, <5>1
        <5>2. CASE k = n + 1 /\ k - 1 = n
          BY <3>6, <5>2
        <5> QED BY <4>1, <5>1, <5>2
      <4> QED BY <3>5, <4>1, <4>2 DEF Follows
    <3> HIDE DEF g
    <3> QED BY <3>4, <3>7
  <2> QED BY <2>1, <2>2
<1>3. Nat \subseteq S
  <2> HIDE DEF S
  <2> QED BY <1>1, <1>2, Induction
<1> QED
  BY <1>3

\* Two functions that follow the same recursion agree as far as both go.
LEMMA RecursionUnique ==
    ASSUME NEW a, NEW G, NEW H, NEW M \in Nat, NEW N \in Nat, NEW f, NEW g,
           Follows(f, a, G, M), Follows(g, a, H, N), M <= N,
           \A n \in 1..M : G[<<n, f[n - 1]>>] = H[<<n, f[n - 1]>>]
    PROVE  \A n \in 0..M : f[n] = g[n]
<1> DEFINE S == {n \in 0..M : f[n] = g[n]}
<1>1. 0 \in S
  BY DEF Follows
<1>2. ASSUME NEW n \in 0..M - 1, n \in S PROVE n + 1 \in S
  <2>1. n + 1 \in 1..M /\ n + 1 \in 0..M /\ n + 1 \in 0..N /\ n + 1 # 0 /\ n + 1 - 1 = n
    OBVIOUS
  <2>2. f[n + 1] = G[<<n + 1, f[n]>>] /\ g[n + 1] = H[<<n + 1, g[n]>>]
    BY <2>1 DEF Follows
  <2> QED BY <1>2, <2>1, <2>2
<1>3. 0..M \subseteq S
  <2> HIDE DEF S
  <2> QED BY <1>1, <1>2, BoundedInduction
<1> QED
  BY <1>3
=============================================================================
