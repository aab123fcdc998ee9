---------------------------- MODULE NatTheorems -----------------------------
(***************************************************************************)
(* What the proofs of several modules need of the natural numbers:          *)
(* induction and recursion in first-order form, where a property is the set *)
(* of the numbers that have it and a step from one value to the next is a   *)
(* function, and remainders.                                                *)
(***************************************************************************)
EXTENDS Integers, WellFoundedInduction, TLAPS

(* A nonempty set of natural numbers has a least member.                    *)
LEMMA LeastMember ==
  ASSUME NEW T \in SUBSET Nat, T # {}
  PROVE  \E m \in T : \A k \in T : m <= k
<1> DEFINE Less == {ss \in Nat \X Nat : ss[1] < ss[2]}
<1>1. IsWellFoundedOn(Less, Nat)
  BY NatLessThanWellFounded DEF OpToRel
<1>2. PICK m \in T : \A k \in T : ~(<<k, m>> \in Less)
  <2> HIDE DEF Less
  <2> QED
    BY <1>1, WFMin
<1>3. \A k \in T : ~(k < m)
  BY <1>2
<1> QED
  BY <1>3

(* A set that holds 0 and, with a number, the next one, holds every number. *)
LEMMA Induction ==
  ASSUME NEW S, 0 \in S, \A n \in Nat : n \in S => n + 1 \in S
  PROVE  \A n \in Nat : n \in S
<1> DEFINE T == Nat \ S
<1> SUFFICES ASSUME T # {} PROVE FALSE
  OBVIOUS
<1>1. PICK m \in T : \A k \in T : m <= k
  <2>1. T \in SUBSET Nat
    OBVIOUS
  <2> HIDE DEF T
  <2> QED
    BY <2>1, LeastMember
<1>2. m # 0 /\ m - 1 \in Nat /\ (m - 1) + 1 = m
  BY <1>1
<1>3. m - 1 \notin T
  BY <1>1, <1>2
<1> QED
  BY <1>2, <1>3

(* The same from 0 up to a bound.                                           *)
LEMMA InductionUpTo ==
  ASSUME NEW S, NEW n \in Nat, 0 \in S,
         \A i \in 0..(n - 1) : i \in S => i + 1 \in S
  PROVE  \A i \in 0..n : i \in S
<1> DEFINE T == {i \in Nat : i <= n => i \in S}
<1>1. 0 \in T
  OBVIOUS
<1>2. ASSUME NEW i \in Nat, i \in T PROVE i + 1 \in T
  <2>1. i + 1 <= n => i \in 0..(n - 1)
    OBVIOUS
  <2> QED
    BY <1>2, <2>1
<1>3. \A i \in Nat : i \in T
  <2> HIDE DEF T
  <2> QED
    BY <1>1, <1>2, Induction
<1> QED
  BY <1>3

(* g carries c, step by step, from 0 to n.                                  *)
Follows(g, n, c, step) ==
  /\ g[0] = c
  /\ \A i \in 0..(n - 1) : g[i + 1] = step[<<i, g[i]>>]

LEMMA FollowsAgree ==
  ASSUME NEW m \in Nat, NEW n \in Nat, m <= n, NEW c, NEW step, NEW g, NEW h,
         Follows(g, m, c, step), Follows(h, n, c, step)
  PROVE  \A i \in 0..m : g[i] = h[i]
<1> DEFINE S == {i \in Nat : g[i] = h[i]}
<1>1. 0 \in S
  BY DEF Follows
<1>2. ASSUME NEW i \in 0..(m - 1), i \in S PROVE i + 1 \in S
  <2>1. i \in 0..(n - 1) /\ i + 1 \in Nat
    OBVIOUS
  <2>2. g[i + 1] = step[<<i, g[i]>>] /\ h[i + 1] = step[<<i, h[i]>>]
    BY <2>1 DEF Follows
  <2> QED
    BY <1>2, <2>1, <2>2
<1>3. \A i \in 0..m : i \in S
  <2> HIDE DEF S
  <2> QED
    BY <1>1, <1>2, InductionUpTo
<1> QED
  BY <1>3

LEMMA FollowsExists ==
  ASSUME NEW V, NEW c \in V, NEW step \in [Nat \X V -> V]
  PROVE  \A n \in Nat : \E g \in [0..n -> V] : Follows(g, n, c, step)
<1> DEFINE S == {n \in Nat : \E g \in [0..n -> V] : Follows(g, n, c, step)}
<1>1. 0 \in S
  <2>1. [i \in 0..0 |-> c] \in [0..0 -> V]
    OBVIOUS
  <2>2. Follows([i \in 0..0 |-> c], 0, c, step)
    BY DEF Follows
  <2> QED
    BY <2>1, <2>2
<1>2. ASSUME NEW n \in Nat, n \in S PROVE n + 1 \in S
  <2>1. PICK g \in [0..n -> V] : Follows(g, n, c, step)
    BY <1>2
  <2> DEFINE next == step[<<n, g[n]>>]
             h == [i \in 0..(n + 1) |-> IF i = n + 1 THEN next ELSE g[i]]
  <2>2. next \in V
    BY <2>1
  <2>3. h \in [0..(n + 1) -> V]
    BY <2>1, <2>2
  <2>4. \A i \in 0..n : h[i] = g[i]
    OBVIOUS
  <2>5. h[n + 1] = next /\ h[0] = c
    BY <2>1 DEF Follows
  <2> HIDE DEF h, next
  <2>6. ASSUME NEW i \in 0..((n + 1) - 1) PROVE h[i + 1] = step[<<i, h[i]>>]
    <3>1. CASE i = n
      <4>1. h[i] = g[i] /\ h[i + 1] = next
        BY <2>4, <2>5, <3>1
      <4> QED
        BY <3>1, <4>1 DEF next
    <3>2. CASE i # n
      <4>1. i \in 0..(n - 1) /\ i + 1 \in 0..n /\ i \in 0..n
        BY <3>2
      <4>2. g[i + 1] = step[<<i, g[i]>>]
        BY <2>1, <4>1 DEF Follows
      <4>3. h[i + 1] = g[i + 1] /\ h[i] = g[i]
        BY <2>4, <4>1
      <4> QED
        BY <4>2, <4>3
    <3> QED
      BY <3>1, <3>2
  <2>7. Follows(h, n + 1, c, step)
    BY <2>5, <2>6 DEF Follows
  <2> QED
    BY <2>3, <2>7
<1>3. \A n \in Nat : n \in S
  <2> HIDE DEF S
  <2> QED
    BY <1>1, <1>2, Induction
<1> QED
  BY <1>3

(* What a step makes of every value, the first being c.                     *)
IsStep(step, V) == step \in [Nat \X V -> V]

Carries(g, V, c, step) ==
  /\ g \in [Nat -> V]
  /\ g[0] = c
  /\ \A n \in Nat : g[n + 1] = step[<<n, g[n]>>]

LEMMA RecursionExists ==
  ASSUME NEW V, NEW c \in V, NEW step, IsStep(step, V)
  PROVE  \E g : Carries(g, V, c, step)
<1> DEFINE Part(n) == CHOOSE g \in [0..n -> V] : Follows(g, n, c, step)
           f == [n \in Nat |-> Part(n)[n]]
<1>1. \A n \in Nat : Part(n) \in [0..n -> V] /\ Follows(Part(n), n, c, step)
  <2>1. step \in [Nat \X V -> V]
    BY DEF IsStep
  <2> QED
    BY <2>1, FollowsExists
<1>2. ASSUME NEW n \in Nat PROVE f[n] \in V
  BY <1>1
<1>3. f[0] = c
  BY <1>1 DEF Follows
<1>4. ASSUME NEW n \in Nat PROVE f[n + 1] = step[<<n, f[n]>>]
  <2>1. Follows(Part(n), n, c, step) /\ Follows(Part(n + 1), n + 1, c, step)
    BY <1>1
  <2> DEFINE g == Part(n)
             h == Part(n + 1)
  <2>2. f[n] = g[n] /\ f[n + 1] = h[n + 1]
    OBVIOUS
  <2> HIDE DEF g, h, f, Part
  <2>3. g[n] = h[n]
    <3>1. Follows(g, n, c, step) /\ Follows(h, n + 1, c, step)
      BY <2>1 DEF g, h
    <3>2. \A i \in 0..n : g[i] = h[i]
      BY <3>1, FollowsAgree
    <3> QED
      BY <3>2
  <2>4. h[n + 1] = step[<<n, h[n]>>]
    BY <2>1 DEF Follows, h
  <2> QED
    BY <2>2, <2>3, <2>4
<1>5. f \in [Nat -> V]
  BY <1>2
<1> HIDE DEF f
<1>6. Carries(f, V, c, step)
  BY <1>3, <1>4, <1>5 DEF Carries
<1> QED
  BY <1>6

-----------------------------------------------------------------------------
(* Quotients and remainders.                                                *)

LEMMA Division ==
  ASSUME NEW n \in Int, NEW m \in Nat \ {0}
  PROVE  /\ n \div m \in Int /\ n % m \in 0..(m - 1)
         /\ n = m * (n \div m) + (n % m)
OBVIOUS

LEMMA RemainderUnique ==
  ASSUME NEW m \in Nat \ {0}, NEW p \in Int, NEW q \in Int,
         NEW r \in 0..(m - 1), NEW s \in 0..(m - 1), m * p + r = m * q + s
  PROVE  r = s
<1>1. CASE p = q
  BY <1>1
<1>2. CASE p >= q + 1
  <2>1. m * p >= m * (q + 1) /\ m * (q + 1) = m * q + m
    BY <1>2
  <2> QED
    BY <2>1
<1>3. CASE q >= p + 1
  <2>1. m * q >= m * (p + 1) /\ m * (p + 1) = m * p + m
    BY <1>3
  <2> QED
    BY <2>1
<1> QED
  BY <1>1, <1>2, <1>3

LEMMA Remainder ==
  ASSUME NEW m \in Nat \ {0}, NEW n \in Int, NEW q \in Int,
         NEW r \in 0..(m - 1), n = m * q + r
  PROVE  n % m = r
<1>1. n \div m \in Int /\ n % m \in 0..(m - 1) /\ n = m * (n \div m) + (n % m)
  BY Division
<1> QED
  BY <1>1, RemainderUnique

LEMMA SmallRemainder ==
  ASSUME NEW m \in Nat \ {0}, NEW n \in 0..(m - 1)
  PROVE  n % m = n
<1>1. n = m * 0 + n
  OBVIOUS
<1> QED
  BY <1>1, Remainder

(* Reducing early makes no difference.                                      *)
LEMMA RemainderOfSum ==
  ASSUME NEW m \in Nat \ {0}, NEW n \in Int, NEW k \in Int, NEW d \in Int
  PROVE  ((n % m) * k + d) % m = (n * k + d) % m
<1> DEFINE q == n \div m
           r == n % m
           a == r * k + d
           p == a \div m
<1>1. q \in Int /\ r \in 0..(m - 1) /\ n = m * q + r
  BY Division
<1> HIDE DEF q, r
<1>2. a \in Int
  BY <1>1
<1>3. p \in Int /\ a % m \in 0..(m - 1) /\ a = m * p + (a % m)
  <2> HIDE DEF a
  <2> QED
    BY <1>2, Division
<1>4. n * k + d = m * (q * k) + a /\ q * k \in Int
  <2>1. (m * q + r) * k = m * (q * k) + r * k
    BY <1>1
  <2> QED
    BY <1>1, <2>1
<1> HIDE DEF a, p
<1>5. n * k + d = m * (q * k + p) + (a % m) /\ q * k + p \in Int
  BY <1>2, <1>3, <1>4
<1>6. (n * k + d) % m = a % m
  <2>1. n * k + d \in Int
    OBVIOUS
  <2> QED
    BY <1>3, <1>5, <2>1, Remainder
<1> QED
  BY <1>6 DEF a, r
=============================================================================
