---------------------------- MODULE GetLineProofs ----------------------------
(***************************************************************************)
(* Proofs about the line that get_string reads, for every heap, however    *)
(* small, every set of digits and every length of the line, about the      *)
(* number str2int makes of it and about what the program computes with it. *)
(***************************************************************************)
EXTENDS GetLine, NatTheorems, TLAPS

USE GetLineAssumption

(* No character that can be typed is the terminator.                        *)
LEMMA NulNotTyped == Nul \notin Char
BY DEF Nul, Char, Minus, Other

(* The first bytes of the buffer are the characters of the line.            *)
Begins(t, s) ==
  /\ DOMAIN t \subseteq Nat
  /\ \A i \in 0..(Len(s) - 1) : i \in DOMAIN t /\ t[i] = s[i + 1]

Terminated(t, n) == n \in DOMAIN t /\ t[n] = Nul

LEMMA CStringIs ==
  ASSUME NEW s \in Seq(Char), NEW t, Begins(t, s), Terminated(t, Len(s))
  PROVE  CString(t) = s
<1> DEFINE S == {i \in DOMAIN t : t[i] = Nul}
           n == Len(s)
<1>1. n \in Nat /\ n \in S /\ S \subseteq Nat
  BY DEF Begins, Terminated
<1>2. \A i \in S : n <= i
  <2>1. ASSUME NEW i \in S, i < n PROVE FALSE
    <3>1. t[i] = s[i + 1] /\ i + 1 \in 1..n /\ t[i] = Nul
      BY <1>1, <2>1 DEF Begins
    <3>2. s[i + 1] \in Char
      <4> HIDE DEF S
      <4>1. \A j \in 1..n : s[j] \in Char
        OBVIOUS
      <4> QED
        BY <3>1, <4>1, Zenon
    <3> QED
      BY <3>1, <3>2, NulNotTyped
  <2> QED
    BY <1>1, <2>1
<1>3. Min(S) = n
  <2>1. \E x \in S : \A y \in S : x <= y
    BY <1>1, <1>2
  <2>2. Min(S) \in S /\ \A y \in S : Min(S) <= y
    BY <2>1 DEF Min
  <2> HIDE DEF S, n
  <2>3. Min(S) \in Nat /\ Min(S) <= n /\ n <= Min(S)
    BY <1>1, <1>2, <2>2
  <2> QED
    BY <1>1, <2>3
<1>4. CString(t) = [i \in 1..n |-> t[i - 1]]
  BY <1>3, Zenon DEF CString
<1>5. \A i \in 1..n : t[i - 1] = s[i]
  <2> TAKE i \in 1..n
  <2>1. i - 1 \in 0..(n - 1) /\ (i - 1) + 1 = i
    BY <1>1
  <2> QED
    BY <2>1 DEF Begins
<1>6. s = [i \in 1..n |-> s[i]]
  OBVIOUS
<1> QED
  BY <1>4, <1>5, <1>6, Zenon

-----------------------------------------------------------------------------
(* The string's operations.                                                *)

IsString(s) ==
  s = [data |-> s.data, length |-> s.length, capacity |-> s.capacity]

(* Growing, or not growing for want of memory, keeps the length.            *)
LEMMA GrownLength ==
  ASSUME NEW h, NEW s, IsString(s), NEW n
  PROVE  LET r == StringGrow(h, s, n)
         IN  r.str.length = s.length /\ IsString(r.str)
<1> DEFINE r == StringGrow(h, s, n)
<1>1. r.str = s \/ r.str = [s EXCEPT !.data = Malloc(h, n).ptr, !.capacity = n]
  BY DEF StringGrow, Same
<1> HIDE DEF r
<1>2. r.str = s => r.str.length = s.length /\ IsString(r.str)
  OBVIOUS
<1>3. ASSUME r.str = [s EXCEPT !.data = Malloc(h, n).ptr, !.capacity = n]
      PROVE  r.str.length = s.length /\ IsString(r.str)
  <2>1. r.str = [data |-> Malloc(h, n).ptr, length |-> s.length, capacity |-> n]
    BY <1>3 DEF IsString
  <2> QED
    BY <2>1 DEF IsString
<1> QED
  BY <1>1, <1>2, <1>3 DEF r

LEMMA AppendedLength ==
  ASSUME NEW h, NEW s, IsString(s)
  PROVE  LET r == StringAppendChar(h, s)
         IN  r.str.length = s.length + 1 /\ IsString(r.str)
<1> DEFINE m == MakeRoom(h, s, 1)
<1>1. /\ m.str.length = s.length /\ IsString(m.str)
      /\ m = [heap |-> m.heap, str |-> m.str]
  <2>1. m = Same(h, s) \/ m = StringGrow(h, s, GrownCapacity(s, 1))
    BY DEF MakeRoom
  <2>2. \A n : StringGrow(h, s, n) =
                 [heap |-> StringGrow(h, s, n).heap, str |-> StringGrow(h, s, n).str]
    BY DEF StringGrow, Same
  <2> HIDE DEF m
  <2>3. CASE m = Same(h, s)
    BY <2>3 DEF Same
  <2>4. CASE m = StringGrow(h, s, GrownCapacity(s, 1))
    BY <2>2, <2>4, GrownLength
  <2> QED
    BY <2>1, <2>3, <2>4
<1>2. StringAppendChar(h, s) = [m EXCEPT !.str.length = @ + 1]
  BY DEF StringAppendChar, StringAppendLen
<1> HIDE DEF m
<1>3. StringAppendChar(h, s).str = [m.str EXCEPT !.length = @ + 1]
  BY <1>1, <1>2
<1>4. StringAppendChar(h, s).str =
        [data |-> m.str.data, length |-> s.length + 1, capacity |-> m.str.capacity]
  BY <1>1, <1>3 DEF IsString
<1> QED
  BY <1>4 DEF IsString

(* A move keeps the characters, whether it happens or not.                  *)
LEMMA MovedBegins ==
  ASSUME NEW s \in Seq(Char), NEW t, Begins(t, s), NEW x, x.length = Len(s), NEW r
  PROVE  Begins(Moved(t, x, r), s)
<1>1. CASE r.str.data = x.data
  BY <1>1 DEF Moved
<1>2. CASE r.str.data # x.data
  <2> DEFINE D == DOMAIN t \cap 0..(Len(s) - 1)
  <2>1. Moved(t, x, r) = [i \in D |-> t[i]]
    BY <1>2 DEF Moved
  <2>2. \A i \in 0..(Len(s) - 1) : i \in D /\ t[i] = s[i + 1]
    BY DEF Begins
  <2>3. D \subseteq Nat
    BY DEF Begins
  <2> HIDE DEF D
  <2> QED
    BY <2>1, <2>2, <2>3 DEF Begins
<1> QED
  BY <1>1, <1>2

(* Storing a character and the terminator behind the line.                  *)
LEMMA StoredBegins ==
  ASSUME NEW s \in Seq(Char), NEW t, Begins(t, s), NEW x, x.length = Len(s),
         NEW r, r.str.length = Len(s) + 1, NEW c
  PROVE  LET u == Stored(t, x, r, c)
         IN  /\ Begins(u, s)
             /\ Len(s) \in DOMAIN u /\ u[Len(s)] = c
             /\ Terminated(u, Len(s) + 1)
<1> DEFINE v == Moved(t, x, r)
           n == Len(s)
           w == Put(v, n, c)
           u == Put(w, n + 1, Nul)
<1>1. Begins(v, s) /\ n \in Nat
  BY MovedBegins
<1>2. Stored(t, x, r, c) = u
  BY DEF Stored
<1> HIDE DEF v
<1>3. /\ DOMAIN w = DOMAIN v \cup {n} /\ w[n] = c
      /\ \A i \in DOMAIN v : i # n => w[i] = v[i]
  BY DEF Put
<1> HIDE DEF w
<1>4. /\ DOMAIN u = DOMAIN w \cup {n + 1} /\ u[n + 1] = Nul
      /\ \A i \in DOMAIN w : i # n + 1 => u[i] = w[i]
  BY DEF Put
<1> HIDE DEF u
<1>5. Begins(u, s)
  BY <1>1, <1>3, <1>4 DEF Begins
<1>6. n \in DOMAIN u /\ u[n] = c
  BY <1>1, <1>3, <1>4
<1> QED
  BY <1>2, <1>4, <1>5, <1>6 DEF Terminated

-----------------------------------------------------------------------------
LEMMA ModulusPositive == Modulus \in Nat \ {0} /\ Modulus > 0
OBVIOUS

LEMMA DigitReduced ==
  ASSUME NEW x \in Int, NEW d \in Int
  PROVE  ((x % Modulus) * 10 + d) % Modulus = (x * 10 + d) % Modulus
<1> DEFINE k == 10
           m == Modulus
<1>1. k \in Int /\ m \in Nat \ {0}
  BY ModulusPositive
<1> HIDE DEF k, m
<1>2. ((x % m) * k + d) % m = (x * k + d) % m
  BY <1>1, RemainderOfSum
<1> QED
  BY <1>2 DEF k, m

(***************************************************************************)
(* What str2int makes of a line.  Whole is its value as it would be without *)
(* a width.                                                                 *)
(***************************************************************************)
Figures(s) == \A i \in 1..Len(s) : s[i] = Minus \/ s[i] \in 0..9

WholeStep(s) ==
  [q \in Nat \X Nat |->
     IF q[1] + 1 \in 1..Len(s) /\ s[q[1] + 1] # Minus THEN q[2] * 10 + s[q[1] + 1] ELSE q[2]]

Whole(s) == CHOOSE g : Carries(g, Nat, 0, WholeStep(s))

LEMMA WholeIs ==
  ASSUME NEW s, Len(s) \in Nat, Figures(s)
  PROVE  /\ Whole(s)[0] = 0
         /\ \A i \in Nat : Whole(s)[i] \in Nat
         /\ \A i \in 0..(Len(s) - 1) :
              Whole(s)[i + 1] = IF s[i + 1] = Minus THEN Whole(s)[i]
                                ELSE Whole(s)[i] * 10 + s[i + 1]
<1> DEFINE step == WholeStep(s)
           g == Whole(s)
<1>1. IsStep(step, Nat)
  <2>1. ASSUME NEW q \in Nat \X Nat
        PROVE  (IF q[1] + 1 \in 1..Len(s) /\ s[q[1] + 1] # Minus
                THEN q[2] * 10 + s[q[1] + 1] ELSE q[2]) \in Nat
    BY DEF Figures
  <2> QED
    BY <2>1 DEF IsStep, WholeStep
<1>2. Carries(g, Nat, 0, step)
  <2>1. \E f : Carries(f, Nat, 0, step)
    <3> HIDE DEF step
    <3> QED
      BY <1>1, RecursionExists
  <2> QED
    BY <2>1 DEF Whole
<1> HIDE DEF g
<1>3. ASSUME NEW i \in 0..(Len(s) - 1)
      PROVE  g[i + 1] = IF s[i + 1] = Minus THEN g[i] ELSE g[i] * 10 + s[i + 1]
  <2>1. i \in Nat /\ i + 1 \in 1..Len(s) /\ g[i] \in Nat
    BY <1>2 DEF Carries
  <2>2. g[i + 1] = step[<<i, g[i]>>]
    BY <1>2, <2>1 DEF Carries
  <2> QED
    BY <2>1, <2>2 DEF WholeStep
<1>4. g[0] = 0 /\ \A i \in Nat : g[i] \in Nat
  BY <1>2 DEF Carries
<1> QED
  BY <1>3, <1>4 DEF g

LEMMA Str2IntIs ==
  ASSUME NEW s, Len(s) \in Nat, Figures(s)
  PROVE  LET v == Whole(s)[Len(s)] % Modulus
         IN  Str2Int(s) = Signed(IF Minus \in Range(s) THEN (Modulus - v) % Modulus ELSE v)
<1> DEFINE n == Len(s)
           W == Whole(s)
           value == CHOOSE f : f = [i \in 0..n |->
                      IF i = 0 THEN 0
                      ELSE IF s[i] = Minus THEN f[i - 1] ELSE (f[i - 1] * 10 + s[i]) % Modulus]
           P == [i \in 0..n |-> W[i] % Modulus]
<1>1. Str2Int(s) = Signed(IF Minus \in Range(s) THEN (Modulus - value[n]) % Modulus ELSE value[n])
  BY DEF Str2Int
<1>2. /\ W[0] = 0 /\ \A i \in Nat : W[i] \in Nat
      /\ \A i \in 0..(n - 1) :
           W[i + 1] = IF s[i + 1] = Minus THEN W[i] ELSE W[i] * 10 + s[i + 1]
  BY WholeIs
<1> HIDE DEF W, value
<1>3. ASSUME NEW i \in 0..n
      PROVE  P[i] = IF i = 0 THEN 0
                    ELSE IF s[i] = Minus THEN P[i - 1] ELSE (P[i - 1] * 10 + s[i]) % Modulus
  <2>1. CASE i = 0
    <3>1. P[i] = 0 % Modulus
      BY <1>2, <2>1
    <3>2. 0 % Modulus = 0
      BY ModulusPositive, SmallRemainder
    <3> QED
      BY <2>1, <3>1, <3>2
  <2>2. CASE i # 0
    <3>1. i - 1 \in 0..(n - 1) /\ i - 1 \in 0..n /\ (i - 1) + 1 = i /\ i \in 1..n /\ i - 1 \in Nat
      BY <2>2
    <3>2. P[i] = W[i] % Modulus /\ P[i - 1] = W[i - 1] % Modulus
      BY <3>1
    <3>3. W[i] = IF s[i] = Minus THEN W[i - 1] ELSE W[i - 1] * 10 + s[i]
      BY <1>2, <3>1
    <3> HIDE DEF P
    <3>4. CASE s[i] = Minus
      BY <2>2, <3>2, <3>3, <3>4
    <3>5. CASE s[i] # Minus
      <4>0. s[i] \in 0..9
        BY <3>1, <3>5 DEF Figures
      <4>1. s[i] \in Int /\ W[i - 1] \in Int
        <5>1. W[i - 1] \in Nat
          BY <1>2, <3>1
        <5> QED
          BY <4>0, <5>1
      <4>2. ((W[i - 1] % Modulus) * 10 + s[i]) % Modulus = (W[i - 1] * 10 + s[i]) % Modulus
        BY <4>1, DigitReduced
      <4> QED
        BY <2>2, <3>2, <3>3, <3>5, <4>2
    <3> QED
      BY <3>4, <3>5
  <2> QED
    BY <2>1, <2>2
<1>4. P = [i \in 0..n |-> IF i = 0 THEN 0
                          ELSE IF s[i] = Minus THEN P[i - 1] ELSE (P[i - 1] * 10 + s[i]) % Modulus]
  <2>1. P = [i \in 0..n |-> P[i]]
    OBVIOUS
  <2> HIDE DEF P, n
  <2> QED
    BY <1>3, <2>1, Zenon
<1>5. value = [i \in 0..n |-> IF i = 0 THEN 0
                 ELSE IF s[i] = Minus THEN value[i - 1] ELSE (value[i - 1] * 10 + s[i]) % Modulus]
  <2> USE DEF value
  <2> HIDE DEF P, n
  <2> QED
    BY <1>4
<1> HIDE DEF value
<1>6. \A i \in 0..n : value[i] = IF i = 0 THEN 0
                 ELSE IF s[i] = Minus THEN value[i - 1] ELSE (value[i - 1] * 10 + s[i]) % Modulus
  BY <1>5
<1> HIDE DEF P
<1> DEFINE S == {i \in Nat : value[i] = P[i]}
<1>7. 0 \in S
  BY <1>3, <1>6
<1>8. ASSUME NEW i \in 0..(n - 1), i \in S PROVE i + 1 \in S
  <2>1. i + 1 \in 0..n /\ i + 1 # 0 /\ (i + 1) - 1 = i /\ i + 1 \in Nat
    OBVIOUS
  <2>2. value[i] = P[i]
    BY <1>8
  <2> QED
    BY <1>3, <1>6, <2>1, <2>2
<1>9. n \in 0..n /\ \A i \in 0..n : i \in S
  <2>1. n \in Nat
    OBVIOUS
  <2> HIDE DEF S, n
  <2> QED
    BY <1>7, <1>8, <2>1, InductionUpTo
<1>10. value[n] = W[n] % Modulus
  BY <1>9 DEF P
<1> QED
  BY <1>1, <1>10 DEF W

Placed == [n : Nat, place : Nat]

SumStep(s) ==
  [q \in Nat \X Placed |->
     IF q[1] + 1 \in 1..Len(s) /\ s[Len(s) - q[1]] # Minus
     THEN [n |-> q[2].n + s[Len(s) - q[1]] * q[2].place, place |-> 10 * q[2].place]
     ELSE q[2]]

(* What Numeral sums up, from the last digit to the first.                  *)
Sums(s) == CHOOSE g : Carries(g, Placed, [n |-> 0, place |-> 1], SumStep(s))

LEMMA SumsIs ==
  ASSUME NEW s, Len(s) \in Nat, Figures(s)
  PROVE  /\ Sums(s)[0] = [n |-> 0, place |-> 1]
         /\ \A i \in Nat : Sums(s)[i] \in Placed
         /\ \A i \in 0..(Len(s) - 1) :
              Sums(s)[i + 1] =
                IF s[Len(s) - i] = Minus THEN Sums(s)[i]
                ELSE [n |-> Sums(s)[i].n + s[Len(s) - i] * Sums(s)[i].place,
                      place |-> 10 * Sums(s)[i].place]
<1> DEFINE step == SumStep(s)
           g == Sums(s)
           c == [n |-> 0, place |-> 1]
<1>1. IsStep(step, Placed)
  <2>1. ASSUME NEW q \in Nat \X Placed
        PROVE  (IF q[1] + 1 \in 1..Len(s) /\ s[Len(s) - q[1]] # Minus
                THEN [n |-> q[2].n + s[Len(s) - q[1]] * q[2].place, place |-> 10 * q[2].place]
                ELSE q[2]) \in Placed
    <3>1. q[1] \in Nat /\ q[2] \in Placed
      OBVIOUS
    <3>2. CASE q[1] + 1 \in 1..Len(s) /\ s[Len(s) - q[1]] # Minus
      <4> DEFINE d == s[Len(s) - q[1]]
      <4>1. Len(s) - q[1] \in 1..Len(s)
        BY <3>1, <3>2
      <4>2. d \in Nat
        BY <3>2, <4>1 DEF Figures
      <4>3. q[2].n \in Nat /\ q[2].place \in Nat
        BY <3>1 DEF Placed
      <4> HIDE DEF d
      <4>4. q[2].n + d * q[2].place \in Nat /\ 10 * q[2].place \in Nat
        BY <4>2, <4>3
      <4>5. [n |-> q[2].n + d * q[2].place, place |-> 10 * q[2].place] \in Placed
        BY <4>4 DEF Placed
      <4> QED
        BY <3>2, <4>5 DEF d
    <3>3. CASE ~(q[1] + 1 \in 1..Len(s) /\ s[Len(s) - q[1]] # Minus)
      BY <3>1, <3>3
    <3> QED
      BY <3>2, <3>3
  <2> QED
    BY <2>1 DEF IsStep, SumStep
<1>2. Carries(g, Placed, c, step)
  <2>1. c \in Placed
    BY DEF Placed
  <2>2. \E f : Carries(f, Placed, c, step)
    <3> HIDE DEF step, c
    <3> QED
      BY <1>1, <2>1, RecursionExists
  <2> QED
    BY <2>2 DEF Sums
<1> HIDE DEF g
<1>3. g[0] = c /\ \A i \in Nat : g[i] \in Placed
  BY <1>2 DEF Carries
<1> HIDE DEF c
<1>4. ASSUME NEW i \in 0..(Len(s) - 1)
      PROVE  g[i + 1] = IF s[Len(s) - i] = Minus THEN g[i]
                        ELSE [n |-> g[i].n + s[Len(s) - i] * g[i].place,
                              place |-> 10 * g[i].place]
  <2>1. i \in Nat /\ i + 1 \in 1..Len(s) /\ g[i] \in Placed
    BY <1>3
  <2>2. g[i + 1] = step[<<i, g[i]>>] /\ <<i, g[i]>> \in Nat \X Placed
    BY <1>2, <2>1 DEF Carries
  <2> QED
    BY <2>1, <2>2 DEF SumStep
<1> QED
  BY <1>3, <1>4 DEF g, c

LEMMA NumeralIs ==
  ASSUME NEW s, Len(s) \in Nat, Figures(s)
  PROVE  Numeral(s) = IF Minus \in Range(s) THEN -Sums(s)[Len(s)].n ELSE Sums(s)[Len(s)].n
<1> DEFINE n == Len(s)
           G == Sums(s)
           Next1(c, behind) == IF c = Minus THEN behind
                               ELSE [n |-> behind.n + c * behind.place, place |-> 10 * behind.place]
           sum == CHOOSE f : f = [i \in 0..n |->
                    IF i = 0 THEN [n |-> 0, place |-> 1] ELSE Next1(s[n + 1 - i], f[i - 1])]
           P == [i \in 0..n |-> G[i]]
<1>1. Numeral(s) = IF Minus \in Range(s) THEN -sum[n].n ELSE sum[n].n
  BY DEF Numeral
<1>2. /\ G[0] = [n |-> 0, place |-> 1]
      /\ \A i \in 0..(n - 1) : G[i + 1] = Next1(s[n - i], G[i])
  BY SumsIs
<1> HIDE DEF G, Next1
<1>3. ASSUME NEW i \in 0..n
      PROVE  P[i] = IF i = 0 THEN [n |-> 0, place |-> 1] ELSE Next1(s[n + 1 - i], P[i - 1])
  <2>1. CASE i = 0
    BY <1>2, <2>1
  <2>2. CASE i # 0
    <3>1. i - 1 \in 0..(n - 1) /\ (i - 1) + 1 = i /\ n - (i - 1) = n + 1 - i /\ i - 1 \in 0..n
      BY <2>2
    <3>2. G[(i - 1) + 1] = Next1(s[n - (i - 1)], G[i - 1])
      BY <1>2, <3>1
    <3>3. P[i] = G[i] /\ P[i - 1] = G[i - 1]
      BY <3>1
    <3> QED
      BY <2>2, <3>1, <3>2, <3>3
  <2> QED
    BY <2>1, <2>2
<1>4. P = [i \in 0..n |->
             IF i = 0 THEN [n |-> 0, place |-> 1] ELSE Next1(s[n + 1 - i], P[i - 1])]
  <2>1. P = [i \in 0..n |-> P[i]]
    OBVIOUS
  <2> HIDE DEF P, n
  <2> QED
    BY <1>3, <2>1, Zenon
<1>5. sum = [i \in 0..n |->
               IF i = 0 THEN [n |-> 0, place |-> 1] ELSE Next1(s[n + 1 - i], sum[i - 1])]
  <2> HIDE DEF P, n
  <2> QED
    BY <1>4
<1> HIDE DEF sum
<1>6. \A i \in 0..n :
        sum[i] = IF i = 0 THEN [n |-> 0, place |-> 1] ELSE Next1(s[n + 1 - i], sum[i - 1])
  BY <1>5
<1> HIDE DEF P
<1> DEFINE S == {i \in Nat : sum[i] = P[i]}
<1>7. 0 \in S
  BY <1>3, <1>6
<1>8. ASSUME NEW i \in 0..(n - 1), i \in S PROVE i + 1 \in S
  <2>1. i + 1 \in 0..n /\ i + 1 # 0 /\ (i + 1) - 1 = i /\ i + 1 \in Nat
    OBVIOUS
  <2>2. sum[i] = P[i]
    BY <1>8
  <2> QED
    BY <1>3, <1>6, <2>1, <2>2
<1>9. n \in 0..n /\ \A i \in 0..n : i \in S
  <2>1. n \in Nat
    OBVIOUS
  <2> HIDE DEF S, n
  <2> QED
    BY <1>7, <1>8, <2>1, InductionUpTo
<1>10. sum[n] = G[n]
  BY <1>9 DEF P
<1> QED
  BY <1>1, <1>10 DEF G

(* Reading from the left and adding up from the right give the same number: *)
(* what has been read takes the place of what has not.                      *)
LEMMA WholeIsSum ==
  ASSUME NEW s, Len(s) \in Nat, Figures(s)
  PROVE  Whole(s)[Len(s)] = Sums(s)[Len(s)].n
<1> DEFINE n == Len(s)
           W == Whole(s)
           G == Sums(s)
           S == {i \in Nat : W[n] = W[n - i] * G[i].place + G[i].n}
<1>1. /\ W[0] = 0 /\ \A i \in Nat : W[i] \in Nat
      /\ \A i \in 0..(n - 1) :
           W[i + 1] = IF s[i + 1] = Minus THEN W[i] ELSE W[i] * 10 + s[i + 1]
  BY WholeIs
<1>2. /\ G[0] = [n |-> 0, place |-> 1] /\ \A i \in Nat : G[i] \in Placed
      /\ \A i \in 0..(n - 1) :
           G[i + 1] = IF s[n - i] = Minus THEN G[i]
                      ELSE [n |-> G[i].n + s[n - i] * G[i].place, place |-> 10 * G[i].place]
  BY SumsIs
<1>3. n \in Nat
  OBVIOUS
<1>a. \A i \in 1..n : s[i] # Minus => s[i] \in Nat
  BY DEF Figures
<1> HIDE DEF W, G, n
<1>4. 0 \in S
  <2>1. n - 0 = n /\ G[0].place = 1 /\ G[0].n = 0 /\ W[n] \in Nat
    BY <1>1, <1>2, <1>3
  <2> QED
    BY <2>1
<1>5. ASSUME NEW i \in 0..(n - 1), i \in S PROVE i + 1 \in S
  <2> DEFINE k == n - (i + 1)
             c == s[k + 1]
             p == G[i].place
             m == G[i].n
             w == W[k]
  <2>1. /\ k \in 0..(n - 1) /\ n - i = k + 1 /\ k + 1 \in 1..n /\ k \in Nat
        /\ i \in Nat /\ i + 1 \in Nat
    BY <1>3
  <2>2. W[n] = W[k + 1] * p + m
    BY <1>5, <2>1
  <2>3. p \in Nat /\ m \in Nat /\ w \in Nat
    BY <1>1, <1>2, <2>1 DEF Placed
  <2> HIDE DEF k
  <2>4. CASE c = Minus
    <3>1. W[k + 1] = w /\ G[i + 1] = G[i]
      BY <1>1, <1>2, <2>1, <2>4
    <3> QED
      BY <2>1, <2>2, <3>1 DEF k
  <2>5. CASE c # Minus
    <3>1. W[k + 1] = w * 10 + c
      BY <1>1, <2>1, <2>5
    <3>2. G[i + 1] = [n |-> m + c * p, place |-> 10 * p]
      BY <1>2, <2>1, <2>5
    <3>3. c \in Nat
      BY <1>a, <2>1, <2>5
    <3> HIDE DEF c, p, m, w
    <3>4. W[n] = w * (10 * p) + (m + c * p)
      <4>1. (w * 10 + c) * p = w * (10 * p) + c * p
        BY <2>3, <3>3
      <4>2. c * p \in Nat /\ w * (10 * p) \in Nat
        BY <2>3, <3>3
      <4> QED
        BY <2>2, <2>3, <3>1, <4>1, <4>2
    <3>5. G[i + 1].place = 10 * p /\ G[i + 1].n = m + c * p
      BY <3>2
    <3> QED
      BY <2>1, <3>4, <3>5 DEF k, w
  <2> QED
    BY <2>4, <2>5
<1>6. n \in 0..n /\ \A i \in 0..n : i \in S
  <2> HIDE DEF S
  <2> QED
    BY <1>3, <1>4, <1>5, InductionUpTo
<1>7. W[n] = W[n - n] * G[n].place + G[n].n
  BY <1>6
<1>8. n - n = 0 /\ G[n].place \in Nat /\ G[n].n \in Nat
  BY <1>2, <1>3 DEF Placed
<1>9. W[n] = G[n].n
  BY <1>1, <1>7, <1>8
<1> QED
  BY <1>9 DEF W, G, n

LEMMA SignedInt ==
  ASSUME NEW v \in Int
  PROVE  Signed(v) \in Int
BY DEF Signed

(* A line whose number fits an int is read as that number.                  *)
LEMMA ReadsNumeral ==
  ASSUME NEW s, Len(s) \in Nat, Figures(s)
  PROVE  /\ Str2Int(s) \in Int
         /\ -Modulus <= 2 * Numeral(s) /\ 2 * Numeral(s) < Modulus => Str2Int(s) = Numeral(s)
<1> DEFINE w == Whole(s)[Len(s)]
           v == w % Modulus
           neg == Minus \in Range(s)
<1>1. Str2Int(s) = Signed(IF neg THEN (Modulus - v) % Modulus ELSE v)
  BY Str2IntIs
<1>2. Numeral(s) = IF neg THEN -w ELSE w
  BY NumeralIs, WholeIsSum
<1>3. w \in Nat
  BY WholeIs
<1> HIDE DEF w
<1>4. v \in 0..(Modulus - 1)
  BY <1>3, ModulusPositive, Division
<1>5. (Modulus - v) % Modulus \in Int
  <2>1. Modulus - v \in Int
    BY <1>4
  <2> QED
    BY <2>1, ModulusPositive
<1>6. Str2Int(s) \in Int
  <2> DEFINE r == IF neg THEN (Modulus - v) % Modulus ELSE v
  <2>1. r \in Int
    <3> HIDE DEF v, neg
    <3> QED
      BY <1>4, <1>5
  <2> HIDE DEF r
  <2>2. Signed(r) \in Int
    BY <2>1, SignedInt
  <2> QED
    BY <1>1, <2>2 DEF r
<1>7. ASSUME -Modulus <= 2 * Numeral(s), 2 * Numeral(s) < Modulus
      PROVE  Str2Int(s) = Numeral(s)
  <2>1. w < Modulus
    BY <1>2, <1>3, <1>7, ModulusPositive
  <2>2. v = w
    BY <1>3, <2>1, ModulusPositive, SmallRemainder
  <2> HIDE DEF v
  <2>3. CASE ~neg
    BY <1>1, <1>2, <1>3, <1>7, <2>2, <2>3 DEF Signed
  <2>4. CASE neg /\ w = 0
    <3>1. Modulus - v = Modulus * 1 + 0
      BY <2>2, <2>4, ModulusPositive
    <3>2. Modulus - v \in Int /\ 0 \in 0..(Modulus - 1)
      BY <3>1, ModulusPositive
    <3>3. (Modulus - v) % Modulus = 0
      BY <3>1, <3>2, ModulusPositive, Remainder
    <3> QED
      BY <1>1, <1>2, <2>4, <3>3, ModulusPositive DEF Signed
  <2>5. CASE neg /\ w # 0
    <3>1. Modulus - v \in 0..(Modulus - 1)
      BY <1>3, <2>1, <2>2, <2>5, ModulusPositive
    <3>2. (Modulus - v) % Modulus = Modulus - v
      BY <3>1, ModulusPositive, SmallRemainder
    <3> QED
      BY <1>1, <1>2, <1>3, <1>7, <2>2, <2>5, <3>2, ModulusPositive DEF Signed
  <2> QED
    BY <2>3, <2>4, <2>5
<1> QED
  BY <1>6, <1>7

-----------------------------------------------------------------------------
(***************************************************************************)
(* The three algorithms.  Pairs is what a and b of fast_fib's loop go       *)
(* through, turn by turn.                                                   *)
(***************************************************************************)
IsPairs(g) == g[0] = <<0, 1>> /\ \A n \in Nat : g[n + 1] = Turn(g[n])

Pairs == CHOOSE g \in [Nat -> Nat \X Nat] : IsPairs(g)

LEMMA PairsExist == Pairs \in [Nat -> Nat \X Nat] /\ IsPairs(Pairs)
<1> DEFINE step == [q \in Nat \X (Nat \X Nat) |-> Turn(q[2])]
<1>1. ASSUME NEW p \in Nat \X Nat PROVE Turn(p) \in Nat \X Nat
  <2>1. p[1] + p[2] \in Nat
    OBVIOUS
  <2>2. (p[1] + p[2]) % Modulus \in Nat
    BY <2>1, ModulusPositive
  <2> QED
    BY <2>2 DEF Turn
<1>2. step \in [Nat \X (Nat \X Nat) -> Nat \X Nat]
  BY <1>1
<1>3. \A n \in Nat, p \in Nat \X Nat : step[<<n, p>>] = Turn(p)
  OBVIOUS
<1> HIDE DEF step
<1>4. PICK g \in [Nat -> Nat \X Nat] :
        g[0] = <<0, 1>> /\ \A n \in Nat : g[n + 1] = step[<<n, g[n]>>]
  <2> DEFINE V == Nat \X Nat
             c == <<0, 1>>
  <2>1. c \in V /\ IsStep(step, V)
    BY <1>2 DEF IsStep
  <2> HIDE DEF V, c
  <2>2. \E g : Carries(g, V, c, step)
    BY <2>1, RecursionExists
  <2> QED
    BY <2>2 DEF V, c, Carries
<1>5. ASSUME NEW n \in Nat PROVE g[n + 1] = Turn(g[n])
  <2>1. g[n] \in Nat \X Nat
    OBVIOUS
  <2> QED
    BY <1>3, <1>4, <2>1
<1>6. IsPairs(g)
  BY <1>4, <1>5 DEF IsPairs
<1> QED
  BY <1>6 DEF Pairs

LEMMA PairsStep ==
  /\ Pairs[0][1] = 0 /\ Pairs[0][2] = 1
  /\ \A n \in Nat :
       /\ Pairs[n] = <<Pairs[n][1], Pairs[n][2]>>
       /\ Pairs[n + 1][1] = Pairs[n][2]
       /\ Pairs[n + 1][2] = (Pairs[n][1] + Pairs[n][2]) % Modulus
       /\ Pairs[n][1] \in Nat /\ Pairs[n][2] \in Nat
<1>1. Pairs[0] = <<0, 1>>
  BY PairsExist DEF IsPairs
<1>2. ASSUME NEW n \in Nat
      PROVE  /\ Pairs[n] = <<Pairs[n][1], Pairs[n][2]>>
             /\ Pairs[n][1] \in Nat /\ Pairs[n][2] \in Nat
  <2>1. Pairs[n] \in Nat \X Nat
    BY PairsExist
  <2> QED
    BY <2>1
<1>3. ASSUME NEW n \in Nat
      PROVE  /\ Pairs[n + 1][1] = Pairs[n][2]
             /\ Pairs[n + 1][2] = (Pairs[n][1] + Pairs[n][2]) % Modulus
  <2>1. Pairs[n + 1] = Turn(Pairs[n])
    BY PairsExist DEF IsPairs
  <2> QED
    BY <2>1 DEF Turn
<1> QED
  BY <1>1, <1>2, <1>3

LEMMA FibDef ==
  Fib = [n \in Nat |-> IF n < 2 THEN n ELSE (Fib[n - 1] + Fib[n - 2]) % Modulus]
<1> DEFINE F == [n \in Nat |-> Pairs[n][1]]
<1>1. ASSUME NEW n \in Nat
      PROVE  F[n] = IF n < 2 THEN n ELSE (F[n - 1] + F[n - 2]) % Modulus
  <2>1. CASE n = 0
    BY <2>1, PairsStep
  <2>2. CASE n = 1
    BY <2>2, PairsStep
  <2>3. CASE n >= 2
    <3>1. n - 2 \in Nat /\ n - 1 = (n - 2) + 1 /\ n = (n - 1) + 1 /\ n - 1 \in Nat
      BY <2>3
    <3> DEFINE k == n - 2
    <3>2. k \in Nat /\ k + 1 = n - 1 /\ (k + 1) + 1 = n
      BY <3>1
    <3>3. F[n] = Pairs[(k + 1) + 1][1] /\ F[n - 1] = Pairs[k + 1][1] /\ F[n - 2] = Pairs[k][1]
      BY <3>1
    <3> HIDE DEF k, F
    <3>4. Pairs[(k + 1) + 1][1] = Pairs[k + 1][2]
      BY <3>2, PairsStep
    <3>5. Pairs[k + 1][2] = (Pairs[k][1] + Pairs[k][2]) % Modulus
      BY <3>2, PairsStep
    <3>6. Pairs[k + 1][1] = Pairs[k][2] /\ Pairs[k][1] \in Nat /\ Pairs[k][2] \in Nat
      BY <3>2, PairsStep
    <3>7. F[n - 1] + F[n - 2] = Pairs[k][1] + Pairs[k][2]
      BY <3>3, <3>6
    <3> QED
      BY <2>3, <3>3, <3>4, <3>5, <3>7
  <2> QED
    BY <2>1, <2>2, <2>3
<1>2. F = [n \in Nat |-> IF n < 2 THEN n ELSE (F[n - 1] + F[n - 2]) % Modulus]
  <2>1. F = [n \in Nat |-> F[n]]
    OBVIOUS
  <2> HIDE DEF F
  <2> QED
    BY <1>1, <2>1
<1> HIDE DEF F
<1> QED
  BY <1>2 DEF Fib

LEMMA FibStep ==
  \A n \in Nat : Fib[n] = IF n < 2 THEN n ELSE (Fib[n - 1] + Fib[n - 2]) % Modulus
<1> DEFINE F == Fib
<1>1. F = [n \in Nat |-> IF n < 2 THEN n ELSE (F[n - 1] + F[n - 2]) % Modulus]
  BY FibDef
<1> HIDE DEF F
<1>2. \A n \in Nat : F[n] = IF n < 2 THEN n ELSE (F[n - 1] + F[n - 2]) % Modulus
  BY <1>1
<1> QED
  BY <1>2 DEF F

LEMMA FibIs == \A n \in Nat : Fib[n] = Pairs[n][1]
<1> DEFINE S == {n \in Nat : Fib[n] = Pairs[n][1] /\ Fib[n + 1] = Pairs[n][2]}
<1>2. 0 \in S
  BY FibStep, PairsStep
<1>3. ASSUME NEW n \in Nat, n \in S PROVE n + 1 \in S
  <2>1. Fib[n] = Pairs[n][1] /\ Fib[n + 1] = Pairs[n][2] /\ n + 1 \in Nat
    BY <1>3
  <2>2. Fib[n + 2] = (Fib[n + 1] + Fib[n]) % Modulus
    <3>1. n + 2 \in Nat /\ ~(n + 2 < 2) /\ (n + 2) - 1 = n + 1 /\ (n + 2) - 2 = n
      OBVIOUS
    <3> QED
      BY FibStep, <3>1
  <2>3. /\ Pairs[n + 1][1] = Pairs[n][2]
        /\ Pairs[n + 1][2] = (Pairs[n][1] + Pairs[n][2]) % Modulus
        /\ Pairs[n][1] \in Nat /\ Pairs[n][2] \in Nat
    BY PairsStep
  <2>4. Fib[n + 1] + Fib[n] = Pairs[n][1] + Pairs[n][2] /\ (n + 1) + 1 = n + 2
    BY <2>1, <2>3
  <2> QED
    BY <2>1, <2>2, <2>3, <2>4
<1>4. \A n \in Nat : n \in S
  <2> HIDE DEF S
  <2> QED
    BY <1>2, <1>3, Induction
<1> QED
  BY <1>4

LEMMA CursedDef ==
  CursedFib = [n \in Int |-> IF n < 1 THEN 0 ELSE IF n < 2 THEN 1
                             ELSE (CursedFib[n - 1] + CursedFib[n - 2]) % Modulus]
<1> DEFINE F == [n \in Int |-> IF n < 1 THEN 0 ELSE Fib[n]]
           Body(n) == IF n < 1 THEN 0 ELSE IF n < 2 THEN 1 ELSE (F[n - 1] + F[n - 2]) % Modulus
<1>2. ASSUME NEW n \in Int PROVE F[n] = Body(n)
  <2>1. CASE n < 1
    BY <2>1
  <2>2. CASE n = 1
    BY <2>2, FibStep
  <2>3. CASE n >= 2
    <3>1. n \in Nat /\ n - 1 \in Nat /\ n - 2 \in Nat /\ ~(n < 1) /\ ~(n < 2) /\ ~(n - 1 < 1)
      BY <2>3
    <3>2. F[n] = Fib[n] /\ F[n - 1] = Fib[n - 1]
      BY <3>1
    <3>3. F[n - 2] = Fib[n - 2]
      <4>1. CASE n = 2
        <5>1. Fib[0] = 0
          BY FibStep
        <5> QED
          BY <4>1, <5>1
      <4>2. CASE n # 2
        BY <2>3, <4>2
      <4> QED
        BY <4>1, <4>2
    <3>4. Fib[n] = (Fib[n - 1] + Fib[n - 2]) % Modulus
      BY FibStep, <3>1
    <3> HIDE DEF F
    <3> QED
      BY <3>1, <3>2, <3>3, <3>4
  <2> QED
    BY <2>1, <2>2, <2>3
<1>3. F = [n \in Int |-> Body(n)]
  <2>1. F = [n \in Int |-> F[n]]
    OBVIOUS
  <2> HIDE DEF F
  <2> QED
    BY <1>2, <2>1, Zenon
<1> HIDE DEF F
<1> QED
  BY <1>3 DEF CursedFib

(* Every number has its place in cursed_fib's recursion, as it has in fib's. *)
LEMMA CursedIs == \A n \in Nat : CursedFib[n] = Fib[n]
<1> DEFINE F == CursedFib
           S == {n \in Nat : F[n] = Fib[n] /\ F[n + 1] = Fib[n + 1]}
<1>1. \A n \in Int : F[n] = IF n < 1 THEN 0 ELSE IF n < 2 THEN 1
                            ELSE (F[n - 1] + F[n - 2]) % Modulus
  <2>1. F = [n \in Int |-> IF n < 1 THEN 0 ELSE IF n < 2 THEN 1
                           ELSE (F[n - 1] + F[n - 2]) % Modulus]
    BY CursedDef
  <2> HIDE DEF F
  <2> QED
    BY <2>1
<1> HIDE DEF F
<1>2. 0 \in S
  <2>1. F[0] = 0 /\ F[1] = 1
    BY <1>1
  <2>2. Fib[0] = 0 /\ Fib[1] = 1
    BY FibStep
  <2> QED
    BY <2>1, <2>2
<1>3. ASSUME NEW n \in Nat, n \in S PROVE n + 1 \in S
  <2>1. n + 2 \in Nat /\ ~(n + 2 < 2) /\ ~(n + 2 < 1) /\ (n + 2) - 1 = n + 1 /\ (n + 2) - 2 = n
    OBVIOUS
  <2>2. F[n + 2] = (F[n + 1] + F[n]) % Modulus
    BY <1>1, <2>1
  <2>3. Fib[n + 2] = (Fib[n + 1] + Fib[n]) % Modulus
    BY FibStep, <2>1
  <2>4. F[n] = Fib[n] /\ F[n + 1] = Fib[n + 1] /\ (n + 1) + 1 = n + 2 /\ n + 1 \in Nat
    BY <1>3
  <2> QED
    BY <2>2, <2>3, <2>4
<1>4. \A n \in Nat : n \in S
  <2> HIDE DEF S
  <2> QED
    BY <1>2, <1>3, Induction
<1> QED
  BY <1>4 DEF F

(* fast_fib's loop goes through the pairs.                                  *)
LEMMA FastIs == \A n \in Nat : FastFib(n) = Fib[n]
<1> SUFFICES ASSUME NEW n \in Nat PROVE FastFib(n) = Fib[n]
  OBVIOUS
<1> DEFINE ab == CHOOSE f : f = [i \in 0..n |-> IF i < 2 THEN <<0, 1>> ELSE Turn(f[i - 1])]
           P == [i \in 0..n |-> IF i = 0 THEN <<0, 1>> ELSE Pairs[i - 1]]
<1>1. FastFib(n) = IF n = 0 THEN 0 ELSE ab[n][2]
  BY DEF FastFib
<1>2. ASSUME NEW i \in 0..n
      PROVE  P[i] = IF i < 2 THEN <<0, 1>> ELSE Turn(P[i - 1])
  <2>1. CASE i < 2
    <3>1. Pairs[0] = <<0, 1>>
      BY PairsExist DEF IsPairs
    <3> QED
      BY <2>1, <3>1
  <2>2. CASE i >= 2
    <3>1. i - 2 \in Nat /\ (i - 2) + 1 = i - 1 /\ i - 1 \in 0..n /\ (i - 1) - 1 = i - 2
      BY <2>2
    <3>2. P[i] = Pairs[i - 1] /\ P[i - 1] = Pairs[i - 2]
      BY <2>2, <3>1
    <3>3. Pairs[i - 1] = Turn(Pairs[i - 2])
      BY <3>1, PairsExist DEF IsPairs
    <3> QED
      BY <2>2, <3>2, <3>3
  <2> QED
    BY <2>1, <2>2
<1>3. P = [i \in 0..n |-> IF i < 2 THEN <<0, 1>> ELSE Turn(P[i - 1])]
  <2>1. P = [i \in 0..n |-> P[i]]
    OBVIOUS
  <2> HIDE DEF P
  <2> QED
    BY <1>2, <2>1, Zenon
<1>4. ab = [i \in 0..n |-> IF i < 2 THEN <<0, 1>> ELSE Turn(ab[i - 1])]
  <2> HIDE DEF P
  <2> QED
    BY <1>3
<1> HIDE DEF ab, P
<1> DEFINE S == {i \in Nat : i + 1 <= n => ab[i + 1] = Pairs[i]}
<1>5. \A i \in 0..n : ab[i] = IF i < 2 THEN <<0, 1>> ELSE Turn(ab[i - 1])
  BY <1>4
<1>6. 0 \in S
  <2>1. Pairs[0] = <<0, 1>>
    BY PairsExist DEF IsPairs
  <2> QED
    BY <1>5, <2>1
<1>7. ASSUME NEW i \in Nat, i \in S PROVE i + 1 \in S
  <2> SUFFICES ASSUME (i + 1) + 1 <= n PROVE ab[(i + 1) + 1] = Pairs[i + 1]
    OBVIOUS
  <2>1. /\ (i + 1) + 1 \in 0..n /\ ~((i + 1) + 1 < 2) /\ ((i + 1) + 1) - 1 = i + 1
        /\ i + 1 <= n
    OBVIOUS
  <2>2. ab[(i + 1) + 1] = Turn(ab[i + 1])
    BY <1>5, <2>1
  <2>3. ab[i + 1] = Pairs[i]
    BY <1>7, <2>1
  <2>4. Pairs[i + 1] = Turn(Pairs[i])
    BY PairsExist DEF IsPairs
  <2> QED
    BY <2>2, <2>3, <2>4
<1>8. \A i \in Nat : i \in S
  <2> HIDE DEF S
  <2> QED
    BY <1>6, <1>7, Induction
<1>9. CASE n = 0
  BY <1>1, <1>9, FibStep
<1>10. CASE n # 0
  <2>1. n - 1 \in Nat /\ (n - 1) + 1 = n
    BY <1>10
  <2>2. ab[n] = Pairs[n - 1]
    BY <1>8, <2>1
  <2>3. Pairs[n - 1][2] = Pairs[n][1]
    BY <2>1, PairsStep
  <2>4. Fib[n] = Pairs[n][1]
    BY FibIs
  <2> QED
    BY <1>1, <1>10, <2>2, <2>3, <2>4
<1> QED
  BY <1>9, <1>10

-----------------------------------------------------------------------------

(***************************************************************************)
(* While a line is read its buffer holds it, at the places the string's    *)
(* length says; before the first character there is no terminator yet.     *)
(* What is accepted is what str2int makes of the line, and usable; what is *)
(* refused is not.                                                         *)
(***************************************************************************)
LineInv ==
  /\ typed \in Seq(Char)
  /\ IsString(str)
  /\ phase = "reading" =>
       IF at = Null
       THEN typed = << >>
       ELSE /\ str.length = Len(typed)
            /\ Begins(text, typed)
            /\ typed # << >> => Terminated(text, Len(typed))
  /\ phase = "converting" => line = typed
  /\ phase = "accepted" => IsNumber(typed) /\ input = Str2Int(typed) /\ Usable(input)
  /\ Refused => input = Str2Int(typed) /\ ~Usable(input)

LEMMA LineInitInv == Init => LineInv
BY DEF Init, LineInv, IsString, Refused

LEMMA LineReadChar == LineInv /\ ReadChar => LineInv'
<1> SUFFICES ASSUME LineInv, ReadChar PROVE LineInv'
  OBVIOUS
<1>1. PICK c \in Char :
        LET r == StringAppendChar(heap, str)
        IN  /\ str' = r.str
            /\ text' = Stored(text, str, r, c)
            /\ typed' = Append(typed, c)
            /\ phase' \in {"reading", "overrun"}
  BY DEF ReadChar
<1> DEFINE r == StringAppendChar(heap, str)
<1>2. /\ phase = "reading" /\ at # Null /\ at' = at
      /\ typed \in Seq(Char) /\ IsString(str)
      /\ str.length = Len(typed) /\ Begins(text, typed)
  BY DEF ReadChar, LineInv
<1>3. r.str.length = Len(typed) + 1 /\ IsString(r.str)
  BY <1>2, AppendedLength
<1>4. /\ Begins(text', typed)
      /\ Len(typed) \in DOMAIN text' /\ text'[Len(typed)] = c
      /\ Terminated(text', Len(typed) + 1)
  <2> HIDE DEF r
  <2>1. text' = Stored(text, str, r, c)
    BY <1>1 DEF r
  <2> QED
    BY <1>2, <1>3, <2>1, StoredBegins
<1>5. /\ typed' \in Seq(Char) /\ typed' # << >>
      /\ Len(typed') = Len(typed) + 1 /\ typed'[Len(typed) + 1] = c
      /\ \A i \in 1..Len(typed) : typed'[i] = typed[i]
      /\ Len(typed) \in Nat
  BY <1>1, <1>2
<1>6. Begins(text', typed')
  <2>1. DOMAIN text' \subseteq Nat
    BY <1>4 DEF Begins
  <2>2. ASSUME NEW i \in 0..(Len(typed') - 1)
        PROVE  i \in DOMAIN text' /\ text'[i] = typed'[i + 1]
    <3>1. CASE i = Len(typed)
      BY <1>4, <1>5, <3>1
    <3>2. CASE i # Len(typed)
      <4>1. i \in 0..(Len(typed) - 1) /\ i + 1 \in 1..Len(typed)
        BY <1>5, <3>2
      <4> QED
        BY <1>4, <1>5, <4>1 DEF Begins
    <3> QED
      BY <3>1, <3>2
  <2> QED
    BY <2>1, <2>2 DEF Begins
<1>7. Terminated(text', Len(typed')) /\ str'.length = Len(typed') /\ IsString(str')
  BY <1>1, <1>3, <1>4, <1>5
<1> QED
  BY <1>1, <1>2, <1>5, <1>6, <1>7 DEF LineInv, Refused

(* Shrinking does nothing to the characters, and ending the line puts one   *)
(* more terminator right behind them.                                       *)
LEMMA LineEnds == LineInv /\ EndLine => LineInv'
<1> SUFFICES ASSUME LineInv, EndLine PROVE LineInv'
  OBVIOUS
<1>1. /\ typed \in Seq(Char) /\ IsString(str)
      /\ str.length = Len(typed) /\ Begins(text, typed)
  BY DEF LineInv, EndLine
<1> DEFINE fit == StringShrink(heap, str)
           full == StringAppendChar(fit.heap, fit.str)
           t == Moved(text, str, fit)
<1>2. fit.str.length = Len(typed) /\ IsString(fit.str)
  BY <1>1, GrownLength DEF StringShrink
<1>3. full.str.length = Len(typed) + 1 /\ IsString(full.str)
  <2> HIDE DEF fit
  <2> QED
    BY <1>2, AppendedLength
<1>4. Begins(t, typed)
  BY <1>1, MovedBegins
<1>5. Ended.str = full.str /\ Ended.text = Stored(t, fit.str, full, Nul)
  BY DEF Ended
<1> HIDE DEF fit, full, t
<1>6. Begins(Ended.text, typed) /\ Terminated(Ended.text, Len(typed))
  BY <1>1, <1>2, <1>3, <1>4, <1>5, StoredBegins DEF Terminated
<1>7. CString(Ended.text) = typed
  BY <1>1, <1>6, CStringIs
<1>8. /\ str' = Ended.str /\ line' = CString(Ended.text) /\ typed' = typed
      /\ phase' = "converting"
  BY DEF EndLine
<1> QED
  BY <1>1, <1>3, <1>5, <1>7, <1>8 DEF LineInv, Refused

LEMMA LineNew == LineInv /\ NewLine => LineInv'
<1> SUFFICES ASSUME LineInv, NewLine PROVE LineInv'
  OBVIOUS
<1> DEFINE r == StringNewLen(heap, 0)
<1>1. /\ at' = r.at /\ str' = (IF r.at = Null THEN str ELSE r.str)
      /\ text' = Empty /\ typed' = << >> /\ phase' = "reading"
  BY DEF NewLine
<1>2. r.at # Null => r.str.length = 0 /\ IsString(r.str)
  BY DEF StringNewLen, IsString
<1>3. Begins(text', << >>)
  BY <1>1 DEF Empty, Begins
<1> HIDE DEF r
<1>4. typed' \in Seq(Char) /\ Len(typed') = 0 /\ IsString(str')
  BY <1>1, <1>2 DEF LineInv
<1> QED
  BY <1>1, <1>2, <1>3, <1>4 DEF LineInv, Refused

LEMMA LineStepInv == LineInv /\ [Next]_vars => LineInv'
<1> SUFFICES ASSUME LineInv, [Next]_vars PROVE LineInv'
  OBVIOUS
<1>1. CASE NewLine
  BY <1>1, LineNew
<1>2. CASE ReadChar
  BY <1>2, LineReadChar
<1>3. CASE EndLine
  BY <1>3, LineEnds
<1>4. CASE Fault \/ Overrun \/ Junk
  <2>1. /\ UNCHANGED <<typed, str>> /\ phase' \notin {"reading", "converting", "accepted"}
        /\ phase' # "prompt" \/ ~IsNumber(typed)
    BY <1>4 DEF Fault, Overrun, Junk, LineInv
  <2> QED
    BY <2>1 DEF LineInv, Refused
<1>6. CASE Convert
  <2>1. /\ UNCHANGED <<typed, str>> /\ phase' \in {"prompt", "accepted"}
        /\ line = typed /\ IsNumber(line) /\ input' = Str2Int(line)
        /\ phase' = "accepted" <=> Usable(input')
    BY <1>6 DEF Convert, LineInv
  <2> QED
    BY <2>1 DEF LineInv, Refused
<1>5. CASE UNCHANGED vars
  BY <1>5 DEF LineInv, Refused, vars
<1> QED
  BY <1>1, <1>2, <1>3, <1>4, <1>5, <1>6 DEF Next

LEMMA LineInvariant == Spec => []LineInv
BY LineInitInv, LineStepInv, PTL DEF Spec

(***************************************************************************)
(* For any heap, however often the line moves and whichever request fails  *)
(* on the way: what str2int reads is what was typed.                       *)
(***************************************************************************)
THEOREM LineIsTyped == Spec => []LineReturned
<1>1. LineInv => LineReturned
  <2> SUFFICES ASSUME LineInv, phase = "reading", typed # << >>
               PROVE  CString(text) = typed
    BY DEF LineReturned, LineInv
  <2>1. typed \in Seq(Char) /\ Begins(text, typed) /\ Terminated(text, Len(typed))
    BY DEF LineInv
  <2> QED
    BY <2>1, CStringIs
<1> QED
  BY <1>1, LineInvariant, PTL

(* A line of which str2int makes a number holds nothing but what it knows.  *)
LEMMA NumbersAreFigures ==
  ASSUME NEW s \in Seq(Char), IsNumber(s)
  PROVE  Len(s) \in Nat /\ Figures(s)
<1>1. ASSUME NEW i \in 1..Len(s) PROVE s[i] = Minus \/ s[i] \in 0..9
  <2>1. s[i] \in Char
    OBVIOUS
  <2>2. s[i] # Other
    BY DEF IsNumber, Range
  <2> QED
    BY <2>1, <2>2 DEF Char
<1> QED
  BY <1>1 DEF Figures

(***************************************************************************)
(* Whatever a word can hold and however long the line: a number that an    *)
(* int can hold is accepted as what the line says, and is refused only if  *)
(* fib cannot use it; and nothing is accepted that fib could not use.      *)
(***************************************************************************)
THEOREM AcceptedAsTyped == Spec => []AcceptedIsTyped
<1>1. LineInv => AcceptedIsTyped
  <2> SUFFICES ASSUME LineInv, phase = "accepted" \/ Refused
               PROVE  /\ phase = "accepted" => Usable(input)
                      /\ Refused => ~Usable(input)
                      /\ FitsInt(Numeral(typed)) => input = Numeral(typed)
    BY DEF AcceptedIsTyped
  <2>1. /\ typed \in Seq(Char) /\ IsNumber(typed) /\ input = Str2Int(typed)
        /\ phase = "accepted" => Usable(input)
        /\ Refused => ~Usable(input)
    BY DEF LineInv, Refused
  <2>2. FitsInt(Numeral(typed)) => Str2Int(typed) = Numeral(typed)
    BY <2>1, NumbersAreFigures, ReadsNumeral DEF FitsInt
  <2> QED
    BY <2>1, <2>2
<1> QED
  BY <1>1, LineInvariant, PTL

(***************************************************************************)
(* Whatever the width of an int: the loop, the nested conditional and the  *)
(* recursion give the same number, wrapped or not, for all that is         *)
(* accepted.                                                               *)
(***************************************************************************)
THEOREM FibsAgree == Spec => []AlgorithmsAgree
<1>1. LineInv => AlgorithmsAgree
  <2> SUFFICES ASSUME LineInv, phase = "accepted"
               PROVE  FastFib(input) = Fib[input] /\ CursedFib[input] = Fib[input]
    BY DEF AlgorithmsAgree
  <2>1. typed \in Seq(Char) /\ IsNumber(typed) /\ input = Str2Int(typed) /\ Usable(input)
    BY DEF LineInv
  <2>2. input \in Int
    BY <2>1, NumbersAreFigures, ReadsNumeral
  <2>3. input \in Nat
    BY <2>1, <2>2 DEF Usable
  <2> QED
    BY <2>3, FastIs, CursedIs
<1> QED
  BY <1>1, LineInvariant, PTL
=============================================================================
