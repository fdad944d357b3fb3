------------------------------- MODULE Lemmas --------------------------------
(***************************************************************************)
(* Facts about numbers, powers of two and linked lists on which the proofs *)
(* about the allocators rest.                                              *)
(***************************************************************************)
EXTENDS Integers, FiniteSetTheorems, FunctionTheorems, TLAPS

-------------------------------------------------------------------------------
(* Numbers.                                                                 *)

\* Induction, of a set instead of a predicate: were a number missing from the
\* set, the successor would map what is below it one to one into less.
LEMMA SetInduction ==
  ASSUME NEW S, 0 \in S, \A n \in Nat : n \in S => n + 1 \in S
  PROVE  Nat \subseteq S
<1> SUFFICES ASSUME NEW m \in Nat, m \notin S PROVE FALSE
  OBVIOUS
<1> DEFINE T == {n \in 0 .. m : n \in S}
           next == [n \in T |-> n + 1]
<1>1. IsFiniteSet(T)
  <2>1. IsFiniteSet(0 .. m) /\ T \in SUBSET (0 .. m)
    BY FS_Interval
  <2> QED BY <2>1, FS_Subset
<1>2. 0 \in T /\ \A n \in T : n + 1 \in T \ {0}
  OBVIOUS
<1>3. \A x, y \in T : next[x] = next[y] => x = y
  OBVIOUS
<1>4. next \in [T -> T \ {0}]
  BY <1>2
<1> HIDE DEF T, next
<1>5. IsFiniteSet(T \ {0}) /\ Cardinality(T \ {0}) = Cardinality(T) - 1
  BY <1>1, <1>2, FS_RemoveElement
<1>6. Cardinality(T \ {0}) < Cardinality(T)
  BY <1>1, <1>5, FS_CardinalityType
<1>7. \E x, y \in T : x # y /\ next[x] = next[y]
  BY <1>1, <1>4, <1>5, <1>6, FS_PigeonHole
<1> QED BY <1>3, <1>7

\* f is what step makes of c, time after time.
Iterates(f, N, S, c, step) ==
    /\ f \in [0 .. N -> S]
    /\ f[0] = c /\ \A k \in 1 .. N : f[k] = step[k][f[k - 1]]

\* What is defined by recursion on a number exists.
LEMMA RecursionExists ==
  ASSUME NEW N \in Nat, NEW S, NEW c \in S, NEW step \in [1 .. N -> [S -> S]]
  PROVE  \E f : Iterates(f, N, S, c, step)
<1> DEFINE Is(f, n) == f[0] = c /\ \A k \in 1 .. n : f[k] = step[k][f[k - 1]]
           T == {n \in Nat : n <= N => \E f \in [0 .. n -> S] : Is(f, n)}
<1>1. 0 \in T
  <2> DEFINE f == [k \in 0 .. 0 |-> c]
  <2>1. f \in [0 .. 0 -> S] /\ Is(f, 0)
    OBVIOUS
  <2> QED BY <2>1
<1>2. ASSUME NEW n \in Nat, n \in T
      PROVE  n + 1 \in T
  <2> SUFFICES ASSUME n + 1 <= N
               PROVE  \E f \in [0 .. n + 1 -> S] : Is(f, n + 1)
    OBVIOUS
  <2>1. PICK f \in [0 .. n -> S] : Is(f, n)
    BY <1>2
  <2> DEFINE g == [k \in 0 .. n + 1 |-> IF k = n + 1 THEN step[n + 1][f[n]] ELSE f[k]]
  <2>2. f[n] \in S /\ n + 1 \in 1 .. N
    BY <2>1
  <2>3. step[n + 1][f[n]] \in S
    BY <2>2
  <2>4. g \in [0 .. n + 1 -> S]
    BY <2>1, <2>3
  <2>5. ASSUME NEW k \in 1 .. n + 1
        PROVE  g[k] = step[k][g[k - 1]]
    <3>1. k - 1 \in 0 .. n + 1 /\ k - 1 # n + 1
      OBVIOUS
    <3>2. g[k - 1] = f[k - 1]
      BY <3>1
    <3>3. CASE k = n + 1
      <4>1. g[k] = step[n + 1][f[n]] /\ k - 1 = n
        BY <3>3
      <4> QED BY <3>2, <3>3, <4>1
    <3>4. CASE k # n + 1
      <4>1. k \in 1 .. n /\ g[k] = f[k]
        BY <3>4
      <4>2. f[k] = step[k][f[k - 1]]
        BY <2>1, <4>1
      <4> QED BY <3>2, <4>1, <4>2
    <3> QED BY <3>3, <3>4
  <2>6. g[0] = c
    BY <2>1
  <2> QED BY <2>4, <2>5, <2>6
<1> HIDE DEF T
<1>3. N \in T
  BY <1>1, <1>2, SetInduction
<1> QED BY <1>3 DEF T, Iterates

LEMMA LeastExists ==
  ASSUME NEW S \in SUBSET Nat, S # {}
  PROVE  \E n \in S : \A m \in S : n <= m
<1> SUFFICES ASSUME \A n \in S : \E m \in S : ~(n <= m)
             PROVE  FALSE
  OBVIOUS
<1> DEFINE T == {n \in Nat : \A m \in S : n <= m}
<1>1. 0 \in T
  OBVIOUS
<1>2. ASSUME NEW n \in Nat, n \in T
      PROVE  n + 1 \in T
  <2>1. n \notin S
    BY <1>2
  <2>2. \A m \in S : n <= m /\ n # m
    BY <1>2, <2>1
  <2> QED BY <2>2
<1> HIDE DEF T
<1>3. Nat \subseteq T
  BY <1>1, <1>2, SetInduction
<1>4. PICK x \in S : TRUE
  OBVIOUS
<1>5. x \in Nat /\ x + 1 \in T
  BY <1>3
<1> QED BY <1>5 DEF T

LEMMA GreatestExists ==
  ASSUME NEW S \in SUBSET Nat, S # {}, NEW N \in Nat, \A n \in S : n <= N
  PROVE  \E n \in S : \A m \in S : m <= n
<1> DEFINE T == {N - n : n \in S}
<1>1. T \in SUBSET Nat /\ T # {}
  <2>1. \A n \in S : N - n \in Nat
    OBVIOUS
  <2>2. PICK n \in S : TRUE
    OBVIOUS
  <2>3. N - n \in T
    OBVIOUS
  <2> QED BY <2>1, <2>3
<1>2. PICK t \in T : \A u \in T : t <= u
  BY <1>1, LeastExists
<1>3. PICK n \in S : t = N - n
  OBVIOUS
<1>4. \A m \in S : N - n <= N - m
  BY <1>2, <1>3
<1>5. n \in Nat /\ S \subseteq Nat
  OBVIOUS
<1> HIDE DEF T
<1>6. \A m \in S : m <= n
  BY <1>4, <1>5
<1> QED BY <1>6

\* A power of two counts the subsets of a set.
LEMMA PowerIsCardinality ==
  ASSUME NEW n \in Nat
  PROVE  /\ IsFiniteSet(SUBSET (1 .. n)) /\ 2 ^ n = Cardinality(SUBSET (1 .. n))
         /\ 2 ^ n \in Nat
<1>1. IsFiniteSet(1 .. n) /\ Cardinality(1 .. n) = n
  BY FS_Interval
<1>2. IsFiniteSet(SUBSET (1 .. n)) /\ Cardinality(SUBSET (1 .. n)) = 2 ^ n
  BY <1>1, FS_SUBSET
<1> QED BY <1>2, FS_CardinalityType

LEMMA PowerZero == 2 ^ 0 = 1
<1>1. IsFiniteSet(SUBSET (1 .. 0)) /\ 2 ^ 0 = Cardinality(SUBSET (1 .. 0))
  BY PowerIsCardinality
<1>2. SUBSET (1 .. 0) = {{}}
  OBVIOUS
<1> QED BY <1>1, <1>2, FS_Singleton

LEMMA PowerDoubles ==
  ASSUME NEW n \in Nat
  PROVE  2 ^ (n + 1) = 2 ^ n + 2 ^ n
<1> DEFINE A == SUBSET (1 .. n)
           last == [s \in A |-> s \cup {n + 1}]
           B == {s \cup {n + 1} : s \in A}
<1>1. SUBSET (1 .. n + 1) = A \cup B
  <2>1. 1 .. n + 1 = (1 .. n) \cup {n + 1}
    OBVIOUS
  <2>2. ASSUME NEW s \in SUBSET (1 .. n + 1)
        PROVE  s \in A \cup B
    <3>1. s \ {n + 1} \in A
      BY <2>1
    <3>2. CASE n + 1 \in s
      <4>1. s = (s \ {n + 1}) \cup {n + 1}
        BY <3>2
      <4> QED BY <3>1, <4>1
    <3>3. CASE n + 1 \notin s
      BY <2>1, <3>3
    <3> QED BY <3>2, <3>3
  <2>3. A \cup B \subseteq SUBSET (1 .. n + 1)
    BY <2>1
  <2> QED BY <2>2, <2>3
<1>2. A \cap B = {}
  <2>1. n + 1 \notin 1 .. n
    OBVIOUS
  <2> QED BY <2>1
<1>3. last \in Bijection(A, B)
  <2>1. last \in [A -> B] /\ \A t \in B : \E s \in A : last[s] = t
    OBVIOUS
  <2>2. \A s, t \in A : last[s] = last[t] => s = t
    <3>1. n + 1 \notin 1 .. n
      OBVIOUS
    <3> SUFFICES ASSUME NEW s \in A, NEW t \in A, s \cup {n + 1} = t \cup {n + 1}
                 PROVE  s = t
      OBVIOUS
    <3> QED BY <3>1
  <2> HIDE DEF last, B, A
  <2> QED BY <2>1, <2>2 DEF Bijection, Injection, Surjection, IsInjective
<1>4. IsFiniteSet(A) /\ Cardinality(A) = 2 ^ n
  BY PowerIsCardinality
<1> HIDE DEF A, B, last
<1>5. IsFiniteSet(B) /\ Cardinality(B) = Cardinality(A)
  BY <1>3, <1>4, FS_Bijection DEF ExistsBijection
<1>6. Cardinality(A \cup B) = Cardinality(A) + Cardinality(B) - Cardinality(A \cap B)
  BY <1>4, <1>5, FS_Union
<1>7. Cardinality(A \cap B) = 0
  BY <1>2, FS_EmptySet
<1>8. 2 ^ (n + 1) = Cardinality(A \cup B)
  BY <1>1, PowerIsCardinality
<1> QED BY <1>4, <1>5, <1>6, <1>7, <1>8, FS_CardinalityType

LEMMA PowerPositive ==
  ASSUME NEW n \in Nat
  PROVE  2 ^ n \in Nat /\ 2 ^ n >= 1
<1>1. IsFiniteSet(SUBSET (1 .. n)) /\ 2 ^ n = Cardinality(SUBSET (1 .. n)) /\ 2 ^ n \in Nat
  BY PowerIsCardinality
<1>2. SUBSET (1 .. n) # {}
  OBVIOUS
<1>3. Cardinality(SUBSET (1 .. n)) # 0
  BY <1>1, <1>2, FS_EmptySet
<1> QED BY <1>1, <1>3

LEMMA ModuloIs ==
  ASSUME NEW a \in Int, NEW s \in Nat, s >= 1
  PROVE  /\ a \div s \in Int
         /\ a % s \in 0 .. s - 1
         /\ a = s * (a \div s) + (a % s)
  OBVIOUS

LEMMA QuotientIs ==
  ASSUME NEW a \in Int, NEW s \in Nat, s >= 1, a % s = 0
  PROVE  \E q \in Int : a = s * q
<1>1. a \div s \in Int /\ a = s * (a \div s) + (a % s)
  BY ModuloIs
<1> DEFINE q == a \div s
<1> HIDE DEF q
<1>2. q \in Int /\ s * q \in Int /\ a = s * q + 0
  BY <1>1 DEF q
<1> QED BY <1>2

LEMMA MultiplesOrder ==
  ASSUME NEW a \in Int, NEW b \in Int, NEW s \in Nat, s >= 1, s * a < s * b + s
  PROVE  a <= b
<1> SUFFICES ASSUME a >= b + 1 PROVE FALSE
  OBVIOUS
<1>1. s * (a - (b + 1)) >= 0
  OBVIOUS
<1>2. s * (a - (b + 1)) = s * a - s * b - s
  OBVIOUS
<1> QED BY <1>1, <1>2

LEMMA MultipleIs ==
  ASSUME NEW a \in Int, NEW s \in Nat, s >= 1, NEW q \in Int, a = s * q
  PROVE  a % s = 0 /\ a \div s = q
<1> DEFINE d == a \div s
           r == a % s
<1>1. d \in Int /\ r \in Int /\ 0 <= r /\ r < s /\ a = s * d + r
  OBVIOUS
<1> HIDE DEF d, r
<1>2. s * q < s * d + s /\ s * d < s * q + s
  BY <1>1
<1>3. q <= d /\ d <= q
  BY <1>1, <1>2, MultiplesOrder
<1>4. d = q
  BY <1>1, <1>3
<1>5. r = 0
  BY <1>1, <1>4
<1> QED BY <1>4, <1>5 DEF d, r

\* Of two multiples of s, the lesser is lesser by s.
LEMMA MultiplesApart ==
  ASSUME NEW a \in Int, NEW b \in Int, NEW s \in Nat, s >= 1, a % s = 0, b % s = 0, a < b + s
  PROVE  a <= b
<1>1. PICK c \in Int : a = s * c
  BY QuotientIs
<1>2. PICK d \in Int : b = s * d
  BY QuotientIs
<1>3. c <= d
  BY <1>1, <1>2, MultiplesOrder
<1>4. s * (d - c) >= 0
  BY <1>3
<1>5. s * (d - c) = s * d - s * c
  OBVIOUS
<1> QED BY <1>1, <1>2, <1>4, <1>5

\* A power of two is a multiple of the lesser ones.
LEMMA ProductsOrder ==
  ASSUME NEW p \in Int, NEW q \in Int, NEW s \in Nat, s >= 1
  PROVE  /\ p * s \in Int /\ (p + 1) * s = p * s + s
         /\ p >= 0 => p * s >= 0
         /\ p <= q => p * s <= q * s
         /\ p < q => p * s + s <= q * s
         /\ p * s < q * s + s => p <= q
         /\ p * s < q * s => p < q
<1>1. p * s = s * p /\ q * s = s * q /\ s * p \in Int /\ s * q \in Int
  OBVIOUS
<1>2. (p + 1) * s = p * s + s
  OBVIOUS
<1>3. s * p < s * q + s => p <= q
  BY MultiplesOrder
<1>4. p <= q => s * (q - p) >= 0
  OBVIOUS
<1>5. p < q => s * (q - p - 1) >= 0
  OBVIOUS
<1>6. s * (q - p) = s * q - s * p
  OBVIOUS
<1>7. s * (q - p - 1) = s * q - s * p - s
  OBVIOUS
<1>8. p >= 0 => s * p >= 0
  OBVIOUS
<1>9. p = q => s * p = s * q
  OBVIOUS
<1> DEFINE x == s * p
           y == s * q
<1>10. p * s = x /\ q * s = y
  BY <1>1
<1> HIDE DEF x, y
<1>11. /\ x \in Int /\ y \in Int
       /\ p <= q => y - x >= 0
       /\ p < q => y - x - s >= 0
       /\ x < y + s => p <= q
       /\ p >= 0 => x >= 0
       /\ p = q => x = y
  BY <1>1, <1>3, <1>4, <1>5, <1>6, <1>7, <1>8, <1>9 DEF x, y
<1>12. /\ p <= q => x <= y
       /\ p < q => x + s <= y
       /\ x < y => p < q
  BY <1>11
<1> QED BY <1>2, <1>10, <1>11, <1>12

LEMMA QuotientBounds ==
  ASSUME NEW a \in Nat, NEW s \in Nat, s >= 1
  PROVE  /\ a \div s \in Nat /\ (a \div s) * s \in Nat
         /\ (a \div s) * s <= a /\ a < (a \div s) * s + s
         /\ a % s = a - (a \div s) * s
<1> DEFINE d == a \div s
           r == a % s
<1>1. d \in Int /\ r \in 0 .. s - 1 /\ a = s * d + r
  BY ModuloIs
<1> HIDE DEF d, r
<1>2. d * s = s * d /\ d * s \in Int /\ 0 * s = 0
  BY <1>1
<1>3. 0 * s < d * s + s => 0 <= d
  BY <1>1, ProductsOrder
<1> DEFINE z == d * s
<1>4. a = z + r /\ z \in Int
  BY <1>1, <1>2
<1>5. 0 < z + s => 0 <= d
  BY <1>2, <1>3
<1>6. d >= 0 => z >= 0
  BY <1>1, ProductsOrder
<1> HIDE DEF z
<1>7. d \in Nat /\ z \in Nat /\ z <= a /\ a < z + s /\ r = a - z
  BY <1>1, <1>4, <1>5, <1>6
<1> QED BY <1>7 DEF z, d, r

LEMMA QuotientOrder ==
  ASSUME NEW a \in Nat, NEW s \in Nat, s >= 1, NEW p \in Int
  PROVE  /\ a \div s <= p <=> a < p * s + s
         /\ p <= a \div s <=> p * s <= a
<1> DEFINE d == a \div s
           x == p * s
           y == d * s
<1>1. d \in Nat /\ y \in Nat /\ y <= a /\ a < y + s
  BY QuotientBounds
<1>2. /\ x \in Int
      /\ d <= p => y <= x
      /\ y < x + s => d <= p
      /\ p <= d => x <= y
      /\ x < y + s => p <= d
  BY <1>1, ProductsOrder
<1> HIDE DEF d, x, y
<1>3. (d <= p <=> a < x + s) /\ (p <= d <=> x <= a)
  BY <1>1, <1>2
<1> QED BY <1>3 DEF d, x

Scales(t, s, n) == t = s * n

\* Digits: what a number is in parts of s, of which n make a part of t.
LEMMA QuotientNests ==
  ASSUME NEW a \in Nat, NEW s \in Nat, s >= 1, NEW n \in Nat, n >= 1, NEW t \in Nat, Scales(t, s, n)
  PROVE  /\ t >= 1
         /\ a \div s = (a \div t) * n + ((a \div s) % n)
         /\ (a \div s) % n \in 0 .. n - 1
<1>0. t = s * n
  BY DEF Scales
<1> DEFINE q == a \div s
           d == q \div n
           r == q % n
<1>1. q \in Nat /\ q * s <= a /\ a < q * s + s /\ q * s \in Nat
  BY QuotientBounds
<1>2. d \in Nat /\ r = q - d * n /\ d * n \in Nat /\ d * n <= q /\ q < d * n + n
  BY <1>1, QuotientBounds
<1> HIDE DEF q, d, r
<1>3. r \in Nat /\ r < n
  <2> DEFINE z == d * n
  <2> HIDE DEF z
  <2>1. r = q - z /\ z \in Nat /\ z <= q /\ q < z + n
    BY <1>2 DEF z
  <2> QED BY <1>1, <2>1
<1>4. t >= 1
  <2>1. 1 * s <= n * s
    BY ProductsOrder
  <2>2. t = n * s /\ 1 * s = s
    BY <1>0
  <2> QED BY <2>1, <2>2
<1>5. q * s = d * t + r * s
  <2>1. q = d * n + r
    <3> DEFINE z == d * n
    <3> HIDE DEF z
    <3>1. r = q - z /\ z \in Nat
      BY <1>2 DEF z
    <3>2. q = z + r
      BY <1>1, <1>3, <3>1
    <3> QED BY <3>2 DEF z
  <2>2. (d * n + r) * s = d * (s * n) + r * s
    BY <1>2, <1>3
  <2> QED BY <2>1, <2>2, <1>0
<1>6. r * s \in Nat /\ r * s + s <= t
  <2>1. r * s \in Int /\ (r >= 0 => r * s >= 0) /\ (r < n => r * s + s <= n * s)
    BY <1>3, ProductsOrder
  <2>2. t = n * s
    BY <1>0
  <2> DEFINE z == r * s
  <2>3. z \in Int /\ (r >= 0 => z >= 0) /\ (r < n => z + s <= t)
    BY <2>1, <2>2
  <2> HIDE DEF z
  <2>4. z \in Nat /\ z + s <= t
    BY <1>3, <2>3
  <2> QED BY <2>4 DEF z
<1>7. d * t \in Int
  BY <1>2
<1>8. d * t <= a /\ a < d * t + t
  <2> DEFINE u == q * s
             v == r * s
             w == d * t
  <2>1. /\ u \in Nat /\ u <= a /\ a < u + s
        /\ v \in Nat /\ v + s <= t
        /\ w \in Int /\ u = w + v
    BY <1>1, <1>5, <1>6, <1>7
  <2> HIDE DEF u, v, w
  <2>2. w <= a /\ a < w + t
    BY <2>1
  <2> QED BY <2>2 DEF w
<1>9. a \div t = d
  <2>1. (a \div t <= d <=> a < d * t + t) /\ (d <= a \div t <=> d * t <= a)
    <3>1. t \in Nat /\ t >= 1 /\ d \in Int
      BY <1>2, <1>4
    <3> QED BY <3>1, QuotientOrder
  <2>2. a \div t \in Nat
    BY <1>4, QuotientBounds
  <2> DEFINE e == a \div t
  <2>3. e <= d /\ d <= e /\ e \in Nat
    BY <1>8, <2>1, <2>2
  <2> HIDE DEF e
  <2>4. e = d
    BY <1>2, <2>3
  <2> QED BY <2>4 DEF e
<1>10. q = d * n + r
  <2> DEFINE z == d * n
  <2> HIDE DEF z
  <2>1. r = q - z /\ z \in Nat
    BY <1>2 DEF z
  <2>2. q = z + r
    BY <1>1, <1>3, <2>1
  <2> QED BY <2>2 DEF z
<1>11. q = (a \div t) * n + r /\ r \in 0 .. n - 1
  <2>1. (a \div t) * n = d * n
    BY <1>9
  <2>2. r \in 0 .. n - 1
    BY <1>3
  <2> QED BY <2>1, <2>2, <1>10
<1>12. a \div s = q /\ (a \div s) % n = r
  BY DEF q, r
<1> QED BY <1>4, <1>11, <1>12

LEMMA PowerDivides ==
  ASSUME NEW j \in Nat, NEW k \in Nat, j <= k
  PROVE  \E m \in Nat : m >= 1 /\ 2 ^ k = 2 ^ j * m
<1> DEFINE P(n) == 2 ^ n
           S == {n \in Nat : \E m \in Nat : m >= 1 /\ P(j + n) = P(j) * m}
<1>1. \A n \in Nat : P(n) \in Nat /\ P(n + 1) = P(n) + P(n)
  BY PowerPositive, PowerDoubles
<1> HIDE DEF P
<1>2. 0 \in S
  <2>1. P(j + 0) = P(j) * 1 /\ 1 \in Nat /\ 1 >= 1 /\ 0 \in Nat
    BY <1>1
  <2> QED BY <2>1
<1>3. ASSUME NEW n \in Nat, n \in S
      PROVE  n + 1 \in S
  <2>1. PICK m \in Nat : m >= 1 /\ P(j + n) = P(j) * m
    BY <1>3
  <2>2. P(j + (n + 1)) = P(j) * (m + m) /\ m + m \in Nat /\ m + m >= 1
    <3>1. P((j + n) + 1) = P(j + n) + P(j + n) /\ (j + n) + 1 = j + (n + 1)
      BY <1>1
    <3>2. P(j) * (m + m) = P(j) * m + P(j) * m
      BY <1>1
    <3> QED BY <2>1, <3>1, <3>2
  <2> QED BY <2>2
<1> HIDE DEF S
<1>4. k - j \in S /\ j + (k - j) = k
  BY <1>2, <1>3, SetInduction
<1>5. PICK m \in Nat : m >= 1 /\ P(j + (k - j)) = P(j) * m
  BY <1>4 DEF S
<1> QED BY <1>4, <1>5 DEF P

LEMMA PowerExceeds ==
  ASSUME NEW n \in Nat
  PROVE  2 ^ n >= n
<1> DEFINE P(k) == 2 ^ k
           S == {k \in Nat : P(k) >= k}
<1>1. \A k \in Nat : P(k) \in Nat /\ P(k) >= 1 /\ P(k + 1) = P(k) + P(k)
  BY PowerPositive, PowerDoubles
<1> HIDE DEF P
<1>2. 0 \in S /\ \A k \in Nat : k \in S => k + 1 \in S
  BY <1>1
<1> HIDE DEF S
<1>3. n \in S
  BY <1>2, SetInduction
<1> QED BY <1>3 DEF S, P

-------------------------------------------------------------------------------
(* Linked lists: a head, the function that gives what comes after, and the  *)
(* value that ends the list.                                                *)

\* s names the n members of the list from first to last, and they are ps.
Threads(head, next, none, ps, n, s) ==
    /\ \A p \in ps : \E i \in 1 .. n : s[i] = p
    /\ \A i, j \in 1 .. n : s[i] = s[j] => i = j
    /\ head = IF n = 0 THEN none ELSE s[1]
    /\ \A i \in 1 .. n : next[s[i]] = IF i < n THEN s[i + 1] ELSE none

Threaded(head, next, none, ps) ==
    \E n \in Nat : \E s \in [1 .. n -> ps] : Threads(head, next, none, ps, n, s)

LEMMA ThreadedNone ==
  ASSUME NEW next, NEW none
  PROVE  Threaded(none, next, none, {})
<1> DEFINE s == [i \in 1 .. 0 |-> none]
<1>1. 0 \in Nat /\ s \in [1 .. 0 -> {}] /\ Threads(none, next, none, {}, 0, s)
  BY DEF Threads
<1> QED BY <1>1 DEF Threaded

\* A list is as it was while what comes after its members is.
LEMMA ThreadedKept ==
  ASSUME NEW head, NEW next, NEW none, NEW ps, NEW new,
         Threaded(head, next, none, ps), \A p \in ps : new[p] = next[p]
  PROVE  Threaded(head, new, none, ps)
<1>1. PICK n \in Nat : \E s \in [1 .. n -> ps] : Threads(head, next, none, ps, n, s)
  BY DEF Threaded
<1>2. PICK s \in [1 .. n -> ps] : Threads(head, next, none, ps, n, s)
  BY <1>1
<1>3. Threads(head, new, none, ps, n, s)
  BY <1>2 DEF Threads
<1> QED BY <1>3 DEF Threaded

\* The head is a member, no two members come before the same, and none comes
\* before the head.
LEMMA ThreadedIs ==
  ASSUME NEW head, NEW next, NEW none, NEW ps, none \notin ps, Threaded(head, next, none, ps)
  PROVE  /\ head = none <=> ps = {}
         /\ head \in ps \cup {none}
         /\ \A p \in ps : next[p] \in ps \cup {none} /\ next[p] # p
         /\ \A p \in ps : next[p] # none => next[next[p]] # p
         /\ \A p \in ps : next[p] # none => next[p] # head
         /\ \A p, q \in ps : next[p] = next[q] /\ next[p] # none => p = q
         /\ \A p \in ps : p # head => \E q \in ps : next[q] = p
<1>1. PICK n \in Nat : \E s \in [1 .. n -> ps] : Threads(head, next, none, ps, n, s)
  BY DEF Threaded
<1>2. PICK s \in [1 .. n -> ps] : Threads(head, next, none, ps, n, s)
  BY <1>1
<1>3. \A i \in 1 .. n : s[i] \in ps /\ s[i] # none
  OBVIOUS
<1>4. /\ n = 0 => head = none /\ ps = {}
      /\ n # 0 => 1 \in 1 .. n /\ head = s[1] /\ head \in ps /\ head # none
  BY <1>2, <1>3 DEF Threads
<1>5. ASSUME NEW p \in ps
      PROVE  /\ next[p] \in ps \cup {none} /\ next[p] # p
             /\ next[p] # none => next[next[p]] # p
             /\ next[p] # none => next[p] # head
             /\ \A q \in ps : next[p] = next[q] /\ next[p] # none => p = q
             /\ p # head => \E q \in ps : next[q] = p
  <2>1. PICK i \in 1 .. n : s[i] = p
    BY <1>2 DEF Threads
  <2>2. next[p] = IF i < n THEN s[i + 1] ELSE none
    BY <1>2, <2>1 DEF Threads
  <2>3. i < n => /\ i + 1 \in 1 .. n /\ i + 1 # i /\ i + 1 # 1
                 /\ next[p] \in ps /\ next[p] # p /\ next[p] # head
    BY <1>2, <1>3, <1>4, <2>1, <2>2 DEF Threads
  <2>4. ASSUME NEW q \in ps, next[p] = next[q], next[p] # none
        PROVE  p = q
    <3>1. PICK j \in 1 .. n : s[j] = q
      BY <1>2 DEF Threads
    <3>2. next[q] = IF j < n THEN s[j + 1] ELSE none
      BY <1>2, <3>1 DEF Threads
    <3>3. i < n /\ j < n /\ i + 1 \in 1 .. n /\ j + 1 \in 1 .. n /\ s[i + 1] = s[j + 1]
      BY <2>2, <2>4, <3>2
    <3>4. i + 1 = j + 1
      BY <1>2, <3>3 DEF Threads
    <3> QED BY <2>1, <3>1, <3>4
  <2>5. ASSUME p # head
        PROVE  \E q \in ps : next[q] = p
    <3>1. i # 1
      BY <1>4, <2>1, <2>5
    <3>2. i - 1 \in 1 .. n /\ i - 1 < n /\ i - 1 + 1 = i
      BY <3>1
    <3>3. next[s[i - 1]] = p
      BY <1>2, <2>1, <3>2 DEF Threads
    <3> QED BY <1>3, <3>2, <3>3
  <2>6. next[p] \in ps \cup {none} /\ next[p] # p /\ (next[p] # none => next[p] # head)
    BY <2>2, <2>3
  <2>7. ASSUME next[p] # none
        PROVE  next[next[p]] # p
    <3>1. i < n /\ i + 1 \in 1 .. n /\ next[p] = s[i + 1]
      BY <2>2, <2>7
    <3>2. next[s[i + 1]] = IF i + 1 < n THEN s[i + 1 + 1] ELSE none
      BY <1>2, <3>1 DEF Threads
    <3>3. i + 1 < n => i + 1 + 1 \in 1 .. n /\ i + 1 + 1 # i /\ s[i + 1 + 1] # s[i]
      BY <1>2 DEF Threads
    <3> QED BY <1>3, <2>1, <3>1, <3>2, <3>3
  <2> QED BY <2>4, <2>5, <2>6, <2>7
<1> QED BY <1>4, <1>5

\* A new member before the others.
LEMMA ThreadedPush ==
  ASSUME NEW head, NEW next, NEW none, NEW ps, NEW new, NEW p,
         Threaded(head, next, none, ps), p \notin ps,
         new[p] = head, \A q \in ps : new[q] = next[q]
  PROVE  Threaded(p, new, none, ps \cup {p})
<1>1. PICK n \in Nat : \E s \in [1 .. n -> ps] : Threads(head, next, none, ps, n, s)
  BY DEF Threaded
<1>2. PICK s \in [1 .. n -> ps] : Threads(head, next, none, ps, n, s)
  BY <1>1
<1> DEFINE t == [i \in 1 .. n + 1 |-> IF i = 1 THEN p ELSE s[i - 1]]
<1>3. /\ 1 \in 1 .. n + 1 /\ t[1] = p
      /\ \A i \in 1 .. n : i + 1 \in 1 .. n + 1 /\ t[i + 1] = s[i] /\ s[i] \in ps
      /\ \A i \in 1 .. n + 1 : i # 1 => i - 1 \in 1 .. n /\ i - 1 + 1 = i /\ t[i] = s[i - 1]
  OBVIOUS
<1>4. n + 1 \in Nat /\ t \in [1 .. n + 1 -> ps \cup {p}]
  OBVIOUS
<1> HIDE DEF t
<1>5. \A q \in ps \cup {p} : \E i \in 1 .. n + 1 : t[i] = q
  <2>1. ASSUME NEW q \in ps
        PROVE  \E i \in 1 .. n + 1 : t[i] = q
    <3>1. PICK i \in 1 .. n : s[i] = q
      BY <1>2 DEF Threads
    <3> QED BY <1>3, <3>1
  <2> QED BY <1>3, <2>1
<1>6. ASSUME NEW i \in 1 .. n + 1, NEW j \in 1 .. n + 1, t[i] = t[j]
      PROVE  i = j
  <2>1. CASE i = 1 \/ j = 1
    BY <1>3, <1>6, <2>1
  <2>2. CASE i # 1 /\ j # 1
    <3>1. i - 1 \in 1 .. n /\ j - 1 \in 1 .. n /\ s[i - 1] = s[j - 1]
      BY <1>3, <1>6, <2>2
    <3>2. i - 1 = j - 1
      BY <1>2, <3>1 DEF Threads
    <3> QED BY <3>2
  <2> QED BY <2>1, <2>2
<1>7. ASSUME NEW i \in 1 .. n + 1
      PROVE  new[t[i]] = IF i < n + 1 THEN t[i + 1] ELSE none
  <2>1. CASE i = 1
    <3>1. new[t[i]] = head
      BY <1>3, <2>1
    <3>2. CASE n = 0
      BY <1>2, <2>1, <3>1, <3>2 DEF Threads
    <3>3. CASE n # 0
      <4>1. head = s[1] /\ t[1 + 1] = s[1]
        BY <1>2, <1>3, <3>3 DEF Threads
      <4> QED BY <2>1, <3>1, <3>3, <4>1
    <3> QED BY <3>2, <3>3
  <2>2. CASE i # 1
    <3>1. i - 1 \in 1 .. n /\ i - 1 + 1 = i /\ t[i] = s[i - 1] /\ s[i - 1] \in ps
      BY <1>3, <2>2
    <3>2. new[t[i]] = IF i - 1 < n THEN s[i] ELSE none
      BY <1>2, <3>1 DEF Threads
    <3>3. CASE i - 1 < n
      <4>1. i \in 1 .. n /\ t[i + 1] = s[i] /\ i < n + 1
        BY <1>3, <2>2, <3>3
      <4> QED BY <3>2, <3>3, <4>1
    <3>4. CASE ~(i - 1 < n)
      BY <3>2, <3>4
    <3> QED BY <3>3, <3>4
  <2> QED BY <2>1, <2>2
<1>8. Threads(p, new, none, ps \cup {p}, n + 1, t)
  BY <1>3, <1>5, <1>6, <1>7 DEF Threads
<1> QED BY <1>4, <1>8 DEF Threaded

\* A list without its member p: what came before p comes before what came
\* after it.
LEMMA ThreadedRemove ==
  ASSUME NEW head, NEW next, NEW none, NEW ps, NEW new, NEW p \in ps,
         Threaded(head, next, none, ps), none \notin ps,
         \A q \in ps \ {p} : new[q] = IF next[q] = p THEN next[p] ELSE next[q]
  PROVE  Threaded(IF head = p THEN next[p] ELSE head, new, none, ps \ {p})
<1>1. PICK n \in Nat : \E s \in [1 .. n -> ps] : Threads(head, next, none, ps, n, s)
  BY DEF Threaded
<1>2. PICK s \in [1 .. n -> ps] : Threads(head, next, none, ps, n, s)
  BY <1>1
<1>3. PICK m \in 1 .. n : s[m] = p
  BY <1>2 DEF Threads
<1> DEFINE t == [i \in 1 .. n - 1 |-> IF i < m THEN s[i] ELSE s[i + 1]]
           first == IF head = p THEN next[p] ELSE head
<1>4. /\ \A i \in 1 .. n : s[i] \in ps /\ (s[i] = p => i = m)
      /\ \A i, j \in 1 .. n : s[i] = s[j] => i = j
      /\ \A i \in 1 .. n : next[s[i]] = IF i < n THEN s[i + 1] ELSE none
      /\ 1 \in 1 .. n /\ head = s[1]
  BY <1>2, <1>3 DEF Threads
<1>5. /\ \A i \in 1 .. n - 1 : i < m => i \in 1 .. n /\ i # m /\ t[i] = s[i]
      /\ \A i \in 1 .. n - 1 : ~(i < m) => i + 1 \in 1 .. n /\ i + 1 # m /\ t[i] = s[i + 1]
  OBVIOUS
<1>6. n - 1 \in Nat /\ t \in [1 .. n - 1 -> ps \ {p}]
  BY <1>4, <1>5
<1> HIDE DEF t
<1>7. ASSUME NEW q \in ps \ {p}
      PROVE  \E i \in 1 .. n - 1 : t[i] = q
  <2>1. PICK i \in 1 .. n : s[i] = q
    BY <1>2 DEF Threads
  <2>2. CASE i < m
    BY <1>5, <2>1, <2>2
  <2>3. CASE ~(i < m)
    <3>1. i - 1 \in 1 .. n - 1 /\ ~(i - 1 < m) /\ i - 1 + 1 = i
      BY <1>3, <2>1, <2>3
    <3> QED BY <1>5, <2>1, <3>1
  <2> QED BY <2>2, <2>3
<1>8. ASSUME NEW i \in 1 .. n - 1, NEW j \in 1 .. n - 1, t[i] = t[j]
      PROVE  i = j
  <2>1. CASE i < m /\ j < m
    BY <1>4, <1>5, <1>8, <2>1
  <2>2. CASE i < m /\ ~(j < m)
    <3>1. i \in 1 .. n /\ j + 1 \in 1 .. n /\ s[i] = s[j + 1]
      BY <1>5, <1>8, <2>2
    <3>2. i = j + 1
      BY <1>4, <3>1
    <3> QED BY <2>2, <3>2
  <2>3. CASE ~(i < m) /\ j < m
    <3>1. j \in 1 .. n /\ i + 1 \in 1 .. n /\ s[j] = s[i + 1]
      BY <1>5, <1>8, <2>3
    <3>2. j = i + 1
      BY <1>4, <3>1
    <3> QED BY <2>3, <3>2
  <2>4. CASE ~(i < m) /\ ~(j < m)
    <3>1. i + 1 \in 1 .. n /\ j + 1 \in 1 .. n /\ s[i + 1] = s[j + 1]
      BY <1>5, <1>8, <2>4
    <3>2. i + 1 = j + 1
      BY <1>4, <3>1
    <3> QED BY <3>2
  <2> QED BY <2>1, <2>2, <2>3, <2>4
<1>9. next[p] = IF m < n THEN s[m + 1] ELSE none
  BY <1>3, <1>4
<1>10. first = IF n - 1 = 0 THEN none ELSE t[1]
  <2>1. CASE m = 1
    <3>1. first = next[p]
      BY <1>3, <1>4, <2>1
    <3>2. CASE n = 1
      BY <1>9, <2>1, <3>1, <3>2
    <3>3. CASE n # 1
      <4>1. 1 \in 1 .. n - 1 /\ ~(1 < m) /\ m < n
        BY <2>1, <3>3
      <4>2. t[1] = s[1 + 1]
        BY <1>5, <4>1
      <4> QED BY <1>9, <2>1, <3>1, <3>3, <4>1, <4>2
    <3> QED BY <3>2, <3>3
  <2>2. CASE m # 1
    <3>1. head # p /\ first = s[1]
      BY <1>3, <1>4, <2>2
    <3>2. 1 \in 1 .. n - 1 /\ 1 < m /\ n - 1 # 0
      BY <2>2
    <3>3. t[1] = s[1]
      BY <1>5, <3>2
    <3> QED BY <3>1, <3>2, <3>3
  <2> QED BY <2>1, <2>2
<1>11. ASSUME NEW i \in 1 .. n - 1
       PROVE  new[t[i]] = IF i < n - 1 THEN t[i + 1] ELSE none
  <2>1. CASE i < m - 1
    <3>1. i \in 1 .. n /\ i + 1 \in 1 .. n - 1 /\ i + 1 \in 1 .. n /\ i + 1 < m /\ i < n - 1
      BY <2>1
    <3>2. t[i] = s[i] /\ t[i + 1] = s[i + 1] /\ s[i] \in ps \ {p} /\ s[i + 1] # p
      BY <1>4, <1>5, <2>1, <3>1
    <3>3. next[s[i]] = s[i + 1]
      BY <1>4, <3>1
    <3> QED BY <3>1, <3>2, <3>3
  <2>2. CASE i = m - 1
    <3>1. i \in 1 .. n /\ i + 1 = m /\ i < m /\ i < n /\ (m < n <=> i < n - 1)
      BY <2>2
    <3>2. t[i] = s[i] /\ s[i] \in ps \ {p}
      BY <1>4, <1>5, <3>1
    <3>3. next[s[i]] = p
      BY <1>3, <1>4, <3>1
    <3>4. new[t[i]] = next[p]
      BY <3>2, <3>3
    <3>5. CASE m < n
      <4>1. i + 1 \in 1 .. n - 1 /\ ~(i + 1 < m)
        BY <3>1, <3>5
      <4>2. t[i + 1] = s[m + 1]
        BY <1>5, <3>1, <4>1
      <4> QED BY <1>9, <3>1, <3>4, <3>5, <4>2
    <3>6. CASE ~(m < n)
      BY <1>9, <3>1, <3>4, <3>6
    <3> QED BY <3>5, <3>6
  <2>3. CASE ~(i < m)
    <3>1. i + 1 \in 1 .. n /\ i + 1 # m
      BY <2>3
    <3>2. t[i] = s[i + 1] /\ s[i + 1] \in ps \ {p}
      BY <1>4, <1>5, <2>3, <3>1
    <3>3. next[s[i + 1]] = IF i + 1 < n THEN s[i + 1 + 1] ELSE none
      BY <1>4, <3>1
    <3>4. CASE i < n - 1
      <4>1. i + 1 \in 1 .. n - 1 /\ ~(i + 1 < m) /\ i + 1 < n /\ i + 1 + 1 \in 1 .. n /\ i + 1 + 1 # m
        BY <2>3, <3>4
      <4>2. t[i + 1] = s[i + 1 + 1]
        BY <1>5, <4>1
      <4>3. next[s[i + 1]] = s[i + 1 + 1] /\ s[i + 1 + 1] # p
        BY <1>4, <3>3, <4>1
      <4> QED BY <3>2, <3>4, <4>2, <4>3
    <3>5. CASE ~(i < n - 1)
      <4>1. next[s[i + 1]] = none /\ none # p
        BY <3>3, <3>5
      <4> QED BY <3>2, <3>5, <4>1
    <3> QED BY <3>4, <3>5
  <2> QED BY <2>1, <2>2, <2>3
<1>12. Threads(first, new, none, ps \ {p}, n - 1, t)
  BY <1>7, <1>8, <1>10, <1>11 DEF Threads
<1> HIDE DEF first
<1>13. Threaded(first, new, none, ps \ {p})
  BY <1>6, <1>12 DEF Threaded
<1> QED BY <1>13 DEF first

\* n steps from the head, for at most N steps; what is not in D ends the walk.
IsWalk(f, head, next, none, D, N) ==
    f = [n \in 0 .. N |-> IF n = 0 THEN head ELSE IF f[n - 1] \in D THEN next[f[n - 1]] ELSE none]

LEMMA WalkStep ==
  ASSUME NEW f, NEW head, NEW next, NEW none, NEW D, NEW N \in Nat,
         IsWalk(f, head, next, none, D, N)
  PROVE  /\ f[0] = head
         /\ \A n \in Nat : n + 1 \in 0 .. N =>
               f[n + 1] = IF f[n] \in D THEN next[f[n]] ELSE none
<1>1. 0 \in 0 .. N
  OBVIOUS
<1>2. f[0] = head
  BY <1>1 DEF IsWalk
<1>3. ASSUME NEW n \in Nat, n + 1 \in 0 .. N
      PROVE  f[n + 1] = IF f[n] \in D THEN next[f[n]] ELSE none
  <2>1. n + 1 # 0 /\ n + 1 - 1 = n
    OBVIOUS
  <2>2. \A m \in 0 .. N :
           f[m] = IF m = 0 THEN head ELSE IF f[m - 1] \in D THEN next[f[m - 1]] ELSE none
    BY Zenon DEF IsWalk
  <2> QED BY <1>3, <2>1, <2>2
<1> QED BY <1>2, <1>3

\* Long enough a walk from the head of a list visits its members and no others.
LEMMA WalkVisits ==
  ASSUME NEW head, NEW next, NEW none, NEW ps, NEW D, NEW E, NEW N \in Nat, NEW f,
         Threaded(head, next, none, ps), ps \subseteq D, none \notin D,
         ps \subseteq E, IsFiniteSet(E), Cardinality(E) <= N,
         IsWalk(f, head, next, none, D, N)
  PROVE  {f[n] : n \in 0 .. N} \ {none} = ps
<1>1. PICK n \in Nat : \E s \in [1 .. n -> ps] : Threads(head, next, none, ps, n, s)
  BY DEF Threaded
<1>2. PICK s \in [1 .. n -> ps] : Threads(head, next, none, ps, n, s)
  BY <1>1
<1>3. n <= N
  <2>1. IsFiniteSet(1 .. n) /\ Cardinality(1 .. n) = n
    BY FS_Interval
  <2>2. s \in [1 .. n -> E] /\ \A i, j \in 1 .. n : s[i] = s[j] => i = j
    BY <1>2 DEF Threads
  <2>3. ~(Cardinality(E) < n)
    BY <2>1, <2>2, FS_PigeonHole
  <2>4. Cardinality(E) \in Nat
    BY FS_CardinalityType
  <2> QED BY <2>3, <2>4
<1> DEFINE At(k) == IF k < n THEN s[k + 1] ELSE none
           S == {k \in Nat : k \in 0 .. N => f[k] = At(k)}
<1>4. \A k \in Nat : k < n => k + 1 \in 1 .. n /\ At(k) \in ps
  OBVIOUS
<1>5. 0 \in S
  <2>1. f[0] = head
    BY WalkStep
  <2>2. head = At(0)
    BY <1>2 DEF Threads
  <2> QED BY <2>1, <2>2
<1>6. ASSUME NEW k \in Nat, k \in S
      PROVE  k + 1 \in S
  <2>1. CASE k + 1 \in 0 .. N
    <3>1. k \in 0 .. N /\ f[k] = At(k)
      BY <1>6, <2>1
    <3>2. f[k + 1] = IF f[k] \in D THEN next[f[k]] ELSE none
      BY <2>1, WalkStep
    <3>3. CASE k < n
      <4>1. k + 1 \in 1 .. n /\ f[k] = s[k + 1] /\ f[k] \in D
        BY <1>4, <3>1, <3>3
      <4>2. next[s[k + 1]] = IF k + 1 < n THEN s[k + 1 + 1] ELSE none
        BY <1>2, <4>1 DEF Threads
      <4> QED BY <3>2, <4>1, <4>2
    <3>4. CASE ~(k < n)
      <4>1. f[k] = none /\ ~(k + 1 < n)
        BY <3>1, <3>4
      <4> QED BY <3>2, <4>1
    <3> QED BY <3>3, <3>4
  <2>2. CASE k + 1 \notin 0 .. N
    BY <2>2
  <2> QED BY <2>1, <2>2
<1> HIDE DEF S
<1>7. Nat \subseteq S
  BY <1>5, <1>6, SetInduction
<1>8. \A k \in 0 .. N : f[k] = At(k)
  BY <1>7 DEF S
<1>9. \A k \in 0 .. N : f[k] # none => f[k] \in ps
  BY <1>4, <1>8
<1>10. ASSUME NEW p \in ps
       PROVE  \E k \in 0 .. N : f[k] = p
  <2>1. PICK i \in 1 .. n : s[i] = p
    BY <1>2 DEF Threads
  <2>2. i - 1 \in 0 .. N /\ i - 1 < n /\ i - 1 + 1 = i
    BY <1>3
  <2>3. f[i - 1] = p
    BY <1>8, <2>1, <2>2
  <2> QED BY <2>2, <2>3
<1>11. none \notin ps
  OBVIOUS
<1> QED BY <1>9, <1>10, <1>11

\* There is such a walk, so that a definition by this equation has it.
LEMMA WalkExists ==
  ASSUME NEW head, NEW next, NEW none, NEW ps, NEW D, NEW N \in Nat,
         Threaded(head, next, none, ps), ps \subseteq D, none \notin D
  PROVE  \E f : IsWalk(f, head, next, none, D, N)
<1>1. PICK n \in Nat : \E s \in [1 .. n -> ps] : Threads(head, next, none, ps, n, s)
  BY DEF Threaded
<1>2. PICK s \in [1 .. n -> ps] : Threads(head, next, none, ps, n, s)
  BY <1>1
<1> DEFINE g == [k \in 0 .. N |-> IF k < n THEN s[k + 1] ELSE none]
<1>3. ASSUME NEW k \in 0 .. N
      PROVE  g[k] = IF k = 0 THEN head ELSE IF g[k - 1] \in D THEN next[g[k - 1]] ELSE none
  <2>1. CASE k = 0
    BY <1>2, <2>1 DEF Threads
  <2>2. CASE k # 0
    <3>1. k - 1 \in 0 .. N /\ k - 1 + 1 = k /\ g[k - 1] = IF k - 1 < n THEN s[k] ELSE none
      BY <2>2
    <3>2. CASE k - 1 < n
      <4>1. k \in 1 .. n
        BY <2>2, <3>2
      <4>2. s[k] \in D /\ next[s[k]] = IF k < n THEN s[k + 1] ELSE none
        BY <4>1, <1>2 DEF Threads
      <4> QED BY <2>2, <3>1, <3>2, <4>2
    <3>3. CASE ~(k - 1 < n)
      BY <2>2, <3>1, <3>3
    <3> QED BY <3>2, <3>3
  <2> QED BY <2>1, <2>2
<1>4. g = [k \in 0 .. N |-> g[k]]
  OBVIOUS
<1> HIDE DEF g
<1>5. IsWalk(g, head, next, none, D, N)
  BY <1>3, <1>4 DEF IsWalk
<1> QED BY <1>5
=============================================================================
