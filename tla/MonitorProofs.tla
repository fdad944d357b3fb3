----------------------------- MODULE MonitorProofs -----------------------------
(***************************************************************************)
(* Proofs of the properties of Monitor, for every alphabet, every base,    *)
(* every length of the numbers and of the line, and every row width.       *)
(***************************************************************************)
EXTENDS Monitor, SequenceTheorems, Lemmas

-------------------------------------------------------------------------------
(* Numbers.                                                                 *)

LEMMA MinIs ==
  ASSUME NEW S \in SUBSET Nat, S # {}
  PROVE  Min(S) \in S /\ \A x \in S : Min(S) <= x
BY LeastExists DEF Min

LEMMA MaxIs ==
  ASSUME NEW S \in SUBSET Nat, S # {}, NEW n \in Nat, \A x \in S : x <= n
  PROVE  Max(S) \in S /\ \A x \in S : x <= Max(S)
BY GreatestExists DEF Max

LEMMA PowerIs ==
  ASSUME NEW n \in Nat
  PROVE  \E f \in [0 .. n -> Nat] :
            /\ f[0] = 1 /\ \A k \in 1 .. n : f[k] = f[k - 1] * Base
            /\ Numbers(n) = f[n]
<1> DEFINE step == [k \in 1 .. n |-> [x \in Nat |-> x * Base]]
           Is(f) == f = [k \in 0 .. n |-> IF k = 0 THEN 1 ELSE f[k - 1] * Base]
<1>1. step \in [1 .. n -> [Nat -> Nat]]
  BY ParserAssumption
<1>2. PICK g : Iterates(g, n, Nat, 1, step)
  <2> HIDE DEF step
  <2>1. 1 \in Nat
    OBVIOUS
  <2> QED BY <1>1, <2>1, RecursionExists
<1>3. Is(g)
  <2> USE <1>2 DEF Iterates
  <2>1. \A k \in 1 .. n : k - 1 \in 0 .. n /\ g[k - 1] \in Nat
    OBVIOUS
  <2>2. \A k \in 1 .. n : g[k] = g[k - 1] * Base
    BY <1>2, <2>1
  <2> QED BY <1>2, <2>2
<1> DEFINE f == CHOOSE f : Is(f)
<1>4. Is(f)
  BY <1>3
<1>5. Numbers(n) = f[n]
  BY DEF Numbers
<1> HIDE DEF f
<1>6. f[0] = 1 /\ \A k \in 1 .. n : f[k] = f[k - 1] * Base
  BY <1>4
<1> DEFINE T == {k \in Nat : k <= n => f[k] \in Nat}
<1>7. 0 \in T
  BY <1>6
<1>8. ASSUME NEW k \in Nat, k \in T
      PROVE  k + 1 \in T
  <2> SUFFICES ASSUME k + 1 <= n PROVE f[k + 1] \in Nat
    OBVIOUS
  <2>1. f[k] \in Nat /\ f[k + 1] = f[k] * Base
    BY <1>6, <1>8
  <2> QED BY <2>1, ParserAssumption
<1> HIDE DEF T
<1>9. Nat \subseteq T
  BY <1>7, <1>8, SetInduction
<1>10. \A k \in 0 .. n : f[k] \in Nat
  BY <1>9 DEF T
<1>11. f \in [0 .. n -> Nat]
  BY <1>4, <1>10
<1> HIDE DEF Is
<1> QED BY <1>5, <1>6, <1>11

LEMMA OneDigitMore ==
  ASSUME NEW x \in Nat, NEW y \in Nat, x < y, NEW d \in 0 .. Base - 1
  PROVE  x * Base + d \in Nat /\ x * Base + d < y * Base /\ y <= y * Base
<1> DEFINE B == Base
<1>1. B \in Nat \ {0}
  BY ParserAssumption
<1>2. d \in 0 .. B - 1
  OBVIOUS
<1> HIDE DEF B
<1>3. PICK z \in Nat : y = (x + 1) + z
  <2>1. y - (x + 1) \in Nat /\ y = (x + 1) + (y - (x + 1))
    OBVIOUS
  <2> QED BY <2>1
<1>4. PICK b \in Nat : B = b + 1
  <2>1. B - 1 \in Nat /\ B = (B - 1) + 1
    BY <1>1
  <2> QED BY <2>1
<1>5. y * B = (x * B + B) + z * B /\ y * B = y * b + y
  BY <1>1, <1>3, <1>4
<1>6. x * B \in Nat /\ z * B \in Nat /\ y * b \in Nat
  BY <1>1, <1>3, <1>4
<1>7. x * B + d \in Nat /\ x * B + d < y * B /\ y <= y * B
  BY <1>1, <1>2, <1>5, <1>6
<1> QED BY <1>7 DEF B

\* A number of at most max digits is below the numbers of max digits.
LEMMA NumberIs ==
  ASSUME NEW s, NEW p \in Nat, NEW n \in Nat, NEW max \in Nat, n <= max,
         \A k \in p + 1 .. p + n : IsDigit(s[k])
  PROVE  NumberAt(s, p, n) \in Nat /\ NumberAt(s, p, n) < Numbers(max)
<1> DEFINE digit(k) == Digits[s[p + k]]
           step == [k \in 1 .. n |-> [x \in Nat |-> x * Base + digit(k)]]
           Is(f) == f = [k \in 0 .. n |-> IF k = 0 THEN 0 ELSE f[k - 1] * Base + digit(k)]
<1>1. \A k \in 1 .. n : digit(k) \in 0 .. Base - 1
  <2> SUFFICES ASSUME NEW k \in 1 .. n PROVE digit(k) \in 0 .. Base - 1
    OBVIOUS
  <2>1. p + k \in p + 1 .. p + n
    OBVIOUS
  <2> QED BY <2>1, ParserAssumption DEF IsDigit
<1> HIDE DEF digit
<1>2. step \in [1 .. n -> [Nat -> Nat]]
  BY <1>1, ParserAssumption
<1>3. PICK g : Iterates(g, n, Nat, 0, step)
  <2> HIDE DEF step
  <2>1. 0 \in Nat
    OBVIOUS
  <2> QED BY <1>2, <2>1, RecursionExists
<1>4. Is(g)
  <2> USE <1>3 DEF Iterates
  <2>1. \A k \in 1 .. n : k - 1 \in 0 .. n /\ g[k - 1] \in Nat
    OBVIOUS
  <2>2. \A k \in 1 .. n : g[k] = g[k - 1] * Base + digit(k)
    BY <2>1
  <2> QED BY <2>2
<1> DEFINE f == CHOOSE f : Is(f)
<1>5. Is(f)
  BY <1>4
<1>6. NumberAt(s, p, n) = f[n]
  BY DEF NumberAt, digit
<1> HIDE DEF f
<1>7. f[0] = 0 /\ \A k \in 1 .. n : f[k] = f[k - 1] * Base + digit(k)
  BY <1>5
<1> HIDE DEF Is
<1>8. PICK w \in [0 .. max -> Nat] :
         /\ w[0] = 1 /\ \A k \in 1 .. max : w[k] = w[k - 1] * Base
         /\ Numbers(max) = w[max]
  BY PowerIs
<1> DEFINE T == {k \in Nat : k <= n => f[k] \in Nat /\ f[k] < w[k]}
           U == {k \in Nat : n <= k /\ k <= max => w[n] <= w[k]}
<1>9. 0 \in T
  BY <1>7, <1>8
<1>10. ASSUME NEW k \in Nat, k \in T
       PROVE  k + 1 \in T
  <2> SUFFICES ASSUME k + 1 <= n PROVE f[k + 1] \in Nat /\ f[k + 1] < w[k + 1]
    OBVIOUS
  <2>1. f[k] \in Nat /\ w[k] \in Nat /\ f[k] < w[k]
    BY <1>10
  <2>2. /\ k + 1 \in 1 .. n /\ k + 1 \in 1 .. max /\ (k + 1) - 1 = k
    OBVIOUS
  <2>3. f[k + 1] = f[k] * Base + digit(k + 1) /\ w[k + 1] = w[k] * Base
    BY <1>7, <1>8, <2>2
  <2>4. digit(k + 1) \in 0 .. Base - 1
    BY <1>1, <2>2
  <2> QED BY <2>1, <2>3, <2>4, OneDigitMore
<1>11. 0 \in U
  BY <1>8
<1>12. ASSUME NEW k \in Nat, k \in U
       PROVE  k + 1 \in U
  <2> SUFFICES ASSUME n <= k + 1, k + 1 <= max PROVE w[n] <= w[k + 1]
    OBVIOUS
  <2>1. CASE n = k + 1
    BY <2>1, <1>8
  <2>2. CASE n # k + 1
    <3>1. w[n] <= w[k] /\ w[k] \in Nat /\ w[n] \in Nat
      BY <1>12, <2>2, <1>8
    <3>2. k + 1 \in 1 .. max /\ (k + 1) - 1 = k
      OBVIOUS
    <3>3. w[k + 1] = w[k] * Base
      BY <1>8, <3>2
    <3>4. CASE w[k] = 0
      <4>1. w[k + 1] = 0
        BY <3>3, <3>4, ParserAssumption
      <4> QED BY <3>1, <3>4, <4>1
    <3>5. CASE w[k] # 0
      <4>1. 0 \in 0 .. Base - 1 /\ 0 < w[k]
        BY <3>1, <3>5, ParserAssumption
      <4>2. w[k] <= w[k] * Base
        BY <3>1, <4>1, OneDigitMore
      <4>3. w[k + 1] \in Nat
        BY <3>2, <1>8
      <4> QED BY <3>1, <3>3, <4>2, <4>3
    <3> QED BY <3>4, <3>5
  <2> QED BY <2>1, <2>2
<1> HIDE DEF T, U
<1>13. Nat \subseteq T
  BY <1>9, <1>10, SetInduction
<1>14. Nat \subseteq U
  BY <1>11, <1>12, SetInduction
<1>15. f[n] \in Nat /\ f[n] < w[n]
  BY <1>13 DEF T
<1>16. w[n] <= w[max] /\ w[n] \in Nat /\ w[max] \in Nat
  BY <1>14, <1>8 DEF U
<1> QED BY <1>6, <1>8, <1>15, <1>16

LEMMA NumbersPositive ==
  ASSUME NEW max \in Nat
  PROVE  Numbers(max) \in Nat \ {0}
<1>1. PICK w \in [0 .. max -> Nat] : Numbers(max) = w[max]
  BY PowerIs
<1>2. w[max] \in Nat
  OBVIOUS
<1>3. NumberAt(<<>>, 0, 0) \in Nat /\ NumberAt(<<>>, 0, 0) < Numbers(max)
  <2>1. 0 \in Nat /\ 0 <= max /\ \A k \in 0 + 1 .. 0 + 0 : IsDigit(<<>>[k])
    OBVIOUS
  <2> QED BY <2>1, NumberIs
<1> QED BY <1>1, <1>2, <1>3

LEMMA AddressesPositive == Addresses \in Nat \ {0}
  BY NumbersPositive, ParserAssumption DEF Addresses

-------------------------------------------------------------------------------
(* What the parser finds at a position.                                     *)

LEMMA SkipIs ==
  ASSUME NEW s \in Seq(Chars), NEW p \in 0 .. Len(s)
  PROVE  LET h == SkipSpaces(s, p) IN
         /\ h \in p .. Len(s)
         /\ \A k \in p + 1 .. h : s[k] = Space
         /\ h < Len(s) => s[h + 1] # Space
<1> DEFINE S == {q \in p .. Len(s) + p : Peek(s, q) # Space}
           h == Min(S)
<1>1. Len(s) \in Nat /\ p \in Nat /\ p <= Len(s)
  OBVIOUS
<1>2. S \in SUBSET Nat /\ Len(s) \in S
  <2>1. Peek(s, Len(s)) = NoChar
    BY <1>1 DEF Peek
  <2>2. NoChar # Space
    BY DEF NoChar, Space
  <2>3. Len(s) \in p .. Len(s) + p
    BY <1>1
  <2> QED BY <1>1, <2>1, <2>2, <2>3
<1> HIDE DEF S
<1>3. h \in S /\ \A q \in S : h <= q
  BY <1>2, MinIs
<1>4. h = SkipSpaces(s, p)
  BY DEF SkipSpaces, S
<1> HIDE DEF h
<1>5. h \in p .. Len(s) /\ Peek(s, h) # Space
  BY <1>1, <1>2, <1>3 DEF S
<1>6. ASSUME NEW k \in p + 1 .. h
      PROVE  s[k] = Space
  <2>1. k - 1 \in p .. Len(s) + p /\ k - 1 < h /\ k - 1 < Len(s) /\ (k - 1) + 1 = k
    BY <1>1, <1>5
  <2>2. k - 1 \notin S
    BY <1>3, <1>5, <2>1
  <2> QED BY <2>1, <2>2 DEF S, Peek
<1>7. h < Len(s) => s[h + 1] # Space
  BY <1>5 DEF Peek
<1> QED BY <1>4, <1>5, <1>6, <1>7

LEMMA DigitsIs ==
  ASSUME NEW s \in Seq(Chars), NEW p \in 0 .. Len(s)
  PROVE  LET n == DigitsAt(s, p) IN
         /\ n \in 0 .. Len(s) - p
         /\ \A k \in p + 1 .. p + n : IsDigit(s[k])
         /\ p + n < Len(s) => ~IsDigit(s[p + n + 1])
<1> DEFINE S == {n \in 0 .. Len(s) : ~IsDigit(Peek(s, p + n))}
           n == Min(S)
<1>1. Len(s) \in Nat /\ p \in Nat /\ p <= Len(s) /\ p + (Len(s) - p) = Len(s)
  OBVIOUS
<1>2. ~IsDigit(NoChar)
  BY ParserAssumption DEF IsDigit
<1>3. S \in SUBSET Nat /\ Len(s) - p \in S
  BY <1>1, <1>2 DEF Peek
<1> HIDE DEF S
<1>4. n \in S /\ \A q \in S : n <= q
  BY <1>3, MinIs
<1>5. n = DigitsAt(s, p)
  BY DEF DigitsAt, S
<1> HIDE DEF n
<1>6. n \in 0 .. Len(s) - p /\ ~IsDigit(Peek(s, p + n))
  <2>1. n \in Nat /\ n <= Len(s) - p
    BY <1>1, <1>3, <1>4
  <2> QED BY <1>1, <2>1, <1>4 DEF S
<1>7. ASSUME NEW k \in p + 1 .. p + n
      PROVE  IsDigit(s[k])
  <2>1. /\ k - 1 - p \in 0 .. Len(s) /\ k - 1 - p < n /\ p + (k - 1 - p) = k - 1
        /\ k - 1 < Len(s) /\ (k - 1) + 1 = k
    BY <1>1, <1>6
  <2>2. k - 1 - p \notin S
    BY <1>4, <1>6, <2>1
  <2> QED BY <2>1, <2>2 DEF S, Peek
<1>8. p + n < Len(s) => ~IsDigit(s[p + n + 1])
  <2> HIDE DEF IsDigit
  <2> QED BY <1>6 DEF Peek
<1> QED BY <1>5, <1>6, <1>7, <1>8

-------------------------------------------------------------------------------
(* Tokens.                                                                  *)

\* The place between two characters is not inside a number.
Boundary(p) ==
    /\ p \in 0 .. Len(line)
    /\ 0 < p /\ p < Len(line) => ~(IsDigit(line[p]) /\ IsDigit(line[p + 1]))

FirstBehind(t, p) == t \in Tokens /\ p < t /\ \A i \in Tokens : i <= p \/ t <= i

LastTo(t, p) == t \in Tokens /\ t <= p /\ \A i \in Tokens : i <= t \/ p < i

LEMMA SignsAreNoDigits ==
  /\ ~IsDigit(Space) /\ ~IsDigit(NoChar)
  /\ ~IsDigit(":") /\ ~IsDigit("R") /\ ~IsDigit(".")
BY ParserAssumption DEF IsDigit

LEMMA TokensAre ==
  ASSUME line \in Seq(Chars)
  PROVE  /\ Len(line) \in Nat
         /\ \A i \in Tokens : /\ i \in 1 .. Len(line) /\ i \in Nat
                              /\ line[i] \in Chars /\ line[i] # Space /\ line[i] # NoChar
BY MonitorAssumption DEF Tokens

LEMMA FirstExists ==
  ASSUME line \in Seq(Chars), NEW p \in Nat, NEW i \in Tokens, p < i
  PROVE  \E t : FirstBehind(t, p)
<1> DEFINE S == {j \in Tokens : p < j}
<1>1. S \in SUBSET Nat /\ S # {}
  BY TokensAre
<1> HIDE DEF S
<1>2. Min(S) \in S /\ \A x \in S : Min(S) <= x
  BY <1>1, MinIs
<1>3. FirstBehind(Min(S), p)
  BY <1>2, TokensAre DEF FirstBehind, S
<1> QED BY <1>3

LEMMA LastExists ==
  ASSUME line \in Seq(Chars), NEW p \in Nat, NEW i \in Tokens, i <= p
  PROVE  \E t : LastTo(t, p)
<1> DEFINE S == {j \in Tokens : j <= p}
<1>1. S \in SUBSET Nat /\ S # {} /\ \A x \in S : x <= p
  BY TokensAre
<1> HIDE DEF S
<1>2. Max(S) \in S /\ \A x \in S : x <= Max(S)
  BY <1>1, MaxIs
<1>3. LastTo(Max(S), p)
  BY <1>2, TokensAre DEF LastTo, S
<1> QED BY <1>3

LEMMA CharAfterIs ==
  ASSUME line \in Seq(Chars), NEW i \in Nat, NEW t, FirstBehind(t, i)
  PROVE  /\ CharAfter(i) = line[t] /\ CharAfter(i) # NoChar
         /\ Min({j \in Tokens : j > i}) = t
<1> DEFINE S == {j \in Tokens : j > i}
<1>1. S \in SUBSET Nat /\ S # {} /\ t \in S /\ \A j \in S : t <= j
  BY TokensAre DEF FirstBehind
<1>2. CharAfter(i) = IF S = {} THEN NoChar ELSE line[Min(S)]
  BY DEF CharAfter
<1>3. t \in Nat /\ line[t] # NoChar
  BY TokensAre DEF FirstBehind
<1> HIDE DEF S
<1>4. Min(S) \in S /\ \A x \in S : Min(S) <= x
  BY <1>1, MinIs
<1>5. Min(S) \in Nat /\ Min(S) <= t /\ t <= Min(S)
  BY <1>1, <1>4
<1>6. Min(S) = t
  BY <1>3, <1>5
<1> QED BY <1>1, <1>2, <1>3, <1>6 DEF S

LEMMA CharAfterNone ==
  ASSUME NEW i, \A j \in Tokens : ~(j > i)
  PROVE  CharAfter(i) = NoChar
BY DEF CharAfter

LEMMA CharBeforeIs ==
  ASSUME line \in Seq(Chars), NEW p \in Nat, NEW t, FirstBehind(t, p), NEW u, LastTo(u, p)
  PROVE  CharBefore(t) = line[u]
<1> DEFINE S == {j \in Tokens : j < t}
<1>1. t \in Nat /\ u \in Nat
  BY TokensAre DEF FirstBehind, LastTo
<1>2. S \in SUBSET Nat /\ S # {} /\ u \in S /\ (\A j \in S : j <= u) /\ (\A j \in S : j <= t)
  <2>1. u <= p /\ p < t /\ u \in Tokens
    BY DEF FirstBehind, LastTo
  <2>2. \A j \in S : j \in Nat /\ j \in Tokens /\ j < t
    BY TokensAre
  <2>3. \A j \in S : j <= p
    BY <2>2, <1>1 DEF FirstBehind
  <2>4. \A j \in S : j <= u
    BY <2>2, <2>3, <1>1 DEF LastTo
  <2>5. u \in S
    BY <1>1, <2>1
  <2>6. \A j \in S : j <= t
    BY <2>2, <1>1
  <2> HIDE DEF S
  <2> QED BY <2>2, <2>4, <2>5, <2>6
<1>3. CharBefore(t) = IF S = {} THEN NoChar ELSE line[Max(S)]
  BY DEF CharBefore
<1> HIDE DEF S
<1>4. Max(S) \in S /\ \A x \in S : x <= Max(S)
  BY <1>1, <1>2, MaxIs
<1>5. Max(S) \in Nat /\ Max(S) <= u /\ u <= Max(S)
  BY <1>2, <1>4
<1>6. Max(S) = u
  BY <1>1, <1>5
<1> QED BY <1>2, <1>3, <1>6

LEMMA CharBeforeNone ==
  ASSUME NEW t, \A j \in Tokens : ~(j < t)
  PROVE  CharBefore(t) = NoChar
BY DEF CharBefore

LEMMA AtNext ==
  ASSUME line \in Seq(Chars), NEW p, Boundary(p), NEW h, h = SkipSpaces(line, p)
  PROVE  /\ h \in 0 .. Len(line) /\ p <= h /\ Boundary(h)
         /\ \A i \in Tokens : i <= p \/ h < i
         /\ h < Len(line) => FirstBehind(h + 1, p) /\ FirstBehind(h + 1, h)
<1>1. Len(line) \in Nat /\ p \in 0 .. Len(line)
  BY DEF Boundary
<1>2. /\ h \in p .. Len(line) /\ \A k \in p + 1 .. h : line[k] = Space
      /\ h < Len(line) => line[h + 1] # Space
  BY <1>1, SkipIs
<1>3. h \in 0 .. Len(line) /\ p <= h
  BY <1>1, <1>2
<1>4. CASE h = p
  <2>1. Boundary(h) /\ \A i \in Tokens : i <= p \/ h < i
    BY <1>1, <1>4, TokensAre
  <2>2. h < Len(line) => h + 1 \in Tokens
    <3> SUFFICES ASSUME h < Len(line) PROVE h + 1 \in Tokens
      OBVIOUS
    <3>1. h + 1 \in DOMAIN line /\ line[h + 1] # Space
      BY <1>1, <1>2, <1>3
    <3>2. IsDigit(line[h + 1]) => h + 1 = 1 \/ ~IsDigit(line[h])
      BY <2>1, <1>3, <1>1 DEF Boundary
    <3>3. (h + 1) - 1 = h
      BY <1>3, <1>1
    <3> QED BY <3>1, <3>2, <3>3 DEF Tokens
  <2> QED BY <1>1, <1>3, <2>1, <2>2, TokensAre DEF FirstBehind
<1>5. CASE h # p
  <2>1. line[h] = Space /\ ~IsDigit(line[h])
    BY <1>1, <1>2, <1>5, SignsAreNoDigits
  <2>2. Boundary(h)
    BY <1>3, <2>1 DEF Boundary
  <2>3. ASSUME NEW i \in Tokens
        PROVE  i <= p \/ h < i
    BY <1>1, <1>2, TokensAre
  <2>4. h < Len(line) => h + 1 \in Tokens
    <3> SUFFICES ASSUME h < Len(line) PROVE h + 1 \in Tokens
      OBVIOUS
    <3>1. h + 1 \in DOMAIN line /\ line[h + 1] # Space /\ (h + 1) - 1 = h
      BY <1>1, <1>2, <1>3
    <3> QED BY <3>1, <2>1 DEF Tokens
  <2> QED BY <1>1, <1>3, <2>2, <2>3, <2>4, TokensAre DEF FirstBehind
<1> QED BY <1>4, <1>5

\* Behind the digits of a number no token was passed.
LEMMA AfterDigits ==
  ASSUME line \in Seq(Chars), NEW h \in 0 .. Len(line), NEW n, n = DigitsAt(line, h), n > 0
  PROVE  /\ n \in 1 .. Len(line) - h /\ Boundary(h + n)
         /\ \A i \in Tokens : i <= h + 1 \/ h + n < i
<1>1. Len(line) \in Nat
  OBVIOUS
<1>2. /\ n \in 0 .. Len(line) - h
      /\ \A k \in h + 1 .. h + n : IsDigit(line[k])
      /\ h + n < Len(line) => ~IsDigit(line[h + n + 1])
  BY DigitsIs
<1>3. n \in 1 .. Len(line) - h /\ Boundary(h + n)
  BY <1>1, <1>2 DEF Boundary
<1>4. ASSUME NEW i \in Tokens, ~(i <= h + 1), ~(h + n < i)
      PROVE  FALSE
  <2>1. i \in h + 1 .. h + n /\ i - 1 \in h + 1 .. h + n /\ i # 1
    BY <1>1, <1>3, <1>4, TokensAre
  <2> QED BY <1>2, <2>1 DEF Tokens
<1> QED BY <1>3, <1>4

LEMMA AfterSign ==
  ASSUME line \in Seq(Chars), NEW h \in 0 .. Len(line), h < Len(line), ~IsDigit(line[h + 1])
  PROVE  Boundary(h + 1) /\ DigitsAt(line, h) = 0
<1>1. Len(line) \in Nat
  OBVIOUS
<1>2. LET n == DigitsAt(line, h) IN
      n \in 0 .. Len(line) - h /\ \A k \in h + 1 .. h + n : IsDigit(line[k])
  BY DigitsIs
<1>3. DigitsAt(line, h) = 0
  BY <1>1, <1>2
<1> QED BY <1>1, <1>3 DEF Boundary

-------------------------------------------------------------------------------
(* What the line reads as.                                                  *)

\* A colon that ends the line is wrong, which the parser finds out at its end.
Dangling(i) == line[i] = ":" /\ CharAfter(i) = NoChar

NoFault == \A i \in Tokens : Fault(i) = "none"

LEMMA SizeIs ==
  ASSUME line \in Seq(Chars), NEW i \in Tokens
  PROVE  /\ Size(i) \in 0 .. Len(line) - (i - 1)
         /\ \A k \in i .. i - 1 + Size(i) : IsDigit(line[k])
         /\ ~IsDigit(line[i]) => Size(i) = 0
<1>1. /\ Len(line) \in Nat /\ i \in 1 .. Len(line)
  BY TokensAre
<1>2. i - 1 \in 0 .. Len(line) /\ (i - 1) + 1 = i
  BY <1>1
<1> DEFINE n == DigitsAt(line, i - 1)
<1>3. n \in 0 .. Len(line) - (i - 1) /\ \A k \in (i - 1) + 1 .. (i - 1) + n : IsDigit(line[k])
  BY <1>2, DigitsIs
<1>4. n = Size(i)
  BY DEF Size
<1> HIDE DEF n
<1>5. \A k \in i .. i - 1 + n : IsDigit(line[k])
  BY <1>1, <1>2, <1>3
<1>6. ~IsDigit(line[i]) => n = 0
  BY <1>1, <1>3, <1>5
<1> QED BY <1>1, <1>3, <1>4, <1>5, <1>6

LEMMA ValueIs ==
  ASSUME line \in Seq(Chars), NEW i \in Tokens
  PROVE  Value(i) \in Nat
<1>1. /\ i \in Nat \ {0} /\ Size(i) \in Nat
      /\ \A k \in i .. i - 1 + Size(i) : IsDigit(line[k])
  <2>1. i \in 1 .. Len(line) /\ Len(line) \in Nat
    BY TokensAre
  <2> QED BY <2>1, SizeIs
<1> DEFINE n == Size(i)
<1>2. i - 1 \in Nat /\ n \in Nat /\ n <= n /\ \A k \in (i - 1) + 1 .. (i - 1) + n : IsDigit(line[k])
  BY <1>1
<1> HIDE DEF n
<1>3. NumberAt(line, i - 1, n) \in Nat
  BY <1>2, NumberIs
<1> QED BY <1>3 DEF Value, n

LEMMA FaultOfSign ==
  ASSUME line \in Seq(Chars), NEW i \in Tokens, ~IsDigit(line[i])
  PROVE  /\ ~IsByte(i)
         /\ line[i] = "." =>
               Fault(i) = IF IsDigit(CharAfter(i)) THEN "none" ELSE "ExpectedAnAddress"
         /\ line[i] = ":" => Fault(i) = IF CharAfter(i) = NoChar THEN "ExpectedAByte" ELSE "none"
         /\ line[i] = "R" => Fault(i) = "none"
         /\ ~IsInstruction(line[i]) => Fault(i) = "UnexpectedCharacter"
<1> DEFINE c == line[i]
           after == CharAfter(i)
           before == CharBefore(i)
           size == Size(i)
           byte == IsByte(i)
<1>1. size = 0 /\ ~(size > MaxByteDigits) /\ ~(size > MaxAddressDigits) /\ ~byte
  BY SizeIs, ParserAssumption DEF IsByte, ShortNumber
<1>2. Fault(i) =
          CASE c = "." /\ ~IsDigit(after) -> "ExpectedAnAddress"
          [] c = ":" /\ after = NoChar  -> "ExpectedAByte"
          [] c \notin {".", ":", "R"} /\ ~IsDigit(c) -> "UnexpectedCharacter"
          [] before = ":" /\ size > MaxByteDigits -> "ByteTooLong"
          [] before # ":" /\ ~byte /\ size > MaxAddressDigits -> "AddressTooLong"
          [] OTHER -> "none"
  BY DEF Fault
<1>3. ~IsDigit(c)
  OBVIOUS
<1> HIDE DEF c, after, before, size, byte
<1>4. /\ c = "." => Fault(i) = IF IsDigit(after) THEN "none" ELSE "ExpectedAnAddress"
      /\ c = ":" => Fault(i) = IF after = NoChar THEN "ExpectedAByte" ELSE "none"
      /\ c = "R" => Fault(i) = "none"
      /\ ~IsInstruction(c) => Fault(i) = "UnexpectedCharacter"
  BY <1>1, <1>2, <1>3 DEF IsInstruction
<1> QED BY <1>1, <1>4 DEF c, after, byte

LEMMA FaultOfNumber ==
  ASSUME line \in Seq(Chars), NEW i \in Tokens, IsDigit(line[i])
  PROVE  Fault(i) = IF CharBefore(i) = ":"
                    THEN IF Size(i) > MaxByteDigits THEN "ByteTooLong" ELSE "none"
                    ELSE IF ~IsByte(i) /\ Size(i) > MaxAddressDigits THEN "AddressTooLong"
                                                                     ELSE "none"
<1> DEFINE c == line[i]
           after == CharAfter(i)
           before == CharBefore(i)
           size == Size(i)
           byte == IsByte(i)
<1>1. IsDigit(c) /\ c \notin {".", ":", "R"}
  BY SignsAreNoDigits
<1>2. Fault(i) =
          CASE c = "." /\ ~IsDigit(after) -> "ExpectedAnAddress"
          [] c = ":" /\ after = NoChar  -> "ExpectedAByte"
          [] c \notin {".", ":", "R"} /\ ~IsDigit(c) -> "UnexpectedCharacter"
          [] before = ":" /\ size > MaxByteDigits -> "ByteTooLong"
          [] before # ":" /\ ~byte /\ size > MaxAddressDigits -> "AddressTooLong"
          [] OTHER -> "none"
  BY DEF Fault
<1> HIDE DEF c, after, before, size, byte
<1>3. Fault(i) = IF before = ":"
                 THEN IF size > MaxByteDigits THEN "ByteTooLong" ELSE "none"
                 ELSE IF ~byte /\ size > MaxAddressDigits THEN "AddressTooLong" ELSE "none"
  BY <1>1, <1>2
<1> QED BY <1>3 DEF before, size, byte

\* The parser's mode tells what the tokens before its position make of the next.
Fits(p, m) ==
    /\ Boundary(p)
    /\ m \in {"default", "set", "stored"}
    /\ \A i : LastTo(i, p) =>
          /\ m = "set" <=> line[i] = ":"
          /\ line[i] # "."
          /\ m = "stored" => IsByte(i)
    /\ (\A i \in Tokens : p < i) => m = "default"
    /\ m = "default" => \A t : FirstBehind(t, p) => ~IsByte(t)
    /\ \A i \in Tokens : i <= p => Fault(i) = "none" \/ Dangling(i)

LEMMA FitsFirst ==
  ASSUME line \in Seq(Chars)
  PROVE  Fits(0, "default")
<1>1. Boundary(0)
  BY DEF Boundary
<1>2. \A i \in Tokens : i \in Nat /\ 0 < i
  BY TokensAre
<1>3. \A i : ~LastTo(i, 0)
  BY <1>2 DEF LastTo
<1>4. ASSUME NEW t, FirstBehind(t, 0)
      PROVE  ~IsByte(t)
  <2>1. t \in Nat /\ \A c \in Tokens : ~(c < t)
    BY <1>2, <1>4 DEF FirstBehind
  <2> QED BY <2>1 DEF IsByte
<1> QED BY <1>1, <1>2, <1>3, <1>4 DEF Fits

LEMMA Ahead ==
  ASSUME line \in Seq(Chars), NEW p, NEW m, Fits(p, m), NEW t, FirstBehind(t, p)
  PROVE  /\ CharBefore(t) = ":" <=> m = "set"
         /\ CharBefore(t) # "."
         /\ ShortNumber(t) /\ m # "default" => IsByte(t)
         /\ IsByte(t) => m # "default"
         /\ \A i \in Tokens : i <= p => Fault(i) = "none"
<1>1. p \in Nat /\ t \in Nat /\ t \in Tokens /\ p < t
  BY TokensAre DEF Fits, Boundary, FirstBehind
<1>2. ASSUME NEW i \in Tokens, i <= p
      PROVE  Fault(i) = "none"
  <2>1. i \in Nat /\ i < t
    BY <1>1, <1>2, TokensAre
  <2>2. PICK u : FirstBehind(u, i)
    BY <1>1, <2>1, FirstExists
  <2>3. CharAfter(i) # NoChar
    BY <2>1, <2>2, CharAfterIs
  <2> QED BY <1>2, <2>3 DEF Fits, Dangling
<1>3. IsByte(t) => m # "default"
  BY DEF Fits
<1>4. CASE \E i \in Tokens : i <= p
  <2>1. PICK u : LastTo(u, p)
    BY <1>1, <1>4, LastExists
  <2>2. CharBefore(t) = line[u]
    BY <1>1, <2>1, CharBeforeIs
  <2>3. /\ m = "set" <=> line[u] = ":"
        /\ line[u] # "."
        /\ m = "stored" => IsByte(u)
    BY <2>1 DEF Fits
  <2>4. u \in Nat /\ u \in Tokens /\ u < t /\ \A j \in Tokens : j \in Nat /\ (j < t => j <= u)
    BY <1>1, <2>1, TokensAre DEF LastTo, FirstBehind
  <2>5. ASSUME ShortNumber(t), m = "set"
        PROVE  IsByte(t)
    <3>1. line[u] = ":" /\ \A j \in Tokens : u < j /\ j < t => ShortNumber(j)
      BY <2>3, <2>4, <2>5
    <3> QED BY <2>4, <2>5, <3>1 DEF IsByte
  <2>6. ASSUME ShortNumber(t), m = "stored"
        PROVE  IsByte(t)
    <3>1. ShortNumber(u) /\ IsByte(u)
      BY <2>3, <2>6 DEF IsByte
    <3>2. PICK c \in Tokens : /\ c < u /\ line[c] = ":"
                              /\ \A j \in Tokens : c < j /\ j < u => ShortNumber(j)
      BY <3>1 DEF IsByte
    <3>3. ASSUME NEW j \in Tokens, c < j, j < t
          PROVE  ShortNumber(j)
      <4>1. j < u \/ j = u
        BY <2>4, <3>3
      <4> QED BY <3>1, <3>2, <3>3, <4>1
    <3>4. c < t
      BY <2>4, <3>2, <1>1
    <3> QED BY <2>6, <3>2, <3>3, <3>4 DEF IsByte
  <2>7. m \in {"default", "set", "stored"}
    BY DEF Fits
  <2> QED BY <1>2, <1>3, <2>2, <2>3, <2>5, <2>6, <2>7
<1>5. CASE ~ \E i \in Tokens : i <= p
  <2>1. \A i \in Tokens : p < i /\ ~(i < t)
    BY <1>1, <1>5, TokensAre DEF FirstBehind
  <2>2. m = "default" /\ CharBefore(t) = NoChar
    BY <2>1, CharBeforeNone DEF Fits
  <2> QED BY <1>2, <1>3, <2>2 DEF NoChar
<1> QED BY <1>4, <1>5

LEMMA NextFits ==
  ASSUME line \in Seq(Chars), NEW p, NEW m, Fits(p, m),
         NEW q, Boundary(q), NEW t, LastTo(t, q), p < t,
         \A i \in Tokens : p < i /\ i <= q => Fault(i) = "none" \/ Dangling(i),
         NEW n \in {"default", "set", "stored"},
         n = "set" <=> line[t] = ":", line[t] # ".",
         n = "stored" => IsByte(t), n = "default" => ~IsByte(t)
  PROVE  Fits(q, n)
<1>1. p \in Nat /\ q \in Nat /\ t \in Nat /\ t \in Tokens /\ t <= q /\ \A i \in Tokens : i \in Nat
  BY TokensAre DEF Fits, Boundary, LastTo
<1>2. \A i : LastTo(i, q) => i = t
  BY <1>1 DEF LastTo
<1>3. ~ \A i \in Tokens : q < i
  BY <1>1
<1>4. ASSUME n = "default", NEW u, FirstBehind(u, q), IsByte(u)
      PROVE  FALSE
  <2>1. u \in Tokens /\ u \in Nat /\ q < u
    BY <1>1, <1>4 DEF FirstBehind
  <2>2. PICK c \in Tokens : /\ c < u /\ line[c] = ":"
                            /\ \A j \in Tokens : c < j /\ j < u => ShortNumber(j)
    BY <1>4 DEF IsByte
  <2>3. c <= t
    BY <1>1, <1>4, <2>1, <2>2 DEF FirstBehind, LastTo
  <2>4. c # t
    BY <1>4, <2>2
  <2>5. c < t /\ t < u
    BY <1>1, <2>1, <2>3, <2>4
  <2>6. ShortNumber(t) /\ \A j \in Tokens : c < j /\ j < t => ShortNumber(j)
    BY <1>1, <2>1, <2>2, <2>5
  <2>7. IsByte(t)
    BY <2>2, <2>5, <2>6 DEF IsByte
  <2> QED BY <1>4, <2>7
<1>5. ASSUME NEW i \in Tokens, i <= q
      PROVE  Fault(i) = "none" \/ Dangling(i)
  BY <1>1, <1>5 DEF Fits
<1> QED BY <1>2, <1>3, <1>4, <1>5 DEF Fits

\* A number that is no byte ends the bytes and is read again.
LEMMA ResumeFits ==
  ASSUME line \in Seq(Chars), NEW p, Fits(p, "stored"),
         NEW h, h = SkipSpaces(line, p), h < Len(line), ~ShortNumber(h + 1)
  PROVE  Fits(h, "default")
<1>1. Boundary(p) /\ p \in Nat
  BY DEF Fits, Boundary
<1>2. /\ h \in 0 .. Len(line) /\ p <= h /\ Boundary(h)
      /\ \A i \in Tokens : i <= p \/ h < i
      /\ FirstBehind(h + 1, h)
  BY <1>1, AtNext
<1>3. h \in Nat /\ \A i \in Tokens : i \in Nat
  BY <1>2, TokensAre
<1>4. \A i : LastTo(i, h) <=> LastTo(i, p)
  BY <1>1, <1>2, <1>3 DEF LastTo
<1>5. \A i : LastTo(i, h) => line[i] # ":" /\ line[i] # "."
  BY <1>4 DEF Fits
<1>6. ASSUME NEW t, FirstBehind(t, h)
      PROVE  ~IsByte(t)
  <2>1. t = h + 1
    BY <1>2, <1>3, <1>6 DEF FirstBehind
  <2> QED BY <2>1 DEF IsByte
<1>7. \A i \in Tokens : i <= h => Fault(i) = "none" \/ Dangling(i)
  BY <1>1, <1>2, <1>3 DEF Fits
<1> QED BY <1>2, <1>5, <1>6, <1>7 DEF Fits

-------------------------------------------------------------------------------
(* The reading, token by token.                                             *)

Ops == {"SetAddress", "ExamineOne", "ExamineContinuing", "StoreContinuing", "Run"}

Commands == [op: Ops, value: Nat]

LEMMA MeaningType ==
  ASSUME line \in Seq(Chars), NEW i \in Tokens, Fault(i) = "none"
  PROVE  Meaning(i) \in Seq(Commands)
<1>1. Value(i) \in Nat
  BY ValueIs
<1>2. \A op \in Ops, v \in Nat : Command(op, v) \in Commands
  BY DEF Command, Commands
<1> DEFINE S == {j \in Tokens : j > i}
           after == Value(Min(S))
           byte == IsByte(i)
           c == line[i]
<1>3. c = "." => after \in Nat
  <2> SUFFICES ASSUME line[i] = "." PROVE Value(Min(S)) \in Nat
    OBVIOUS
  <2>1. IsDigit(CharAfter(i)) /\ i \in Nat
    BY FaultOfSign, SignsAreNoDigits, TokensAre
  <2>2. S # {} /\ S \in SUBSET Nat
    BY <2>1, SignsAreNoDigits, TokensAre DEF CharAfter
  <2>3. Min(S) \in Tokens
    <3> HIDE DEF S
    <3>1. Min(S) \in S
      BY <2>2, MinIs
    <3> QED BY <3>1 DEF S
  <2> QED BY <2>3, ValueIs
<1>4. byte => IsDigit(c)
  BY DEF IsByte, ShortNumber
<1>5. Meaning(i) =
        CASE c = "R" -> <<Command("Run", 0)>>
          [] c = "." -> <<Command("ExamineContinuing", after)>>
          [] byte -> <<Command("StoreContinuing", Value(i))>>
          [] IsDigit(c) /\ ~byte /\ CharBefore(i) # "." ->
                <<Command(IF IsInstruction(CharAfter(i)) THEN "SetAddress" ELSE "ExamineOne",
                          Value(i))>>
          [] OTHER -> <<>>
  BY DEF Meaning
<1> HIDE DEF S, after, byte, c
<1>6. /\ Command("Run", 0) \in Commands
      /\ c = "." => Command("ExamineContinuing", after) \in Commands
      /\ Command("StoreContinuing", Value(i)) \in Commands
      /\ Command("SetAddress", Value(i)) \in Commands
      /\ Command("ExamineOne", Value(i)) \in Commands
  BY <1>1, <1>2, <1>3 DEF Ops
<1>7. /\ <<Command("Run", 0)>> \in Seq(Commands)
      /\ c = "." => <<Command("ExamineContinuing", after)>> \in Seq(Commands)
      /\ <<Command("StoreContinuing", Value(i))>> \in Seq(Commands)
      /\ <<Command(IF IsInstruction(CharAfter(i)) THEN "SetAddress" ELSE "ExamineOne",
                   Value(i))>> \in Seq(Commands)
      /\ <<>> \in Seq(Commands)
  BY <1>6
<1> DEFINE run == <<Command("Run", 0)>>
           range == <<Command("ExamineContinuing", after)>>
           store == <<Command("StoreContinuing", Value(i))>>
           number == <<Command(IF IsInstruction(CharAfter(i)) THEN "SetAddress"
                                                             ELSE "ExamineOne", Value(i))>>
<1> HIDE DEF run, range, store, number
<1>8. Meaning(i) \in {run, store, number, <<>>} \/ (c = "." /\ Meaning(i) = range)
  BY <1>4, <1>5, SignsAreNoDigits DEF run, range, store, number
<1> QED BY <1>7, <1>8 DEF run, range, store, number

LEMMA MeaningIs ==
  ASSUME line \in Seq(Chars), NEW i \in Tokens
  PROVE  /\ line[i] = "R" => Meaning(i) = <<Command("Run", 0)>>
         /\ line[i] = ":" => Meaning(i) = <<>>
         /\ \A t : line[i] = "." /\ FirstBehind(t, i) =>
                      Meaning(i) = <<Command("ExamineContinuing", Value(t))>>
         /\ IsByte(i) => Meaning(i) = <<Command("StoreContinuing", Value(i))>>
         /\ IsDigit(line[i]) /\ ~IsByte(i) =>
               Meaning(i) = IF CharBefore(i) = "." THEN <<>>
                            ELSE <<Command(IF IsInstruction(CharAfter(i)) THEN "SetAddress"
                                                                          ELSE "ExamineOne",
                                           Value(i))>>
<1> DEFINE c == line[i]
           byte == IsByte(i)
           follower == Min({j \in Tokens : j > i})
           before == CharBefore(i)
           run == <<Command("Run", 0)>>
           range == <<Command("ExamineContinuing", Value(follower))>>
           store == <<Command("StoreContinuing", Value(i))>>
           number == <<Command(IF IsInstruction(CharAfter(i)) THEN "SetAddress"
                                                             ELSE "ExamineOne", Value(i))>>
<1>1. byte => IsDigit(c)
  BY DEF IsByte, ShortNumber
<1>2. IsDigit(c) => c \notin {".", ":", "R"}
  BY SignsAreNoDigits
<1>3. \A t : FirstBehind(t, i) => follower = t
  BY CharAfterIs, TokensAre
<1>4. Meaning(i) =
        CASE c = "R" -> run
          [] c = "." -> range
          [] byte -> store
          [] IsDigit(c) /\ ~byte /\ before # "." -> number
          [] OTHER -> <<>>
  BY DEF Meaning
<1> HIDE DEF c, byte, run, range, store, number, before
<1>5. /\ c = "R" => Meaning(i) = run
      /\ c = ":" => Meaning(i) = <<>>
      /\ c = "." => Meaning(i) = range
      /\ byte => Meaning(i) = store
      /\ IsDigit(c) /\ ~byte => Meaning(i) = IF before = "." THEN <<>> ELSE number
  BY <1>1, <1>2, <1>4
<1> QED BY <1>3, <1>5 DEF c, byte, run, range, store, number, before

LEMMA ReadingIs ==
  ASSUME line \in Seq(Chars), NoFault
  PROVE  /\ \A i \in 0 .. Len(line) : ReadingTo[i] \in Seq(Commands)
         /\ ReadingTo[0] = <<>>
         /\ \A i \in 1 .. Len(line) :
               ReadingTo[i] = IF i \in Tokens THEN ReadingTo[i - 1] \o Meaning(i)
                                              ELSE ReadingTo[i - 1]
<1> DEFINE N == Len(line)
           S == Seq(Commands)
           extend(i, x) == IF i \in Tokens THEN x \o Meaning(i) ELSE x
           step == [i \in 1 .. N |-> [x \in S |-> extend(i, x)]]
           Is(f) == f = [i \in 0 .. N |-> IF i = 0 THEN <<>> ELSE extend(i, f[i - 1])]
<1>1. N \in Nat
  OBVIOUS
<1>2. \A i \in 1 .. N : \A x \in S : extend(i, x) \in S
  BY MeaningType DEF NoFault
<1>3. <<>> \in S
  OBVIOUS
<1> HIDE DEF S
<1>4. step \in [1 .. N -> [S -> S]]
  BY <1>2
<1>5. PICK g : Iterates(g, N, S, <<>>, step)
  <2> HIDE DEF step, N
  <2> QED BY <1>1, <1>3, <1>4, RecursionExists
<1> HIDE DEF N
<1>6. g \in [0 .. N -> S] /\ g[0] = <<>> /\ \A i \in 1 .. N : g[i] = extend(i, g[i - 1])
  <2> HIDE DEF extend
  <2> USE <1>5, <1>1 DEF Iterates
  <2>1. \A i \in 1 .. N : i - 1 \in 0 .. N /\ g[i - 1] \in S
    OBVIOUS
  <2> QED BY <2>1
<1>7. Is(g)
  <2> HIDE DEF extend
  <2> QED BY <1>6
<1>8. ReadingTo = CHOOSE f : Is(f)
  BY DEF ReadingTo, N
<1>9. Is(ReadingTo)
  <2> HIDE DEF Is
  <2> QED BY <1>7, <1>8
<1>10. /\ ReadingTo[0] = <<>>
       /\ \A i \in 1 .. N : ReadingTo[i] = extend(i, ReadingTo[i - 1])
  <2> HIDE DEF extend
  <2> QED BY <1>1, <1>9
<1> HIDE DEF Is, extend
<1> DEFINE T == {i \in Nat : i <= N => ReadingTo[i] \in S}
<1>11. 0 \in T
  BY <1>3, <1>10
<1>12. ASSUME NEW i \in Nat, i \in T
       PROVE  i + 1 \in T
  <2> SUFFICES ASSUME i + 1 <= N PROVE ReadingTo[i + 1] \in S
    OBVIOUS
  <2>1. i + 1 \in 1 .. N /\ (i + 1) - 1 = i /\ ReadingTo[i] \in S
    BY <1>1, <1>12
  <2>2. ReadingTo[i + 1] = extend(i + 1, ReadingTo[i])
    BY <1>10, <2>1
  <2> QED BY <1>2, <2>1, <2>2
<1> HIDE DEF T
<1>13. Nat \subseteq T
  BY <1>11, <1>12, SetInduction
<1>14. \A i \in 0 .. N : ReadingTo[i] \in S
  BY <1>13, <1>1 DEF T
<1> QED BY <1>10, <1>14 DEF extend, N, S

\* Where no token was passed nothing more is read.
LEMMA ReadingSame ==
  ASSUME line \in Seq(Chars), NoFault,
         NEW p \in 0 .. Len(line), NEW q \in 0 .. Len(line), p <= q,
         \A i \in Tokens : i <= p \/ q < i
  PROVE  ReadingTo[q] = ReadingTo[p]
<1> DEFINE T == {k \in Nat : p <= k /\ k <= q => ReadingTo[k] = ReadingTo[p]}
<1>1. Len(line) \in Nat /\ p \in Nat /\ q \in Nat /\ q <= Len(line)
  OBVIOUS
<1>2. 0 \in T
  BY <1>1
<1>3. ASSUME NEW k \in Nat, k \in T
      PROVE  k + 1 \in T
  <2> SUFFICES ASSUME p <= k + 1, k + 1 <= q PROVE ReadingTo[k + 1] = ReadingTo[p]
    OBVIOUS
  <2>1. CASE p = k + 1
    BY <2>1
  <2>2. CASE p # k + 1
    <3>1. k + 1 \in 1 .. Len(line) /\ (k + 1) - 1 = k /\ k + 1 \notin Tokens
      BY <1>1, <2>2
    <3>2. ReadingTo[k + 1] = ReadingTo[k]
      BY <3>1, ReadingIs
    <3> QED BY <1>1, <1>3, <2>2, <3>2
  <2> QED BY <2>1, <2>2
<1> HIDE DEF T
<1>4. q \in T
  BY <1>1, <1>2, <1>3, SetInduction
<1> QED BY <1>1, <1>4 DEF T

LEMMA ReadingNext ==
  ASSUME line \in Seq(Chars), NoFault,
         NEW p \in 0 .. Len(line), NEW q \in 0 .. Len(line),
         NEW t \in Tokens, p < t, t <= q,
         \A i \in Tokens : i <= p \/ i = t \/ q < i
  PROVE  ReadingTo[q] = ReadingTo[p] \o Meaning(t)
<1>1. Len(line) \in Nat /\ p \in Nat /\ q \in Nat /\ t \in 1 .. Len(line)
  BY TokensAre
<1>2. t - 1 \in 0 .. Len(line) /\ p <= t - 1 /\ t \in 0 .. Len(line) /\ t <= q
  BY <1>1
<1>3. \A i \in Tokens : i \in Nat
  BY TokensAre
<1>4. /\ \A i \in Tokens : i <= p \/ t - 1 < i
      /\ \A i \in Tokens : i <= t \/ q < i
  BY <1>1, <1>3
<1>5. ReadingTo[t - 1] = ReadingTo[p]
  BY <1>2, <1>4, ReadingSame
<1>6. ReadingTo[q] = ReadingTo[t]
  BY <1>2, <1>4, ReadingSame
<1>7. ReadingTo[t] = ReadingTo[t - 1] \o Meaning(t)
  BY <1>1, ReadingIs
<1> QED BY <1>5, <1>6, <1>7

LEMMA PrefixExtends ==
  ASSUME NEW S, NEW a \in Seq(S), NEW b \in Seq(S), NEW c \in Seq(S), IsPrefix(a, b)
  PROVE  IsPrefix(a, b \o c)
<1>1. Len(a) \in Nat /\ Len(b) \in Nat /\ Len(a) <= Len(b) /\ Len(b \o c) = Len(b) + Len(c)
      /\ Len(c) \in Nat
  BY DEF IsPrefix
<1>2. SubSeq(b \o c, 1, Len(a)) = SubSeq(b, 1, Len(a))
  BY <1>1
<1> QED BY <1>1, <1>2 DEF IsPrefix

LEMMA ReadingPrefix ==
  ASSUME line \in Seq(Chars), NoFault, NEW p \in 0 .. Len(line)
  PROVE  IsPrefix(ReadingTo[p], Reading)
<1> DEFINE T == {k \in Nat : p <= k /\ k <= Len(line) => IsPrefix(ReadingTo[p], ReadingTo[k])}
<1>1. Len(line) \in Nat /\ p \in Nat /\ p <= Len(line)
  OBVIOUS
<1>2. \A i \in 0 .. Len(line) : ReadingTo[i] \in Seq(Commands)
  BY ReadingIs
<1>3. \A s \in Seq(Commands) : IsPrefix(s, s)
  BY DEF IsPrefix
<1>4. 0 \in T
  BY <1>1, <1>2, <1>3
<1>5. ASSUME NEW k \in Nat, k \in T
      PROVE  k + 1 \in T
  <2> SUFFICES ASSUME p <= k + 1, k + 1 <= Len(line)
               PROVE  IsPrefix(ReadingTo[p], ReadingTo[k + 1])
    OBVIOUS
  <2>1. CASE p = k + 1
    BY <1>2, <1>3, <2>1
  <2>2. CASE p # k + 1
    <3>1. k + 1 \in 1 .. Len(line) /\ (k + 1) - 1 = k /\ k \in 0 .. Len(line)
      BY <1>1
    <3>2. IsPrefix(ReadingTo[p], ReadingTo[k])
      BY <1>1, <1>5, <2>2
    <3>3. CASE k + 1 \in Tokens
      <4>1. ReadingTo[k + 1] = ReadingTo[k] \o Meaning(k + 1) /\ Meaning(k + 1) \in Seq(Commands)
        BY <3>1, <3>3, ReadingIs, MeaningType DEF NoFault
      <4> QED BY <1>2, <3>1, <3>2, <4>1, PrefixExtends
    <3>4. CASE k + 1 \notin Tokens
      <4>1. ReadingTo[k + 1] = ReadingTo[k]
        BY <3>1, <3>4, ReadingIs
      <4> QED BY <3>2, <4>1
    <3> QED BY <3>3, <3>4
  <2> QED BY <2>1, <2>2
<1> HIDE DEF T
<1>6. Len(line) \in T
  BY <1>1, <1>4, <1>5, SetInduction
<1> QED BY <1>1, <1>6 DEF T, Reading

-------------------------------------------------------------------------------
(* One turn of the parser's loop.                                           *)

LEMMA PeekIs ==
  ASSUME line \in Seq(Chars), NEW h \in 0 .. Len(line)
  PROVE  /\ Peek(line, h) = NoChar <=> h = Len(line)
         /\ Peek(line, h) # NoChar <=> h < Len(line)
         /\ h < Len(line) => Peek(line, h) = line[h + 1] /\ line[h + 1] \in Chars
<1>1. Len(line) \in Nat
  OBVIOUS
<1>2. h < Len(line) => line[h + 1] \in Chars /\ line[h + 1] # NoChar
  BY <1>1, MonitorAssumption
<1> QED BY <1>1, <1>2 DEF Peek

LEMMA HexIs ==
  ASSUME NEW s \in Seq(Chars), NEW h \in 0 .. Len(s), NEW max \in Nat,
         NEW n, n = DigitsAt(s, h), NEW r, r = HexNumber(s, h, max)
  PROVE  /\ n \in Nat
         /\ r.ok <=> n > 0 /\ n <= max
         /\ r.ok => /\ r.value = NumberAt(s, h, n) /\ r.pos = h + n
                    /\ r.value \in Nat /\ r.value < Numbers(max)
         /\ n > max => r.error = "TooLong" /\ r.pos = h + max
         /\ n = 0 => r.error = "NoDigits" /\ r.pos = h
<1>1. /\ n \in Nat /\ h \in Nat
      /\ \A k \in h + 1 .. h + n : IsDigit(s[k])
  <2>1. Len(s) \in Nat
    OBVIOUS
  <2> QED BY <2>1, DigitsIs
<1> DEFINE v == NumberAt(s, h, n)
<1>2. n <= max => v \in Nat /\ v < Numbers(max)
  BY <1>1, NumberIs
<1>3. r = CASE n > max -> [ok |-> FALSE, error |-> "TooLong", pos |-> h + max]
            [] n = 0   -> [ok |-> FALSE, error |-> "NoDigits", pos |-> h]
            [] OTHER   -> [ok |-> TRUE, value |-> v, pos |-> h + n]
  BY DEF HexNumber
<1> HIDE DEF v
<1>4. CASE n > max
  <2>1. r = [ok |-> FALSE, error |-> "TooLong", pos |-> h + max]
    BY <1>1, <1>3, <1>4
  <2> QED BY <1>1, <1>4, <2>1
<1>5. CASE n = 0
  <2>1. r = [ok |-> FALSE, error |-> "NoDigits", pos |-> h]
    BY <1>1, <1>3, <1>5
  <2> QED BY <1>1, <1>5, <2>1
<1>6. CASE n > 0 /\ n <= max
  <2>1. r = [ok |-> TRUE, value |-> v, pos |-> h + n]
    BY <1>1, <1>3, <1>6
  <2>2. r.ok /\ r.value = v /\ r.pos = h + n
    BY <2>1
  <2> QED BY <1>1, <1>2, <1>6, <2>2 DEF v
<1> QED BY <1>1, <1>4, <1>5, <1>6

\* What the parser reports is the first thing wrong.
FirstFault(kind) ==
    /\ kind # "none"
    /\ \E t \in Tokens : Fault(t) = kind /\ \A i \in Tokens : i < t => Fault(i) = "none"

\* Where the caret stands under the line.
Points(kind, column) ==
    LET shown == <<PromptCell>> \o line
        caret == column + 1
    IN  /\ kind = "UnexpectedCharacter" =>
              ~IsDigit(shown[caret]) /\ shown[caret] \notin {":", "R", ".", Space, PromptCell}
        /\ kind \in {"ByteTooLong", "AddressTooLong"} =>
              LET max == IF kind = "ByteTooLong" THEN MaxByteDigits ELSE MaxAddressDigits
              IN  /\ \A j \in caret - max .. caret : IsDigit(shown[j])
                  /\ ~IsDigit(shown[caret - max - 1])
        /\ kind \in {"ExpectedAByte", "ExpectedAnAddress"} =>
              caret = Len(shown) \/ shown[caret + 1] # Space

LEMMA ShownIs ==
  ASSUME line \in Seq(Chars)
  PROVE  /\ Len(<<PromptCell>> \o line) = Len(line) + 1
         /\ (<<PromptCell>> \o line)[1] = PromptCell
         /\ \A k \in 1 .. Len(line) : (<<PromptCell>> \o line)[k + 1] = line[k]
<1>1. <<PromptCell>> \in Seq({PromptCell} \cup Chars) /\ line \in Seq({PromptCell} \cup Chars)
  OBVIOUS
<1>2. Len(<<PromptCell>>) = 1 /\ Len(line) \in Nat
  OBVIOUS
<1> QED BY <1>1, <1>2

\* The number that is too long: the caret is under its first digit too many.
LEMMA PointsTooLong ==
  ASSUME line \in Seq(Chars), NEW h \in 0 .. Len(line), h + 1 \in Tokens,
         NEW kind \in {"ByteTooLong", "AddressTooLong"},
         NEW max, max = IF kind = "ByteTooLong" THEN MaxByteDigits ELSE MaxAddressDigits,
         DigitsAt(line, h) > max
  PROVE  Points(kind, h + max + 1)
<1> DEFINE n == DigitsAt(line, h)
           shown == <<PromptCell>> \o line
           caret == (h + max + 1) + 1
<1>1. Len(line) \in Nat /\ max \in Nat
  BY ParserAssumption
<1>2. n \in 0 .. Len(line) - h /\ \A k \in h + 1 .. h + n : IsDigit(line[k])
  BY DigitsIs
<1>3. shown[1] = PromptCell /\ \A k \in 1 .. Len(line) : shown[k + 1] = line[k]
  BY ShownIs
<1> HIDE DEF n, shown
<1>4. n > max
  BY DEF n
<1>5. ASSUME NEW j \in caret - max .. caret
      PROVE  IsDigit(shown[j])
  <2>1. j - 1 \in h + 1 .. h + n /\ j - 1 \in 1 .. Len(line) /\ (j - 1) + 1 = j
    BY <1>1, <1>2, <1>4
  <2> QED BY <1>2, <1>3, <2>1
<1>6. caret - max - 1 = h + 1
  BY <1>1
<1>7. ~IsDigit(shown[h + 1])
  <2>1. CASE h = 0
    BY <1>3, <2>1, MonitorAssumption DEF IsDigit
  <2>2. CASE h # 0
    <3>1. h \in 1 .. Len(line) /\ (h + 1) - 1 = h /\ h + 1 # 1 /\ h + 1 \in h + 1 .. h + n
      BY <1>1, <1>2, <1>4, <2>2
    <3>2. IsDigit(line[h + 1])
      BY <1>2, <3>1
    <3>3. ~IsDigit(line[h])
      BY <3>1, <3>2 DEF Tokens
    <3> QED BY <1>3, <3>1, <3>3
  <2> QED BY <2>1, <2>2
<1>8. ~IsDigit(shown[caret - max - 1])
  BY <1>6, <1>7
<1>9. /\ kind # "UnexpectedCharacter" /\ kind \notin {"ExpectedAByte", "ExpectedAnAddress"}
      /\ max = IF kind = "ByteTooLong" THEN MaxByteDigits ELSE MaxAddressDigits
  OBVIOUS
<1> HIDE DEF caret
<1> QED BY <1>5, <1>8, <1>9 DEF Points, shown, caret

LEMMA PointsMissing ==
  ASSUME line \in Seq(Chars), NEW q \in 0 .. Len(line), q < Len(line) => line[q + 1] # Space,
         NEW kind \in {"ExpectedAByte", "ExpectedAnAddress"}
  PROVE  Points(kind, q)
<1> DEFINE shown == <<PromptCell>> \o line
<1>1. /\ Len(shown) = Len(line) + 1 /\ Len(line) \in Nat
      /\ \A k \in 1 .. Len(line) : shown[k + 1] = line[k]
  BY ShownIs
<1> HIDE DEF shown
<1>2. q + 1 = Len(shown) \/ shown[(q + 1) + 1] # Space
  BY <1>1
<1>3. kind # "UnexpectedCharacter" /\ kind \notin {"ByteTooLong", "AddressTooLong"}
  OBVIOUS
<1> QED BY <1>2, <1>3 DEF Points, shown

LEMMA PointsUnexpected ==
  ASSUME line \in Seq(Chars), NEW h \in 0 .. Len(line), h < Len(line),
         ~IsDigit(line[h + 1]), ~IsInstruction(line[h + 1]), line[h + 1] # Space
  PROVE  Points("UnexpectedCharacter", h + 1)
<1> DEFINE shown == <<PromptCell>> \o line
<1>1. /\ Len(line) \in Nat /\ h + 1 \in 1 .. Len(line)
      /\ \A k \in 1 .. Len(line) : shown[k + 1] = line[k]
  BY ShownIs
<1> HIDE DEF shown
<1>2. shown[(h + 1) + 1] = line[h + 1] /\ line[h + 1] \in Chars
  BY <1>1
<1>3. ~IsDigit(shown[(h + 1) + 1]) /\ shown[(h + 1) + 1] \notin {":", "R", ".", Space, PromptCell}
  BY <1>2, MonitorAssumption DEF IsInstruction
<1> QED BY <1>3 DEF Points, shown

LEMMA TurnBegins ==
  ASSUME line \in Seq(Chars), NEW p, NEW m, Fits(p, m),
         NEW h, h = SkipSpaces(line, p), h < Len(line)
  PROVE  /\ Len(line) \in Nat /\ p \in Nat /\ h \in Nat /\ p <= h /\ p \in 0 .. Len(line)
         /\ h \in 0 .. Len(line) /\ h + 1 \in 0 .. Len(line) /\ h + 1 \in Tokens
         /\ FirstBehind(h + 1, p) /\ p < h + 1
         /\ \A i \in Tokens : i \in Nat
         /\ \A i \in Tokens : i <= p \/ h + 1 <= i
         /\ \A i \in Tokens : i < h + 1 => Fault(i) = "none"
<1>1. Boundary(p) /\ Len(line) \in Nat
  BY DEF Fits
<1>2. p \in 0 .. Len(line)
  BY <1>1 DEF Boundary
<1>3. /\ h \in 0 .. Len(line) /\ p <= h
      /\ \A i \in Tokens : i <= p \/ h < i
      /\ FirstBehind(h + 1, p)
  BY <1>1, AtNext
<1>4. \A i \in Tokens : i \in Nat
  BY TokensAre
<1>5. \A i \in Tokens : i <= p => Fault(i) = "none"
  BY <1>3, Ahead
<1>6. h + 1 \in Tokens /\ p \in Nat /\ h \in Nat
  BY <1>1, <1>2, <1>3 DEF FirstBehind
<1>7. \A i \in Tokens : i <= p \/ h + 1 <= i
  BY <1>3, <1>4, <1>6
<1>8. \A i \in Tokens : i < h + 1 => Fault(i) = "none"
  BY <1>3, <1>4, <1>5, <1>6, <1>7
<1> QED BY <1>1, <1>2, <1>3, <1>4, <1>6, <1>7, <1>8

LEMMA LoneSign ==
  ASSUME line \in Seq(Chars), NEW p, NEW m, Fits(p, m),
         NEW h, h = SkipSpaces(line, p), h < Len(line), ~IsDigit(line[h + 1]),
         NEW n, n = IF line[h + 1] = ":" THEN "set" ELSE "default",
         line[h + 1] # ".", Fault(h + 1) = "none" \/ Dangling(h + 1)
  PROVE  /\ Fits(h + 1, n)
         /\ NoFault => ReadingTo[h + 1] = ReadingTo[p] \o Meaning(h + 1)
<1>1. /\ Len(line) \in Nat /\ p \in Nat /\ h \in Nat /\ p <= h /\ p \in 0 .. Len(line)
      /\ h \in 0 .. Len(line) /\ h + 1 \in 0 .. Len(line) /\ h + 1 \in Tokens
      /\ p < h + 1
      /\ \A i \in Tokens : i \in Nat
      /\ \A i \in Tokens : i <= p \/ h + 1 <= i
  BY TurnBegins
<1>2. Boundary(h + 1)
  BY <1>1, AfterSign
<1>3. LastTo(h + 1, h + 1)
  BY <1>1 DEF LastTo
<1>4. \A i \in Tokens : p < i /\ i <= h + 1 => i = h + 1
  BY <1>1
<1>5. \A i \in Tokens : p < i /\ i <= h + 1 => Fault(i) = "none" \/ Dangling(i)
  BY <1>4
<1>6. ~IsByte(h + 1)
  BY DEF IsByte, ShortNumber
<1>7. /\ n \in {"default", "set", "stored"} /\ n # "stored"
      /\ n = "set" <=> line[h + 1] = ":"
  OBVIOUS
<1>8. Fits(h + 1, n)
  BY <1>1, <1>2, <1>3, <1>5, <1>6, <1>7, NextFits
<1>9. \A i \in Tokens : i <= p \/ i = h + 1 \/ h + 1 < i
  BY <1>1
<1>10. NoFault => ReadingTo[h + 1] = ReadingTo[p] \o Meaning(h + 1)
  <2> SUFFICES ASSUME NoFault, NEW t, t = h + 1
               PROVE  ReadingTo[t] = ReadingTo[p] \o Meaning(t)
    OBVIOUS
  <2>1. /\ p \in 0 .. Len(line) /\ t \in 0 .. Len(line) /\ t \in Tokens /\ p < t /\ t <= t
        /\ \A i \in Tokens : i <= p \/ i = t \/ t < i
    BY <1>1, <1>9
  <2> QED BY <2>1, ReadingNext
<1> QED BY <1>8, <1>10

LEMMA ColonTurn ==
  ASSUME line \in Seq(Chars), NEW p, NEW m, Fits(p, m),
         NEW h, h = SkipSpaces(line, p), h < Len(line), line[h + 1] = ":"
  PROVE  /\ Fits(h + 1, "set")
         /\ NoFault => ReadingTo[h + 1] = ReadingTo[p]
<1>1. h + 1 \in Tokens /\ p \in 0 .. Len(line)
  BY TurnBegins
<1>2. ~IsDigit(line[h + 1])
  BY SignsAreNoDigits
<1>3. Fault(h + 1) = "none" \/ Dangling(h + 1)
  BY <1>1, <1>2, FaultOfSign DEF Dangling
<1>4. Fits(h + 1, "set") /\ (NoFault => ReadingTo[h + 1] = ReadingTo[p] \o Meaning(h + 1))
  BY <1>2, <1>3, LoneSign
<1>5. Meaning(h + 1) = <<>>
  BY <1>1, MeaningIs
<1>6. ASSUME NoFault
      PROVE  ReadingTo[h + 1] = ReadingTo[p]
  <2>1. ReadingTo[p] \in Seq(Commands)
    BY <1>1, <1>6, ReadingIs
  <2>2. ReadingTo[h + 1] = ReadingTo[p] \o <<>>
    BY <1>4, <1>5, <1>6
  <2> QED BY <2>1, <2>2, ConcatEmptySeq
<1> QED BY <1>4, <1>6

LEMMA RunTurn ==
  ASSUME line \in Seq(Chars), NEW p, NEW m, Fits(p, m),
         NEW h, h = SkipSpaces(line, p), h < Len(line), line[h + 1] = "R"
  PROVE  /\ Fits(h + 1, "default")
         /\ NoFault => ReadingTo[h + 1] = ReadingTo[p] \o <<Command("Run", 0)>>
<1>1. h + 1 \in Tokens
  BY TurnBegins
<1>2. ~IsDigit(line[h + 1])
  BY SignsAreNoDigits
<1>3. Fault(h + 1) = "none"
  BY <1>1, <1>2, FaultOfSign
<1>4. Fits(h + 1, "default") /\ (NoFault => ReadingTo[h + 1] = ReadingTo[p] \o Meaning(h + 1))
  BY <1>2, <1>3, LoneSign
<1>5. Meaning(h + 1) = <<Command("Run", 0)>>
  BY <1>1, MeaningIs
<1> QED BY <1>4, <1>5

LEMMA UnexpectedTurn ==
  ASSUME line \in Seq(Chars), NEW p, NEW m, Fits(p, m),
         NEW h, h = SkipSpaces(line, p), h < Len(line),
         ~IsDigit(line[h + 1]), ~IsInstruction(line[h + 1])
  PROVE  FirstFault("UnexpectedCharacter") /\ Points("UnexpectedCharacter", h + 1)
<1>1. /\ h + 1 \in Tokens /\ h \in 0 .. Len(line)
      /\ \A i \in Tokens : i < h + 1 => Fault(i) = "none"
  BY TurnBegins
<1>2. Fault(h + 1) = "UnexpectedCharacter" /\ line[h + 1] # Space
  BY <1>1, FaultOfSign, TokensAre
<1> QED BY <1>1, <1>2, PointsUnexpected DEF FirstFault

\* A number that was read: its token, what is behind it, what the line reads as.
LEMMA NumberTurn ==
  ASSUME line \in Seq(Chars), NEW p, NEW m, Fits(p, m),
         NEW h, h = SkipSpaces(line, p), h < Len(line), IsDigit(line[h + 1]),
         NEW n, n = DigitsAt(line, h)
  PROVE  /\ n \in Nat /\ n > 0 /\ h + n \in 0 .. Len(line) /\ Size(h + 1) = n
         /\ Value(h + 1) = NumberAt(line, h, n)
         /\ Boundary(h + n) /\ LastTo(h + 1, h + n)
         /\ \A i \in Tokens : i <= p \/ i = h + 1 \/ h + n < i
         /\ m # "default" => (IsByte(h + 1) <=> n <= MaxByteDigits)
         /\ m = "default" => ~IsByte(h + 1)
         /\ CharBefore(h + 1) = ":" <=> m = "set"
         /\ CharBefore(h + 1) # "."
<1>1. /\ Len(line) \in Nat /\ p \in Nat /\ h \in Nat /\ p <= h
      /\ h \in 0 .. Len(line) /\ h + 1 \in Tokens
      /\ FirstBehind(h + 1, p)
      /\ \A i \in Tokens : i \in Nat
      /\ \A i \in Tokens : i <= p \/ h + 1 <= i
  BY TurnBegins
<1>2. (h + 1) - 1 = h
  BY <1>1
<1>3. Size(h + 1) = n /\ Value(h + 1) = NumberAt(line, h, n)
  BY <1>2 DEF Size, Value
<1>4. /\ n \in 0 .. Len(line) - h
      /\ h + n < Len(line) => ~IsDigit(line[h + n + 1])
  BY <1>1, DigitsIs
<1>5. n > 0
  <2>1. n # 0
    BY <1>1, <1>4
  <2> QED BY <1>1, <1>4, <2>1
<1>6. /\ n \in 1 .. Len(line) - h /\ Boundary(h + n)
      /\ \A i \in Tokens : i <= h + 1 \/ h + n < i
  BY <1>1, <1>5, AfterDigits
<1>7. LastTo(h + 1, h + n) /\ h + n \in 0 .. Len(line)
  BY <1>1, <1>6 DEF LastTo
<1>8. \A i \in Tokens : i <= p \/ i = h + 1 \/ h + n < i
  BY <1>1, <1>6
<1>9. /\ CharBefore(h + 1) = ":" <=> m = "set"
      /\ CharBefore(h + 1) # "."
      /\ ShortNumber(h + 1) /\ m # "default" => IsByte(h + 1)
      /\ IsByte(h + 1) => m # "default"
  BY <1>1, Ahead
<1>10. ShortNumber(h + 1) <=> n <= MaxByteDigits
  BY <1>3 DEF ShortNumber
<1>11. IsByte(h + 1) => ShortNumber(h + 1)
  BY DEF IsByte
<1> QED BY <1>3, <1>4, <1>5, <1>6, <1>7, <1>8, <1>9, <1>10, <1>11

LEMMA AddressTurn ==
  ASSUME line \in Seq(Chars), NEW p, Fits(p, "default"),
         NEW h, h = SkipSpaces(line, p), h < Len(line), IsDigit(line[h + 1]),
         NEW r, r = HexNumber(line, h, MaxAddressDigits)
  PROVE  /\ ~r.ok => /\ r.error # "NoDigits"
                     /\ FirstFault("AddressTooLong") /\ Points("AddressTooLong", r.pos + 1)
         /\ r.ok =>
               LET after == SkipSpaces(line, r.pos)
                   c == Command(IF IsInstruction(Peek(line, after)) THEN "SetAddress"
                                                                    ELSE "ExamineOne", r.value)
               IN  /\ Fits(after, "default")
                   /\ r.value \in Nat /\ r.value < Addresses
                   /\ NoFault => ReadingTo[after] = ReadingTo[p] \o <<c>>
<1> DEFINE n == DigitsAt(line, h)
<1>1. /\ Len(line) \in Nat /\ p \in Nat /\ h \in Nat /\ p <= h /\ p \in 0 .. Len(line)
      /\ h \in 0 .. Len(line) /\ h + 1 \in Tokens /\ p < h + 1
      /\ \A i \in Tokens : i \in Nat
      /\ \A i \in Tokens : i < h + 1 => Fault(i) = "none"
  BY TurnBegins
<1>2. /\ n \in Nat /\ n > 0 /\ h + n \in 0 .. Len(line) /\ Size(h + 1) = n
      /\ Value(h + 1) = NumberAt(line, h, n)
      /\ Boundary(h + n) /\ LastTo(h + 1, h + n)
      /\ \A i \in Tokens : i <= p \/ i = h + 1 \/ h + n < i
      /\ ~IsByte(h + 1)
      /\ CharBefore(h + 1) # ":" /\ CharBefore(h + 1) # "."
  BY NumberTurn
<1>3. /\ r.ok <=> n > 0 /\ n <= MaxAddressDigits
      /\ r.ok => /\ r.value = NumberAt(line, h, n) /\ r.pos = h + n
                 /\ r.value \in Nat /\ r.value < Addresses
      /\ n > MaxAddressDigits => r.error = "TooLong" /\ r.pos = h + MaxAddressDigits
  BY <1>1, HexIs, ParserAssumption DEF Addresses
<1>4. Fault(h + 1) = IF n > MaxAddressDigits THEN "AddressTooLong" ELSE "none"
  BY <1>1, <1>2, FaultOfNumber
<1>5. MaxAddressDigits \in Nat
  BY ParserAssumption
<1>6. ASSUME ~r.ok
      PROVE  /\ r.error # "NoDigits"
             /\ FirstFault("AddressTooLong") /\ Points("AddressTooLong", r.pos + 1)
  <2>1. n > MaxAddressDigits
    BY <1>2, <1>3, <1>5, <1>6
  <2>2. Points("AddressTooLong", h + MaxAddressDigits + 1)
    BY <1>1, <2>1, PointsTooLong
  <2> QED BY <1>1, <1>3, <1>4, <2>1, <2>2 DEF FirstFault
<1>7. ASSUME r.ok
      PROVE  LET after == SkipSpaces(line, r.pos)
                 c == Command(IF IsInstruction(Peek(line, after)) THEN "SetAddress"
                                                                  ELSE "ExamineOne", r.value)
             IN  /\ Fits(after, "default")
                 /\ NoFault => ReadingTo[after] = ReadingTo[p] \o <<c>>
  <2> DEFINE q == h + n
             after == SkipSpaces(line, q)
             t == h + 1
  <2>1. r.pos = q /\ r.value = Value(t) /\ Fault(t) = "none"
    BY <1>2, <1>3, <1>4, <1>7, <1>5
  <2>2. /\ after \in 0 .. Len(line) /\ q <= after /\ Boundary(after)
        /\ \A i \in Tokens : i <= q \/ after < i
        /\ after < Len(line) => FirstBehind(after + 1, q)
    <3> HIDE DEF n
    <3> QED BY <1>2, AtNext
  <2>3. /\ t \in Tokens /\ t <= q /\ q \in Nat
        /\ \A i \in Tokens : i <= t \/ q < i
    BY <1>1, <1>2 DEF LastTo
  <2>4. p < t /\ t \in Nat /\ line[t] # ":" /\ line[t] # "." /\ ~IsByte(t) /\ IsDigit(line[t])
        /\ CharBefore(t) # "."
    BY <1>1, <1>2, SignsAreNoDigits
  <2>5. \A i \in Tokens : i <= p \/ i = t \/ q < i
    BY <1>2
  <2> HIDE DEF n, q, t
  <2>6. IsInstruction(CharAfter(t)) <=> IsInstruction(Peek(line, after))
    <3>1. CASE after < Len(line)
      <4>1. FirstBehind(after + 1, t)
        BY <1>1, <2>2, <2>3, <2>4, <3>1 DEF FirstBehind
      <4>2. CharAfter(t) = line[after + 1]
        BY <2>4, <4>1, CharAfterIs
      <4>3. Peek(line, after) = line[after + 1]
        BY <2>2, <3>1, PeekIs
      <4> QED BY <4>2, <4>3
    <3>2. CASE ~(after < Len(line))
      <4>1. \A i \in Tokens : i \in 1 .. Len(line)
        BY TokensAre
      <4>2. \A i \in Tokens : ~(i > t)
        BY <1>1, <2>2, <2>3, <2>4, <3>2, <4>1
      <4>3. CharAfter(t) = NoChar
        BY <4>2, CharAfterNone
      <4>4. Peek(line, after) = NoChar
        BY <3>2, <2>2, <1>1, PeekIs
      <4> QED BY <4>3, <4>4
    <3> QED BY <3>1, <3>2
  <2>7. \A i \in Tokens : i <= p \/ i = t \/ after < i
    BY <1>1, <2>2, <2>3, <2>5
  <2>8. LastTo(t, after)
    BY <1>1, <2>2, <2>3 DEF LastTo
  <2>9. \A i \in Tokens : p < i /\ i <= after => Fault(i) = "none" \/ Dangling(i)
    BY <1>1, <2>1, <2>2, <2>7
  <2>10. Fits(after, "default")
    BY <2>2, <2>4, <2>8, <2>9, NextFits
  <2> DEFINE c == Command(IF IsInstruction(Peek(line, after)) THEN "SetAddress"
                                                              ELSE "ExamineOne", r.value)
  <2>11. Meaning(t) = <<c>>
    BY <2>1, <2>3, <2>4, <2>6, MeaningIs
  <2> HIDE DEF after, c
  <2>12. t <= after
    BY <2>8 DEF LastTo
  <2>13. NoFault => ReadingTo[after] = ReadingTo[p] \o Meaning(t)
    BY <1>1, <2>2, <2>3, <2>4, <2>7, <2>12, ReadingNext
  <2> QED BY <2>1, <2>10, <2>11, <2>13 DEF after, c
<1> QED BY <1>3, <1>6, <1>7

LEMMA ByteTurn ==
  ASSUME line \in Seq(Chars), NEW p, NEW m \in {"set", "stored"}, Fits(p, m),
         NEW h, h = SkipSpaces(line, p), h < Len(line), IsDigit(line[h + 1]),
         NEW r, r = HexNumber(line, h, MaxByteDigits)
  PROVE  /\ r.ok => /\ Fits(r.pos, "stored")
                    /\ r.value \in Nat /\ r.value < Numbers(MaxByteDigits)
                    /\ NoFault => ReadingTo[r.pos] =
                                     ReadingTo[p] \o <<Command("StoreContinuing", r.value)>>
         /\ ~r.ok /\ m = "stored" => /\ Fits(h, "default")
                                     /\ NoFault => ReadingTo[h] = ReadingTo[p]
         /\ ~r.ok /\ m = "set" => /\ r.error # "NoDigits" /\ FirstFault("ByteTooLong")
                                  /\ Points("ByteTooLong", r.pos + 1)
<1> DEFINE n == DigitsAt(line, h)
           t == h + 1
           q == h + n
<1>1. /\ Len(line) \in Nat /\ p \in Nat /\ h \in Nat /\ p <= h /\ p \in 0 .. Len(line)
      /\ h \in 0 .. Len(line) /\ t \in Tokens /\ p < t
      /\ \A i \in Tokens : i \in Nat
      /\ \A i \in Tokens : i <= p \/ t <= i
      /\ \A i \in Tokens : i < t => Fault(i) = "none"
  BY TurnBegins
<1>2. /\ n \in Nat /\ n > 0 /\ q \in 0 .. Len(line) /\ Size(t) = n
      /\ Value(t) = NumberAt(line, h, n)
      /\ Boundary(q) /\ LastTo(t, q)
      /\ \A i \in Tokens : i <= p \/ i = t \/ q < i
      /\ IsByte(t) <=> n <= MaxByteDigits
      /\ CharBefore(t) = ":" <=> m = "set"
  BY NumberTurn
<1>3. /\ r.ok <=> n > 0 /\ n <= MaxByteDigits
      /\ r.ok => /\ r.value = NumberAt(line, h, n) /\ r.pos = q
                 /\ r.value \in Nat /\ r.value < Numbers(MaxByteDigits)
      /\ n > MaxByteDigits => r.error = "TooLong" /\ r.pos = h + MaxByteDigits
  BY <1>1, HexIs, ParserAssumption
<1>4. MaxByteDigits \in Nat
  BY ParserAssumption
<1>5. ASSUME r.ok
      PROVE  /\ Fits(r.pos, "stored")
             /\ NoFault => ReadingTo[r.pos] =
                              ReadingTo[p] \o <<Command("StoreContinuing", r.value)>>
  <2>1. IsByte(t) /\ ~(n > MaxByteDigits) /\ r.pos = q /\ r.value = Value(t)
    BY <1>2, <1>3, <1>4, <1>5
  <2>2. Fault(t) = "none"
    BY <1>1, <1>2, <2>1, FaultOfNumber
  <2>3. Meaning(t) = <<Command("StoreContinuing", r.value)>>
    BY <1>1, <2>1, MeaningIs
  <2>4. line[t] # ":" /\ line[t] # "."
    BY SignsAreNoDigits
  <2>5. p <= q /\ t <= q /\ \A i \in Tokens : p < i /\ i <= q => i = t
    BY <1>1, <1>2 DEF LastTo
  <2>6. \A i \in Tokens : p < i /\ i <= q => Fault(i) = "none" \/ Dangling(i)
    BY <2>2, <2>5
  <2> HIDE DEF n, t, q
  <2>7. Fits(q, "stored")
    BY <1>1, <1>2, <2>1, <2>4, <2>6, NextFits
  <2>8. NoFault => ReadingTo[q] = ReadingTo[p] \o Meaning(t)
    BY <1>1, <1>2, <2>5, ReadingNext
  <2> QED BY <2>1, <2>3, <2>7, <2>8
<1>6. ASSUME ~r.ok
      PROVE  n > MaxByteDigits /\ r.error = "TooLong" /\ r.pos = h + MaxByteDigits
  BY <1>2, <1>3, <1>4, <1>6
<1>7. ASSUME ~r.ok, m = "stored"
      PROVE  Fits(h, "default") /\ (NoFault => ReadingTo[h] = ReadingTo[p])
  <2>1. ~ShortNumber(h + 1)
    BY <1>2, <1>4, <1>6, <1>7 DEF ShortNumber
  <2>2. Fits(h, "default")
    BY <1>7, <2>1, ResumeFits
  <2>3. \A i \in Tokens : i <= p \/ h < i
    BY <1>1
  <2> QED BY <1>1, <2>2, <2>3, ReadingSame
<1>8. ASSUME ~r.ok, m = "set"
      PROVE  /\ r.error # "NoDigits" /\ FirstFault("ByteTooLong")
             /\ Points("ByteTooLong", r.pos + 1)
  <2>1. Fault(t) = "ByteTooLong"
    BY <1>1, <1>2, <1>6, <1>8, FaultOfNumber
  <2>2. Points("ByteTooLong", h + MaxByteDigits + 1)
    BY <1>1, <1>6, <1>8, PointsTooLong
  <2> QED BY <1>1, <1>6, <1>8, <2>1, <2>2 DEF FirstFault
<1> QED BY <1>3, <1>5, <1>7, <1>8

LEMMA DotTurn ==
  ASSUME line \in Seq(Chars), NEW p, NEW m, Fits(p, m),
         NEW h, h = SkipSpaces(line, p), h < Len(line), line[h + 1] = ".",
         NEW k, k = SkipSpaces(line, h + 1),
         NEW r, r = HexNumber(line, k, MaxAddressDigits)
  PROVE  /\ ~r.ok /\ r.error = "NoDigits" =>
               FirstFault("ExpectedAnAddress") /\ Points("ExpectedAnAddress", r.pos)
         /\ ~r.ok /\ r.error # "NoDigits" =>
               FirstFault("AddressTooLong") /\ Points("AddressTooLong", r.pos + 1)
         /\ r.ok => /\ Fits(r.pos, "default")
                    /\ r.value \in Nat /\ r.value < Addresses
                    /\ NoFault => ReadingTo[r.pos] =
                                     ReadingTo[p] \o <<Command("ExamineContinuing", r.value)>>
<1> DEFINE t == h + 1
           n == DigitsAt(line, k)
           u == k + 1
           q == k + n
<1>1. /\ Len(line) \in Nat /\ p \in Nat /\ h \in Nat /\ p <= h /\ p \in 0 .. Len(line)
      /\ h \in 0 .. Len(line) /\ t \in 0 .. Len(line) /\ t \in Tokens /\ p < t
      /\ \A i \in Tokens : i \in Nat
      /\ \A i \in Tokens : i <= p \/ t <= i
      /\ \A i \in Tokens : i < t => Fault(i) = "none"
  BY TurnBegins
<1>2. ~IsDigit(line[t]) /\ line[t] = "." /\ t \in Nat
  BY <1>1, SignsAreNoDigits
<1>3. Boundary(t)
  BY <1>1, <1>2, AfterSign
<1>4. /\ k \in 0 .. Len(line) /\ t <= k
      /\ \A i \in Tokens : i <= t \/ k < i
      /\ k < Len(line) => FirstBehind(u, t)
  BY <1>3, AtNext
<1>5. /\ n \in Nat
      /\ r.ok <=> n > 0 /\ n <= MaxAddressDigits
      /\ r.ok => /\ r.value = NumberAt(line, k, n) /\ r.pos = q
                 /\ r.value \in Nat /\ r.value < Addresses
      /\ n > MaxAddressDigits => r.error = "TooLong" /\ r.pos = k + MaxAddressDigits
      /\ n = 0 => r.error = "NoDigits" /\ r.pos = k
  BY <1>4, HexIs, ParserAssumption DEF Addresses
<1>6. /\ n \in 0 .. Len(line) - k
      /\ \A j \in k + 1 .. k + n : IsDigit(line[j])
      /\ k + n < Len(line) => ~IsDigit(line[k + n + 1])
  BY <1>4, DigitsIs
<1>7. MaxAddressDigits \in Nat
  BY ParserAssumption
<1>8. Fault(t) = IF IsDigit(CharAfter(t)) THEN "none" ELSE "ExpectedAnAddress"
  BY <1>1, <1>2, FaultOfSign
<1>9. CASE n = 0
  <2>1. r.error = "NoDigits" /\ r.pos = k /\ ~r.ok
    BY <1>5, <1>9
  <2>2. ~IsDigit(CharAfter(t))
    <3>1. CASE k < Len(line)
      <4>1. CharAfter(t) = line[u]
        BY <1>2, <1>4, <3>1, CharAfterIs
      <4>2. k + n + 1 = u /\ k + n < Len(line)
        BY <1>4, <1>9, <3>1
      <4> QED BY <1>6, <4>1, <4>2
    <3>2. CASE ~(k < Len(line))
      <4>1. \A i \in Tokens : ~(i > t)
        BY <1>1, <1>4, <3>2, TokensAre
      <4>2. CharAfter(t) = NoChar
        BY <4>1, CharAfterNone
      <4> QED BY <4>2, SignsAreNoDigits
    <3> QED BY <3>1, <3>2
  <2>3. FirstFault("ExpectedAnAddress")
    BY <1>1, <1>8, <2>2 DEF FirstFault
  <2>4. k < Len(line) => line[k + 1] # Space
    BY <1>1, SkipIs
  <2>5. Points("ExpectedAnAddress", k)
    BY <1>4, <2>4, PointsMissing
  <2> QED BY <2>1, <2>3, <2>5
<1>10. CASE n # 0
  <2>1. /\ k < Len(line) /\ n > 0 /\ k \in Nat /\ u \in Nat /\ IsDigit(line[u])
    <3>1. n > 0 /\ k < Len(line) /\ k \in Nat
      BY <1>1, <1>4, <1>5, <1>6, <1>10
    <3>2. u \in k + 1 .. k + n /\ u \in Nat
      BY <3>1, <1>5
    <3> QED BY <1>6, <3>1, <3>2
  <2>2. FirstBehind(u, t) /\ u \in Tokens /\ t < u
    BY <1>4, <2>1 DEF FirstBehind
  <2>3. CharAfter(t) = line[u]
    BY <1>2, <2>2, CharAfterIs
  <2>4. Fault(t) = "none"
    BY <1>8, <2>1, <2>3
  <2>5. LastTo(t, t)
    BY <1>1, <1>2 DEF LastTo
  <2>6. CharBefore(u) = "."
    BY <1>2, <2>2, <2>5, CharBeforeIs
  <2>7. ~IsByte(u)
    <3> SUFFICES ASSUME IsByte(u) PROVE FALSE
      OBVIOUS
    <3>1. PICK c \in Tokens : /\ c < u /\ line[c] = ":"
                              /\ \A j \in Tokens : c < j /\ j < u => ShortNumber(j)
      BY DEF IsByte
    <3>2. c # t /\ c \in Nat
      BY <1>1, <1>2, <3>1
    <3>3. c < t
      BY <1>1, <1>2, <1>4, <2>1, <3>1, <3>2
    <3>4. ShortNumber(t)
      BY <1>1, <2>2, <3>1, <3>3
    <3> QED BY <1>2, <3>4 DEF ShortNumber
  <2>8. Size(u) = n /\ Value(u) = NumberAt(line, k, n)
    <3>1. u - 1 = k
      BY <2>1
    <3> QED BY <3>1 DEF Size, Value
  <2>9. Fault(u) = IF n > MaxAddressDigits THEN "AddressTooLong" ELSE "none"
    BY <2>1, <2>2, <2>6, <2>7, <2>8, FaultOfNumber
  <2>10. ASSUME n > MaxAddressDigits
         PROVE  /\ ~r.ok /\ r.error # "NoDigits"
                /\ FirstFault("AddressTooLong") /\ Points("AddressTooLong", r.pos + 1)
    <3>1. ~r.ok /\ r.error = "TooLong" /\ r.pos = k + MaxAddressDigits
      BY <1>5, <1>7, <2>10
    <3>2. Points("AddressTooLong", k + MaxAddressDigits + 1)
      BY <1>4, <2>2, <2>10, PointsTooLong
    <3>3. ASSUME NEW i \in Tokens, i < u
          PROVE  Fault(i) = "none"
      <4>1. i < t \/ i = t
        BY <1>1, <1>2, <1>4, <2>1, <3>3
      <4> QED BY <1>1, <2>4, <4>1
    <3> QED BY <2>2, <2>9, <2>10, <3>1, <3>2, <3>3 DEF FirstFault
  <2>11. ASSUME ~(n > MaxAddressDigits)
         PROVE  /\ r.ok /\ Fits(r.pos, "default")
                /\ NoFault => ReadingTo[r.pos] =
                                 ReadingTo[p] \o <<Command("ExamineContinuing", r.value)>>
    <3>1. r.ok /\ r.pos = q /\ r.value = Value(u) /\ Fault(u) = "none"
      BY <1>5, <1>7, <2>1, <2>8, <2>9, <2>11
    <3>2. /\ n \in 1 .. Len(line) - k /\ Boundary(q)
          /\ \A i \in Tokens : i <= u \/ q < i
      BY <1>4, <2>1, AfterDigits
    <3>3. /\ q \in 0 .. Len(line) /\ q \in Nat /\ p <= q /\ u <= q /\ p < u
          /\ \A i \in Tokens : i <= p \/ i = t \/ i = u \/ q < i
      <4>1. /\ k \in Nat /\ n \in Nat /\ 1 <= n /\ k + n <= Len(line) /\ Len(line) \in Nat
            /\ p \in Nat /\ p < t /\ t <= k /\ t \in Nat
        BY <1>1, <1>2, <1>4, <2>1, <3>2
      <4>2. q \in 0 .. Len(line) /\ q \in Nat /\ p <= q /\ u <= q /\ p < u
        BY <4>1
      <4>3. ASSUME NEW i \in Tokens
            PROVE  i <= p \/ i = t \/ i = u \/ q < i
        <5>1. i \in Nat /\ (i <= p \/ t <= i) /\ (i <= t \/ k < i) /\ (i <= u \/ q < i)
          BY <1>1, <1>4, <3>2, <4>3
        <5> HIDE DEF q
        <5> QED BY <4>1, <5>1
      <4> QED BY <4>2, <4>3
    <3>4. LastTo(u, q)
      BY <2>2, <3>2, <3>3 DEF LastTo
    <3>5. line[u] # ":" /\ line[u] # "."
      BY <2>1, SignsAreNoDigits
    <3>6. ASSUME NEW i \in Tokens, p < i, i <= q
          PROVE  Fault(i) = "none" \/ Dangling(i)
      BY <1>1, <2>4, <3>1, <3>3, <3>6
    <3>7. Meaning(t) = <<Command("ExamineContinuing", r.value)>>
      BY <1>1, <1>2, <2>2, <3>1, MeaningIs
    <3>8. Meaning(u) = <<>>
      BY <2>1, <2>2, <2>6, <2>7, MeaningIs
    <3>9. /\ \A i \in Tokens : i <= p \/ i = t \/ t < i
          /\ \A i \in Tokens : i <= t \/ i = u \/ q < i
      BY <1>1, <1>2, <1>4, <2>1, <3>3
    <3> HIDE DEF t, n, u, q
    <3>10. Fits(q, "default")
      BY <2>7, <3>2, <3>3, <3>4, <3>5, <3>6, NextFits
    <3>11. ASSUME NoFault
           PROVE  ReadingTo[q] = ReadingTo[p] \o <<Command("ExamineContinuing", r.value)>>
      <4>1. t <= t
        BY <1>2
      <4>2. ReadingTo[t] = ReadingTo[p] \o Meaning(t)
        BY <1>1, <3>9, <3>11, <4>1, ReadingNext
      <4>3. ReadingTo[q] = ReadingTo[t] \o Meaning(u)
        BY <1>1, <2>2, <3>3, <3>9, <3>11, ReadingNext
      <4>4. ReadingTo[t] \in Seq(Commands)
        BY <1>1, <3>11, ReadingIs
      <4>5. ReadingTo[q] = ReadingTo[t]
        BY <3>8, <4>3, <4>4, ConcatEmptySeq
      <4> QED BY <3>7, <4>2, <4>5
    <3> QED BY <3>1, <3>10, <3>11
  <2> QED BY <1>5, <2>10, <2>11
<1> QED BY <1>9, <1>10

\* At the end all has been read, unless a colon is the last.
LEMMA EndTurn ==
  ASSUME line \in Seq(Chars), NEW p, NEW m, Fits(p, m),
         Len(line) = SkipSpaces(line, p)
  PROVE  /\ m = "set" => FirstFault("ExpectedAByte") /\ Points("ExpectedAByte", Len(line))
         /\ m # "set" => NoFault
         /\ NoFault => ReadingTo[p] = Reading
<1>1. Boundary(p) /\ Len(line) \in Nat /\ p \in 0 .. Len(line)
  BY DEF Fits, Boundary
<1>2. \A i \in Tokens : i <= p \/ Len(line) < i
  BY <1>1, AtNext
<1>3. \A i \in Tokens : i \in Nat /\ i <= p
  BY <1>2, TokensAre
<1>4. \A i \in Tokens : Fault(i) = "none" \/ Dangling(i)
  BY <1>3 DEF Fits
<1>5. ASSUME NEW i \in Tokens, Dangling(i)
      PROVE  LastTo(i, p) /\ m = "set"
  <2>1. ASSUME NEW j \in Tokens, i < j
        PROVE  FALSE
    <3>1. PICK u : FirstBehind(u, i)
      BY <1>3, <2>1, FirstExists
    <3> QED BY <1>3, <1>5, <3>1, CharAfterIs DEF Dangling
  <2>2. LastTo(i, p)
    BY <1>3, <2>1 DEF LastTo
  <2> QED BY <1>5, <2>2 DEF Fits, Dangling
<1>6. m # "set" => NoFault
  BY <1>4, <1>5 DEF NoFault
<1>7. ASSUME m = "set"
      PROVE  FirstFault("ExpectedAByte") /\ Points("ExpectedAByte", Len(line))
  <2>1. \E i \in Tokens : i <= p
    BY <1>1, <1>3, <1>7 DEF Fits
  <2>2. PICK i : LastTo(i, p)
    BY <1>1, <2>1, LastExists
  <2>3. line[i] = ":" /\ i \in Tokens /\ \A j \in Tokens : ~(j > i)
    BY <1>1, <1>3, <1>7, <2>2 DEF Fits, LastTo
  <2>4. CharAfter(i) = NoChar
    BY <2>3, CharAfterNone
  <2>5. Fault(i) = "ExpectedAByte"
    BY <2>3, <2>4, SignsAreNoDigits, FaultOfSign
  <2>6. ASSUME NEW j \in Tokens, j < i
        PROVE  Fault(j) = "none"
    <3>1. LastTo(j, p) => i <= j \/ p < i
      BY <2>3 DEF LastTo
    <3>2. i \in Nat /\ i <= p /\ j \in Nat
      BY <1>3, <2>3
    <3>3. ~LastTo(j, p)
      BY <1>1, <2>6, <3>1, <3>2
    <3> QED BY <1>4, <1>5, <3>3
  <2>7. FirstFault("ExpectedAByte")
    BY <2>3, <2>5, <2>6 DEF FirstFault
  <2>8. Points("ExpectedAByte", Len(line))
    BY <1>1, PointsMissing
  <2> QED BY <2>7, <2>8
<1>8. ASSUME NoFault
      PROVE  ReadingTo[p] = Reading
  <2>1. ReadingTo[Len(line)] = ReadingTo[p]
    BY <1>1, <1>2, <1>8, ReadingSame
  <2> QED BY <2>1 DEF Reading
<1> QED BY <1>6, <1>7, <1>8

-------------------------------------------------------------------------------
(* The inductive invariant.                                                 *)

\* Both passes of the parser, with what the second stops for.
Parsing == {"validate", "execute", "range", "away"}

Carrying == {"execute", "range", "away"}

Entries == [command: Commands, at: Nat]

Rows == [label: Nat, pad: Nat, cells: Seq(Nat)]

Kinds ==
    {"none", "ExpectedAByte", "ExpectedAnAddress", "UnexpectedCharacter", "ByteTooLong",
     "AddressTooLong"}

Types ==
    /\ TypeOK
    /\ phase = "edit" => pos = 0
    /\ outcome \in {"none", "abandoned", "device error", "exit", "ps", "refused", "ran"}
    /\ outcome # "none" => phase \in {"prompt", "left"}
    /\ error.kind \in Kinds
    /\ done \in Seq(Entries) /\ rows \in Seq(Rows)
    /\ entry[1] \in 0 .. Addresses - 1 /\ entry[2] \in 0 .. Addresses - 1

\* What is printed of a range: each byte in its column, each row behind the other.
RowOK(r) ==
    /\ rows[r].cells # <<>>
    /\ \A j \in DOMAIN rows[r].cells :
          /\ rows[r].cells[j] = rows[r].label + j - 1
          /\ rows[r].cells[j] % RowWidth = rows[r].pad + j - 1
    /\ r > 1 => rows[r].label = Last(rows[r - 1].cells) + 1

RowsOK ==
    /\ \A r \in DOMAIN rows : RowOK(r)
    /\ phase = "range" => examined <= last_address
    /\ rows # <<>> =>
          Last(rows[Len(rows)].cells) = IF phase = "range" THEN examined - 1 ELSE examined

Showing ==
    /\ phase = "edit" => row = <<PromptCell>> \o line
    /\ error.kind # "none" => phase = "prompt" /\ Points(error.kind, error.column)
    /\ RowsOK

\* What was carried out is what was read up to the parser's position, and nothing
\* is carried out of a line with a fault.
ReadSoFar ==
    /\ phase \in Parsing => Fits(pos, mode)
    /\ phase \in Carrying => NoFault /\ Carried = ReadingTo[pos]
    /\ phase \notin Carrying /\ outcome # "ran" => done = <<>>
    /\ outcome = "ran" => NoFault /\ Carried = Reading
    /\ outcome = "refused" => FirstFault(error.kind)
    /\ device_error => phase \in {"prompt", "edit"} /\ outcome # "ran"
    /\ phase = "away" => /\ done # <<>> /\ Last(done).command.op = "Run"
                         /\ Last(done).at % Alignment = 0

IInv == Types /\ AddressesContinue /\ Showing /\ ReadSoFar

-------------------------------------------------------------------------------
(* What a step does.                                                        *)

\* A command as the parser makes it.
Valued(c) ==
    /\ c \in Commands
    /\ IF c.op = "StoreContinuing" THEN c.value < Numbers(MaxByteDigits)
                                   ELSE c.value < Addresses

Advances(p, m) == pos' = p /\ mode' = m /\ Fits(p, m)

TurnFinds ==
    \E p, m, c : /\ Advances(p, m) /\ Valued(c) /\ Found(c)
                 /\ NoFault => ReadingTo[p] = ReadingTo[pos] \o <<c>>

TurnFindsNothing ==
    \E p, m : /\ Advances(p, m) /\ FoundNothing
              /\ NoFault => ReadingTo[p] = ReadingTo[pos]

TurnFails == \E kind, column : Fail(kind, column) /\ FirstFault(kind) /\ Points(kind, column)

PassEnds ==
    /\ NoFault /\ ReadingTo[pos] = Reading
    /\ UNCHANGED <<editor, error, addresses, printed, history>>
    /\ \/ /\ phase = "validate" /\ phase' = "execute" /\ UNCHANGED outcome
          /\ Advances(0, "default")
       \/ /\ phase = "execute" /\ phase' = "prompt" /\ outcome' = "ran"
          /\ pos' \in 0 .. Len(line) /\ mode' = mode

LEMMA HereIs ==
  ASSUME line \in Seq(Chars), Fits(pos, mode), NEW c, c # NoChar, Peek(line, Here) = c
  PROVE  Here < Len(line) /\ line[Here + 1] = c
<1> DEFINE h == Here
<1>1. Boundary(pos) /\ h = SkipSpaces(line, pos)
  BY DEF Fits, Here
<1> HIDE DEF h
<1>2. h \in 0 .. Len(line)
  BY <1>1, AtNext
<1>3. h < Len(line) /\ line[h + 1] = c
  BY <1>2, PeekIs DEF h
<1> QED BY <1>3 DEF h

LEMMA DigitHere ==
  ASSUME line \in Seq(Chars), Fits(pos, mode), AtDigit
  PROVE  Here < Len(line) /\ IsDigit(line[Here + 1])
<1>1. IsDigit(Peek(line, Here)) /\ Peek(line, Here) # NoChar
  BY SignsAreNoDigits DEF AtDigit
<1> QED BY <1>1, HereIs

LEMMA TurnIs ==
  ASSUME Types, phase \in Parsing => Fits(pos, mode),
         Dot \/ Colon \/ RunSign \/ Unexpected \/ Address \/ Byte \/ End
  PROVE  /\ phase \in {"validate", "execute"}
         /\ TurnFinds \/ TurnFindsNothing \/ TurnFails \/ PassEnds
<1>1. phase \in {"validate", "execute"}
  BY DEF Dot, Colon, RunSign, Unexpected, Address, Byte, End, AtChar, AtDigit
<1>2. line \in Seq(Chars) /\ Fits(pos, mode) /\ Here = SkipSpaces(line, pos)
  BY <1>1 DEF Types, TypeOK, Parsing, Here
<1>3. CASE Dot
  <2> DEFINE k == SkipSpaces(line, Here + 1)
             r == HexNumber(line, k, MaxAddressDigits)
  <2>1. Here < Len(line) /\ line[Here + 1] = "."
    BY <1>2, <1>3, HereIs DEF Dot, AtChar, NoChar
  <2>2. /\ ~r.ok /\ r.error = "NoDigits" =>
              FirstFault("ExpectedAnAddress") /\ Points("ExpectedAnAddress", r.pos)
        /\ ~r.ok /\ r.error # "NoDigits" =>
              FirstFault("AddressTooLong") /\ Points("AddressTooLong", r.pos + 1)
        /\ r.ok => /\ Fits(r.pos, "default")
                   /\ r.value \in Nat /\ r.value < Addresses
                   /\ NoFault => ReadingTo[r.pos] =
                                    ReadingTo[pos] \o <<Command("ExamineContinuing", r.value)>>
    BY <1>2, <2>1, DotTurn
  <2>3. \/ ~r.ok /\ FailAddress(r)
        \/ /\ r.ok
           /\ pos' = r.pos /\ mode' = "default"
           /\ Found(Command("ExamineContinuing", r.value))
    BY <1>3 DEF Dot
  <2> HIDE DEF k, r
  <2>4. CASE ~r.ok
    <3>1. TurnFails
      BY <2>2, <2>3, <2>4 DEF FailAddress, FailNumber, TurnFails
    <3> QED BY <1>1, <3>1
  <2>5. CASE r.ok
    <3> DEFINE c == Command("ExamineContinuing", r.value)
    <3>1. Valued(c)
      BY <2>2, <2>5 DEF Valued, Command, Commands, Ops
    <3>2. TurnFinds
      BY <2>2, <2>3, <2>5, <3>1 DEF TurnFinds, Advances
    <3> QED BY <1>1, <3>2
  <2> QED BY <2>4, <2>5
<1>4. CASE Colon
  <2>1. Here < Len(line) /\ line[Here + 1] = ":"
    BY <1>2, <1>4, HereIs DEF Colon, AtChar, NoChar
  <2>2. Fits(Here + 1, "set") /\ (NoFault => ReadingTo[Here + 1] = ReadingTo[pos])
    BY <1>2, <2>1, ColonTurn
  <2>3. pos' = Here + 1 /\ mode' = "set" /\ FoundNothing
    BY <1>4 DEF Colon
  <2>4. TurnFindsNothing
    BY <2>2, <2>3 DEF TurnFindsNothing, Advances
  <2> QED BY <1>1, <2>4
<1>5. CASE RunSign
  <2>1. Here < Len(line) /\ line[Here + 1] = "R"
    BY <1>2, <1>5, HereIs DEF RunSign, AtChar, NoChar
  <2>2. /\ Fits(Here + 1, "default")
        /\ NoFault => ReadingTo[Here + 1] = ReadingTo[pos] \o <<Command("Run", 0)>>
    BY <1>2, <2>1, RunTurn
  <2>3. pos' = Here + 1 /\ mode' = "default" /\ Found(Command("Run", 0))
    BY <1>5 DEF RunSign
  <2>4. Valued(Command("Run", 0))
    BY AddressesPositive DEF Valued, Command, Commands, Ops
  <2>5. TurnFinds
    BY <2>2, <2>3, <2>4 DEF TurnFinds, Advances
  <2> QED BY <1>1, <2>5
<1>6. CASE Unexpected
  <2>1. PICK c \in Chars \ {Space} : AtChar(c) /\ ~IsDigit(c) /\ ~IsInstruction(c)
    BY <1>6 DEF Unexpected
  <2>2. c # NoChar
    BY MonitorAssumption
  <2>3. Here < Len(line) /\ line[Here + 1] = c
    BY <1>2, <2>1, <2>2, HereIs DEF AtChar
  <2>4. FirstFault("UnexpectedCharacter") /\ Points("UnexpectedCharacter", Here + 1)
    BY <1>2, <2>1, <2>3, UnexpectedTurn
  <2>5. Fail("UnexpectedCharacter", Here + 1)
    BY <1>6 DEF Unexpected
  <2>6. TurnFails
    BY <2>4, <2>5 DEF TurnFails
  <2> QED BY <1>1, <2>6
<1>7. CASE Address
  <2> DEFINE r == HexNumber(line, Here, MaxAddressDigits)
             after == SkipSpaces(line, r.pos)
             c == Command(IF IsInstruction(Peek(line, after)) THEN "SetAddress"
                                                              ELSE "ExamineOne", r.value)
  <2>1. Here < Len(line) /\ IsDigit(line[Here + 1]) /\ mode = "default"
    BY <1>2, <1>7, DigitHere DEF Address
  <2>2. /\ ~r.ok => /\ r.error # "NoDigits"
                    /\ FirstFault("AddressTooLong") /\ Points("AddressTooLong", r.pos + 1)
        /\ r.ok => /\ Fits(after, "default")
                   /\ r.value \in Nat /\ r.value < Addresses
                   /\ NoFault => ReadingTo[after] = ReadingTo[pos] \o <<c>>
    BY <1>2, <2>1, AddressTurn
  <2>3. \/ ~r.ok /\ FailAddress(r)
        \/ r.ok /\ pos' = after /\ mode' = "default" /\ Found(c)
    BY <1>7, <2>1 DEF Address
  <2> HIDE DEF r, after
  <2>4. CASE ~r.ok
    <3>1. TurnFails
      BY <2>2, <2>3, <2>4 DEF FailAddress, FailNumber, TurnFails
    <3> QED BY <1>1, <3>1
  <2>5. CASE r.ok
    <3>1. Valued(c)
      BY <2>2, <2>5 DEF Valued, Command, Commands, Ops
    <3> HIDE DEF c
    <3>2. TurnFinds
      BY <2>2, <2>3, <2>5, <3>1 DEF TurnFinds, Advances
    <3> QED BY <1>1, <3>2
  <2> QED BY <2>4, <2>5
<1>8. CASE Byte
  <2> DEFINE r == HexNumber(line, Here, MaxByteDigits)
             c == Command("StoreContinuing", r.value)
  <2>1. Here < Len(line) /\ IsDigit(line[Here + 1]) /\ mode \in {"set", "stored"}
    BY <1>2, <1>8, DigitHere DEF Byte, Fits
  <2>2. /\ r.ok => /\ Fits(r.pos, "stored")
                   /\ r.value \in Nat /\ r.value < Numbers(MaxByteDigits)
                   /\ NoFault => ReadingTo[r.pos] = ReadingTo[pos] \o <<c>>
        /\ ~r.ok /\ mode = "stored" => /\ Fits(Here, "default")
                                       /\ NoFault => ReadingTo[Here] = ReadingTo[pos]
        /\ ~r.ok /\ mode = "set" => /\ r.error # "NoDigits" /\ FirstFault("ByteTooLong")
                                    /\ Points("ByteTooLong", r.pos + 1)
    BY <1>2, <2>1, ByteTurn
  <2>3. \/ r.ok /\ pos' = r.pos /\ mode' = "stored" /\ Found(c)
        \/ ~r.ok /\ mode = "stored" /\ pos' = Here /\ mode' = "default" /\ FoundNothing
        \/ ~r.ok /\ mode = "set" /\ FailNumber(r, "ExpectedAByte", "ByteTooLong")
    BY <1>8 DEF Byte, Resume
  <2> HIDE DEF r
  <2>4. CASE r.ok
    <3>1. Valued(c)
      BY <2>2, <2>4 DEF Valued, Command, Commands, Ops
    <3> HIDE DEF c
    <3>2. TurnFinds
      BY <2>2, <2>3, <2>4, <3>1 DEF TurnFinds, Advances
    <3> QED BY <1>1, <3>2
  <2>5. CASE ~r.ok /\ mode = "stored"
    <3>1. TurnFindsNothing
      BY <2>2, <2>3, <2>5 DEF TurnFindsNothing, Advances
    <3> QED BY <1>1, <3>1
  <2>6. CASE ~r.ok /\ mode = "set"
    <3>1. TurnFails
      BY <2>2, <2>3, <2>6 DEF FailNumber, TurnFails
    <3> QED BY <1>1, <3>1
  <2> QED BY <2>1, <2>4, <2>5, <2>6
<1>9. CASE End
  <2> DEFINE h == Here
  <2>1. Boundary(pos) /\ h = SkipSpaces(line, pos) /\ Peek(line, h) = NoChar
    BY <1>2, <1>9 DEF Fits, End, AtChar
  <2> HIDE DEF h
  <2>2. h \in 0 .. Len(line)
    BY <1>2, <2>1, AtNext
  <2>3. h = Len(line)
    BY <1>2, <2>1, <2>2, PeekIs
  <2>4. /\ mode = "set" => FirstFault("ExpectedAByte") /\ Points("ExpectedAByte", h)
        /\ mode # "set" => NoFault
        /\ NoFault => ReadingTo[pos] = Reading
    <3>1. Len(line) = SkipSpaces(line, pos)
      BY <2>1, <2>3
    <3>2. /\ mode = "set" =>
                FirstFault("ExpectedAByte") /\ Points("ExpectedAByte", Len(line))
          /\ mode # "set" => NoFault
          /\ NoFault => ReadingTo[pos] = Reading
      BY <1>2, <3>1, EndTurn
    <3> QED BY <2>3, <3>2
  <2>5. CASE mode = "set"
    <3>1. Fail("ExpectedAByte", h)
      BY <1>9, <2>5 DEF End, h
    <3>2. TurnFails
      BY <2>4, <2>5, <3>1 DEF TurnFails
    <3> QED BY <1>1, <3>2
  <2>6. CASE mode # "set"
    <3>1. Fits(0, "default")
      BY <1>2, FitsFirst
    <3>2. PassEnds
      BY <1>9, <2>2, <2>4, <2>6, <3>1 DEF End, PassEnds, Advances, h
    <3> QED BY <1>1, <3>2
  <2> QED BY <2>5, <2>6
<1> QED BY <1>3, <1>4, <1>5, <1>6, <1>7, <1>8, <1>9

\* What is said of a line stays said while the line stays.
LEMMA SameLine ==
  ASSUME line' = line
  PROVE  /\ Reading' = Reading /\ ReadingTo' = ReadingTo
         /\ NoFault' <=> NoFault
         /\ \A p, m : Fits(p, m)' <=> Fits(p, m)
         /\ \A kind : FirstFault(kind)' <=> FirstFault(kind)
         /\ \A kind, column : Points(kind, column)' <=> Points(kind, column)
<1>1. Tokens' = Tokens
  BY DEF Tokens
<1>2. \A i : Size(i)' = Size(i) /\ Value(i)' = Value(i)
  BY DEF Size, Value
<1>3. \A i : CharBefore(i)' = CharBefore(i) /\ CharAfter(i)' = CharAfter(i)
  BY <1>1 DEF CharBefore, CharAfter
<1>4. \A i : ShortNumber(i)' <=> ShortNumber(i)
  BY <1>2 DEF ShortNumber
<1>5. \A i : IsByte(i)' <=> IsByte(i)
  BY <1>1, <1>4 DEF IsByte
<1>6. \A i : Fault(i)' = Fault(i)
  BY <1>2, <1>3, <1>5 DEF Fault
<1>7. \A i : Meaning(i)' = Meaning(i)
  BY <1>1, <1>2, <1>3, <1>5 DEF Meaning
<1>8. ReadingTo' = ReadingTo
  BY <1>1, <1>7 DEF ReadingTo
<1>9. Reading' = Reading
  BY <1>8 DEF Reading
<1>10. NoFault' <=> NoFault
  BY <1>1, <1>6 DEF NoFault
<1>11. \A p : Boundary(p)' <=> Boundary(p)
  BY DEF Boundary
<1>12. \A i, p : (FirstBehind(i, p)' <=> FirstBehind(i, p)) /\ (LastTo(i, p)' <=> LastTo(i, p))
  BY <1>1 DEF FirstBehind, LastTo
<1>13. \A i : Dangling(i)' <=> Dangling(i)
  BY <1>3 DEF Dangling
<1>14. \A p, m : Fits(p, m)' <=> Fits(p, m)
  BY <1>1, <1>5, <1>6, <1>11, <1>12, <1>13 DEF Fits
<1>15. \A kind : FirstFault(kind)' <=> FirstFault(kind)
  BY <1>1, <1>6 DEF FirstFault
<1>16. \A kind, column : Points(kind, column)' <=> Points(kind, column)
  BY DEF Points
<1> QED BY <1>8, <1>9, <1>10, <1>14, <1>15, <1>16

LEMMA SuccIs ==
  ASSUME NEW a \in Nat
  PROVE  Succ(a) \in 0 .. Addresses - 1 /\ (a + 1 < Addresses => Succ(a) = a + 1)
BY AddressesPositive DEF Succ

CarriedOut(c) ==
    /\ done' = Append(done, [command |-> c,
                             at |-> IF c.op = "Run" THEN last_address ELSE next_address])
    /\ entry' = entry
    /\ last_address' = IF c.op \in {"Run", "StoreContinuing"} THEN last_address ELSE c.value
    /\ next_address' = IF c.op = "Run" THEN next_address
                       ELSE IF c.op = "SetAddress" THEN c.value
                       ELSE IF c.op = "StoreContinuing" THEN Succ(next_address)
                       ELSE Succ(c.value)
    /\ \/ UNCHANGED <<phase, printed>>
       \/ /\ c.op = "Run" /\ last_address % Alignment = 0
          /\ phase' = "away" /\ UNCHANGED printed
       \/ /\ c.op = "ExamineContinuing" /\ next_address <= c.value
          /\ phase' = "range" /\ examined' = next_address /\ rows' = <<>>

LEMMA CarryOutIs ==
  ASSUME NEW c \in Commands, CarryOut(c), next_address \in Nat
  PROVE  CarriedOut(c)
<1>1. c.op \in Ops /\ c.value \in Nat
  BY DEF Commands
<1>2. /\ done' = Append(done, [command |-> c,
                               at |-> IF c.op = "Run" THEN last_address ELSE next_address])
      /\ entry' = entry
  BY DEF CarryOut
<1>3. CASE c.op = "SetAddress"
  <2>1. SetAddress(c.value)
    BY <1>3 DEF CarryOut
  <2> QED BY <1>2, <1>3, <2>1 DEF SetAddress, CarriedOut
<1>4. CASE c.op = "ExamineOne"
  <2>1. ExamineOne(c.value)
    BY <1>4 DEF CarryOut
  <2> QED BY <1>2, <1>4, <2>1 DEF ExamineOne, CarriedOut
<1>5. CASE c.op = "ExamineContinuing"
  <2>1. ExamineContinuing(c.value)
    BY <1>5 DEF CarryOut
  <2> QED BY <1>1, <1>2, <1>5, <2>1 DEF ExamineContinuing, CarriedOut
<1>6. CASE c.op = "StoreContinuing"
  <2>1. StoreContinuing(c.value)
    BY <1>6 DEF CarryOut
  <2> QED BY <1>2, <1>6, <2>1 DEF StoreContinuing, CarriedOut, printed
<1>7. CASE c.op = "Run"
  <2>1. Run
    BY <1>7 DEF CarryOut
  <2> QED BY <1>2, <1>7, <2>1 DEF Run, CarriedOut, addresses
<1> QED BY <1>1, <1>3, <1>4, <1>5, <1>6, <1>7 DEF Ops

LEMMA AddressesTyped ==
  ASSUME Types
  PROVE  /\ last_address \in Nat /\ last_address < Addresses
         /\ next_address \in Nat /\ next_address < Addresses
         /\ examined \in Nat /\ examined < Addresses
<1> DEFINE top == Addresses
<1>1. top \in Nat \ {0}
  BY AddressesPositive
<1>2. {last_address, next_address, examined} \subseteq 0 .. top - 1
  BY DEF Types, TypeOK
<1> HIDE DEF top
<1>3. last_address \in 0 .. top - 1 /\ next_address \in 0 .. top - 1 /\ examined \in 0 .. top - 1
  BY <1>2
<1> QED BY <1>1, <1>3 DEF top

LEMMA FoundIs ==
  ASSUME NEW c, Valued(c), Found(c), Types, phase \in {"validate", "execute"}
  PROVE  /\ UNCHANGED <<line, device_error, row, outcome, error>>
         /\ \/ phase = "validate" /\ UNCHANGED <<phase, addresses, printed, history>>
            \/ phase = "execute" /\ CarriedOut(c)
<1>1. next_address \in Nat /\ c \in Commands
  BY AddressesTyped DEF Valued
<1>2. UNCHANGED <<line, device_error, row, outcome, error>>
  BY DEF Found, editor
<1>3. CASE phase = "validate"
  BY <1>2, <1>3 DEF Found
<1>4. CASE phase = "execute"
  <2>1. CarryOut(c)
    BY <1>4 DEF Found
  <2> QED BY <1>1, <1>2, <1>4, <2>1, CarryOutIs
<1> QED BY <1>3, <1>4

-------------------------------------------------------------------------------
(* Every step keeps the types.                                              *)

TurnStep == Dot \/ Colon \/ RunSign \/ Unexpected \/ Address \/ Byte \/ End

LEMMA FrontIs ==
  ASSUME NEW S, NEW s \in Seq(S), s # <<>>
  PROVE  /\ Front(s) \in Seq(S) /\ Len(Front(s)) = Len(s) - 1 /\ Len(s) > 0
         /\ \A k \in 1 .. Len(s) - 1 : Front(s)[k] = s[k]
<1> DEFINE n == Len(s) - 1
<1>1. Len(s) \in Nat /\ Len(s) > 0 /\ Len(s) = n + 1 /\ n \in Nat
  BY EmptySeq
<1>2. Front(s) = SubSeq(s, 1, n)
  BY DEF Front
<1> HIDE DEF n
<1>3. \A k \in 1 .. n : s[k] \in S
  BY <1>1
<1>4. /\ SubSeq(s, 1, n) \in Seq(S) /\ Len(SubSeq(s, 1, n)) = n
      /\ \A k \in 1 .. n : SubSeq(s, 1, n)[k] = s[k]
  BY <1>1, <1>3
<1> QED BY <1>1, <1>2, <1>4 DEF n

\* What is behind the first cell is erased like the line itself.
LEMMA FrontBehind ==
  ASSUME NEW S, NEW x \in S, NEW s \in Seq(S), s # <<>>
  PROVE  Front(<<x>> \o s) = <<x>> \o Front(s)
<1> DEFINE n == Len(s)
           t == <<x>> \o s
           f == Front(s)
           g == Front(t)
           u == <<x>> \o f
<1>1. /\ f \in Seq(S) /\ Len(f) = n - 1 /\ n > 0 /\ n \in Nat
      /\ \A k \in 1 .. n - 1 : f[k] = s[k]
  BY FrontIs
<1>2. <<x>> \in Seq(S) /\ Len(<<x>>) = 1
  OBVIOUS
<1>3. t \in Seq(S) /\ Len(t) = n + 1 /\ t[1] = x /\ \A k \in 1 .. n : t[k + 1] = s[k]
  BY <1>2
<1> HIDE DEF f
<1>4. u \in Seq(S) /\ Len(u) = n /\ u[1] = x /\ \A k \in 1 .. n - 1 : u[k + 1] = f[k]
  BY <1>1, <1>2
<1> HIDE DEF t, u, n
<1>5. t # <<>>
  BY <1>1, <1>3
<1>6. g \in Seq(S) /\ Len(g) = n /\ \A k \in 1 .. n : g[k] = t[k]
  <2>1. /\ Front(t) \in Seq(S) /\ Len(Front(t)) = Len(t) - 1
        /\ \A k \in 1 .. Len(t) - 1 : Front(t)[k] = t[k]
    BY <1>3, <1>5, FrontIs
  <2>2. Len(t) - 1 = n
    BY <1>1, <1>3
  <2> QED BY <2>1, <2>2
<1> HIDE DEF g
<1>7. ASSUME NEW k \in 1 .. n
      PROVE  g[k] = u[k]
  <2>1. CASE k = 1
    BY <1>3, <1>4, <1>6, <2>1
  <2>2. CASE k # 1
    <3>1. k - 1 \in 1 .. n - 1 /\ k - 1 \in 1 .. n /\ (k - 1) + 1 = k
      BY <1>1, <2>2
    <3> DEFINE j == k - 1
    <3>2. g[k] = t[k]
      BY <1>6
    <3>3. t[j + 1] = s[j] /\ u[j + 1] = f[j] /\ f[j] = s[j]
      BY <1>1, <1>3, <1>4, <3>1
    <3> QED BY <3>1, <3>2, <3>3
  <2> QED BY <2>1, <2>2
<1>8. g = u
  BY <1>4, <1>6, <1>7, SeqEqual
<1> QED BY <1>8 DEF f, g, t, u

LEMMA KeyIs ==
  ASSUME line \in Seq(Chars), Len(line) <= Capacity, Key
  PROVE  /\ phase = "edit"
         /\ line' \in Seq(Chars) /\ Len(line') <= Capacity
         /\ row = <<PromptCell>> \o line => row' = <<PromptCell>> \o line'
         /\ UNCHANGED <<phase, outcome, error, parser, addresses, printed, history>>
<1>1. /\ phase = "edit"
      /\ UNCHANGED <<phase, outcome, error, parser, addresses, printed, history>>
  BY DEF Key
<1>2. \/ UNCHANGED <<line, row>>
      \/ \E c \in Chars : Len(line) < Capacity /\ line' = Append(line, c) /\ row' = Append(row, c)
      \/ line # <<>> /\ line' = Front(line) /\ row' = Front(row)
  BY DEF Key, TypeChar, Backspace, NonPrintable, CanErase, Echo, Erase
<1>3. Len(line) \in Nat /\ Capacity \in Nat
  BY EditorAssumption
<1> DEFINE shown == <<PromptCell>> \o line
           Cells == Chars \cup {PromptCell}
<1>4. shown \in Seq(Cells) /\ Len(shown) = Len(line) + 1 /\ line \in Seq(Cells)
  BY ShownIs
<1>5. ASSUME NEW c \in Chars, Len(line) < Capacity, line' = Append(line, c), row' = Append(row, c)
      PROVE  /\ line' \in Seq(Chars) /\ Len(line') <= Capacity
             /\ row = shown => row' = <<PromptCell>> \o line'
  <2>1. line' \in Seq(Chars) /\ Len(line') <= Capacity
    BY <1>3, <1>5
  <2>2. Append(<<PromptCell>> \o line, c) = <<PromptCell>> \o Append(line, c)
    OBVIOUS
  <2> QED BY <1>5, <2>1, <2>2
<1>6. ASSUME line # <<>>, line' = Front(line), row' = Front(row)
      PROVE  /\ line' \in Seq(Chars) /\ Len(line') <= Capacity
             /\ row = shown => row' = <<PromptCell>> \o line'
  <2>1. Front(line) \in Seq(Chars) /\ Len(Front(line)) = Len(line) - 1
    BY <1>6, FrontIs
  <2>2. Front(shown) = <<PromptCell>> \o Front(line)
    BY <1>4, <1>6, FrontBehind
  <2> DEFINE f == Front(line)
  <2> HIDE DEF f, shown
  <2>3. line' \in Seq(Chars) /\ Len(line') <= Capacity
    BY <1>3, <1>6, <2>1 DEF f
  <2>4. row = shown => row' = <<PromptCell>> \o line'
    BY <1>6, <2>2
  <2> QED BY <2>3, <2>4
<1> QED BY <1>1, <1>2, <1>5, <1>6

\* What ends a line that is typed.
Ends ==
    /\ phase = "edit"
    /\ UNCHANGED <<line, error, addresses, printed, history>>
    /\ \/ /\ outcome' \in {"abandoned", "device error", "ps"} /\ phase' = "prompt"
          /\ UNCHANGED parser
       \/ /\ outcome' = "exit" /\ phase' = "left" /\ device_error' = FALSE
          /\ UNCHANGED parser
       \/ /\ phase' = "validate" /\ pos' = 0 /\ mode' = "default" /\ device_error' = FALSE
          /\ UNCHANGED outcome

LEMMA EndsIs ==
  ASSUME Escape \/ Enter
  PROVE  Ends
<1>1. CASE Escape
  BY <1>1 DEF Escape, Abandon, EndsLine, Ends, parser, addresses, printed, history
<1>2. CASE Enter
  <2>1. /\ phase = "edit" /\ line' = line
        /\ device_error' \in BOOLEAN
    BY <1>2 DEF Enter, Submit, Flagged
  <2>2. \/ device_error' /\ phase' = "prompt" /\ EndsLine("device error")
        \/ ~device_error' /\ phase' = "left" /\ EndsLine("exit")
        \/ ~device_error' /\ phase' = "prompt" /\ EndsLine("ps")
        \/ /\ ~device_error' /\ phase' = "validate" /\ pos' = 0 /\ mode' = "default"
           /\ UNCHANGED <<outcome, error, addresses, printed, history>>
    BY <1>2 DEF Enter
  <2> QED BY <2>1, <2>2 DEF EndsLine, Ends
<1> QED BY <1>1, <1>2

\* Whether a byte that is stored is one.
Stored(e) == e.command.op = "StoreContinuing" => e.command.value < Numbers(MaxByteDigits)

LEMMA AddressSet ==
  ASSUME NEW a, NEW b, NEW c
  PROVE  {a, b, c} \subseteq 0 .. Addresses - 1 <=>
            /\ a \in 0 .. Addresses - 1 /\ b \in 0 .. Addresses - 1 /\ c \in 0 .. Addresses - 1
<1> DEFINE all == 0 .. Addresses - 1
<1> HIDE DEF all
<1>1. {a, b, c} \subseteq all <=> a \in all /\ b \in all /\ c \in all
  OBVIOUS
<1> QED BY <1>1 DEF all

\* The types, each apart from the others.
LEMMA TypesAre ==
  Types <=>
    /\ line \in Seq(Chars) /\ Len(line) <= Capacity
    /\ phase \in {"prompt", "edit", "validate", "execute", "range", "away", "left"}
    /\ pos \in 0 .. Len(line) /\ mode \in {"default", "set", "stored"}
    /\ last_address \in 0 .. Addresses - 1 /\ next_address \in 0 .. Addresses - 1
    /\ examined \in 0 .. Addresses - 1
    /\ \A k \in DOMAIN done : Stored(done[k])
    /\ phase = "edit" => pos = 0
    /\ outcome \in {"none", "abandoned", "device error", "exit", "ps", "refused", "ran"}
    /\ outcome # "none" => phase \in {"prompt", "left"}
    /\ error.kind \in Kinds
    /\ done \in Seq(Entries) /\ rows \in Seq(Rows)
    /\ entry[1] \in 0 .. Addresses - 1 /\ entry[2] \in 0 .. Addresses - 1
<1>1. {last_address, next_address, examined} \subseteq 0 .. Addresses - 1 <=>
        /\ last_address \in 0 .. Addresses - 1 /\ next_address \in 0 .. Addresses - 1
        /\ examined \in 0 .. Addresses - 1
  BY AddressSet
<1> QED BY <1>1 DEF Types, TypeOK, Stored

LEMMA TypesAreNext ==
  Types' <=>
    /\ line' \in Seq(Chars) /\ Len(line') <= Capacity
    /\ phase' \in {"prompt", "edit", "validate", "execute", "range", "away", "left"}
    /\ pos' \in 0 .. Len(line') /\ mode' \in {"default", "set", "stored"}
    /\ last_address' \in 0 .. Addresses - 1 /\ next_address' \in 0 .. Addresses - 1
    /\ examined' \in 0 .. Addresses - 1
    /\ \A k \in DOMAIN done' : Stored(done'[k])
    /\ phase' = "edit" => pos' = 0
    /\ outcome' \in {"none", "abandoned", "device error", "exit", "ps", "refused", "ran"}
    /\ outcome' # "none" => phase' \in {"prompt", "left"}
    /\ error.kind' \in Kinds
    /\ done' \in Seq(Entries) /\ rows' \in Seq(Rows)
    /\ entry'[1] \in 0 .. Addresses - 1 /\ entry'[2] \in 0 .. Addresses - 1
<1>1. {last_address', next_address', examined'} \subseteq 0 .. Addresses - 1 <=>
        /\ last_address' \in 0 .. Addresses - 1 /\ next_address' \in 0 .. Addresses - 1
        /\ examined' \in 0 .. Addresses - 1
  BY AddressSet
<1> QED BY <1>1 DEF Types, TypeOK, Stored, Addresses, Numbers, Kinds, Entries, Rows

LEMMA PromptTypes ==
  ASSUME Types, PromptLine
  PROVE  Types'
<1>1. /\ line' = <<>> /\ phase' = "edit" /\ outcome' = "none" /\ error' = NoError
      /\ pos' = 0 /\ mode' = "default" /\ examined' = 0 /\ rows' = <<>> /\ done' = <<>>
      /\ entry' = <<last_address, next_address>>
      /\ UNCHANGED <<last_address, next_address>>
  BY DEF PromptLine, Prompt, addresses
<1>2. 0 \in 0 .. Addresses - 1
  BY AddressesPositive
<1>3. line' \in Seq(Chars) /\ Len(line') = 0 /\ Len(line') <= Capacity
  BY <1>1, EditorAssumption
<1>4. error.kind' \in Kinds
  BY <1>1 DEF NoError, Kinds
<1>5. entry'[1] = last_address /\ entry'[2] = next_address
  BY <1>1
<1>6. done' \in Seq(Entries) /\ rows' \in Seq(Rows) /\ \A k \in DOMAIN done' : Stored(done'[k])
  BY <1>1
<1>7. pos' \in 0 .. Len(line')
  BY <1>1, <1>3
<1>8. last_address \in 0 .. Addresses - 1 /\ next_address \in 0 .. Addresses - 1
  BY TypesAre
<1> QED BY <1>1, <1>2, <1>3, <1>4, <1>5, <1>6, <1>7, <1>8, TypesAreNext

LEMMA KeyTypes ==
  ASSUME Types, Key
  PROVE  Types'
<1>1. line \in Seq(Chars) /\ Len(line) <= Capacity
  BY TypesAre
<1>2. /\ phase = "edit" /\ line' \in Seq(Chars) /\ Len(line') <= Capacity
      /\ UNCHANGED <<phase, outcome, error, parser, addresses, printed, history>>
  BY <1>1, KeyIs
<1>3. UNCHANGED <<phase, outcome, error, pos, mode, last_address, next_address, examined, rows,
                  done, entry>>
  BY <1>2 DEF parser, addresses, printed, history
<1>4. pos = 0
  BY <1>2 DEF Types
<1>5. 0 \in 0 .. Len(line')
  BY <1>2
<1> QED BY <1>2, <1>3, <1>4, <1>5, TypesAre, TypesAreNext

LEMMA EndsTypes ==
  ASSUME Types, Ends
  PROVE  Types'
<1>1. UNCHANGED <<line, error, last_address, next_address, examined, rows, done, entry>>
  BY DEF Ends, addresses, printed, history
<1>2. /\ phase' \in {"prompt", "left", "validate"}
      /\ \/ /\ outcome' \in {"abandoned", "device error", "ps", "exit"}
            /\ phase' \in {"prompt", "left"}
         \/ (outcome' = outcome /\ phase = "edit")
      /\ (pos' = 0 /\ mode' = "default") \/ (pos' = pos /\ mode' = mode)
  BY DEF Ends, parser
<1>3. line \in Seq(Chars)
  BY TypesAre
<1>4. 0 \in 0 .. Len(line)
  BY <1>3
<1> QED BY <1>1, <1>2, <1>4, TypesAre, TypesAreNext

\* The entry that carrying a command out leaves in the history.
Entry(c) == [command |-> c, at |-> IF c.op = "Run" THEN last_address ELSE next_address]

LEMMA ValuedIs ==
  ASSUME Types, NEW c, Valued(c)
  PROVE  /\ c \in Commands /\ c.op \in Ops /\ c.value \in Nat
         /\ c.op # "StoreContinuing" => c.value \in 0 .. Addresses - 1
         /\ Entry(c) \in Entries /\ Stored(Entry(c))
<1>1. c \in Commands /\ c.op \in Ops /\ c.value \in Nat
  BY DEF Valued, Commands
<1>2. c.op # "StoreContinuing" => c.value < Addresses
  BY DEF Valued
<1>3. last_address \in Nat /\ next_address \in Nat
  BY AddressesTyped
<1>4. Entry(c) \in Entries
  BY <1>1, <1>3 DEF Entry, Entries
<1>5. Stored(Entry(c))
  BY DEF Valued, Entry, Stored
<1> QED BY <1>1, <1>2, <1>4, <1>5, AddressesPositive

LEMMA CarriedOutTypes ==
  ASSUME Types, NEW c, Valued(c), CarriedOut(c)
  PROVE  /\ last_address' \in 0 .. Addresses - 1 /\ next_address' \in 0 .. Addresses - 1
         /\ examined' \in 0 .. Addresses - 1
         /\ phase' \in {"away", "range", phase}
         /\ done' = Append(done, Entry(c)) /\ done' \in Seq(Entries)
         /\ \A k \in DOMAIN done' : Stored(done'[k])
         /\ rows' \in Seq(Rows) /\ entry' = entry
<1>1. /\ c \in Commands /\ c.op \in Ops /\ c.value \in Nat
      /\ c.op # "StoreContinuing" => c.value \in 0 .. Addresses - 1
      /\ Entry(c) \in Entries /\ Stored(Entry(c))
  BY ValuedIs
<1>2. /\ last_address \in 0 .. Addresses - 1 /\ next_address \in 0 .. Addresses - 1
      /\ examined \in 0 .. Addresses - 1
      /\ done \in Seq(Entries) /\ rows \in Seq(Rows)
      /\ \A k \in DOMAIN done : Stored(done[k])
  BY TypesAre
<1>3. Succ(next_address) \in 0 .. Addresses - 1 /\ Succ(c.value) \in 0 .. Addresses - 1
  BY <1>1, AddressesTyped, SuccIs
<1>4. done' = Append(done, Entry(c)) /\ entry' = entry
  BY DEF CarriedOut, Entry
<1>5. done' \in Seq(Entries) /\ DOMAIN done' = 1 .. Len(done) + 1
  BY <1>1, <1>2, <1>4
<1>6. ASSUME NEW k \in DOMAIN done'
      PROVE  Stored(done'[k])
  <2>1. (k \in DOMAIN done /\ done'[k] = done[k]) \/ done'[k] = Entry(c)
    BY <1>1, <1>2, <1>4, <1>5
  <2> QED BY <1>1, <1>2, <2>1
<1>7. last_address' \in 0 .. Addresses - 1
  BY <1>1, <1>2 DEF CarriedOut, Ops
<1>8. next_address' \in 0 .. Addresses - 1
  BY <1>1, <1>2, <1>3 DEF CarriedOut, Ops
<1>9. /\ phase' \in {"away", "range", phase}
      /\ examined' \in {examined, next_address} /\ rows' \in {rows, <<>>}
  BY DEF CarriedOut, printed
<1>10. rows' \in Seq(Rows)
  <2>1. <<>> \in Seq(Rows)
    OBVIOUS
  <2> QED BY <1>2, <1>9, <2>1
<1> QED BY <1>2, <1>4, <1>5, <1>6, <1>7, <1>8, <1>9, <1>10

LEMMA TurnTypes ==
  ASSUME Types, phase \in Parsing => Fits(pos, mode), TurnStep
  PROVE  Types'
<1>1. /\ phase \in {"validate", "execute"}
      /\ TurnFinds \/ TurnFindsNothing \/ TurnFails \/ PassEnds
  BY TurnIs DEF TurnStep
<1>2. ASSUME NEW p, NEW m, Fits(p, m)
      PROVE  p \in 0 .. Len(line) /\ m \in {"default", "set", "stored"}
  BY <1>2 DEF Fits, Boundary
<1>3. outcome = "none"
  BY <1>1 DEF Types
<1>4. CASE TurnFinds
  <2>1. PICK p, m, c : Advances(p, m) /\ Valued(c) /\ Found(c)
    BY <1>4 DEF TurnFinds
  <2>2. pos' \in 0 .. Len(line) /\ mode' \in {"default", "set", "stored"}
    BY <1>2, <2>1 DEF Advances
  <2>3. /\ UNCHANGED <<line, outcome, error>>
        /\ \/ phase = "validate" /\ UNCHANGED <<phase, addresses, printed, history>>
           \/ phase = "execute" /\ CarriedOut(c)
    BY <1>1, <2>1, FoundIs
  <2>4. CASE UNCHANGED <<phase, addresses, printed, history>>
    BY <1>1, <2>2, <2>3, <2>4, TypesAre, TypesAreNext DEF addresses, printed, history
  <2>5. CASE CarriedOut(c)
    <3>1. /\ last_address' \in 0 .. Addresses - 1 /\ next_address' \in 0 .. Addresses - 1
          /\ examined' \in 0 .. Addresses - 1
          /\ phase' \in {"away", "range", phase}
          /\ done' \in Seq(Entries) /\ \A k \in DOMAIN done' : Stored(done'[k])
          /\ rows' \in Seq(Rows) /\ entry' = entry
      BY <2>1, <2>5, CarriedOutTypes
    <3> QED BY <1>1, <1>3, <2>2, <2>3, <3>1, TypesAre, TypesAreNext
  <2> QED BY <2>3, <2>4, <2>5
<1>5. CASE TurnFindsNothing
  <2>1. PICK p, m : Advances(p, m) /\ FoundNothing
    BY <1>5 DEF TurnFindsNothing
  <2>2. pos' \in 0 .. Len(line) /\ mode' \in {"default", "set", "stored"}
    BY <1>2, <2>1 DEF Advances
  <2>3. UNCHANGED <<line, outcome, error, phase, last_address, next_address, examined, rows,
                    done, entry>>
    BY <2>1 DEF FoundNothing, editor, addresses, printed, history
  <2> QED BY <1>1, <2>2, <2>3, TypesAre, TypesAreNext
<1>6. CASE TurnFails
  <2>1. PICK kind, column : Fail(kind, column) /\ FirstFault(kind)
    BY <1>6 DEF TurnFails
  <2>2. /\ UNCHANGED <<line, pos, mode, last_address, next_address, examined, rows, done, entry>>
        /\ phase' = "prompt" /\ outcome' = "refused" /\ error'.kind = kind
    BY <2>1 DEF Fail, editor, parser, addresses, printed, history
  <2>3. kind \in Kinds
    BY <2>1 DEF FirstFault, Fault, Kinds
  <2> QED BY <2>2, <2>3, TypesAre, TypesAreNext
<1>7. CASE PassEnds
  <2>1. UNCHANGED <<line, error, last_address, next_address, examined, rows, done, entry>>
    BY <1>7 DEF PassEnds, editor, addresses, printed, history
  <2>2. /\ (phase' = "execute" /\ outcome' = outcome) \/ (phase' = "prompt" /\ outcome' = "ran")
        /\ pos' \in 0 .. Len(line) /\ mode' \in {"default", "set", "stored"}
    BY <1>2, <1>7, TypesAre DEF PassEnds, Advances
  <2> QED BY <1>3, <2>1, <2>2, TypesAre, TypesAreNext
<1> QED BY <1>1, <1>4, <1>5, <1>6, <1>7

\* A byte goes on with the last row, or begins one.
BeginsRow(a) == rows = <<>> \/ a % RowWidth = 0

NewRow(a) == [label |-> a, pad |-> a % RowWidth, cells |-> <<a>>]

Longer(a) ==
    [label |-> rows[Len(rows)].label, pad |-> rows[Len(rows)].pad,
     cells |-> Append(rows[Len(rows)].cells, a)]

LEMMA PrintIs ==
  ASSUME rows \in Seq(Rows), NEW a \in Nat
  PROVE  /\ PrintByte(a) \in Seq(Rows)
         /\ BeginsRow(a) => PrintByte(a) = Append(rows, NewRow(a)) /\ NewRow(a) \in Rows
         /\ ~BeginsRow(a) =>
               /\ Len(rows) > 0 /\ Longer(a) \in Rows
               /\ Len(PrintByte(a)) = Len(rows) /\ PrintByte(a)[Len(rows)] = Longer(a)
               /\ \A r \in 1 .. Len(rows) : r # Len(rows) => PrintByte(a)[r] = rows[r]
<1>1. RowWidth \in Nat \ {0} /\ a % RowWidth \in Nat
  BY MonitorAssumption
<1>2. CASE BeginsRow(a)
  <2>1. PrintByte(a) = Append(rows, NewRow(a))
    BY <1>2 DEF PrintByte, BeginsRow, NewRow
  <2>2. NewRow(a) \in Rows
    BY <1>1 DEF NewRow, Rows
  <2> QED BY <1>2, <2>1, <2>2
<1>3. CASE ~BeginsRow(a)
  <2> DEFINE n == Len(rows)
  <2>1. n \in Nat /\ n > 0 /\ n \in DOMAIN rows /\ rows[n] \in Rows /\ DOMAIN rows = 1 .. n
    BY <1>3, EmptySeq DEF BeginsRow
  <2>2. PrintByte(a) = [rows EXCEPT ![n].cells = Append(@, a)]
    BY <1>3 DEF PrintByte, BeginsRow
  <2>3. Append(rows[n].cells, a) \in Seq(Nat)
    BY <2>1 DEF Rows
  <2>4. Longer(a) \in Rows
    BY <2>1, <2>3 DEF Longer, Rows
  <2> HIDE DEF n
  <2>5. [rows[n] EXCEPT !.cells = Append(@, a)] = Longer(a)
    <3>1. ASSUME NEW x \in Rows, NEW s
          PROVE  [x EXCEPT !.cells = s] = [label |-> x.label, pad |-> x.pad, cells |-> s]
      BY <3>1 DEF Rows
    <3> QED BY <2>1, <3>1 DEF Longer, n
  <2>6. PrintByte(a) = [rows EXCEPT ![n] = Longer(a)]
    BY <2>2, <2>5
  <2>7. PrintByte(a) \in Seq(Rows) /\ Len(PrintByte(a)) = n
    BY <2>1, <2>4, <2>6 DEF n
  <2>8. PrintByte(a)[n] = Longer(a) /\ \A r \in 1 .. n : r # n => PrintByte(a)[r] = rows[r]
    BY <2>1, <2>6
  <2> QED BY <1>3, <2>1, <2>4, <2>7, <2>8 DEF n
<1> QED BY <1>2, <1>3

LEMMA ExamineTypes ==
  ASSUME Types, ExamineByte
  PROVE  Types'
<1>1. /\ phase = "range" /\ rows' = PrintByte(examined)
      /\ phase' \in {"execute", "range"}
      /\ examined' \in {examined, Succ(examined)}
      /\ UNCHANGED <<line, outcome, error, pos, mode, last_address, next_address, done, entry>>
  BY DEF ExamineByte, editor, parser, addresses, history
<1>2. examined \in Nat /\ rows \in Seq(Rows)
  BY AddressesTyped, TypesAre
<1>3. rows' \in Seq(Rows)
  BY <1>1, <1>2, PrintIs
<1>4. examined' \in 0 .. Addresses - 1
  BY <1>1, <1>2, SuccIs, TypesAre
<1>5. outcome' = "none"
  BY <1>1 DEF Types
<1> QED BY <1>1, <1>3, <1>4, <1>5, TypesAre, TypesAreNext

LEMMA TypesStep ==
  ASSUME Types, phase \in Parsing => Fits(pos, mode), [Next]_vars
  PROVE  Types'
<1>1. CASE PromptLine
  BY <1>1, PromptTypes
<1>2. CASE Key
  BY <1>2, KeyTypes
<1>3. CASE Escape \/ Enter
  BY <1>3, EndsIs, EndsTypes
<1>4. CASE TurnStep
  BY <1>4, TurnTypes
<1>5. CASE ExamineByte
  BY <1>5, ExamineTypes
<1>6. CASE UNCHANGED vars
  <2>1. UNCHANGED <<line, outcome, error, pos, mode, phase, last_address, next_address,
                    examined, rows, done, entry>>
    BY <1>6 DEF vars, editor, parser, addresses, printed, history
  <2> QED BY <2>1, TypesAre, TypesAreNext
<1> QED BY <1>1, <1>2, <1>3, <1>4, <1>5, <1>6 DEF Next, TurnStep

-------------------------------------------------------------------------------
(* The addresses: each command begins where the history before it ends.     *)

\* Following and Named, of any history d and any two addresses e.
FollowingIn(d, e, k) ==
    LET moved == {j \in 1 .. k : d[j].command.op # "Run"}
        c     == d[Max(moved)]
    IN  IF moved = {} THEN e[2]
        ELSE CASE c.command.op = "SetAddress"      -> c.command.value
               [] c.command.op = "StoreContinuing" -> Succ(c.at)
               [] OTHER                            -> Succ(c.command.value)

NamedIn(d, e, k) ==
    LET named == {j \in 1 .. k : d[j].command.op \notin {"Run", "StoreContinuing"}}
    IN  IF named = {} THEN e[1] ELSE d[Max(named)].command.value

\* Each command of d stands at its place, and a and b are the addresses behind.
Continues(d, e, a, b) ==
    /\ \A k \in DOMAIN d :
          /\ d[k].command.op \in {"StoreContinuing", "ExamineContinuing"} =>
                d[k].at = FollowingIn(d, e, k - 1)
          /\ d[k].command.op = "Run" => d[k].at = NamedIn(d, e, k - 1)
    /\ b = FollowingIn(d, e, Len(d)) /\ a = NamedIn(d, e, Len(d))

LEMMA ContinuesIs ==
  /\ AddressesContinue <=> TypeOK /\ Continues(done, entry, last_address, next_address)
  /\ AddressesContinue' <=> TypeOK' /\ Continues(done', entry', last_address', next_address')
<1>1. \A k : /\ Following(k) = FollowingIn(done, entry, k) /\ Named(k) = NamedIn(done, entry, k)
  BY DEF Following, FollowingIn, Named, NamedIn
<1>2. \A k : /\ Following(k)' = FollowingIn(done', entry', k)
             /\ Named(k)' = NamedIn(done', entry', k)
  BY DEF Following, FollowingIn, Named, NamedIn, Succ
<1> QED BY <1>1, <1>2 DEF AddressesContinue, Continues

\* The last of the indexes up to k with an operation in ops.
Latest(d, k, ops) == {j \in 1 .. k : d[j].command.op \in ops}

LEMMA LatestKept ==
  ASSUME NEW d \in Seq(Entries), NEW x \in Entries, NEW k \in 0 .. Len(d), NEW ops
  PROVE  LET js == Latest(d, k, ops)
         IN  /\ Latest(Append(d, x), k, ops) = js
             /\ js # {} => Max(js) \in 1 .. k /\ Append(d, x)[Max(js)] = d[Max(js)]
<1> DEFINE js == Latest(d, k, ops)
           t == Append(d, x)
<1>1. Len(d) \in Nat /\ k \in Nat /\ \A j \in 1 .. k : t[j] = d[j]
  OBVIOUS
<1> HIDE DEF t
<1>2. Latest(t, k, ops) = js
  BY <1>1 DEF Latest
<1>3. ASSUME js # {}
      PROVE  Max(js) \in 1 .. k /\ t[Max(js)] = d[Max(js)]
  <2>1. js \subseteq 1 .. k
    BY DEF Latest
  <2>2. js \in SUBSET Nat /\ k \in Nat /\ \A j \in js : j <= k
    BY <1>1, <2>1
  <2>3. Max(js) \in js
    BY <1>3, <2>2, MaxIs
  <2> QED BY <1>1, <2>1, <2>3
<1> QED BY <1>2, <1>3 DEF t

LEMMA LatestAppended ==
  ASSUME NEW d \in Seq(Entries), NEW x \in Entries, NEW ops, NEW n, n = Len(d) + 1
  PROVE  /\ x.command.op \notin ops => Latest(Append(d, x), n, ops) = Latest(d, n - 1, ops)
         /\ x.command.op \in ops => /\ Latest(Append(d, x), n, ops) # {}
                                    /\ Max(Latest(Append(d, x), n, ops)) = n
<1> DEFINE t == Append(d, x)
           js == Latest(t, n, ops)
<1>1. /\ Len(d) \in Nat /\ n \in Nat /\ n - 1 = Len(d) /\ t[n] = x /\ n >= 1
      /\ \A j \in 1 .. n - 1 : t[j] = d[j]
  OBVIOUS
<1> HIDE DEF t
<1>2. \A j \in 1 .. n : j \in 1 .. n - 1 \/ j = n
  BY <1>1
<1>3. ASSUME x.command.op \notin ops
      PROVE  Latest(t, n, ops) = Latest(d, n - 1, ops)
  BY <1>1, <1>2, <1>3 DEF Latest
<1>4. ASSUME x.command.op \in ops
      PROVE  js # {} /\ Max(js) = n
  <2>1. js \subseteq 1 .. n /\ n \in js
    BY <1>1, <1>4 DEF Latest
  <2> HIDE DEF js
  <2>2. js \in SUBSET Nat /\ js # {} /\ n \in Nat /\ \A j \in js : j <= n
    BY <1>1, <2>1
  <2>3. Max(js) \in js /\ \A j \in js : j <= Max(js)
    BY <2>2, MaxIs
  <2>4. Max(js) \in 1 .. n /\ n <= Max(js)
    BY <2>1, <2>3
  <2> QED BY <1>1, <2>1, <2>4
<1> QED BY <1>3, <1>4 DEF t

Moving == Ops \ {"Run"}

Naming == Ops \ {"Run", "StoreContinuing"}

\* What an entry leaves behind as the next address.
Behind(x) ==
    CASE x.command.op = "SetAddress"      -> x.command.value
      [] x.command.op = "StoreContinuing" -> Succ(x.at)
      [] OTHER                            -> Succ(x.command.value)

LEMMA LatestIs ==
  ASSUME NEW d \in Seq(Entries), NEW e, NEW k \in 0 .. Len(d)
  PROVE  /\ FollowingIn(d, e, k) = IF Latest(d, k, Moving) = {} THEN e[2]
                                   ELSE Behind(d[Max(Latest(d, k, Moving))])
         /\ NamedIn(d, e, k) = IF Latest(d, k, Naming) = {} THEN e[1]
                               ELSE d[Max(Latest(d, k, Naming))].command.value
<1>1. \A j \in 1 .. k : d[j] \in Entries
  OBVIOUS
<1>2. \A j \in 1 .. k : d[j].command.op \in Ops
  BY <1>1 DEF Entries, Commands
<1>3. /\ {j \in 1 .. k : d[j].command.op # "Run"} = Latest(d, k, Moving)
      /\ {j \in 1 .. k : d[j].command.op \notin {"Run", "StoreContinuing"}}
            = Latest(d, k, Naming)
  BY <1>2 DEF Latest, Moving, Naming
<1> QED BY <1>3 DEF FollowingIn, NamedIn, Behind

LEMMA ContinuesAppended ==
  ASSUME NEW d \in Seq(Entries), NEW x \in Entries, NEW e, NEW a, NEW b, Continues(d, e, a, b),
         x.command.op \in {"StoreContinuing", "ExamineContinuing"} => x.at = b,
         x.command.op = "Run" => x.at = a
  PROVE  Continues(Append(d, x), e,
                   IF x.command.op \in Naming THEN x.command.value ELSE a,
                   IF x.command.op \in Moving THEN Behind(x) ELSE b)
<1> DEFINE t == Append(d, x)
           n == Len(d)
           n1 == Len(d) + 1
<1>1. /\ n \in Nat /\ n1 = n + 1 /\ n1 - 1 = n /\ t \in Seq(Entries) /\ Len(t) = n1 /\ t[n1] = x
      /\ DOMAIN t = 1 .. n1 /\ DOMAIN d = 1 .. n /\ \A k \in 1 .. n : t[k] = d[k]
  OBVIOUS
<1>2. ASSUME NEW k \in 0 .. n
      PROVE  FollowingIn(t, e, k) = FollowingIn(d, e, k) /\ NamedIn(t, e, k) = NamedIn(d, e, k)
  <2>1. \A ops : LET js == Latest(d, k, ops)
                 IN  /\ Latest(t, k, ops) = js
                     /\ js # {} => t[Max(js)] = d[Max(js)]
    BY LatestKept
  <2>2. k \in 0 .. Len(t)
    BY <1>1
  <2> HIDE DEF t
  <2>3. /\ FollowingIn(t, e, k) = IF Latest(t, k, Moving) = {} THEN e[2]
                                  ELSE Behind(t[Max(Latest(t, k, Moving))])
        /\ NamedIn(t, e, k) = IF Latest(t, k, Naming) = {} THEN e[1]
                              ELSE t[Max(Latest(t, k, Naming))].command.value
    BY <1>1, <2>2, LatestIs
  <2>4. /\ FollowingIn(d, e, k) = IF Latest(d, k, Moving) = {} THEN e[2]
                                  ELSE Behind(d[Max(Latest(d, k, Moving))])
        /\ NamedIn(d, e, k) = IF Latest(d, k, Naming) = {} THEN e[1]
                              ELSE d[Max(Latest(d, k, Naming))].command.value
    BY LatestIs
  <2> QED BY <2>1, <2>3, <2>4
<1>3. n1 \in 0 .. Len(t) /\ n \in 0 .. Len(d)
  BY <1>1
<1>4. \A ops : /\ x.command.op \notin ops => Latest(t, n1, ops) = Latest(d, n, ops)
               /\ x.command.op \in ops => /\ Latest(t, n1, ops) # {}
                                          /\ Max(Latest(t, n1, ops)) = n1
  BY LatestAppended, <1>1
<1>5. \A ops : LET js == Latest(d, n, ops) IN js # {} => t[Max(js)] = d[Max(js)]
  BY <1>3, LatestKept
<1> HIDE DEF t, n, n1
<1>6. /\ FollowingIn(t, e, n1) = IF Latest(t, n1, Moving) = {} THEN e[2]
                                 ELSE Behind(t[Max(Latest(t, n1, Moving))])
      /\ NamedIn(t, e, n1) = IF Latest(t, n1, Naming) = {} THEN e[1]
                             ELSE t[Max(Latest(t, n1, Naming))].command.value
  BY <1>1, <1>3, LatestIs
<1>7. /\ FollowingIn(d, e, n) = IF Latest(d, n, Moving) = {} THEN e[2]
                                ELSE Behind(d[Max(Latest(d, n, Moving))])
      /\ NamedIn(d, e, n) = IF Latest(d, n, Naming) = {} THEN e[1]
                            ELSE d[Max(Latest(d, n, Naming))].command.value
  BY <1>3, LatestIs
<1>8. b = FollowingIn(d, e, n) /\ a = NamedIn(d, e, n)
  BY DEF Continues, n
<1>9. FollowingIn(t, e, n1) = IF x.command.op \in Moving THEN Behind(x) ELSE b
  <2>1. CASE x.command.op \in Moving
    BY <1>1, <1>4, <1>6, <2>1
  <2>2. CASE x.command.op \notin Moving
    BY <1>4, <1>5, <1>6, <1>7, <1>8, <2>2
  <2> QED BY <2>1, <2>2
<1>10. NamedIn(t, e, n1) = IF x.command.op \in Naming THEN x.command.value ELSE a
  <2>1. CASE x.command.op \in Naming
    BY <1>1, <1>4, <1>6, <2>1
  <2>2. CASE x.command.op \notin Naming
    BY <1>4, <1>5, <1>6, <1>7, <1>8, <2>2
  <2> QED BY <2>1, <2>2
<1>11. ASSUME NEW k \in DOMAIN t
       PROVE  /\ t[k].command.op \in {"StoreContinuing", "ExamineContinuing"} =>
                    t[k].at = FollowingIn(t, e, k - 1)
              /\ t[k].command.op = "Run" => t[k].at = NamedIn(t, e, k - 1)
  <2>1. k - 1 \in 0 .. n
    BY <1>1
  <2>2. /\ FollowingIn(t, e, k - 1) = FollowingIn(d, e, k - 1)
        /\ NamedIn(t, e, k - 1) = NamedIn(d, e, k - 1)
    BY <1>2, <2>1
  <2>3. CASE k \in 1 .. n
    <3>1. k \in DOMAIN d /\ t[k] = d[k]
      BY <1>1, <2>3
    <3> QED BY <2>2, <3>1 DEF Continues
  <2>4. CASE k = n1
    BY <1>1, <1>8, <2>2, <2>4
  <2>5. k \in 1 .. n \/ k = n1
    BY <1>1
  <2> QED BY <2>3, <2>4, <2>5
<1>12. Continues(t, e, IF x.command.op \in Naming THEN x.command.value ELSE a,
                       IF x.command.op \in Moving THEN Behind(x) ELSE b)
  BY <1>1, <1>9, <1>10, <1>11 DEF Continues
<1> QED BY <1>12 DEF t

LEMMA ContinuesFirst ==
  ASSUME NEW a, NEW b
  PROVE  Continues(<<>>, <<a, b>>, a, b)
<1>1. Len(<<>>) = 0 /\ DOMAIN <<>> = {} /\ 1 .. 0 = {}
  OBVIOUS
<1>2. FollowingIn(<<>>, <<a, b>>, 0) = b
  BY <1>1 DEF FollowingIn
<1>3. NamedIn(<<>>, <<a, b>>, 0) = a
  BY <1>1 DEF NamedIn
<1> QED BY <1>1, <1>2, <1>3 DEF Continues

LEMMA ContinuesCarriedOut ==
  ASSUME Types, AddressesContinue, NEW c, Valued(c), CarriedOut(c)
  PROVE  Continues(done', entry', last_address', next_address')
<1> DEFINE x == Entry(c)
<1>1. /\ c.op \in Ops /\ x \in Entries /\ done \in Seq(Entries)
  BY ValuedIs, TypesAre
<1>2. done' = Append(done, x) /\ entry' = entry
  BY DEF CarriedOut, Entry
<1>3. Continues(done, entry, last_address, next_address)
  BY ContinuesIs
<1>4. x.command = c /\ x.at = IF c.op = "Run" THEN last_address ELSE next_address
  BY DEF Entry
<1> HIDE DEF x
<1>5. /\ x.command.op \in {"StoreContinuing", "ExamineContinuing"} => x.at = next_address
      /\ x.command.op = "Run" => x.at = last_address
  BY <1>4
<1>6. Continues(Append(done, x), entry,
                IF x.command.op \in Naming THEN x.command.value ELSE last_address,
                IF x.command.op \in Moving THEN Behind(x) ELSE next_address)
  BY <1>1, <1>3, <1>5, ContinuesAppended
<1>7. last_address' = IF x.command.op \in Naming THEN x.command.value ELSE last_address
  BY <1>1, <1>4 DEF CarriedOut, Naming, Ops
<1>8. next_address' = IF x.command.op \in Moving THEN Behind(x) ELSE next_address
  BY <1>1, <1>4 DEF CarriedOut, Moving, Behind, Ops
<1> QED BY <1>2, <1>6, <1>7, <1>8

LEMMA AddressesStep ==
  ASSUME Types, phase \in Parsing => Fits(pos, mode), AddressesContinue, [Next]_vars
  PROVE  AddressesContinue'
<1>1. TypeOK'
  BY TypesStep DEF Types
<1> SUFFICES Continues(done', entry', last_address', next_address')
  BY <1>1, ContinuesIs
<1>2. Continues(done, entry, last_address, next_address)
  BY ContinuesIs
<1>3. CASE PromptLine
  <2>1. /\ done' = <<>> /\ entry' = <<last_address, next_address>>
        /\ last_address' = last_address /\ next_address' = next_address
    BY <1>3 DEF PromptLine, addresses
  <2> QED BY <2>1, ContinuesFirst
<1>4. CASE UNCHANGED <<done, entry, last_address, next_address>>
  BY <1>2, <1>4
<1>5. CASE TurnStep
  <2>1. /\ phase \in {"validate", "execute"}
        /\ TurnFinds \/ TurnFindsNothing \/ TurnFails \/ PassEnds
    BY <1>5, TurnIs DEF TurnStep
  <2>2. CASE TurnFinds
    <3>1. PICK p, m, c : Valued(c) /\ Found(c)
      BY <2>2 DEF TurnFinds
    <3>2. CASE phase = "validate"
      BY <1>4, <3>1, <3>2 DEF Found, addresses, history
    <3>3. CASE phase = "execute"
      <4>1. CarriedOut(c)
        BY <3>1, <3>3, FoundIs
      <4> QED BY <3>1, <4>1, ContinuesCarriedOut
    <3> QED BY <2>1, <3>2, <3>3
  <2>3. CASE TurnFindsNothing
    BY <1>4, <2>3 DEF TurnFindsNothing, FoundNothing, addresses, history
  <2>4. CASE TurnFails
    BY <1>4, <2>4 DEF TurnFails, Fail, addresses, history
  <2>5. CASE PassEnds
    BY <1>4, <2>5 DEF PassEnds, addresses, history
  <2> QED BY <2>1, <2>2, <2>3, <2>4, <2>5
<1>6. CASE Key
  BY <1>4, <1>6 DEF Key, addresses, history
<1>7. CASE Escape \/ Enter
  BY <1>4, <1>7, EndsIs DEF Ends, addresses, history
<1>8. CASE ExamineByte
  BY <1>4, <1>8 DEF ExamineByte, addresses, history
<1>9. CASE UNCHANGED vars
  BY <1>4, <1>9 DEF vars, addresses, history
<1> QED BY <1>3, <1>5, <1>6, <1>7, <1>8, <1>9 DEF Next, TurnStep

LEMMA FitsStays ==
  ASSUME line' = line, NEW p, NEW m, pos' = p, mode' = m, Fits(p, m)
  PROVE  Fits(pos, mode)'
<1>1. Fits(p, m)'
  BY SameLine
<1> QED BY <1>1

LEMMA ReadingStays ==
  ASSUME line' = line, NEW p, pos' = p
  PROVE  ReadingTo[pos]' = ReadingTo[p]
<1>1. ReadingTo' = ReadingTo
  BY SameLine
<1> QED BY <1>1

-------------------------------------------------------------------------------
(* What is carried out is what was read.                                    *)

CommandsOf(d) == [k \in DOMAIN d |-> d[k].command]

LEMMA CarriedIs == Carried = CommandsOf(done) /\ Carried' = CommandsOf(done')
BY DEF Carried, CommandsOf

LEMMA CommandsAppended ==
  ASSUME NEW d \in Seq(Entries), NEW x \in Entries
  PROVE  CommandsOf(Append(d, x)) = CommandsOf(d) \o <<x.command>>
<1> DEFINE n == Len(d)
           t == Append(d, x)
           c == x.command
           f == CommandsOf(d)
           g == CommandsOf(t)
           h == f \o <<c>>
<1>1. /\ n \in Nat /\ t \in Seq(Entries) /\ DOMAIN d = 1 .. n /\ DOMAIN t = 1 .. n + 1
      /\ t[n + 1] = x /\ \A k \in 1 .. n : t[k] = d[k] /\ d[k] \in Entries
  OBVIOUS
<1>2. c \in Commands /\ \A y \in Entries : y.command \in Commands
  BY DEF Entries
<1> HIDE DEF n, t, c
<1>3. /\ f = [k \in 1 .. n |-> d[k].command] /\ g = [k \in 1 .. n + 1 |-> t[k].command]
  BY <1>1 DEF CommandsOf
<1>4. f \in Seq(Commands) /\ Len(f) = n
  <2>1. f \in [1 .. n -> Commands]
    BY <1>1, <1>2, <1>3
  <2> QED BY <1>1, <2>1
<1>5. g \in Seq(Commands) /\ Len(g) = n + 1
  <2>1. \A k \in 1 .. n + 1 : t[k] \in Entries
    BY <1>1
  <2>2. g \in [1 .. n + 1 -> Commands]
    BY <1>2, <1>3, <2>1
  <2> QED BY <1>1, <2>2
<1> HIDE DEF f, g
<1>6. <<c>> \in Seq(Commands) /\ Len(<<c>>) = 1
  BY <1>2
<1>7. h \in Seq(Commands) /\ Len(h) = n + 1 /\ h[n + 1] = c /\ \A k \in 1 .. n : h[k] = f[k]
  BY <1>1, <1>4, <1>6
<1> HIDE DEF h
<1>8. ASSUME NEW k \in 1 .. n + 1
      PROVE  g[k] = h[k]
  <2>1. CASE k = n + 1
    BY <1>1, <1>3, <1>7, <2>1 DEF c
  <2>2. CASE k # n + 1
    <3>1. k \in 1 .. n
      BY <1>1, <2>2
    <3> QED BY <1>1, <1>3, <1>7, <3>1
  <2> QED BY <2>1, <2>2
<1>9. g = h
  BY <1>5, <1>7, <1>8, SeqEqual
<1> QED BY <1>9 DEF g, h, f, t, c

\* What is known while a line is parsed.
LEMMA ParsingIs ==
  ASSUME Types, ReadSoFar, phase \in {"validate", "execute"}
  PROVE  /\ Fits(pos, mode) /\ outcome = "none" /\ ~device_error
         /\ phase = "validate" => done = <<>>
         /\ phase = "execute" => NoFault /\ Carried = ReadingTo[pos]
<1>1. outcome = "none"
  BY DEF Types
<1> QED BY <1>1 DEF ReadSoFar, Parsing, Carrying

\* A turn that finds a command, or nothing.
LEMMA FoundRead ==
  ASSUME Types, ReadSoFar, TurnFinds, phase \in {"validate", "execute"}
  PROVE  ReadSoFar'
<1>1. PICK p, m, c : /\ Advances(p, m) /\ Valued(c) /\ Found(c)
                     /\ NoFault => ReadingTo[p] = ReadingTo[pos] \o <<c>>
  BY DEF TurnFinds
<1>2. /\ UNCHANGED <<line, device_error, row, outcome, error>>
      /\ \/ phase = "validate" /\ UNCHANGED <<phase, addresses, printed, history>>
         \/ phase = "execute" /\ CarriedOut(c)
  BY <1>1, FoundIs
<1>3. /\ Fits(pos, mode) /\ outcome = "none" /\ ~device_error
      /\ phase = "validate" => done = <<>>
      /\ phase = "execute" => NoFault /\ Carried = ReadingTo[pos]
  BY ParsingIs
<1>4. Fits(pos, mode)'
  BY <1>1, <1>2, FitsStays DEF Advances
<1>5. outcome' = "none" /\ ~device_error'
  BY <1>2, <1>3
<1>6. CASE phase = "validate"
  <2>1. phase' = "validate" /\ done' = <<>>
    BY <1>2, <1>3, <1>6 DEF history
  <2> QED BY <1>4, <1>5, <2>1 DEF ReadSoFar, Parsing, Carrying
<1>7. CASE phase = "execute"
  <2>1. CarriedOut(c)
    BY <1>2, <1>7
  <2>2. c \in Commands /\ Entry(c) \in Entries /\ done \in Seq(Entries)
    BY <1>1, ValuedIs, TypesAre
  <2>3. done' = Append(done, Entry(c)) /\ Entry(c).command = c
    BY <2>1 DEF CarriedOut, Entry
  <2>4. Carried' = Carried \o <<c>>
    BY <2>2, <2>3, CarriedIs, CommandsAppended
  <2>5. ReadingTo[pos]' = ReadingTo[p]
    BY <1>1, <1>2, ReadingStays DEF Advances
  <2>6. NoFault' /\ Carried' = ReadingTo[pos]'
    BY <1>1, <1>2, <1>3, <1>7, <2>4, <2>5, SameLine
  <2>7. phase' \in Carrying
    BY <1>7, <2>1 DEF CarriedOut, Carrying
  <2>8. ASSUME phase' = "away"
        PROVE  /\ done' # <<>> /\ Last(done').command.op = "Run"
               /\ Last(done').at % Alignment = 0
    <3>1. c.op = "Run" /\ last_address % Alignment = 0
      BY <1>7, <2>1, <2>8 DEF CarriedOut
    <3>2. Entry(c).at = last_address
      BY <3>1 DEF Entry
    <3>3. done' # <<>> /\ Last(done') = Entry(c)
      BY <2>2, <2>3 DEF Last
    <3> QED BY <2>3, <3>1, <3>2, <3>3
  <2> QED BY <1>4, <1>5, <2>6, <2>7, <2>8 DEF ReadSoFar, Parsing, Carrying
<1> QED BY <1>6, <1>7

LEMMA FoundNothingRead ==
  ASSUME Types, ReadSoFar, TurnFindsNothing, phase \in {"validate", "execute"}
  PROVE  ReadSoFar'
<1>1. PICK p, m : /\ Advances(p, m) /\ FoundNothing
                  /\ NoFault => ReadingTo[p] = ReadingTo[pos]
  BY DEF TurnFindsNothing
<1>2. UNCHANGED <<line, device_error, phase, outcome, error, done>>
  BY <1>1 DEF FoundNothing, editor, history
<1>3. /\ Fits(pos, mode) /\ outcome = "none" /\ ~device_error
      /\ phase = "validate" => done = <<>>
      /\ phase = "execute" => NoFault /\ Carried = ReadingTo[pos]
  BY ParsingIs
<1>4. Fits(pos, mode)'
  BY <1>1, <1>2, FitsStays DEF Advances
<1>5. outcome' = "none" /\ ~device_error'
  BY <1>2, <1>3
<1>6. CASE phase = "validate"
  BY <1>2, <1>3, <1>4, <1>5, <1>6 DEF ReadSoFar, Parsing, Carrying
<1>7. CASE phase = "execute"
  <2>1. ReadingTo[pos]' = ReadingTo[p]
    BY <1>1, <1>2, ReadingStays DEF Advances
  <2>2. NoFault' /\ Carried' = ReadingTo[pos]'
    BY <1>1, <1>2, <1>3, <1>7, <2>1, SameLine, CarriedIs
  <2> QED BY <1>2, <1>4, <1>5, <1>7, <2>2 DEF ReadSoFar, Parsing, Carrying
<1> QED BY <1>6, <1>7

LEMMA FailsRead ==
  ASSUME Types, ReadSoFar, TurnFails, phase \in {"validate", "execute"}
  PROVE  ReadSoFar'
<1>1. PICK kind, column : Fail(kind, column) /\ FirstFault(kind)
  BY DEF TurnFails
<1>2. /\ UNCHANGED <<line, device_error, done>>
      /\ phase' = "prompt" /\ outcome' = "refused" /\ error'.kind = kind
  BY <1>1 DEF Fail, editor, history
<1>3. ~NoFault
  BY <1>1 DEF FirstFault, NoFault
<1>4. done = <<>> /\ ~device_error
  BY <1>3, ParsingIs
<1>5. FirstFault(error.kind)'
  <2>1. FirstFault(kind)'
    BY <1>1, <1>2, SameLine
  <2> QED BY <1>2, <2>1
<1> QED BY <1>2, <1>4, <1>5 DEF ReadSoFar, Parsing, Carrying

LEMMA PassEndsRead ==
  ASSUME Types, ReadSoFar, PassEnds, phase \in {"validate", "execute"}
  PROVE  ReadSoFar'
<1>1. /\ NoFault /\ ReadingTo[pos] = Reading
      /\ UNCHANGED <<line, device_error, done>>
  BY DEF PassEnds, editor, history
<1>2. /\ outcome = "none" /\ ~device_error
      /\ phase = "validate" => done = <<>>
      /\ phase = "execute" => Carried = ReadingTo[pos]
  BY ParsingIs
<1>3. NoFault' /\ Reading' = Reading /\ Carried' = Carried
  BY <1>1, SameLine, CarriedIs
<1>4. CASE phase = "validate"
  <2>1. phase' = "execute" /\ outcome' = "none" /\ Advances(0, "default")
    BY <1>2, <1>4 DEF PassEnds
  <2>2. Fits(pos, mode)' /\ ReadingTo[pos]' = ReadingTo[0]
    BY <1>1, <2>1, FitsStays, ReadingStays DEF Advances
  <2>3. ReadingTo[0] = <<>>
    BY <1>1, TypesAre, ReadingIs
  <2>4. Carried = <<>>
    BY <1>2, <1>4 DEF Carried
  <2> QED BY <1>1, <1>2, <1>3, <2>1, <2>2, <2>3, <2>4 DEF ReadSoFar, Parsing, Carrying
<1>5. CASE phase = "execute"
  <2>1. phase' = "prompt" /\ outcome' = "ran"
    BY <1>5 DEF PassEnds
  <2>2. Carried' = Reading'
    BY <1>1, <1>2, <1>3, <1>5
  <2> QED BY <1>1, <1>2, <1>3, <2>1, <2>2 DEF ReadSoFar, Parsing, Carrying
<1> QED BY <1>4, <1>5

LEMMA ReadStep ==
  ASSUME Types, ReadSoFar, [Next]_vars
  PROVE  ReadSoFar'
<1>1. phase \in Parsing => Fits(pos, mode)
  BY DEF ReadSoFar
<1>2. CASE PromptLine
  <2>1. /\ phase' = "edit" /\ outcome' = "none" /\ done' = <<>> /\ device_error' = FALSE
    BY <1>2 DEF PromptLine, Prompt
  <2> QED BY <2>1 DEF ReadSoFar, Parsing, Carrying
<1>3. ASSUME phase = "edit"
      PROVE  outcome = "none" /\ done = <<>>
  BY <1>3 DEF Types, ReadSoFar, Parsing, Carrying
<1>4. CASE Key
  <2>1. phase = "edit" /\ UNCHANGED <<phase, outcome, done>>
    BY <1>4 DEF Key, history
  <2> QED BY <1>3, <2>1 DEF ReadSoFar, Parsing, Carrying
<1>5. CASE Escape \/ Enter
  <2>1. Ends
    BY <1>5, EndsIs
  <2>2. phase = "edit" /\ line' = line /\ done' = <<>> /\ outcome = "none"
    BY <1>3, <2>1 DEF Ends, history
  <2>3. CASE phase' = "validate"
    <3>1. /\ pos' = 0 /\ mode' = "default" /\ device_error' = FALSE /\ outcome' = "none"
      BY <2>1, <2>2, <2>3 DEF Ends
    <3>2. Fits(0, "default")
      BY TypesAre, FitsFirst
    <3>3. Fits(pos, mode)'
      BY <2>2, <3>1, <3>2, FitsStays
    <3> QED BY <2>2, <2>3, <3>1, <3>3 DEF ReadSoFar, Parsing, Carrying
  <2>4. CASE phase' # "validate"
    <3>1. /\ outcome' \in {"abandoned", "device error", "ps", "exit"}
          /\ phase' = "prompt" \/ (phase' = "left" /\ device_error' = FALSE)
      BY <2>1, <2>4 DEF Ends
    <3> QED BY <2>2, <3>1 DEF ReadSoFar, Parsing, Carrying
  <2> QED BY <2>3, <2>4
<1>6. CASE TurnStep
  <2>1. /\ phase \in {"validate", "execute"}
        /\ TurnFinds \/ TurnFindsNothing \/ TurnFails \/ PassEnds
    BY <1>1, <1>6, TurnIs DEF TurnStep
  <2> QED BY <2>1, FoundRead, FoundNothingRead, FailsRead, PassEndsRead
<1>7. ASSUME UNCHANGED <<line, device_error, outcome, error, pos, mode, done>>,
             phase' = phase \/ (phase = "range" /\ phase' = "execute")
      PROVE  ReadSoFar'
  <2>1. Fits(pos, mode) => Fits(pos, mode)'
    BY <1>7, FitsStays
  <2>2. ReadingTo[pos]' = ReadingTo[pos]
    BY <1>7, ReadingStays
  <2>3. /\ (NoFault' <=> NoFault) /\ Reading' = Reading /\ Carried' = Carried
    BY <1>7, SameLine, CarriedIs
  <2>4. FirstFault(error.kind)' <=> FirstFault(error.kind)
    <3>1. ASSUME NEW kind, kind = error.kind
          PROVE  FirstFault(error.kind)' <=> FirstFault(error.kind)
      <4>1. FirstFault(kind)' <=> FirstFault(kind)
        BY <1>7, SameLine
      <4>2. error'.kind = kind
        BY <1>7, <3>1
      <4> QED BY <3>1, <4>1, <4>2
    <3> QED BY <3>1
  <2>5. outcome # "none" => phase \in {"prompt", "left"}
    BY DEF Types
  <2> QED BY <1>7, <2>1, <2>2, <2>3, <2>4, <2>5 DEF ReadSoFar, Parsing, Carrying
<1>8. CASE ExamineByte
  <2>1. /\ UNCHANGED <<line, device_error, outcome, error, pos, mode, done>>
        /\ phase' = phase \/ (phase = "range" /\ phase' = "execute")
    BY <1>8 DEF ExamineByte, editor, parser, history
  <2> QED BY <1>7, <2>1
<1>9. CASE UNCHANGED vars
  <2>1. UNCHANGED <<line, device_error, outcome, error, pos, mode, done, phase>>
    BY <1>9 DEF vars, editor, parser, history
  <2> QED BY <1>7, <2>1
<1> QED BY <1>2, <1>4, <1>5, <1>6, <1>8, <1>9 DEF Next, TurnStep

-------------------------------------------------------------------------------
(* What the user sees.                                                      *)

LEMMA RemainderIs ==
  ASSUME NEW a \in Int, NEW w \in Nat, w >= 1, NEW q \in Int, NEW r \in 0 .. w - 1,
         a = w * q + r
  PROVE  a % w = r
<1> DEFINE d == a \div w
           e == a % w
<1>1. d \in Int /\ e \in 0 .. w - 1 /\ a = w * d + e
  BY ModuloIs
<1> HIDE DEF d, e
<1>2. w * q < w * d + w /\ w * d < w * q + w
  BY <1>1
<1>3. q <= d /\ d <= q
  BY <1>1, <1>2, MultiplesOrder
<1>4. d = q
  BY <1>1, <1>3
<1>5. w * d = w * q /\ w * q \in Int
  BY <1>4
<1>6. e = r
  BY <1>1, <1>5
<1> QED BY <1>6 DEF e

LEMMA NextColumn ==
  ASSUME NEW w \in Nat, w >= 1, NEW a \in Nat, a % w # 0
  PROVE  a % w = ((a - 1) % w) + 1
<1> DEFINE q == a \div w
           r == a % w
           b == a - 1
<1>1. q \in Int /\ r \in 0 .. w - 1 /\ a = w * q + r
  BY ModuloIs
<1> HIDE DEF q, r
<1>2. r # 0
  BY DEF r
<1> DEFINE p == w * q
<1>3. p \in Int /\ a = p + r
  BY <1>1
<1> HIDE DEF p
<1>4. r - 1 \in 0 .. w - 1 /\ b = p + (r - 1) /\ b \in Int
  BY <1>1, <1>2, <1>3
<1> HIDE DEF b
<1>5. b % w = r - 1
  BY <1>1, <1>4, RemainderIs DEF p
<1>6. (a - 1) % w = r - 1
  BY <1>5 DEF b
<1> QED BY <1>1, <1>6 DEF r

\* A row, its byte in column j, and its place behind the row before.
CellsOK(x) ==
    /\ x.cells # <<>>
    /\ \A j \in DOMAIN x.cells :
          /\ x.cells[j] = x.label + j - 1
          /\ x.cells[j] % RowWidth = x.pad + j - 1

RowsOf(rs) ==
    /\ \A r \in DOMAIN rs : CellsOK(rs[r])
    /\ \A r \in DOMAIN rs : r > 1 => rs[r].label = Last(rs[r - 1].cells) + 1

LEMMA RowsAre ==
  /\ RowsOK <=> /\ RowsOf(rows)
                /\ phase = "range" => examined <= last_address
                /\ rows # <<>> => Last(rows[Len(rows)].cells) =
                                     IF phase = "range" THEN examined - 1 ELSE examined
  /\ RowsOK' <=> /\ RowsOf(rows')
                 /\ phase' = "range" => examined' <= last_address'
                 /\ rows' # <<>> => Last(rows'[Len(rows')].cells) =
                                       IF phase' = "range" THEN examined' - 1 ELSE examined'
BY DEF RowsOK, RowOK, RowsOf, CellsOK

LEMMA RowBegins ==
  ASSUME NEW a \in Nat
  PROVE  CellsOK(NewRow(a)) /\ Last(NewRow(a).cells) = a
<1>1. /\ NewRow(a).cells = <<a>> /\ NewRow(a).label = a /\ NewRow(a).pad = a % RowWidth
      /\ a % RowWidth \in Nat
  BY MonitorAssumption DEF NewRow
<1>2. <<a>> # <<>> /\ DOMAIN <<a>> = {1} /\ <<a>>[1] = a /\ Len(<<a>>) = 1
  OBVIOUS
<1>3. CellsOK(NewRow(a))
  BY <1>1, <1>2 DEF CellsOK
<1> QED BY <1>1, <1>2, <1>3 DEF Last

LEMMA RowGoesOn ==
  ASSUME NEW x \in Rows, NEW a \in Nat, CellsOK(x), Last(x.cells) = a - 1, a % RowWidth # 0,
         NEW y, y = [label |-> x.label, pad |-> x.pad, cells |-> Append(x.cells, a)]
  PROVE  CellsOK(y) /\ Last(y.cells) = a /\ y.label = x.label
<1> DEFINE s == x.cells
           t == Append(s, a)
           n == Len(s)
           column == (a - 1) % RowWidth
           next == a % RowWidth
<1>1. s \in Seq(Nat) /\ x.label \in Nat /\ x.pad \in Nat /\ s # <<>>
  BY DEF Rows, CellsOK
<1>2. y.label = x.label /\ y.pad = x.pad /\ y.cells = t
  OBVIOUS
<1>3. n \in Nat /\ n >= 1 /\ n \in DOMAIN s /\ DOMAIN s = 1 .. n
  BY <1>1, EmptySeq
<1>4. s[n] = a - 1
  BY <1>1 DEF Last
<1>5. t \in Seq(Nat) /\ DOMAIN t = 1 .. n + 1 /\ t[n + 1] = a /\ Len(t) = n + 1
      /\ \A j \in 1 .. n : t[j] = s[j]
  BY <1>1
<1>6. a - 1 = x.label + n - 1 /\ column = x.pad + n - 1
  BY <1>3, <1>4 DEF CellsOK
<1>7. next = column + 1
  <2>1. RowWidth \in Nat /\ RowWidth >= 1
    BY MonitorAssumption
  <2> QED BY <2>1, NextColumn
<1> HIDE DEF s, t, n, column, next
<1>8. a = x.label + (n + 1) - 1 /\ next = x.pad + (n + 1) - 1
  <2> DEFINE l == x.label
             p == x.pad
  <2>1. l \in Nat /\ p \in Nat /\ a - 1 = l + n - 1 /\ column = p + n - 1
    BY <1>1, <1>6
  <2> HIDE DEF l, p
  <2>2. a = l + (n + 1) - 1
    BY <1>3, <2>1
  <2>3. next = p + (n + 1) - 1
    BY <1>3, <1>7, <2>1
  <2> QED BY <2>2, <2>3 DEF l, p
<1>9. t # <<>> /\ Last(t) = a
  BY <1>3, <1>5 DEF Last
<1>10. ASSUME NEW j \in DOMAIN t
       PROVE  t[j] = x.label + j - 1 /\ t[j] % RowWidth = x.pad + j - 1
  <2>1. CASE j = n + 1
    BY <1>5, <1>8, <2>1 DEF next
  <2>2. CASE j # n + 1
    <3>1. j \in DOMAIN s /\ t[j] = s[j]
      BY <1>3, <1>5, <2>2
    <3> QED BY <3>1 DEF CellsOK, s
  <2> QED BY <2>1, <2>2
<1> QED BY <1>2, <1>9, <1>10 DEF CellsOK

LEMMA RowsAppended ==
  ASSUME NEW rs \in Seq(Rows), RowsOf(rs), NEW x \in Rows, CellsOK(x),
         rs # <<>> => x.label = Last(rs[Len(rs)].cells) + 1
  PROVE  RowsOf(Append(rs, x))
<1> DEFINE n == Len(rs)
           t == Append(rs, x)
<1>1. /\ n \in Nat /\ DOMAIN rs = 1 .. n /\ DOMAIN t = 1 .. n + 1 /\ t[n + 1] = x
      /\ \A r \in 1 .. n : t[r] = rs[r]
      /\ n > 0 => rs # <<>>
  OBVIOUS
<1>2. n > 0 => x.label = Last(rs[n].cells) + 1
  BY <1>1
<1> HIDE DEF n, t
<1>3. ASSUME NEW r \in DOMAIN t
      PROVE  CellsOK(t[r]) /\ (r > 1 => t[r].label = Last(t[r - 1].cells) + 1)
  <2>1. CASE r = n + 1
    <3>1. r > 1 => r - 1 = n /\ n \in 1 .. n /\ n > 0
      BY <1>1, <2>1
    <3> QED BY <1>1, <1>2, <2>1, <3>1
  <2>2. CASE r # n + 1
    <3>1. r \in DOMAIN rs /\ (r > 1 => r - 1 \in 1 .. n) /\ r \in 1 .. n
      BY <1>1, <2>2
    <3> QED BY <1>1, <3>1 DEF RowsOf
  <2> QED BY <2>1, <2>2
<1>4. RowsOf(t)
  BY <1>3 DEF RowsOf
<1> QED BY <1>4 DEF t

LEMMA RowsLonger ==
  ASSUME NEW rs \in Seq(Rows), RowsOf(rs), NEW t \in Seq(Rows), NEW n, n = Len(rs), n = Len(t),
         n > 0, CellsOK(t[n]), t[n].label = rs[n].label,
         \A r \in 1 .. n : r # n => t[r] = rs[r]
  PROVE  RowsOf(t)
<1>1. n \in Nat /\ DOMAIN rs = 1 .. n /\ DOMAIN t = 1 .. n
  <2>1. DOMAIN rs = 1 .. Len(rs) /\ DOMAIN t = 1 .. Len(t) /\ Len(rs) \in Nat
    BY LenProperties
  <2> QED BY <2>1
<1>2. ASSUME NEW r \in 1 .. n
      PROVE  CellsOK(t[r]) /\ (r > 1 => t[r].label = Last(t[r - 1].cells) + 1)
  <2>1. r > 1 => r - 1 \in 1 .. n /\ r - 1 # n
    BY <1>1
  <2>2. t[r].label = rs[r].label /\ CellsOK(t[r])
    BY <1>1, <1>2 DEF RowsOf
  <2>3. r > 1 => rs[r].label = Last(rs[r - 1].cells) + 1
    BY <1>1 DEF RowsOf
  <2> QED BY <2>1, <2>2, <2>3
<1> QED BY <1>1, <1>2 DEF RowsOf

LEMMA RowsExamined ==
  ASSUME Types, RowsOK, ExamineByte
  PROVE  RowsOK'
<1> DEFINE a == examined
           n == Len(rows)
<1>1. /\ phase = "range" /\ rows' = PrintByte(a) /\ last_address' = last_address
      /\ \/ a = last_address /\ phase' = "execute" /\ examined' = a
         \/ a # last_address /\ phase' = "range" /\ examined' = Succ(a)
  BY DEF ExamineByte, addresses
<1>2. /\ a \in Nat /\ last_address \in Nat /\ last_address < Addresses
      /\ rows \in Seq(Rows)
  BY AddressesTyped, TypesAre
<1>3. /\ RowsOf(rows) /\ a <= last_address
      /\ rows # <<>> => Last(rows[Len(rows)].cells) = a - 1
  BY <1>1, RowsAre
<1>4. a # last_address => Succ(a) = a + 1 /\ a + 1 <= last_address
  <2>1. a # last_address => a + 1 <= last_address /\ a + 1 < Addresses
    BY <1>2, <1>3, AddressesPositive
  <2> QED BY <1>2, <2>1, SuccIs
<1> DEFINE t == PrintByte(a)
<1>5. RowsOf(t) /\ t # <<>> /\ Last(t[Len(t)].cells) = a
  <2>1. CASE BeginsRow(a)
    <3> DEFINE x == NewRow(a)
    <3>1. t = Append(rows, x) /\ x \in Rows
      BY <1>2, <2>1, PrintIs
    <3>2. CellsOK(x) /\ Last(x.cells) = a /\ x.label = a
      BY <1>2, RowBegins DEF NewRow
    <3> HIDE DEF t, x, a
    <3>3. rows # <<>> => x.label = Last(rows[Len(rows)].cells) + 1
      BY <1>2, <1>3, <3>2
    <3>4. RowsOf(Append(rows, x))
      BY <1>2, <1>3, <3>1, <3>2, <3>3, RowsAppended
    <3>5. t # <<>> /\ t[Len(t)] = x
      BY <1>2, <3>1
    <3> QED BY <3>1, <3>2, <3>4, <3>5
  <2>2. CASE ~BeginsRow(a)
    <3> DEFINE x == rows[n]
               y == Longer(a)
    <3>1. /\ n > 0 /\ Len(t) = n /\ t[n] = y /\ t \in Seq(Rows)
          /\ \A r \in 1 .. n : r # n => t[r] = rows[r]
      BY <1>2, <2>2, PrintIs
    <3>2. n \in DOMAIN rows /\ x \in Rows /\ CellsOK(x) /\ rows # <<>>
      BY <1>2, <1>3, <3>1 DEF RowsOf
    <3>3. Last(x.cells) = a - 1 /\ a % RowWidth # 0
      BY <1>3, <2>2, <3>2 DEF BeginsRow
    <3>4. y = [label |-> x.label, pad |-> x.pad, cells |-> Append(x.cells, a)]
      BY DEF Longer
    <3> HIDE DEF t, a, x, y
    <3>5. CellsOK(y) /\ Last(y.cells) = a /\ y.label = x.label
      BY <1>2, <3>2, <3>3, <3>4, RowGoesOn
    <3>6. RowsOf(t)
      BY <1>2, <1>3, <3>1, <3>5, RowsLonger DEF x
    <3> QED BY <3>1, <3>5, <3>6
  <2> QED BY <2>1, <2>2
<1> HIDE DEF t
<1>6. phase' = "range" => examined' <= last_address'
  BY <1>1, <1>4
<1>7. a = IF phase' = "range" THEN examined' - 1 ELSE examined'
  BY <1>1, <1>2, <1>4
<1>8. rows' = t
  BY <1>1 DEF t
<1> HIDE DEF a
<1> QED BY <1>5, <1>6, <1>7, <1>8, RowsAre

\* While no range is printed, what was printed stays.
LEMMA RowsStay ==
  ASSUME RowsOK, phase # "range", phase' # "range", UNCHANGED <<examined, rows>>
  PROVE  RowsOK'
BY RowsAre

LEMMA RowsGone ==
  ASSUME rows' = <<>>, phase' = "range" => examined' <= last_address'
  PROVE  RowsOK'
<1>1. RowsOf(rows')
  <2>1. DOMAIN <<>> = {}
    OBVIOUS
  <2> QED BY <2>1 DEF RowsOf
<1> QED BY <1>1, RowsAre

LEMMA RowsStep ==
  ASSUME Types, phase \in Parsing => Fits(pos, mode), RowsOK, [Next]_vars
  PROVE  RowsOK'
<1>1. CASE PromptLine
  <2>1. rows' = <<>> /\ phase' = "edit"
    BY <1>1 DEF PromptLine
  <2> QED BY <2>1, RowsGone
<1>2. CASE Key
  <2>1. phase = "edit" /\ phase' = "edit" /\ UNCHANGED <<examined, rows>>
    BY <1>2 DEF Key, printed
  <2> QED BY <2>1, RowsStay
<1>3. CASE Escape \/ Enter
  <2>1. phase = "edit" /\ phase' # "range" /\ UNCHANGED <<examined, rows>>
    BY <1>3, EndsIs DEF Ends, printed
  <2> QED BY <2>1, RowsStay
<1>4. CASE TurnStep
  <2>1. /\ phase \in {"validate", "execute"}
        /\ TurnFinds \/ TurnFindsNothing \/ TurnFails \/ PassEnds
    BY <1>4, TurnIs DEF TurnStep
  <2>2. CASE TurnFinds
    <3>1. PICK p, m, c : Valued(c) /\ Found(c)
      BY <2>2 DEF TurnFinds
    <3>2. CASE phase = "validate"
      <4>1. phase' = phase /\ UNCHANGED <<examined, rows>>
        BY <3>1, <3>2 DEF Found, printed
      <4> QED BY <3>2, <4>1, RowsStay
    <3>3. CASE phase = "execute"
      <4>1. CarriedOut(c)
        BY <3>1, <3>3, FoundIs
      <4>2. CASE phase' # "range"
        <5>1. UNCHANGED <<examined, rows>>
          BY <4>1, <4>2 DEF CarriedOut, printed
        <5> QED BY <3>3, <4>2, <5>1, RowsStay
      <4>3. CASE phase' = "range"
        <5>1. rows' = <<>> /\ examined' <= last_address'
          BY <3>3, <4>1, <4>3 DEF CarriedOut
        <5> QED BY <5>1, RowsGone
      <4> QED BY <4>2, <4>3
    <3> QED BY <2>1, <3>2, <3>3
  <2>3. CASE TurnFindsNothing \/ TurnFails \/ PassEnds
    <3>1. phase' # "range" /\ UNCHANGED <<examined, rows>>
      BY <2>1, <2>3 DEF TurnFindsNothing, FoundNothing, TurnFails, Fail, PassEnds, printed
    <3> QED BY <2>1, <3>1, RowsStay
  <2> QED BY <2>1, <2>2, <2>3
<1>5. CASE ExamineByte
  BY <1>5, RowsExamined
<1>6. CASE UNCHANGED vars
  <2>1. UNCHANGED <<phase, examined, rows, last_address>>
    BY <1>6 DEF vars, printed, addresses
  <2> QED BY <2>1, RowsAre
<1> QED BY <1>1, <1>2, <1>3, <1>4, <1>5, <1>6 DEF Next, TurnStep

LEMMA ShowingStep ==
  ASSUME Types, phase \in Parsing => Fits(pos, mode), Showing, [Next]_vars
  PROVE  Showing'
<1>1. RowsOK'
  BY RowsStep DEF Showing
<1>2. /\ phase = "edit" => row = <<PromptCell>> \o line
      /\ error.kind # "none" => phase = "prompt" /\ Points(error.kind, error.column)
  BY DEF Showing
<1> SUFFICES /\ phase' = "edit" => row' = <<PromptCell>> \o line'
             /\ error'.kind # "none" =>
                   phase' = "prompt" /\ Points(error.kind, error.column)'
  BY <1>1 DEF Showing
<1>3. CASE PromptLine
  <2>1. /\ line' = <<>> /\ row' = <<PromptCell>> /\ error' = NoError
    BY <1>3 DEF PromptLine, Prompt
  <2>2. <<PromptCell>> \o <<>> = <<PromptCell>>
    OBVIOUS
  <2> QED BY <2>1, <2>2 DEF NoError
<1>4. CASE Key
  <2>1. line \in Seq(Chars) /\ Len(line) <= Capacity
    BY TypesAre
  <2>2. /\ phase = "edit" /\ error' = error
        /\ row = <<PromptCell>> \o line => row' = <<PromptCell>> \o line'
    BY <1>4, <2>1, KeyIs
  <2> QED BY <1>2, <2>2
<1>5. CASE Escape \/ Enter
  <2>1. phase = "edit" /\ phase' # "edit" /\ error' = error
    BY <1>5, EndsIs DEF Ends
  <2> QED BY <1>2, <2>1
<1>6. CASE TurnStep
  <2>1. /\ phase \in {"validate", "execute"}
        /\ TurnFinds \/ TurnFindsNothing \/ TurnFails \/ PassEnds
    BY <1>6, TurnIs DEF TurnStep
  <2>2. CASE TurnFails
    <3>1. PICK kind, column : Fail(kind, column) /\ Points(kind, column)
      BY <2>2 DEF TurnFails
    <3>2. /\ line' = line /\ phase' = "prompt"
          /\ error'.kind = kind /\ error'.column = column
      BY <3>1 DEF Fail, editor
    <3>3. Points(kind, column)'
      BY <3>1, <3>2, SameLine
    <3>4. Points(error.kind, error.column)'
      BY <3>2, <3>3
    <3> QED BY <3>2, <3>4
  <2>3. CASE TurnFinds
    <3>1. PICK p, m, c : Valued(c) /\ Found(c)
      BY <2>3 DEF TurnFinds
    <3>2. error' = error /\ phase' # "edit"
      BY <2>1, <3>1, FoundIs DEF CarriedOut
    <3> QED BY <1>2, <2>1, <3>2
  <2>4. CASE TurnFindsNothing \/ PassEnds
    <3>1. error' = error /\ phase' # "edit"
      BY <2>1, <2>4 DEF TurnFindsNothing, FoundNothing, PassEnds
    <3> QED BY <1>2, <2>1, <3>1
  <2> QED BY <2>1, <2>2, <2>3, <2>4
<1>7. CASE ExamineByte
  <2>1. phase = "range" /\ phase' # "edit" /\ error' = error
    BY <1>7 DEF ExamineByte
  <2> QED BY <1>2, <2>1
<1>8. CASE UNCHANGED vars
  <2>1. UNCHANGED <<phase, line, row, error>>
    BY <1>8 DEF vars, editor
  <2>2. ASSUME NEW kind, NEW column, kind = error.kind, column = error.column, Points(kind, column)
        PROVE  Points(error.kind, error.column)'
    <3>1. Points(kind, column)'
      BY <2>1, <2>2, SameLine
    <3>2. error'.kind = kind /\ error'.column = column
      BY <2>1, <2>2
    <3> QED BY <3>1, <3>2
  <2> QED BY <1>2, <2>1, <2>2
<1> QED BY <1>3, <1>4, <1>5, <1>6, <1>7, <1>8 DEF Next, TurnStep

-------------------------------------------------------------------------------
(* The theorems.                                                            *)

LEMMA InitInvariant == Init => IInv
<1> SUFFICES ASSUME Init PROVE IInv
  OBVIOUS
<1>1. /\ line = <<>> /\ device_error = FALSE /\ phase = "prompt" /\ outcome = "none"
      /\ error = NoError /\ pos = 0 /\ mode = "default" /\ last_address = 0 /\ next_address = 0
      /\ examined = 0 /\ rows = <<>> /\ done = <<>> /\ entry = <<0, 0>>
  BY DEF Init, InitEditor
<1>2. 0 \in 0 .. Addresses - 1
  BY AddressesPositive
<1>3. line \in Seq(Chars) /\ Len(line) = 0 /\ Len(line) <= Capacity /\ 0 \in 0 .. 0
  BY <1>1, EditorAssumption
<1>4. /\ done \in Seq(Entries) /\ rows \in Seq(Rows) /\ \A k \in DOMAIN done : Stored(done[k])
      /\ DOMAIN rows = {} /\ entry[1] = 0 /\ entry[2] = 0
  BY <1>1
<1>5. error.kind = "none" /\ error.kind \in Kinds
  BY <1>1 DEF NoError, Kinds
<1>6. Types
  BY <1>1, <1>2, <1>3, <1>4, <1>5, TypesAre
<1>7. AddressesContinue
  <2>1. Continues(done, entry, last_address, next_address)
    BY <1>1, ContinuesFirst
  <2> QED BY <1>6, <2>1, ContinuesIs DEF Types
<1>8. Showing
  BY <1>1, <1>4, <1>5 DEF Showing, RowsOK
<1>9. ReadSoFar
  BY <1>1 DEF ReadSoFar, Parsing, Carrying
<1> QED BY <1>6, <1>7, <1>8, <1>9 DEF IInv

LEMMA NextInvariant == IInv /\ [Next]_vars => IInv'
<1> SUFFICES ASSUME IInv, [Next]_vars PROVE IInv'
  OBVIOUS
<1>1. Types /\ AddressesContinue /\ Showing /\ ReadSoFar
  BY DEF IInv
<1>2. phase \in Parsing => Fits(pos, mode)
  BY <1>1 DEF ReadSoFar
<1>3. Types'
  BY <1>1, <1>2, TypesStep
<1>4. AddressesContinue'
  BY <1>1, <1>2, AddressesStep
<1>5. Showing'
  BY <1>1, <1>2, ShowingStep
<1>6. ReadSoFar'
  BY <1>1, ReadStep
<1> QED BY <1>3, <1>4, <1>5, <1>6 DEF IInv

\* In every reachable state of the monitor, what was typed, shown, read and carried
\* out, and the addresses, are to each other (read_line, start, handle_line and
\* the handle_ functions).
THEOREM Invariant == Spec => []IInv
BY InitInvariant, NextInvariant, PTL DEF Spec

LEMMA FirstWrong ==
  ASSUME line \in Seq(Chars), NEW kind, FirstFault(kind)
  PROVE  LET wrong == {i \in Tokens : Fault(i) # "none"}
         IN  wrong # {} /\ Fault(Min(wrong)) = kind
<1> DEFINE wrong == {i \in Tokens : Fault(i) # "none"}
<1>1. PICK t \in Tokens : Fault(t) = kind /\ \A i \in Tokens : i < t => Fault(i) = "none"
  BY DEF FirstFault
<1>2. t \in wrong
  BY <1>1 DEF FirstFault
<1>3. wrong \in SUBSET Nat
  BY TokensAre
<1>4. Min(wrong) \in wrong /\ \A i \in wrong : Min(wrong) <= i
  BY <1>2, <1>3, MinIs
<1> DEFINE m == Min(wrong)
<1>5. m \in Tokens /\ m \in Nat /\ t \in Nat /\ m <= t /\ Fault(m) # "none"
  BY <1>2, <1>3, <1>4
<1> HIDE DEF m
<1>6. m = t
  BY <1>1, <1>5
<1> QED BY <1>1, <1>2, <1>6 DEF m

\* A line is carried out as it reads, or not at all and with its first fault
\* reported (zhemon/parser.rs, zhemon/mod.rs).
THEOREM LineRunsReading == Spec => []RunsReading
<1>1. IInv => RunsReading
  <2> SUFFICES ASSUME IInv PROVE RunsReading
    OBVIOUS
  <2> DEFINE wrong == {i \in Tokens : Fault(i) # "none"}
  <2>1. Types /\ ReadSoFar
    BY DEF IInv
  <2>2. NoFault => wrong = {}
    BY DEF NoFault
  <2>3. outcome = "ran" => wrong = {} /\ Carried = Reading
    BY <2>1, <2>2 DEF ReadSoFar
  <2>4. outcome # "none" => phase \notin Carrying
    BY <2>1 DEF Types, Carrying
  <2>5. outcome = "refused" =>
           wrong # {} /\ error.kind = Fault(Min(wrong)) /\ done = <<>>
    BY <2>1, <2>4, TypesAre, FirstWrong DEF ReadSoFar
  <2>6. outcome \in {"abandoned", "device error", "ps", "exit"} \/ device_error => done = <<>>
    BY <2>1, <2>4 DEF ReadSoFar, Carrying
  <2>7. ASSUME phase = "away"
        PROVE  /\ wrong = {} /\ IsPrefix(Carried, Reading)
               /\ Last(Carried).op = "Run" /\ Last(done).at % Alignment = 0
    <3>1. /\ NoFault /\ Carried = ReadingTo[pos] /\ Fits(pos, mode)
          /\ done # <<>> /\ Last(done).command.op = "Run" /\ Last(done).at % Alignment = 0
      BY <2>1, <2>7 DEF ReadSoFar, Parsing, Carrying
    <3>2. line \in Seq(Chars) /\ pos \in 0 .. Len(line) /\ done \in Seq(Entries)
      BY <2>1, TypesAre
    <3>3. IsPrefix(Carried, Reading)
      BY <3>1, <3>2, ReadingPrefix
    <3>4. Last(Carried) = Last(done).command
      <4>1. Len(done) \in Nat /\ DOMAIN done = 1 .. Len(done) /\ Len(done) > 0
        BY <3>1, <3>2, EmptySeq
      <4>2. DOMAIN Carried = 1 .. Len(done) /\ Len(done) \in DOMAIN done
        BY <4>1 DEF Carried
      <4>3. Len(Carried) = Len(done)
        BY <4>1, <4>2
      <4> QED BY <4>2, <4>3 DEF Last, Carried
    <3> QED BY <2>2, <3>1, <3>3, <3>4
  <2> QED BY <2>3, <2>5, <2>6, <2>7 DEF RunsReading
<1> QED BY <1>1, Invariant, PTL

\* Bytes are stored and ranges start where the command before stopped, and Run
\* calls what was named last (the handle_ functions of zhemon/mod.rs).
THEOREM AddressesGoOn == Spec => []AddressesContinue
<1>1. IInv => AddressesContinue
  BY DEF IInv
<1> QED BY <1>1, Invariant, PTL

\* The row shows the line, the caret stands where the fault is, and every byte of
\* a range stands in the column of its address (console.rs, on_parse_error,
\* handle_examine_continuing).
THEOREM ShownWhereItStands == Spec => []ShownInPlace
<1>1. IInv => ShownInPlace
  <2> SUFFICES ASSUME IInv PROVE ShownInPlace
    OBVIOUS
  <2>1. Showing /\ rows \in Seq(Rows)
    BY TypesAre DEF IInv
  <2> DEFINE shown == <<PromptCell>> \o line
             caret == error.column + 1
  <2>2. phase = "edit" => row = shown
    BY <2>1 DEF Showing
  <2>3. error.kind # "none" => Points(error.kind, error.column)
    BY <2>1 DEF Showing
  <2>4. /\ error.kind = "UnexpectedCharacter" =>
              ~IsDigit(shown[caret]) /\ shown[caret] \notin {":", "R", ".", Space, PromptCell}
        /\ error.kind \in {"ByteTooLong", "AddressTooLong"} =>
              LET max == IF error.kind = "ByteTooLong" THEN MaxByteDigits ELSE MaxAddressDigits
              IN  /\ \A j \in caret - max .. caret : IsDigit(shown[j])
                  /\ ~IsDigit(shown[caret - max - 1])
        /\ error.kind \in {"ExpectedAByte", "ExpectedAnAddress"} =>
              caret = Len(shown) \/ shown[caret + 1] # Space
    BY <2>3 DEF Points
  <2>5. RowsOK
    BY <2>1 DEF Showing
  <2>6. /\ \A r \in DOMAIN rows : \A j \in DOMAIN rows[r].cells :
              /\ rows[r].cells[j] = rows[r].label + j - 1
              /\ rows[r].cells[j] % RowWidth = rows[r].pad + j - 1
        /\ \A r \in DOMAIN rows : r > 1 => rows[r].label = Last(rows[r - 1].cells) + 1
    BY <2>5 DEF RowsOK, RowOK
  <2>7. rows # <<>> /\ phase # "range" => Last(Last(rows).cells) = examined
    BY <2>5 DEF RowsOK, Last
  <2> QED BY <2>2, <2>4, <2>6, <2>7 DEF ShownInPlace
<1> QED BY <1>1, Invariant, PTL
===============================================================================
