--------------------------- MODULE RuntimeProofs ---------------------------
(***************************************************************************)
(* Theorems about Runtime, for every size of a word: the routines return   *)
(* the quotient, the remainder, the product and the digits of the numbers  *)
(* they are called with.                                                   *)
(*                                                                         *)
(* The first part is about numbers in two words: what each stretch of      *)
(* instructions does to the words, as arithmetic on the numbers.  The      *)
(* second part is the invariant, with one loop invariant per routine.      *)
(***************************************************************************)
EXTENDS Runtime, NaturalSets

-----------------------------------------------------------------------------
(* Division with a remainder *)

\* What div and mod are, for any divisor.
LEMMA Divides ==
  ASSUME NEW n \in Int, NEW d \in Nat, d > 0
  PROVE  /\ n \div d \in Int /\ n % d \in Int
         /\ n = d * (n \div d) + (n % d) /\ 0 <= n % d /\ n % d < d
OBVIOUS

\* There is only one quotient and one remainder.
LEMMA DividesOnce ==
  ASSUME NEW n \in Int, NEW d \in Nat, d > 0, NEW q \in Int, NEW r \in Int,
         n = d * q + r, 0 <= r, r < d
  PROVE  n \div d = q /\ n % d = r
<1> DEFINE p == n \div d
           s == n % d
<1>1. p \in Int /\ s \in Int /\ n = d * p + s /\ 0 <= s /\ s < d
  BY Divides
<1> HIDE DEF p, s
<1>2. d * (p - q) = r - s
  BY <1>1
<1>3. ~(p - q >= 1)
  <2>1. p - q >= 1 => d * (p - q) >= d
    BY <1>1
  <2>2. QED
    BY <1>1, <1>2, <2>1
<1>4. ~(p - q <= -1)
  <2>1. p - q <= -1 => d * (p - q) <= -d
    BY <1>1
  <2>2. QED
    BY <1>1, <1>2, <2>1
<1>5. p = q
  BY <1>1, <1>3, <1>4
<1>6. s = r
  BY <1>1, <1>5
<1>7. QED
  BY <1>5, <1>6 DEF p, s

\* Dividing twice is dividing by the product.
LEMMA DividesTwice ==
  ASSUME NEW n \in Nat, NEW c \in Nat, c > 0, NEW d \in Nat, d > 0
  PROVE  (n \div c) \div d = n \div (d * c)
<1> DEFINE q == n \div c
           r == n % c
           p == q \div d
           s == q % d
<1>1. q \in Int /\ r \in Int /\ n = c * q + r /\ 0 <= r /\ r < c
  BY Divides
<1>2. p \in Int /\ s \in Int /\ q = d * p + s /\ 0 <= s /\ s < d
  BY <1>1, Divides
<1> HIDE DEF q, r, p, s
<1>3. n = (d * c) * p + (c * s + r)
  <2>1. c * (d * p + s) = (d * c) * p + c * s
    BY <1>2
  <2>2. QED
    BY <1>1, <1>2, <2>1
<1>4. 0 <= c * s + r /\ c * s + r < d * c /\ c * s + r \in Int
  <2>1. s <= d - 1
    BY <1>2
  <2>2. c * s <= c * (d - 1)
    BY <1>2, <2>1
  <2>3. c * (d - 1) = d * c - c /\ 0 <= c * s /\ c * s \in Int
    BY <1>2
  <2>4. QED
    BY <1>1, <2>2, <2>3
<1>5. d * c \in Nat /\ d * c > 0
  OBVIOUS
<1>6. n \div (d * c) = p
  BY <1>2, <1>3, <1>4, <1>5, DividesOnce
<1>7. QED
  BY <1>6 DEF p, q

-----------------------------------------------------------------------------
(* Powers *)

\* Power is the power.
LEMMA Powers ==
  ASSUME NEW r \in Nat
  PROVE  /\ Power(r, 0) = 1
         /\ \A n \in Nat : Power(r, n) \in Nat /\ Power(r, n + 1) = r * Power(r, n)
<1> DEFINE Is(f, n) == f = [k \in 0 .. n |-> IF k = 0 THEN 1 ELSE r * f[k - 1]]
           S == {n \in Nat : \E f : Is(f, n) /\ \A k \in 0 .. n : f[k] \in Nat}
           P(n) == CHOOSE f : Is(f, n)
           T == {n \in Nat : \A f, g, m : m \in Nat /\ n <= m /\ Is(f, m) /\ Is(g, m + 1) => f[n] = g[n]}
<1>1. 0 \in S
  <2> DEFINE f == [k \in 0 .. 0 |-> 1]
  <2>1. f = [k \in 0 .. 0 |-> IF k = 0 THEN 1 ELSE r * f[k - 1]]
    OBVIOUS
  <2>2. Is(f, 0) /\ \A k \in 0 .. 0 : f[k] \in Nat
    BY <2>1
  <2>3. QED
    BY <2>2
<1>2. ASSUME NEW n \in S PROVE n + 1 \in S
  <2>1. PICK f : Is(f, n) /\ \A k \in 0 .. n : f[k] \in Nat
    BY DEF S
  <2>2. n \in Nat
    BY DEF S
  <2> DEFINE g == [k \in 0 .. n + 1 |-> IF k <= n THEN f[k] ELSE r * f[n]]
  <2>3. \A k \in 0 .. n : f[k] = IF k = 0 THEN 1 ELSE r * f[k - 1]
    BY <2>1
  <2>4. r * f[n] \in Nat
    BY <2>1, <2>2
  <2>5. \A k \in 0 .. n + 1 : g[k] \in Nat
    BY <2>1, <2>2, <2>4
  <2>6. ASSUME NEW k \in 0 .. n + 1
        PROVE  g[k] = IF k = 0 THEN 1 ELSE r * g[k - 1]
    <3>1. CASE k <= n
      BY <2>2, <2>3, <3>1
    <3>2. CASE k = n + 1
      BY <2>2, <3>2
    <3>3. QED
      BY <2>2, <3>1, <3>2
  <2>7. Is(g, n + 1)
    BY <2>6
  <2> HIDE DEF g, Is
  <2>8. QED
    BY <2>2, <2>5, <2>7
<1>3. S = Nat
  <2>1. S \in SUBSET Nat
    OBVIOUS
  <2> HIDE DEF S
  <2>2. QED
    BY <1>1, <1>2, <2>1, NatInductive
<1>4. \A n \in Nat : Is(P(n), n)
  <2> HIDE DEF Is, S
  <2>1. ASSUME NEW n \in Nat PROVE \E f : Is(f, n)
    <3>1. n \in S
      BY <1>3
    <3>2. QED
      BY <3>1, Zenon DEF S
  <2>2. QED
    BY <2>1
<1>5. \A n \in Nat : Power(r, n) = P(n)[n]
  BY DEF Power
<1>6. 0 \in T
  OBVIOUS
<1>7. ASSUME NEW n \in T PROVE n + 1 \in T
  <2>1. n \in Nat
    OBVIOUS
  <2>2. SUFFICES ASSUME NEW f, NEW g, NEW m \in Nat, n + 1 <= m, Is(f, m), Is(g, m + 1)
                 PROVE  f[n + 1] = g[n + 1]
    <3> HIDE DEF Is
    <3>1. QED
      BY <2>1
  <2>3. f[n] = g[n]
    <3> HIDE DEF Is
    <3>1. n <= m
      BY <2>1, <2>2
    <3>2. QED
      BY <2>2, <3>1
  <2>4. f[n + 1] = r * f[n] /\ g[n + 1] = r * g[n]
    <3>1. n + 1 \in 0 .. m /\ n + 1 \in 0 .. m + 1 /\ n + 1 # 0 /\ (n + 1) - 1 = n
      BY <2>1, <2>2
    <3>2. /\ \A k \in 0 .. m : f[k] = IF k = 0 THEN 1 ELSE r * f[k - 1]
          /\ \A k \in 0 .. m + 1 : g[k] = IF k = 0 THEN 1 ELSE r * g[k - 1]
      BY <2>2
    <3>3. QED
      BY <3>1, <3>2
  <2>5. QED
    BY <2>3, <2>4
<1>8. T = Nat
  <2>1. T \in SUBSET Nat
    OBVIOUS
  <2> HIDE DEF T
  <2>2. QED
    BY <1>6, <1>7, <2>1, NatInductive
<1>9. \A n \in Nat : P(n)[n] = P(n + 1)[n] /\ P(n + 1)[n + 1] = r * P(n + 1)[n]
  <2> SUFFICES ASSUME NEW n \in Nat
               PROVE  P(n)[n] = P(n + 1)[n] /\ P(n + 1)[n + 1] = r * P(n + 1)[n]
    OBVIOUS
  <2>1. n + 1 \in Nat /\ n + 1 \in 0 .. n + 1 /\ n + 1 # 0 /\ (n + 1) - 1 = n
    OBVIOUS
  <2>2. Is(P(n), n) /\ Is(P(n + 1), n + 1)
    BY <1>4, <2>1
  <2> HIDE DEF P
  <2>3. P(n)[n] = P(n + 1)[n]
    <3> HIDE DEF Is
    <3>1. \A f, g, m : m \in Nat /\ n <= m /\ Is(f, m) /\ Is(g, m + 1) => f[n] = g[n]
      BY <1>8
    <3>2. QED
      BY <2>2, <3>1
  <2>4. P(n + 1)[n + 1] = r * P(n + 1)[n]
    <3>1. \A k \in 0 .. n + 1 : P(n + 1)[k] = IF k = 0 THEN 1 ELSE r * P(n + 1)[k - 1]
      BY <2>2
    <3>2. QED
      BY <2>1, <3>1
  <2>5. QED
    BY <2>3, <2>4
<1>10. P(0)[0] = 1
  <2>1. Is(P(0), 0)
    BY <1>4
  <2> HIDE DEF P
  <2>2. \A k \in 0 .. 0 : P(0)[k] = IF k = 0 THEN 1 ELSE r * P(0)[k - 1]
    BY <2>1
  <2>3. QED
    BY <2>2
<1> HIDE DEF P
<1>11. Power(r, 0) = 1
  BY <1>5, <1>10
<1>12. \A n \in Nat : Power(r, n + 1) = r * Power(r, n)
  BY <1>5, <1>9
<1>13. \A n \in Nat : Power(r, n) \in Nat
  <2> DEFINE U == {n \in Nat : Power(r, n) \in Nat}
  <2>1. 0 \in U
    BY <1>11
  <2>2. ASSUME NEW n \in U PROVE n + 1 \in U
    BY <1>12
  <2>3. U \in SUBSET Nat
    OBVIOUS
  <2>4. U = Nat
    <3> HIDE DEF U
    <3>1. QED
      BY <2>1, <2>2, <2>3, NatInductive
  <2>5. QED
    BY <2>4
<1>14. QED
  BY <1>11, <1>12, <1>13

-----------------------------------------------------------------------------
(* Numbers in two words *)

\* Half of what a word can be.
Half == Base \div 2

LEMMA Halves == Half \in Nat /\ Half >= 2 /\ Base \in Nat /\ Base = 2 * Half /\ Base > 0
BY HalvesAssumption DEF Half

\* What is less than a word apart from the values of a word is brought back.
LEMMA WordMod ==
  ASSUME NEW n \in Int
  PROVE  /\ n % Base \in Word
         /\ 0 <= n /\ n < Base => n % Base = n
         /\ -Base <= n /\ n < 0 => n % Base = n + Base
         /\ Base <= n /\ n < 2 * Base => n % Base = n - Base
BY Halves, DividesOnce DEF Word

\* A pair of words is a number.
LEMMA ValueBounds ==
  ASSUME NEW p \in Pairs
  PROVE  /\ p.lo \in Int /\ p.hi \in Int
         /\ 0 <= p.lo /\ p.lo < Base /\ 0 <= p.hi /\ p.hi < Base
         /\ p = [lo |-> p.lo, hi |-> p.hi]
         /\ ValueOf(p) = p.lo + Base * p.hi
         /\ ValueOf(p) \in Nat /\ ValueOf(p) < Base * Base
         /\ 0 <= Base * p.hi
<1>1. p.lo \in Int /\ p.hi \in Int /\ 0 <= p.lo /\ p.lo < Base /\ 0 <= p.hi /\ p.hi < Base
  BY Halves DEF Pairs, Word
<1>2. p = [lo |-> p.lo, hi |-> p.hi]
  BY DEF Pairs
<1>3. Base * p.hi <= Base * (Base - 1) /\ Base * (Base - 1) = Base * Base - Base
  BY <1>1, Halves
<1>4. 0 <= Base * p.hi /\ Base * p.hi \in Int
  BY <1>1, Halves
<1>5. Base * Base \in Int
  BY Halves
<1>6. ValueOf(p) = p.lo + Base * p.hi
  BY DEF ValueOf
<1>7. ValueOf(p) \in Nat /\ ValueOf(p) < Base * Base
  BY <1>1, <1>3, <1>4, <1>5, <1>6, Halves
<1>8. QED
  BY <1>1, <1>2, <1>4, <1>6, <1>7

\* Every pair is the pair of its number.
LEMMA PairOfValue ==
  ASSUME NEW p \in Pairs
  PROVE  Pair(ValueOf(p)) = p
<1> DEFINE n == ValueOf(p)
<1>1. p.lo \in Int /\ p.hi \in Int /\ n \in Int /\ n = Base * p.hi + p.lo
  BY ValueBounds, Halves
<1>2. 0 <= p.lo /\ p.lo < Base /\ 0 <= p.hi /\ p.hi < Base
  BY ValueBounds
<1> HIDE DEF n
<1>3. n \div Base = p.hi /\ n % Base = p.lo
  <2>1. Base \in Nat /\ Base > 0
    BY Halves
  <2>2. QED
    BY ONLY <1>1, <1>2, <2>1, DividesOnce
<1>4. p.hi % Base = p.hi
  BY <1>1, <1>2, WordMod
<1>5. Pair(n) = [lo |-> p.lo, hi |-> p.hi]
  BY <1>3, <1>4 DEF Pair, LowWord, HighWord
<1>6. QED
  BY <1>5, ValueBounds DEF n

\* Every number is cut to a pair, and one that fits is kept.
LEMMA ValueOfPair ==
  ASSUME NEW n \in Int
  PROVE  Pair(n) \in Pairs /\ (0 <= n /\ n < Base * Base => ValueOf(Pair(n)) = n)
<1> DEFINE q == n \div Base
           r == n % Base
<1>1. q \in Int /\ r \in Int /\ n = Base * q + r /\ 0 <= r /\ r < Base
  BY Divides, Halves
<1>2. Pair(n) = [lo |-> r, hi |-> q % Base]
  BY DEF Pair, LowWord, HighWord
<1> HIDE DEF q, r
<1>3. Pair(n) \in Pairs
  <2>1. q % Base \in Word
    BY <1>1, WordMod
  <2>2. r \in Word
    BY <1>1, Halves DEF Word
  <2>3. QED
    BY <1>2, <2>1, <2>2 DEF Pairs
<1>4. ASSUME 0 <= n, n < Base * Base PROVE ValueOf(Pair(n)) = n
  <2>1. ~(q <= -1)
    <3>1. q <= -1 => Base * q <= -Base
      BY <1>1, Halves
    <3>2. QED
      BY <1>1, <1>4, <3>1, Halves
  <2>2. ~(q >= Base)
    <3>1. q >= Base => Base * q >= Base * Base
      BY <1>1, Halves
    <3>2. Base * q \in Int /\ Base * Base \in Int
      BY <1>1, Halves
    <3>3. QED
      BY <1>1, <1>4, <3>1, <3>2
  <2>3. q % Base = q
    BY <1>1, <2>1, <2>2, WordMod, Halves
  <2>4. Pair(n) = [lo |-> r, hi |-> q]
    BY <1>2, <2>3
  <2>5. ValueOf(Pair(n)) = r + Base * q
    BY <2>4 DEF ValueOf
  <2>6. Base * q \in Int
    BY <1>1, Halves
  <2>7. QED
    BY <1>1, <2>5, <2>6
<1>5. QED
  BY <1>3, <1>4

\* Pairs are equal if their numbers are.
LEMMA SameValue ==
  ASSUME NEW p \in Pairs, NEW n \in Int, ValueOf(p) = n
  PROVE  p = Pair(n)
BY PairOfValue

\* Zero is the pair of zero.
LEMMA ZeroValue ==
  /\ Zero \in Pairs /\ Zero = [lo |-> 0, hi |-> 0] /\ ValueOf(Zero) = 0
  /\ \A p \in Pairs : p = Zero <=> ValueOf(p) = 0
<1>1. Zero \in Pairs /\ ValueOf(Zero) = 0
  <2>1. 0 < Base * Base
    BY Halves
  <2>2. QED
    BY <2>1, ValueOfPair DEF Zero
<1>2. \A p \in Pairs : p = Zero <=> ValueOf(p) = 0
  BY <1>1, SameValue DEF Zero
<1>3. [lo |-> 0, hi |-> 0] \in Pairs /\ ValueOf([lo |-> 0, hi |-> 0]) = 0
  BY Halves DEF Pairs, Word, ValueOf
<1>4. QED
  BY <1>1, <1>2, <1>3

\* A result stands for a number in the range of two words, or for its complement.
LEMMA ReturnsValue ==
  ASSUME NEW p \in Pairs, NEW n \in Int,
         -(Base * Base) < n, n < Base * Base,
         ValueOf(p) = IF n < 0 THEN n + Base * Base ELSE n
  PROVE  Returns(n, p)
<1> DEFINE b == Base * Base
<1>1. b \in Nat /\ b > 0
  BY Halves
<1>2. n % b = ValueOf(p)
  <2>1. CASE n < 0
    <3>1. n = b * (-1) + (n + b) /\ 0 <= n + b /\ n + b < b /\ n + b \in Int
      <4> HIDE DEF b
      <4>1. n + b < b
        BY <1>1, <2>1
      <4>2. 0 <= n + b
        BY <1>1 DEF b
      <4>3. QED
        BY <1>1, <4>1, <4>2
    <3>2. -1 \in Int
      OBVIOUS
    <3>3. ValueOf(p) = n + b
      BY <2>1
    <3> HIDE DEF b
    <3>4. QED
      BY <1>1, <3>1, <3>2, <3>3, DividesOnce
  <2>2. CASE n >= 0
    <3>1. ValueOf(p) = n /\ n < b
      BY <2>2
    <3> HIDE DEF b
    <3>2. n = b * 0 + n /\ 0 \in Int
      BY <1>1
    <3>3. QED
      BY <1>1, <2>2, <3>1, <3>2, DividesOnce
  <2>3. QED
    BY <2>1, <2>2
<1>3. n % b \in Int
  BY <1>2, ValueBounds
<1>4. QED
  BY <1>2, <1>3, SameValue DEF Returns

-----------------------------------------------------------------------------
(* What the instructions do to numbers in two words *)

\* The sign of a number is that of its high word.
LEMMA SignValue ==
  ASSUME NEW p \in Pairs
  PROVE  /\ Negative(p.hi) <=> ValueOf(p) >= Base * Half
         /\ Base * Half \in Nat /\ Base * Base = 2 * (Base * Half)
         /\ (Base * Base) \div 2 = Base * Half
<1>1. p.lo \in Int /\ p.hi \in Int /\ 0 <= p.lo /\ p.lo < Base /\ 0 <= p.hi /\ p.hi < Base
  BY ValueBounds
<1>2. ValueOf(p) = p.lo + Base * p.hi /\ ValueOf(p) \in Int
  BY ValueBounds
<1>3. p.hi >= Half => Base * p.hi >= Base * Half
  BY <1>1, Halves
<1>4. p.hi <= Half - 1 => Base * p.hi <= Base * (Half - 1)
  BY <1>1, Halves
<1>5. Base * (Half - 1) = Base * Half - Base
  BY Halves
<1>6. Base * p.hi \in Int /\ Base * Half \in Nat
  BY <1>1, Halves
<1>7. Negative(p.hi) <=> p.hi >= Half
  BY DEF Negative, Half
<1>8. Negative(p.hi) <=> ValueOf(p) >= Base * Half
  <2>1. p.hi >= Half \/ p.hi <= Half - 1
    BY <1>1, Halves
  <2>2. QED
    BY <1>1, <1>2, <1>3, <1>4, <1>5, <1>6, <1>7, <2>1, Halves
<1>9. Base * Base = 2 * (Base * Half)
  BY Halves
<1>10. (Base * Base) \div 2 = Base * Half
  <2>1. Base * Base = 2 * (Base * Half) + 0 /\ Base * Base \in Int /\ Base * Half \in Int
    BY <1>6, <1>9
  <2>2. QED
    BY <2>1, DividesOnce
<1>11. QED
  BY <1>6, <1>8, <1>9, <1>10

\* Values of a pair written out.
LEMMA Written ==
  ASSUME NEW l \in Int, NEW h \in Int, 0 <= l, l < Base, 0 <= h, h < Base
  PROVE  /\ [lo |-> l, hi |-> h] \in Pairs
         /\ ValueOf([lo |-> l, hi |-> h]) = l + Base * h
BY Halves DEF Pairs, Word, ValueOf

\* A difference of words, and its borrow.
LEMMA Difference ==
  ASSUME NEW x \in Int, NEW y \in Int, NEW c \in {0, 1},
         0 <= x, x < Base, 0 <= y, y < Base
  PROVE  /\ SubWords(x, y, c).val = IF x < y + c THEN x - y - c + Base ELSE x - y - c
         /\ Borrow(SubWords(x, y, c)) = IF x < y + c THEN 1 ELSE 0
<1>1. SubWords(x, y, c).val = (x - y - c) % Base
  BY DEF SubWords, Outcome
<1>2. Borrow(SubWords(x, y, c)) = IF x < y + c THEN 1 ELSE 0
  BY DEF SubWords, Outcome, Borrow
<1>3. CASE x < y + c
  <2>1. x - y - c \in Int /\ -Base <= x - y - c /\ x - y - c < 0
    BY <1>3, Halves
  <2>2. QED
    BY <1>1, <1>2, <1>3, <2>1, WordMod
<1>4. CASE ~(x < y + c)
  <2>1. x - y - c \in Int /\ 0 <= x - y - c /\ x - y - c < Base
    BY <1>4, Halves
  <2>2. QED
    BY <1>1, <1>2, <1>4, <2>1, WordMod
<1>5. QED
  BY <1>3, <1>4

\* A sum of words, and its carry.
LEMMA WordSum ==
  ASSUME NEW x \in Int, NEW y \in Int, NEW c \in {0, 1},
         0 <= x, x < Base, 0 <= y, y < Base
  PROVE  /\ AddWords(x, y, c).val = IF x + y + c >= Base THEN (x + y + c) - Base ELSE x + y + c
         /\ Borrow(AddWords(x, y, c)) = IF x + y + c >= Base THEN 1 ELSE 0
<1>1. AddWords(x, y, c).val = (x + y + c) % Base
  BY DEF AddWords, Outcome
<1>2. Borrow(AddWords(x, y, c)) = IF x + y + c >= Base THEN 1 ELSE 0
  BY DEF AddWords, Outcome, Borrow
<1>3. CASE x + y + c >= Base
  <2>1. x + y + c \in Int /\ Base <= x + y + c /\ x + y + c < 2 * Base
    BY <1>3, Halves
  <2>2. (x + y + c) % Base = (x + y + c) - Base
    BY <2>1, WordMod
  <2>3. QED
    BY <1>1, <1>2, <1>3, <2>2
<1>4. CASE ~(x + y + c >= Base)
  <2>1. x + y + c \in Int /\ 0 <= x + y + c /\ x + y + c < Base
    BY <1>4, Halves
  <2>2. QED
    BY <1>1, <1>2, <1>4, <2>1, WordMod
<1>5. QED
  BY <1>3, <1>4

\* The complement of a number in two words.
Complement(n) == IF n = 0 THEN 0 ELSE Base * Base - n

\* And its words.
LEMMA ComplementWords ==
  ASSUME NEW p \in Pairs, NEW lo \in Int, NEW hi \in Int,
         lo = IF p.lo = 0 THEN 0 ELSE Base - p.lo,
         hi = IF p.lo # 0 THEN Base - 1 - p.hi ELSE IF p.hi = 0 THEN 0 ELSE Base - p.hi
  PROVE  /\ [lo |-> lo, hi |-> hi] \in Pairs
         /\ ValueOf([lo |-> lo, hi |-> hi]) = Complement(ValueOf(p))
<1> DEFINE l == p.lo
           h == p.hi
           n == Base * h
<1>1. l \in Int /\ h \in Int /\ 0 <= l /\ l < Base /\ 0 <= h /\ h < Base
  BY ValueBounds
<1>2. ValueOf(p) = l + n /\ 0 <= n /\ n \in Int
  BY <1>1, ValueBounds, Halves
<1>3. 0 <= lo /\ lo < Base /\ 0 <= hi /\ hi < Base
  BY <1>1, Halves
<1>4. h # 0 => n > 0
  BY <1>1, Halves
<1>5. /\ Base * (Base - h) = Base * Base - n
      /\ Base * (Base - 1 - h) = Base * Base - Base - n
      /\ Base * Base \in Int /\ Base * 0 = 0
  BY <1>1, Halves
<1>6. lo + Base * hi = Complement(l + n)
  <2>1. h = 0 => n = 0
    BY Halves
  <2> HIDE DEF n
  <2>2. CASE l = 0 /\ h = 0
    BY <1>5, <2>1, <2>2 DEF Complement
  <2>3. CASE l = 0 /\ h # 0
    <3>1. l + n # 0 /\ l + n = n
      BY <1>2, <1>4, <2>3
    <3>2. lo = 0 /\ Base * hi = Base * Base - n
      BY <1>5, <2>3
    <3>3. QED
      BY <1>2, <1>5, <3>1, <3>2 DEF Complement
  <2>4. CASE l # 0
    <3>1. l + n # 0
      BY <1>1, <1>2, <2>4
    <3>2. lo = Base - l /\ Base * hi = Base * Base - Base - n
      BY <1>5, <2>4
    <3>3. QED
      BY <1>1, <1>2, <1>5, <3>1, <3>2, Halves DEF Complement
  <2>5. QED
    BY <2>2, <2>3, <2>4
<1>7. QED
  BY <1>2, <1>3, <1>6, Written

\* neg hi; neg lo; sbb hi, 0 negates the number.
LEMMA NegatedValue ==
  ASSUME NEW p \in Pairs
  PROVE  Negated(p) \in Pairs /\ ValueOf(Negated(p)) = Complement(ValueOf(p))
<1> DEFINE l == p.lo
           h == p.hi
           lo == SubWords(0, l, 0)
           hi == SubWords(0, h, 0)
           top == SubWords(hi.val, 0, Borrow(lo)).val
<1>1. l \in Int /\ h \in Int /\ 0 <= l /\ l < Base /\ 0 <= h /\ h < Base
  BY ValueBounds
<1>2. Negated(p) = [lo |-> lo.val, hi |-> top]
  BY DEF Negated
<1>3. /\ lo.val = IF l = 0 THEN 0 ELSE Base - l
      /\ Borrow(lo) = IF l = 0 THEN 0 ELSE 1
  BY <1>1, Halves, Difference, SMTT(30)
<1>4. hi.val = IF h = 0 THEN 0 ELSE Base - h
  BY <1>1, Halves, Difference, SMTT(30)
<1> HIDE DEF lo, hi
<1>5. top = IF hi.val < Borrow(lo) THEN hi.val - Borrow(lo) + Base ELSE hi.val - Borrow(lo)
  <2>1. hi.val \in Int /\ 0 <= hi.val /\ hi.val < Base
    BY <1>1, <1>4, Halves
  <2>2. Borrow(lo) \in {0, 1}
    BY <1>3
  <2>3. QED
    BY <2>1, <2>2, Halves, Difference
<1> HIDE DEF top
<1>6. top = IF l = 0 THEN (IF h = 0 THEN 0 ELSE Base - h) ELSE Base - 1 - h
  BY <1>1, <1>3, <1>4, <1>5, Halves
<1>7. /\ lo.val \in Int /\ 0 <= lo.val /\ lo.val < Base
      /\ top \in Int /\ 0 <= top /\ top < Base
  BY <1>1, <1>3, <1>6, Halves
<1>8. QED
  BY <1>2, <1>3, <1>6, <1>7, ComplementWords

\* not ax; not dx; add ax, 1; adc dx, 0 does the same.
LEMMA ComplementedValue ==
  ASSUME NEW p \in Pairs
  PROVE  Complemented(p) \in Pairs /\ ValueOf(Complemented(p)) = Complement(ValueOf(p))
<1> DEFINE l == p.lo
           h == p.hi
           lo == AddWords(Base - 1 - l, 1, 0)
           top == AddWords(Base - 1 - h, 0, Borrow(lo)).val
<1>1. l \in Int /\ h \in Int /\ 0 <= l /\ l < Base /\ 0 <= h /\ h < Base
  BY ValueBounds
<1>2. Complemented(p) = [lo |-> lo.val, hi |-> top]
  BY DEF Complemented
<1>3. /\ lo.val = IF l = 0 THEN 0 ELSE Base - l
      /\ Borrow(lo) = IF l = 0 THEN 1 ELSE 0
  <2>1. Base - 1 - l \in Int /\ 0 <= Base - 1 - l /\ Base - 1 - l < Base /\ 1 < Base
    BY <1>1, Halves
  <2>2. /\ lo.val = IF (Base - 1 - l) + 1 + 0 >= Base
                      THEN ((Base - 1 - l) + 1 + 0) - Base ELSE (Base - 1 - l) + 1 + 0
        /\ Borrow(lo) = IF (Base - 1 - l) + 1 + 0 >= Base THEN 1 ELSE 0
    BY <2>1, WordSum
  <2> HIDE DEF lo
  <2>3. QED
    BY <1>1, <2>2, Halves
<1> HIDE DEF lo
<1>4. top = IF l # 0 THEN Base - 1 - h ELSE IF h = 0 THEN 0 ELSE Base - h
  <2>1. Base - 1 - h \in Int /\ 0 <= Base - 1 - h /\ Base - 1 - h < Base /\ 0 < Base
    BY <1>1, Halves
  <2>2. Borrow(lo) \in {0, 1}
    BY <1>3
  <2>3. top = IF (Base - 1 - h) + 0 + Borrow(lo) >= Base
                THEN ((Base - 1 - h) + 0 + Borrow(lo)) - Base ELSE (Base - 1 - h) + 0 + Borrow(lo)
    BY <2>1, <2>2, WordSum
  <2> HIDE DEF top
  <2>4. QED
    BY <1>1, <1>3, <2>3, Halves
<1> HIDE DEF top
<1>5. /\ lo.val \in Int /\ 0 <= lo.val /\ lo.val < Base
      /\ top \in Int /\ 0 <= top /\ top < Base
  BY <1>1, <1>3, <1>4, Halves
<1>6. QED
  BY <1>2, <1>3, <1>4, <1>5, ComplementWords

\* The magnitude of a signed number.
LEMMA MagnitudeValue ==
  ASSUME NEW p \in Pairs
  PROVE  /\ Magnitude(p) \in Pairs
         /\ ValueOf(Magnitude(p)) =
              IF ValueOf(p) >= Base * Half THEN Base * Base - ValueOf(p) ELSE ValueOf(p)
<1>1. ValueOf(p) \in Nat /\ Base * Half \in Nat /\ Base * Half > 0
  BY ValueBounds, SignValue, Halves
<1>2. ValueOf(p) >= Base * Half => Complement(ValueOf(p)) = Base * Base - ValueOf(p)
  BY <1>1 DEF Complement
<1>3. QED
  BY <1>1, <1>2, SignValue, NegatedValue DEF Magnitude

\* The numbers of one word.
LEMMA OneWord ==
  ASSUME NEW p \in Pairs, ValueOf(p) < Base
  PROVE  p.hi = 0 /\ p.lo = ValueOf(p)
<1>1. p.lo \in Int /\ p.hi \in Int /\ 0 <= p.lo /\ 0 <= p.hi /\ ValueOf(p) = p.lo + Base * p.hi
  BY ValueBounds
<1>2. p.hi >= 1 => Base * p.hi >= Base
  BY <1>1, Halves
<1>3. Base * p.hi \in Int
  BY <1>1, Halves
<1>4. p.hi = 0
  BY <1>1, <1>2, <1>3, Halves
<1>5. Base * 0 = 0
  BY Halves
<1>6. QED
  BY <1>1, <1>4, <1>5

\* shl, rcl doubles the number, if there is room.
LEMMA ShiftedLeftValue ==
  ASSUME NEW p \in Pairs
  PROVE  /\ ShiftedLeft(p) \in Pairs
         /\ 2 * ValueOf(p) < Base * Base => ValueOf(ShiftedLeft(p)) = 2 * ValueOf(p)
<1>1. 2 * ValueOf(p) \in Int /\ 0 <= 2 * ValueOf(p)
  BY ValueBounds
<1>2. QED
  BY <1>1, ValueOfPair DEF ShiftedLeft

\* sar, rcr halves each word, and the number if it is not negative.
LEMMA ShiftedRightValue ==
  ASSUME NEW p \in Pairs
  PROVE  /\ ShiftedRight(p) \in Pairs
         /\ p.hi < Half => ShiftedRight(p).hi = p.hi \div 2
         /\ ValueOf(p) < Base * Half => ValueOf(ShiftedRight(p)) = ValueOf(p) \div 2
<1> DEFINE l == p.lo
           h == p.hi
           l2 == l \div 2
           h2 == h \div 2
           a == l % 2
           b == h % 2
           hi == h2 + (IF Negative(h) THEN Half ELSE 0)
           lo == l2 + b * Half
<1>1. l \in Int /\ h \in Int /\ 0 <= l /\ l < Base /\ 0 <= h /\ h < Base
  BY ValueBounds
<1>2. /\ l2 \in Int /\ h2 \in Int /\ a \in {0, 1} /\ b \in {0, 1}
      /\ l = 2 * l2 + a /\ h = 2 * h2 + b
  BY <1>1
<1>3. ShiftedRight(p) = [lo |-> lo, hi |-> hi]
  BY DEF ShiftedRight, Half
<1>4. Negative(h) <=> h >= Half
  BY DEF Negative, Half
<1>5. ValueOf(p) = l + Base * h /\ ValueOf(p) \in Nat
  BY ValueBounds
<1> HIDE DEF l2, h2, a, b
<1>6. b * Half = IF b = 1 THEN Half ELSE 0
  BY <1>2, Halves
<1>7. lo \in Int /\ 0 <= lo /\ lo < Base
  BY <1>1, <1>2, <1>6, Halves
<1>8. hi \in Int /\ 0 <= hi /\ hi < Base
  BY <1>1, <1>2, <1>4, Halves
<1>9. h < Half => hi = h2
  BY <1>1, <1>2, <1>4, Halves
<1> HIDE DEF lo, hi
<1>10. ShiftedRight(p) \in Pairs /\ ValueOf(ShiftedRight(p)) = lo + Base * hi
  BY <1>3, <1>7, <1>8, Written
<1>11. ShiftedRight(p).hi = hi
  BY <1>3
<1>12. ASSUME ValueOf(p) < Base * Half PROVE ValueOf(ShiftedRight(p)) = ValueOf(p) \div 2
  <2>1. h < Half
    <3>1. ~Negative(p.hi)
      <4>1. ~(ValueOf(p) >= Base * Half)
        BY <1>5, <1>12, SignValue
      <4>2. QED
        BY <4>1, SignValue
    <3>2. QED
      BY <1>1, <1>4, <3>1, Halves
  <2>2. hi = h2
    BY <1>9, <2>1
  <2>3. Base * h = 2 * (Base * h2) + Base * b /\ Base * h2 \in Int
    BY <1>2, Halves
  <2>4. Base * b = 2 * (b * Half)
    BY <1>2, Halves
  <2>5. lo = l2 + b * Half /\ b * Half \in Int
    BY <1>2, <1>6, Halves DEF lo
  <2> DEFINE m == lo + Base * h2
  <2>6. m \in Int /\ ValueOf(p) = 2 * m + a
    BY <1>1, <1>2, <1>5, <2>3, <2>4, <2>5
  <2>7. 0 <= a /\ a < 2 /\ a \in Int
    BY <1>2
  <2> HIDE DEF m
  <2>8. ValueOf(p) \div 2 = m
    BY <1>5, <2>6, <2>7, DividesOnce
  <2>9. QED
    BY <1>10, <2>2, <2>8 DEF m
<1>13. QED
  BY <1>9, <1>10, <1>11, <1>12 DEF h2

\* The comparison is that of the numbers, if none is negative.
LEMMA ReachesValue ==
  ASSUME NEW p \in Pairs, NEW q \in Pairs,
         ValueOf(p) < Base * Half, ValueOf(q) < Base * Half
  PROVE  Reaches(p, q) <=> ValueOf(p) >= ValueOf(q)
<1> DEFINE a == Base * p.hi
           b == Base * q.hi
<1>1. /\ p.lo \in Int /\ p.hi \in Int /\ 0 <= p.lo /\ p.lo < Base /\ 0 <= p.hi
      /\ q.lo \in Int /\ q.hi \in Int /\ 0 <= q.lo /\ q.lo < Base /\ 0 <= q.hi
  BY ValueBounds
<1>2. ValueOf(p) = p.lo + a /\ ValueOf(q) = q.lo + b
  BY ValueBounds
<1>3. a \in Int /\ b \in Int
  BY <1>1, Halves
<1>4. SignedWord(p.hi) = p.hi /\ SignedWord(q.hi) = q.hi
  <2>1. ~Negative(p.hi) /\ ~Negative(q.hi)
    <3>1. ValueOf(p) \in Nat /\ ValueOf(q) \in Nat /\ Base * Half \in Nat
      BY ValueBounds, SignValue
    <3>2. QED
      BY <3>1, SignValue
  <2>2. QED
    BY <2>1 DEF SignedWord
<1>5. p.hi >= q.hi + 1 => a >= b + Base
  <2>1. p.hi >= q.hi + 1 => Base * p.hi >= Base * (q.hi + 1)
    BY <1>1, Halves
  <2>2. QED
    BY <1>1, <2>1, Halves
<1>6. q.hi >= p.hi + 1 => b >= a + Base
  <2>1. q.hi >= p.hi + 1 => Base * q.hi >= Base * (p.hi + 1)
    BY <1>1, Halves
  <2>2. QED
    BY <1>1, <2>1, Halves
<1>7. p.hi = q.hi => a = b
  OBVIOUS
<1> HIDE DEF a, b
<1>8. Reaches(p, q) <=> p.hi > q.hi \/ (p.hi = q.hi /\ p.lo >= q.lo)
  BY <1>4 DEF Reaches
<1>9. CASE p.hi > q.hi
  BY <1>1, <1>2, <1>3, <1>5, <1>8, <1>9, Halves
<1>10. CASE p.hi = q.hi
  BY <1>1, <1>2, <1>3, <1>7, <1>8, <1>10, Halves
<1>11. CASE p.hi < q.hi
  BY <1>1, <1>2, <1>3, <1>6, <1>8, <1>11, Halves
<1>12. QED
  BY <1>1, <1>9, <1>10, <1>11

\* sub, sbb subtract the number, as long as both have one word: the borrow that goes
\* the wrong way is none.
LEMMA SubtractedValue ==
  ASSUME NEW p \in Pairs, NEW q \in Pairs
  PROVE  /\ Subtracted(p, q) \in Pairs
         /\ ValueOf(p) < Base /\ ValueOf(q) <= ValueOf(p) =>
              ValueOf(Subtracted(p, q)) = ValueOf(p) - ValueOf(q)
<1> DEFINE hi == SubWords(p.hi, q.hi, 0)
           lo == SubWords(p.lo, q.lo, Borrow(hi))
<1>1. /\ p.lo \in Int /\ p.hi \in Int /\ 0 <= p.lo /\ p.lo < Base /\ 0 <= p.hi /\ p.hi < Base
      /\ q.lo \in Int /\ q.hi \in Int /\ 0 <= q.lo /\ q.lo < Base /\ 0 <= q.hi /\ q.hi < Base
  BY ValueBounds
<1>2. Subtracted(p, q) = [lo |-> lo.val, hi |-> hi.val]
  BY DEF Subtracted
<1>3. /\ hi.val = IF p.hi < q.hi + 0 THEN p.hi - q.hi - 0 + Base ELSE p.hi - q.hi - 0
      /\ Borrow(hi) = IF p.hi < q.hi + 0 THEN 1 ELSE 0
  BY <1>1, Difference
<1> HIDE DEF hi
<1>4. /\ lo.val = IF p.lo < q.lo + Borrow(hi) THEN p.lo - q.lo - Borrow(hi) + Base
                    ELSE p.lo - q.lo - Borrow(hi)
  <2>1. Borrow(hi) \in {0, 1}
    BY <1>3
  <2>2. QED
    BY <1>1, <2>1, Difference
<1> HIDE DEF lo
<1>5. /\ hi.val \in Int /\ 0 <= hi.val /\ hi.val < Base
      /\ lo.val \in Int /\ 0 <= lo.val /\ lo.val < Base
  BY <1>1, <1>3, <1>4, Halves
<1>6. Subtracted(p, q) \in Pairs /\ ValueOf(Subtracted(p, q)) = lo.val + Base * hi.val
  BY <1>2, <1>5, Written
<1>7. ASSUME ValueOf(p) < Base, ValueOf(q) <= ValueOf(p)
      PROVE  ValueOf(Subtracted(p, q)) = ValueOf(p) - ValueOf(q)
  <2>1. ValueOf(q) < Base /\ ValueOf(p) \in Nat /\ ValueOf(q) \in Nat
    BY <1>7, ValueBounds, Halves
  <2>2. p.hi = 0 /\ p.lo = ValueOf(p) /\ q.hi = 0 /\ q.lo = ValueOf(q)
    BY <1>7, <2>1, OneWord
  <2>3. hi.val = 0 /\ Borrow(hi) = 0
    BY <1>3, <2>2
  <2>4. lo.val = ValueOf(p) - ValueOf(q)
    BY <1>4, <1>7, <2>1, <2>2, <2>3
  <2>5. Base * hi.val = 0
    BY <2>3, Halves
  <2>6. QED
    BY <1>5, <1>6, <2>4, <2>5
<1>8. QED
  BY <1>6, <1>7

\* And add, adc add it, as long as the sum has one word.
LEMMA AddedValue ==
  ASSUME NEW p \in Pairs, NEW q \in Pairs
  PROVE  /\ Added(p, q) \in Pairs
         /\ ValueOf(p) + ValueOf(q) < Base =>
              ValueOf(Added(p, q)) = ValueOf(p) + ValueOf(q)
<1> DEFINE hi == AddWords(p.hi, q.hi, 0)
           lo == AddWords(p.lo, q.lo, Borrow(hi))
<1>1. /\ p.lo \in Int /\ p.hi \in Int /\ 0 <= p.lo /\ p.lo < Base /\ 0 <= p.hi /\ p.hi < Base
      /\ q.lo \in Int /\ q.hi \in Int /\ 0 <= q.lo /\ q.lo < Base /\ 0 <= q.hi /\ q.hi < Base
  BY ValueBounds
<1>2. Added(p, q) = [lo |-> lo.val, hi |-> hi.val]
  BY DEF Added
<1>3. /\ hi.val = IF p.hi + q.hi + 0 >= Base THEN (p.hi + q.hi + 0) - Base ELSE p.hi + q.hi + 0
      /\ Borrow(hi) = IF p.hi + q.hi + 0 >= Base THEN 1 ELSE 0
  BY <1>1, WordSum
<1> HIDE DEF hi
<1>4. /\ lo.val = IF p.lo + q.lo + Borrow(hi) >= Base THEN (p.lo + q.lo + Borrow(hi)) - Base
                    ELSE p.lo + q.lo + Borrow(hi)
  <2>1. Borrow(hi) \in {0, 1}
    BY <1>3
  <2>2. QED
    BY <1>1, <2>1, WordSum
<1> HIDE DEF lo
<1>5. /\ hi.val \in Int /\ 0 <= hi.val /\ hi.val < Base
      /\ lo.val \in Int /\ 0 <= lo.val /\ lo.val < Base
  BY <1>1, <1>3, <1>4, Halves
<1>6. Added(p, q) \in Pairs /\ ValueOf(Added(p, q)) = lo.val + Base * hi.val
  BY <1>2, <1>5, Written
<1>7. ASSUME ValueOf(p) + ValueOf(q) < Base
      PROVE  ValueOf(Added(p, q)) = ValueOf(p) + ValueOf(q)
  <2>1. ValueOf(p) < Base /\ ValueOf(q) < Base /\ ValueOf(p) \in Nat /\ ValueOf(q) \in Nat
    BY <1>7, ValueBounds, Halves
  <2>2. p.hi = 0 /\ p.lo = ValueOf(p) /\ q.hi = 0 /\ q.lo = ValueOf(q)
    BY <1>7, <2>1, OneWord
  <2>3. hi.val = 0 /\ Borrow(hi) = 0
    BY <1>3, <2>2, Halves
  <2>4. lo.val = ValueOf(p) + ValueOf(q)
    BY <1>4, <1>7, <2>1, <2>2, <2>3, Halves
  <2>5. Base * hi.val = 0
    BY <2>3, Halves
  <2>6. QED
    BY <1>5, <1>6, <2>4, <2>5
<1>8. QED
  BY <1>6, <1>7

\* Two divisions of a word leave the quotient of the number, and the remainder.
LEMMA DigitValue ==
  ASSUME NEW p \in Pairs
  PROVE  LET low == (p.hi % Radix) * Base + p.lo
             rest == [hi |-> p.hi \div Radix, lo |-> low \div Radix]
         IN /\ rest \in Pairs
            /\ ValueOf(rest) = ValueOf(p) \div Radix
            /\ low % Radix = ValueOf(p) % Radix
            /\ low % Radix \in 0 .. Radix - 1
<1> DEFINE l == p.lo
           h == p.hi
           d == h \div Radix
           r == h % Radix
           low == r * Base + l
           e == low \div Radix
           t == low % Radix
<1>1. l \in Int /\ h \in Int /\ 0 <= l /\ l < Base /\ 0 <= h /\ h < Base
  BY ValueBounds
<1>2. Radix \in Nat /\ Radix >= 2
  BY RadixAssumption, Halves
<1>3. d \in Int /\ r \in Int /\ h = Radix * d + r /\ 0 <= r /\ r < Radix
  BY <1>1, <1>2, Divides
<1> HIDE DEF d, r
<1>4. low \in Int /\ 0 <= low /\ low < Radix * Base
  <2>1. r * Base <= (Radix - 1) * Base /\ 0 <= r * Base /\ r * Base \in Int
    BY <1>2, <1>3, Halves
  <2>2. (Radix - 1) * Base = Radix * Base - Base /\ Radix * Base \in Int
    BY <1>2, Halves
  <2>3. QED
    BY <1>1, <2>1, <2>2, Halves
<1> HIDE DEF low
<1>5. e \in Int /\ t \in Int /\ low = Radix * e + t /\ 0 <= t /\ t < Radix
  BY <1>2, <1>4, Divides
<1> HIDE DEF e, t
<1>6. 0 <= e /\ e < Base
  <2>1. e <= -1 => Radix * e <= -Radix
    BY <1>2, <1>5
  <2>2. e >= Base => Radix * e >= Radix * Base
    BY <1>2, <1>5, Halves
  <2>3. Radix * e \in Int /\ Radix * Base \in Int
    BY <1>2, <1>5, Halves
  <2>4. QED
    BY <1>2, <1>4, <1>5, <2>1, <2>2, <2>3, Halves
<1>7. 0 <= d /\ d < Base
  <2>1. d <= -1 => Radix * d <= -Radix
    BY <1>2, <1>3
  <2>2. d >= 0 => Radix * d >= d
    BY <1>2, <1>3
  <2>3. Radix * d \in Int
    BY <1>2, <1>3
  <2>4. QED
    BY <1>1, <1>2, <1>3, <2>1, <2>2, <2>3, Halves
<1> DEFINE rest == [hi |-> d, lo |-> e]
<1>8. rest = [lo |-> e, hi |-> d]
  OBVIOUS
<1>9. rest \in Pairs /\ ValueOf(rest) = e + Base * d
  BY <1>3, <1>5, <1>6, <1>7, <1>8, Written
<1>10. ValueOf(p) = Radix * (e + Base * d) + t
  <2>1. ValueOf(p) = l + Base * h
    BY ValueBounds
  <2>2. Base * h = Base * (Radix * d) + r * Base
    <3>1. Radix * d \in Int
      BY <1>2, <1>3
    <3> DEFINE m == Radix * d
    <3> HIDE DEF m
    <3>2. m \in Int /\ h = m + r
      BY <1>3, <3>1 DEF m
    <3>3. Base * h = Base * m + r * Base
      BY <1>3, <3>2, Halves
    <3>4. QED
      BY <3>3 DEF m
  <2>3. low = r * Base + l
    BY DEF low
  <2>4. Base * (Radix * d) = Radix * (Base * d) /\ Base * d \in Int
    BY <1>2, <1>3, Halves
  <2>5. Radix * (e + Base * d) = Radix * e + Radix * (Base * d)
    BY <1>2, <1>5, <2>4
  <2>6. /\ r * Base \in Int /\ Radix * e \in Int /\ Radix * (Base * d) \in Int
    BY <1>2, <1>3, <1>5, <2>4, Halves
  <2>7. QED
    BY <1>1, <1>5, <2>1, <2>2, <2>3, <2>4, <2>5, <2>6
<1>11. ValueOf(p) \div Radix = e + Base * d /\ ValueOf(p) % Radix = t
  <2>1. e + Base * d \in Int /\ ValueOf(p) \in Int
    BY <1>3, <1>5, Halves, ValueBounds
  <2> DEFINE m == e + Base * d
             n == ValueOf(p)
  <2>2. m \in Int /\ n \in Int /\ n = Radix * m + t
    BY <1>10, <2>1
  <2> HIDE DEF m, n
  <2>3. n \div Radix = m /\ n % Radix = t
    BY <1>2, <1>5, <2>2, DividesOnce
  <2>4. QED
    BY <2>3 DEF m, n
<1>12. t \in 0 .. Radix - 1
  BY <1>2, <1>5
<1>13. QED
  BY <1>9, <1>11, <1>12 DEF d, e, t, low, r

\* A signed number is in two words as its complement.
LEMMA SignedPair ==
  ASSUME NEW n \in Int, -(Base * Half) <= n, n < Base * Half
  PROVE  ValueOf(Pair(n)) = IF n < 0 THEN n + Base * Base ELSE n
<1> DEFINE q == n \div Base
           r == n % Base
           b == Base * Half
<1>1. b \in Nat /\ b > 0 /\ Base * Base = 2 * b
  BY Halves
<1>2. q \in Int /\ r \in Int /\ n = Base * q + r /\ 0 <= r /\ r < Base
  BY Divides, Halves
<1>3. Pair(n) = [lo |-> r, hi |-> q % Base]
  BY DEF Pair, LowWord, HighWord
<1>4. CASE n >= 0
  BY <1>1, <1>4, ValueOfPair
<1>5. CASE n < 0
  <2> HIDE DEF q, r
  <2>1. q <= -1
    <3>1. q >= 0 => Base * q >= 0
      BY <1>2, Halves
    <3>2. Base * q \in Int
      BY <1>2, Halves
    <3>3. QED
      BY <1>2, <1>5, <3>1, <3>2
  <2>2. q >= -Half
    <3>1. q <= -Half - 1 => Base * q <= Base * (-Half - 1)
      BY <1>2, Halves
    <3>2. Base * (-Half - 1) = -b - Base
      BY Halves
    <3>3. Base * q \in Int
      BY <1>2, Halves
    <3> HIDE DEF b
    <3>4. -b <= n
      BY DEF b
    <3>5. QED
      BY <1>1, <1>2, <3>1, <3>2, <3>3, <3>4, Halves
  <2>3. q % Base = q + Base
    BY <1>2, <2>1, <2>2, WordMod, Halves
  <2>4. Pair(n) = [lo |-> r, hi |-> q + Base]
    BY <1>3, <2>3
  <2>5. ValueOf(Pair(n)) = r + Base * (q + Base)
    BY <2>4 DEF ValueOf
  <2>6. Base * (q + Base) = Base * q + Base * Base /\ Base * q \in Int /\ Base * Base \in Int
    BY <1>2, Halves
  <2>7. QED
    BY <1>2, <1>5, <2>5, <2>6
<1>6. QED
  BY <1>4, <1>5

-----------------------------------------------------------------------------
(* Powers of two *)

Doublings == {Power(2, n) : n \in Nat}

LEMMA DoublingFacts ==
  /\ 1 \in Doublings
  /\ \A w \in Doublings : /\ w \in Nat /\ w >= 1
                          /\ 2 * w \in Doublings
                          /\ w = 1 \/ \E v \in Doublings : w = 2 * v
<1>1. Power(2, 0) = 1 /\ \A n \in Nat : Power(2, n) \in Nat /\ Power(2, n + 1) = 2 * Power(2, n)
  BY Powers
<1>2. 1 \in Doublings
  BY <1>1 DEF Doublings
<1>3. \A n \in Nat : Power(2, n) >= 1
  <2> DEFINE U == {n \in Nat : Power(2, n) >= 1}
  <2>1. 0 \in U
    BY <1>1
  <2>2. ASSUME NEW n \in U PROVE n + 1 \in U
    BY <1>1
  <2>3. U \in SUBSET Nat
    OBVIOUS
  <2>4. U = Nat
    <3> HIDE DEF U
    <3>1. QED
      BY <2>1, <2>2, <2>3, NatInductive
  <2>5. QED
    BY <2>4
<1>4. ASSUME NEW w \in Doublings
      PROVE  /\ w \in Nat /\ w >= 1 /\ 2 * w \in Doublings
             /\ w = 1 \/ \E v \in Doublings : w = 2 * v
  <2>1. PICK n \in Nat : w = Power(2, n)
    BY DEF Doublings
  <2>2. w \in Nat /\ w >= 1
    BY <1>1, <1>3, <2>1
  <2>3. 2 * w \in Doublings
    <3>1. n + 1 \in Nat /\ Power(2, n + 1) = 2 * w
      BY <1>1, <2>1
    <3>2. QED
      BY <3>1 DEF Doublings
  <2>4. ASSUME n # 0 PROVE \E v \in Doublings : w = 2 * v
    <3>1. n - 1 \in Nat /\ (n - 1) + 1 = n
      BY <2>4
    <3>2. Power(2, n - 1) \in Doublings /\ w = 2 * Power(2, n - 1)
      BY <1>1, <2>1, <3>1 DEF Doublings
    <3>3. QED
      BY <3>2
  <2>5. QED
    BY <1>1, <2>1, <2>2, <2>3, <2>4
<1>5. QED
  BY <1>2, <1>4

-----------------------------------------------------------------------------
(* The invariant *)

FirstAbs == Abs(First)
SecondAbs == Abs(Second)

\* The call is one the routines are right for.
CallInv ==
  /\ call.num1 \in Nat /\ call.num1 < Base * Base
  /\ call.num2 \in Nat /\ call.num2 < Base * Base
  /\ Suits([routine |-> call.routine, num1 |-> First, num2 |-> Second])

\* Before the first instruction.
BegunInv ==
  /\ ValueOf(num1) = call.num1 /\ ValueOf(num2) = call.num2
  /\ result = Zero
  /\ position = BufferLength

\* Divisions, while they run: the divisor is known, and the sign of the quotient.
DivisionInv ==
  /\ IsDivision
  /\ ValueOf(original) = SecondAbs
  /\ call.routine = "DivideI32" => (negative <=> ~(First < 0 <=> Second < 0))

\* num2 is the divisor, shifted left without losing a bit.
Shifted == \E w \in Doublings : ValueOf(num2) = SecondAbs * w

AlignInv ==
  /\ DivisionInv
  /\ ValueOf(num1) = FirstAbs
  /\ result = Zero
  /\ ValueOf(num2) < Base * Half
  /\ Shifted

\* As long as num2 is not below the divisor: PartialQuotients.  Afterwards the
\* quotient is whole.
DivideInv ==
  /\ DivisionInv
  /\ \/ /\ Shifted
        /\ ValueOf(num2) < Base * Half
        /\ ValueOf(num1) + ValueOf(result) * (2 * ValueOf(num2)) = FirstAbs
        /\ ValueOf(num1) < 2 * ValueOf(num2)
     \/ /\ ValueOf(num2) = SecondAbs \div 2
        /\ ValueOf(num1) + ValueOf(result) * SecondAbs = FirstAbs
        /\ ValueOf(num1) < SecondAbs

\* What is added is the product, less the one of what is left of the multiplier.
\* Its bits come back at the top of the high word, and are not looked at.
MultiplyInv ==
  /\ call.routine = "MultiplyI32"
  /\ (negative <=> ~(First < 0 <=> Second < 0))
  /\ num2.lo < Half
  /\ \/ num2.lo = 0 /\ ValueOf(result) = FirstAbs * SecondAbs
     \/ num2.lo # 0 /\ ValueOf(num1) * num2.lo + ValueOf(result) = FirstAbs * SecondAbs

\* The digits written so far.
WrittenInv ==
  \A k \in position + 1 .. BufferLength :
    buffer[k] = (FirstAbs \div Power(Radix, BufferLength - k)) % Radix

\* And num1 holds the rest of the number.
DigitsInv ==
  /\ call.routine = "itoa"
  /\ (negative <=> First < 0)
  /\ position \in 1 .. BufferLength
  /\ WrittenInv
  /\ ValueOf(num1) = FirstAbs \div Power(Radix, BufferLength - position)
  /\ position < BufferLength => ValueOf(num1) # 0

SignInv ==
  /\ call.routine = "itoa"
  /\ (negative <=> First < 0)
  /\ position \in 1 .. BufferLength - 1
  /\ WrittenInv
  /\ FirstAbs < Power(Radix, BufferLength - position)
  /\ position + 1 < BufferLength => buffer[position + 1] # 0

AnswersRight == QuotientsRight /\ UnsignedRemaindersRight /\ ProductsRight /\ DigitsRight

IInv ==
  /\ RuntimeTypeOK
  /\ CallInv
  /\ AnswersRight
  /\ step # "idle"
  /\ step = "call" => BegunInv
  /\ step = "align" => AlignInv
  /\ step = "divide" => DivideInv
  /\ step = "multiply" => MultiplyInv
  /\ step = "digits" => DigitsInv
  /\ step = "sign" => SignInv

\* The numbers of a call, and what is known of them.
LEMMA CallFacts ==
  ASSUME CallInv
  PROVE  /\ First \in Int /\ Second \in Int
         /\ FirstAbs \in Nat /\ SecondAbs \in Nat
         /\ FirstAbs = IF First < 0 THEN -First ELSE First
         /\ SecondAbs = IF Second < 0 THEN -Second ELSE Second
         /\ call.routine \in {"DivideU32", "DivideI32", "MultiplyI32", "itoa"}
         /\ call.routine # "DivideU32" =>
              /\ First = IF call.num1 >= Base * Half THEN call.num1 - Base * Base ELSE call.num1
              /\ Second = IF call.num2 >= Base * Half THEN call.num2 - Base * Base ELSE call.num2
         /\ call.routine = "DivideU32" =>
              First = call.num1 /\ Second = call.num2 /\ First >= 0 /\ Second >= 0
         /\ IsDivision => FirstAbs < Base /\ SecondAbs >= 1 /\ SecondAbs < Base * Half
         /\ call.routine = "MultiplyI32" => SecondAbs < Half /\ FirstAbs * SecondAbs < Base
         /\ FirstAbs <= Base * Half
<1> DEFINE b == Base * Half
<1>1. b \in Nat /\ b >= Base /\ b > 0 /\ Base * Base = 2 * b /\ (Base * Base) \div 2 = b
  <2>1. Base * 1 <= Base * Half /\ Base * 1 = Base
    BY Halves
  <2>2. (Base * Base) \div 2 = b
    BY ZeroValue, SignValue
  <2>3. QED
    BY <2>1, <2>2, Halves
<1>2. First \in Int /\ Second \in Int
  BY <1>1 DEF CallInv, First, Second, Given
<1>3. /\ call.routine = "DivideU32" => First = call.num1 /\ Second = call.num2
      /\ call.routine # "DivideU32" =>
           /\ First = IF call.num1 >= b THEN call.num1 - Base * Base ELSE call.num1
           /\ Second = IF call.num2 >= b THEN call.num2 - Base * Base ELSE call.num2
  BY <1>1 DEF First, Second, Given
<1>4. /\ FirstAbs = IF First < 0 THEN -First ELSE First
      /\ SecondAbs = IF Second < 0 THEN -Second ELSE Second
  BY DEF FirstAbs, SecondAbs, Abs
<1>5. FirstAbs \in Nat /\ SecondAbs \in Nat
  BY <1>2, <1>4
<1> DEFINE c == [routine |-> call.routine, num1 |-> First, num2 |-> Second]
<1>6. Suits(c) /\ c.routine = call.routine /\ c.num1 = First /\ c.num2 = Second
  BY DEF CallInv
<1>7. /\ SignedWide = -b .. b - 1
      /\ WordSized = -(Base - 1) .. Base - 1
      /\ HalfSized = -(Half - 1) .. Half - 1
      /\ Word = 0 .. Base - 1
  BY <1>1 DEF SignedWide, WordSized, HalfSized, Half, Word
<1> HIDE DEF b, c
<1>8. \/ call.routine = "DivideU32" /\ First \in Word /\ Second \in Word \ {0}
      \/ call.routine = "DivideI32" /\ First \in WordSized /\ Second \in SignedWide \ {0, -b}
      \/ /\ call.routine = "MultiplyI32" /\ First \in SignedWide /\ Second \in HalfSized
         /\ First * Second \in WordSized
      \/ call.routine = "itoa" /\ First \in SignedWide
  BY <1>1, <1>6 DEF Suits
<1>9. CASE call.routine = "DivideU32"
  <2>1. /\ 0 <= First /\ First < Base /\ 0 < Second /\ Second < Base
    BY <1>2, <1>7, <1>8, <1>9, Halves
  <2>2. FirstAbs = First /\ SecondAbs = Second
    BY <1>2, <1>4, <2>1
  <2>3. QED
    BY <1>1, <1>2, <1>3, <1>4, <1>5, <1>9, <2>1, <2>2, Halves DEF b
<1>10. CASE call.routine = "DivideI32"
  <2>1. First >= -(Base - 1) /\ First <= Base - 1 /\ Second # 0 /\ Second > -b /\ Second < b
    BY <1>1, <1>2, <1>7, <1>8, <1>10, Halves
  <2>2. FirstAbs < Base /\ SecondAbs >= 1 /\ SecondAbs < b
    BY <1>1, <1>2, <1>4, <2>1, Halves
  <2>3. FirstAbs <= b
    BY <1>1, <1>5, <2>2, Halves
  <2>4. QED
    BY <1>1, <1>2, <1>3, <1>4, <1>5, <1>10, <2>2, <2>3 DEF b
<1>11. CASE call.routine = "MultiplyI32"
  <2>1. /\ First >= -b /\ First <= b /\ Second >= -(Half - 1) /\ Second <= Half - 1
        /\ First * Second >= -(Base - 1) /\ First * Second <= Base - 1
    BY <1>1, <1>2, <1>7, <1>8, <1>11, Halves
  <2>2. SecondAbs < Half /\ FirstAbs <= b
    BY <1>1, <1>2, <1>4, <2>1, Halves
  <2>3. FirstAbs * SecondAbs = First * Second \/ FirstAbs * SecondAbs = -(First * Second)
    BY <1>2, <1>4
  <2>4. First * Second \in Int
    BY <1>2
  <2>5. FirstAbs * SecondAbs < Base
    BY <2>1, <2>3, <2>4, Halves
  <2>6. ~IsDivision
    BY <1>11 DEF IsDivision
  <2>7. QED
    BY <1>1, <1>2, <1>3, <1>4, <1>5, <1>11, <2>2, <2>5, <2>6 DEF b
<1>12. CASE call.routine = "itoa"
  <2>1. First >= -b /\ First <= b
    BY <1>1, <1>2, <1>7, <1>8, <1>12
  <2>2. FirstAbs <= b
    BY <1>1, <1>2, <1>4, <2>1
  <2>3. ~IsDivision
    BY <1>12 DEF IsDivision
  <2>4. QED
    BY <1>1, <1>2, <1>3, <1>4, <1>5, <1>12, <2>2, <2>3 DEF b
<1>13. QED
  BY <1>8, <1>9, <1>10, <1>11, <1>12

\* The call does not change while it is served.
LEMMA SameCall ==
  ASSUME call' = call
  PROVE  /\ First' = First /\ Second' = Second
         /\ FirstAbs' = FirstAbs /\ SecondAbs' = SecondAbs
         /\ IsDivision' = IsDivision
         /\ CallInv' = CallInv
<1>1. First' = First /\ Second' = Second
  BY DEF First, Second, Given
<1>2. QED
  BY <1>1 DEF FirstAbs, SecondAbs, IsDivision, CallInv

\* As long as a routine runs, there is no answer to be wrong.
LEMMA NoAnswerYet ==
  /\ step # "returned" => AnswersRight
  /\ step' # "returned" => AnswersRight'
BY DEF AnswersRight, QuotientsRight, UnsignedRemaindersRight, ProductsRight, DigitsRight

\* The parts of a call that starts.
LEMMA InitInv ==
  ASSUME CallsSuit
  PROVE  RInit => IInv
<1> SUFFICES ASSUME RInit PROVE IInv
  OBVIOUS
<1>1. PICK c \in Calls : /\ num1 = Pair(c.num1) /\ num2 = Pair(c.num2)
                         /\ call = [routine |-> c.routine,
                                    num1 |-> ValueOf(num1), num2 |-> ValueOf(num2)]
  BY DEF RInit
<1>2. step = "call" /\ Unstarted
  BY DEF RInit
<1>3. Suits(c) /\ c.num1 \in Int /\ c.num2 \in Int
  BY CallsAssumption DEF CallsSuit
<1>4. num1 \in Pairs /\ num2 \in Pairs
  BY <1>1, <1>3, ValueOfPair
<1>5. call.num1 = ValueOf(num1) /\ call.num2 = ValueOf(num2) /\ call.routine = c.routine
  BY <1>1
<1>6. /\ call.num1 \in Nat /\ call.num1 < Base * Base
      /\ call.num2 \in Nat /\ call.num2 < Base * Base
  BY <1>4, <1>5, ValueBounds
<1> DEFINE b == Base * Half
<1>7. b \in Nat /\ b >= Base /\ b > 0 /\ Base * Base = 2 * b /\ (Base * Base) \div 2 = b
  <2>1. Base * 1 <= Base * Half /\ Base * 1 = Base
    BY Halves
  <2>2. (Base * Base) \div 2 = b
    BY ZeroValue, SignValue
  <2>3. QED
    BY <2>1, <2>2, Halves
<1>8. ASSUME NEW n \in Int, -b <= n, n < b, c.routine # "DivideU32"
      PROVE  Given(ValueOf(Pair(n))) = n
  <2>1. ValueOf(Pair(n)) = IF n < 0 THEN n + Base * Base ELSE n
    BY <1>8, SignedPair
  <2> HIDE DEF b
  <2>2. QED
    BY <1>5, <1>7, <1>8, <2>1 DEF Given
<1>9. ASSUME NEW n \in Word, c.routine = "DivideU32"
      PROVE  Given(ValueOf(Pair(n))) = n
  <2>1. n \in Int /\ 0 <= n /\ n < Base * Base
    <3>1. Base <= Base * Base
      BY <1>7, Halves
    <3>2. QED
      BY <3>1, Halves DEF Word
  <2>2. ValueOf(Pair(n)) = n
    BY <2>1, ValueOfPair
  <2>3. QED
    BY <1>5, <1>9, <2>2 DEF Given
<1>10. /\ SignedWide = -b .. b - 1
       /\ WordSized = -(Base - 1) .. Base - 1
       /\ HalfSized = -(Half - 1) .. Half - 1
  BY <1>7 DEF SignedWide, WordSized, HalfSized, Half
<1>11. First = Given(ValueOf(Pair(c.num1))) /\ Second = Given(ValueOf(Pair(c.num2)))
  BY <1>1, <1>5 DEF First, Second
<1>12. CallInv
  <2>1. CASE c.routine = "DivideU32"
    <3>1. c.num1 \in Word /\ c.num2 \in Word
      BY <1>3, <2>1 DEF Suits
    <3>2. First = c.num1 /\ Second = c.num2
      BY <1>9, <1>11, <2>1, <3>1
    <3>3. Suits([routine |-> call.routine, num1 |-> First, num2 |-> Second])
      BY <1>3, <1>5, <3>2 DEF Suits
    <3>4. QED
      BY <1>6, <3>3 DEF CallInv
  <2>2. CASE c.routine # "DivideU32"
    <3>1. First = c.num1
      <4>1. c.num1 \in SignedWide \cup WordSized
        BY <1>3, <2>2 DEF Suits
      <4> HIDE DEF b
      <4>2. -b <= c.num1 /\ c.num1 < b
        BY <1>3, <1>7, <1>10, <4>1, Halves
      <4>3. QED
        BY <1>3, <1>8, <1>11, <2>2, <4>2
    <3>2. ASSUME c.routine # "itoa" PROVE Second = c.num2
      <4>1. c.num2 \in SignedWide \cup HalfSized
        BY <1>3, <2>2, <3>2 DEF Suits
      <4> HIDE DEF b
      <4>2. -b <= c.num2 /\ c.num2 < b
        BY <1>3, <1>7, <1>10, <4>1, Halves
      <4>3. QED
        BY <1>3, <1>8, <1>11, <2>2, <4>2
    <3>3. Second \in Int
      BY <1>6, <1>7 DEF Second, Given
    <3>4. Suits([routine |-> call.routine, num1 |-> First, num2 |-> Second])
      <4>1. CASE c.routine = "itoa"
        BY <1>3, <1>5, <3>1, <3>3, <4>1 DEF Suits
      <4>2. CASE c.routine # "itoa"
        BY <1>3, <1>5, <3>1, <3>2, <4>2 DEF Suits
      <4>3. QED
        BY <4>1, <4>2
    <3>5. QED
      BY <1>6, <3>4 DEF CallInv
  <2>3. QED
    BY <2>1, <2>2
<1>13. BegunInv
  BY <1>2, <1>5 DEF BegunInv, Unstarted
<1>14. RuntimeTypeOK
  <2>1. original \in Pairs /\ result \in Pairs
    BY <1>2, ZeroValue DEF Unstarted
  <2>2. buffer \in [1 .. BufferLength -> 0 .. Minus]
    <3>1. Blank \in 0 .. Minus
      BY RadixAssumption, Halves DEF Blank, Minus
    <3>2. QED
      BY <1>2, <3>1 DEF Unstarted
  <2>3. position \in 0 .. BufferLength
    BY <1>2, BufferAssumption DEF Unstarted
  <2>4. negative \in BOOLEAN /\ bp \in {"caller", "routine"}
    BY <1>2 DEF Unstarted
  <2>5. QED
    BY <1>2, <1>4, <2>1, <2>2, <2>3, <2>4 DEF RuntimeTypeOK
<1>15. AnswersRight
  BY <1>2, NoAnswerYet
<1>16. QED
  BY <1>2, <1>12, <1>13, <1>14, <1>15 DEF IInv

\* The types, one by one.
LEMMA Types ==
  RuntimeTypeOK <=>
    /\ step \in {"idle", "call", "align", "divide", "multiply", "digits", "sign", "returned"}
    /\ num1 \in Pairs /\ num2 \in Pairs /\ original \in Pairs /\ result \in Pairs
    /\ negative \in BOOLEAN
    /\ bp \in {"caller", "routine"}
    /\ buffer \in [1 .. BufferLength -> 0 .. Minus]
    /\ position \in 0 .. BufferLength
BY DEF RuntimeTypeOK

\* A number in its first position is shifted by none.
LEMMA NotShifted ==
  ASSUME NEW p \in Pairs, NEW d \in Nat, ValueOf(p) = d
  PROVE  \E w \in Doublings : ValueOf(p) = d * w
<1>1. 1 \in Doublings /\ d = d * 1
  BY DoublingFacts
<1>2. QED
  BY <1>1

LEMMA EnterUnsignedStep ==
  ASSUME IInv, EnterUnsigned
  PROVE  IInv'
<1>1. /\ step = "call" /\ step' = "align" /\ call' = call
      /\ call.routine = "DivideU32" /\ original' = num2 /\ bp' = "routine"
      /\ num1' = num1 /\ num2' = num2 /\ result' = result /\ negative' = negative
      /\ buffer' = buffer /\ position' = position
  BY DEF EnterUnsigned, Goes, textVars
<1>2. RuntimeTypeOK /\ CallInv /\ BegunInv
  BY <1>1 DEF IInv
<1>3. RuntimeTypeOK'
  BY <1>1, <1>2 DEF RuntimeTypeOK
<1>4. CallInv' /\ FirstAbs' = FirstAbs /\ SecondAbs' = SecondAbs /\ IsDivision'
  BY <1>1, <1>2, SameCall DEF IsDivision
<1>5. FirstAbs = ValueOf(num1) /\ SecondAbs = ValueOf(num2) /\ SecondAbs < Base * Half
  <2>1. IsDivision
    BY <1>1 DEF IsDivision
  <2>2. First = call.num1 /\ Second = call.num2 /\ First >= 0 /\ Second >= 0
    BY <1>1, <1>2, CallFacts
  <2>3. QED
    BY <1>2, <2>1, <2>2, CallFacts DEF BegunInv
<1>6. \E w \in Doublings : ValueOf(num2) = SecondAbs * w
  BY <1>2, <1>5, NotShifted, Types, CallFacts
<1>7. AlignInv'
  <2>1. DivisionInv'
    BY <1>1, <1>4, <1>5 DEF DivisionInv
  <2>2. Shifted'
    BY <1>1, <1>4, <1>6 DEF Shifted
  <2>3. ValueOf(num1)' = FirstAbs' /\ result' = Zero /\ ValueOf(num2)' < Base * Half
    BY <1>1, <1>2, <1>4, <1>5 DEF BegunInv
  <2>4. QED
    BY <2>1, <2>2, <2>3 DEF AlignInv
<1>8. AnswersRight'
  BY <1>1, NoAnswerYet
<1>9. QED
  BY <1>1, <1>3, <1>4, <1>7, <1>8 DEF IInv

\* The numbers of a signed routine are its magnitudes.
LEMMA Magnitudes ==
  ASSUME IInv, step = "call", call.routine # "DivideU32"
  PROVE  /\ Magnitude(num1) \in Pairs /\ ValueOf(Magnitude(num1)) = FirstAbs
         /\ Magnitude(num2) \in Pairs /\ ValueOf(Magnitude(num2)) = SecondAbs
         /\ Negative(num1.hi) <=> First < 0
         /\ Negative(num2.hi) <=> Second < 0
<1>1. num1 \in Pairs /\ num2 \in Pairs /\ CallInv
  BY Types DEF IInv
<1>2. ValueOf(num1) = call.num1 /\ ValueOf(num2) = call.num2
  BY DEF IInv, BegunInv
<1>3. /\ First = IF call.num1 >= Base * Half THEN call.num1 - Base * Base ELSE call.num1
      /\ Second = IF call.num2 >= Base * Half THEN call.num2 - Base * Base ELSE call.num2
      /\ FirstAbs = IF First < 0 THEN -First ELSE First
      /\ SecondAbs = IF Second < 0 THEN -Second ELSE Second
  BY <1>1, CallFacts
<1>4. /\ call.num1 \in Nat /\ call.num1 < Base * Base
      /\ call.num2 \in Nat /\ call.num2 < Base * Base
      /\ Base * Base \in Int /\ Base * Half \in Int
  BY <1>1, Halves DEF CallInv
<1>5. (First < 0 <=> call.num1 >= Base * Half) /\ (Second < 0 <=> call.num2 >= Base * Half)
  BY <1>3, <1>4
<1>6. /\ FirstAbs = IF call.num1 >= Base * Half THEN Base * Base - call.num1 ELSE call.num1
      /\ SecondAbs = IF call.num2 >= Base * Half THEN Base * Base - call.num2 ELSE call.num2
  BY <1>3, <1>4
<1>7. (Negative(num1.hi) <=> First < 0) /\ (Negative(num2.hi) <=> Second < 0)
  BY <1>1, <1>2, <1>5, SignValue
<1>8. /\ Magnitude(num1) \in Pairs /\ ValueOf(Magnitude(num1)) = FirstAbs
      /\ Magnitude(num2) \in Pairs /\ ValueOf(Magnitude(num2)) = SecondAbs
  BY <1>1, <1>2, <1>6, MagnitudeValue
<1>9. QED
  BY <1>7, <1>8

LEMMA EnterSignedStep ==
  ASSUME IInv, EnterSigned
  PROVE  IInv'
<1>1. /\ step = "call" /\ call' = call
      /\ step' = IF call.routine = "DivideI32" THEN "align" ELSE "multiply"
      /\ call.routine \in {"DivideI32", "MultiplyI32"} /\ bp' = "routine"
      /\ negative' = (Negative(num1.hi) # Negative(num2.hi))
      /\ num1' = Magnitude(num1) /\ num2' = Magnitude(num2) /\ result' = result
      /\ original' = IF call.routine = "DivideI32" THEN num2' ELSE original
      /\ buffer' = buffer /\ position' = position
  BY DEF EnterSigned, Goes, textVars
<1>2. RuntimeTypeOK /\ CallInv /\ BegunInv
  BY <1>1 DEF IInv
<1>3. /\ num1' \in Pairs /\ ValueOf(num1)' = FirstAbs
      /\ num2' \in Pairs /\ ValueOf(num2)' = SecondAbs
      /\ (negative' <=> ~(First < 0 <=> Second < 0))
  <2>1. call.routine # "DivideU32"
    BY <1>1
  <2>2. /\ Magnitude(num1) \in Pairs /\ ValueOf(Magnitude(num1)) = FirstAbs
        /\ Magnitude(num2) \in Pairs /\ ValueOf(Magnitude(num2)) = SecondAbs
    BY <1>1, <2>1, Magnitudes
  <2>3. (Negative(num1.hi) <=> First < 0) /\ (Negative(num2.hi) <=> Second < 0)
    BY <1>1, <2>1, Magnitudes
  <2>4. negative' <=> ~(First < 0 <=> Second < 0)
    <3>1. negative' = (Negative(num1.hi) # Negative(num2.hi))
      BY <1>1
    <3>2. negative' <=> ~(Negative(num1.hi) <=> Negative(num2.hi))
      <4>1. Negative(num1.hi) \in BOOLEAN /\ Negative(num2.hi) \in BOOLEAN
        BY DEF Negative
      <4>2. QED
        BY <3>1, <4>1, Zenon
    <3>3. QED
      BY <2>3, <3>2
  <2>5. ValueOf(num1)' = ValueOf(num1') /\ ValueOf(num2)' = ValueOf(num2')
    BY DEF ValueOf
  <2>6. QED
    BY <1>1, <2>2, <2>4, <2>5
<1>4. /\ CallInv' /\ FirstAbs' = FirstAbs /\ SecondAbs' = SecondAbs /\ IsDivision' = IsDivision
      /\ First' = First /\ Second' = Second
  BY <1>1, <1>2, SameCall
<1>5. RuntimeTypeOK'
  <2>1. step' \in {"align", "multiply"} /\ original' \in Pairs /\ result' \in Pairs
    BY <1>1, <1>2, <1>3, Types
  <2>2. negative' \in BOOLEAN
    BY <1>1
  <2>3. QED
    BY <1>1, <1>2, <1>3, <2>1, <2>2 DEF RuntimeTypeOK
<1>6. AnswersRight'
  BY <1>1, NoAnswerYet
<1>7. CASE call.routine = "DivideI32"
  <2>1. IsDivision /\ SecondAbs < Base * Half /\ SecondAbs \in Nat
    BY <1>2, <1>7, CallFacts DEF IsDivision
  <2>2. \E w \in Doublings : ValueOf(num2)' = SecondAbs * w
    BY <1>3, <2>1, NotShifted
  <2>3. DivisionInv'
    BY <1>1, <1>3, <1>4, <1>7, <2>1 DEF DivisionInv
  <2>4. Shifted'
    BY <1>4, <2>2 DEF Shifted
  <2>5. ValueOf(num1)' = FirstAbs' /\ result' = Zero /\ ValueOf(num2)' < Base * Half
    BY <1>1, <1>2, <1>3, <1>4, <2>1 DEF BegunInv
  <2>6. AlignInv'
    BY <2>3, <2>4, <2>5 DEF AlignInv
  <2>7. step' = "align"
    BY <1>1, <1>7
  <2>8. QED
    BY <1>4, <1>5, <1>6, <2>6, <2>7 DEF IInv
<1>8. CASE call.routine = "MultiplyI32"
  <2>1. SecondAbs < Half /\ SecondAbs \in Nat /\ FirstAbs \in Nat
    BY <1>2, <1>8, CallFacts
  <2>2. num2'.hi = 0 /\ num2'.lo = SecondAbs
    <3>1. SecondAbs < Base
      BY <2>1, Halves
    <3>2. QED
      BY <1>3, <3>1, OneWord
  <2>3. ValueOf(result)' = 0
    BY <1>1, <1>2, ZeroValue DEF BegunInv
  <2>4. MultiplyInv'
    <3>1. call'.routine = "MultiplyI32" /\ (negative' <=> ~(First' < 0 <=> Second' < 0))
      BY <1>1, <1>3, <1>4, <1>8
    <3>2. num2'.lo < Half
      BY <2>1, <2>2
    <3>3. CASE SecondAbs = 0
      <4>1. FirstAbs * SecondAbs = 0
        BY <2>1, <3>3
      <4>2. QED
        BY <1>4, <2>2, <2>3, <3>1, <3>2, <3>3, <4>1 DEF MultiplyInv
    <3>4. CASE SecondAbs # 0
      <4>1. ValueOf(num1)' * num2'.lo + ValueOf(result)' = FirstAbs * SecondAbs
        BY <1>3, <2>1, <2>2, <2>3
      <4>2. QED
        BY <1>4, <2>2, <3>1, <3>2, <3>4, <4>1 DEF MultiplyInv
    <3>5. QED
      BY <3>3, <3>4
  <2>5. step' = "multiply"
    BY <1>1, <1>8
  <2>6. QED
    BY <1>4, <1>5, <1>6, <2>4, <2>5 DEF IInv
<1>9. QED
  BY <1>1, <1>7, <1>8

LEMMA EnterItoaStep ==
  ASSUME IInv, EnterItoa
  PROVE  IInv'
<1>1. /\ step = "call" /\ step' = "digits" /\ call' = call
      /\ call.routine = "itoa" /\ bp' = "routine"
      /\ negative' = Negative(num1.hi)
      /\ num1' = IF Negative(num1.hi) THEN Complemented(num1) ELSE num1
      /\ num2' = num2 /\ original' = original /\ result' = result
      /\ buffer' = buffer /\ position' = position
  BY DEF EnterItoa, Goes, textVars
<1>2. RuntimeTypeOK /\ CallInv /\ BegunInv
  BY <1>1 DEF IInv
<1>3. num1' \in Pairs /\ ValueOf(num1)' = FirstAbs /\ (negative' <=> First < 0)
  <2>1. ValueOf(Magnitude(num1)) = FirstAbs /\ (Negative(num1.hi) <=> First < 0)
    <3>1. call.routine # "DivideU32"
      BY <1>1
    <3>2. QED
      BY <1>1, <3>1, Magnitudes
  <2>2. num1 \in Pairs
    BY <1>2, Types
  <2>3. ValueOf(Negated(num1)) = ValueOf(Complemented(num1)) /\ Complemented(num1) \in Pairs
    BY <2>2, NegatedValue, ComplementedValue
  <2>4. negative' <=> First < 0
    BY <1>1, <2>1 DEF Negative
  <2>5. ValueOf(num1') = FirstAbs /\ num1' \in Pairs
    BY <1>1, <2>1, <2>2, <2>3 DEF Magnitude
  <2>6. ValueOf(num1)' = ValueOf(num1')
    BY DEF ValueOf
  <2>7. QED
    BY <2>4, <2>5, <2>6
<1>4. CallInv' /\ FirstAbs' = FirstAbs /\ First' = First
  BY <1>1, <1>2, SameCall
<1>5. RuntimeTypeOK'
  <2>1. negative' \in BOOLEAN
    BY <1>1 DEF Negative
  <2>2. QED
    BY <1>1, <1>2, <1>3, <2>1 DEF RuntimeTypeOK
<1>6. AnswersRight'
  BY <1>1, NoAnswerYet
<1>7. position' = BufferLength /\ BufferLength \in Nat /\ BufferLength >= 1
  BY <1>1, <1>2, BufferAssumption DEF BegunInv
<1>8. DigitsInv'
  <2>1. WrittenInv'
    BY <1>7 DEF WrittenInv
  <2>2. BufferLength - position' = 0
    BY <1>7
  <2>3. Power(Radix, 0) = 1
    BY Powers, RadixAssumption, Halves
  <2>4. FirstAbs \div 1 = FirstAbs
    <3>1. FirstAbs \in Nat
      BY <1>2, CallFacts
    <3>2. QED
      BY <3>1
  <2>5. ValueOf(num1)' = FirstAbs' \div Power(Radix, BufferLength - position')
    BY <1>3, <1>4, <2>2, <2>3, <2>4
  <2>6. QED
    BY <1>1, <1>3, <1>4, <1>7, <2>1, <2>5 DEF DigitsInv
<1>9. QED
  BY <1>1, <1>4, <1>5, <1>6, <1>8 DEF IInv

\* What the loops of a division may count on.
LEMMA DivisionFacts ==
  ASSUME RuntimeTypeOK, CallInv, DivisionInv
  PROVE  /\ num1 \in Pairs /\ num2 \in Pairs /\ original \in Pairs /\ result \in Pairs
         /\ ValueOf(num1) \in Nat /\ ValueOf(num2) \in Nat /\ ValueOf(result) \in Nat
         /\ FirstAbs \in Nat /\ SecondAbs \in Nat
         /\ FirstAbs < Base /\ SecondAbs >= 1 /\ SecondAbs < Base * Half
         /\ ValueOf(original) = SecondAbs
         /\ Base * Half \in Nat /\ 2 * Base <= Base * Half /\ Base * Base = 2 * (Base * Half)
<1>1. num1 \in Pairs /\ num2 \in Pairs /\ original \in Pairs /\ result \in Pairs
  BY Types
<1>2. ValueOf(num1) \in Nat /\ ValueOf(num2) \in Nat /\ ValueOf(result) \in Nat
  BY <1>1, ValueBounds
<1>3. /\ FirstAbs \in Nat /\ SecondAbs \in Nat
      /\ FirstAbs < Base /\ SecondAbs >= 1 /\ SecondAbs < Base * Half
  BY CallFacts DEF DivisionInv
<1>4. ValueOf(original) = SecondAbs
  BY DEF DivisionInv
<1>5. Base * Half \in Nat /\ Base * 2 <= Base * Half /\ Base * Base = 2 * (Base * Half)
  BY Halves
<1>6. 2 * Base = Base * 2
  BY Halves
<1>7. QED
  BY <1>1, <1>2, <1>3, <1>4, <1>5, <1>6

LEMMA AlignStep ==
  ASSUME IInv, Align
  PROVE  IInv'
<1>1. /\ step = "align" /\ step' = "align" /\ call' = call
      /\ ~Reaches(num2, num1) /\ num2' = ShiftedLeft(num2)
      /\ num1' = num1 /\ original' = original /\ result' = result
      /\ negative' = negative /\ bp' = bp /\ buffer' = buffer /\ position' = position
  BY DEF Align, Goes, textVars
<1>2. RuntimeTypeOK /\ CallInv /\ AlignInv /\ DivisionInv
  BY <1>1 DEF IInv, AlignInv
<1>3. /\ ValueOf(num1) = FirstAbs /\ result = Zero /\ ValueOf(num2) < Base * Half
      /\ \E w \in Doublings : ValueOf(num2) = SecondAbs * w
  BY <1>2 DEF AlignInv, Shifted
<1>4. ValueOf(num1) < Base * Half
  BY <1>2, <1>3, DivisionFacts, Halves
<1>5. ValueOf(num2) < ValueOf(num1)
  <2>1. ~(ValueOf(num2) >= ValueOf(num1))
    BY <1>1, <1>2, <1>3, <1>4, DivisionFacts, ReachesValue
  <2>2. QED
    BY <1>2, <2>1, DivisionFacts
<1>6. 2 * ValueOf(num2) < Base * Half
  BY <1>2, <1>3, <1>5, DivisionFacts, Halves
<1>7. num2' \in Pairs /\ ValueOf(num2)' = 2 * ValueOf(num2)
  <2>1. 2 * ValueOf(num2) < Base * Base
    BY <1>2, <1>6, DivisionFacts
  <2>2. ShiftedLeft(num2) \in Pairs /\ ValueOf(ShiftedLeft(num2)) = 2 * ValueOf(num2)
    BY <1>2, <2>1, DivisionFacts, ShiftedLeftValue
  <2>3. ValueOf(num2)' = ValueOf(num2')
    BY DEF ValueOf
  <2>4. QED
    BY <1>1, <2>2, <2>3
<1>8. RuntimeTypeOK'
  BY <1>1, <1>2, <1>7 DEF RuntimeTypeOK
<1>9. /\ CallInv' /\ First' = First /\ Second' = Second
      /\ FirstAbs' = FirstAbs /\ SecondAbs' = SecondAbs /\ IsDivision' = IsDivision
  BY <1>1, <1>2, SameCall
<1>10. DivisionInv'
  BY <1>1, <1>2, <1>9 DEF DivisionInv
<1>11. Shifted'
  <2>1. PICK w \in Doublings : ValueOf(num2) = SecondAbs * w
    BY <1>3
  <2>2. 2 * w \in Doublings /\ w \in Nat
    BY DoublingFacts
  <2>3. SecondAbs * (2 * w) = 2 * (SecondAbs * w)
    BY <1>2, <2>2, DivisionFacts
  <2>4. ValueOf(num2)' = SecondAbs' * (2 * w)
    BY <1>7, <1>9, <2>1, <2>3
  <2>5. QED
    BY <2>2, <2>4 DEF Shifted
<1>12. AlignInv'
  BY <1>1, <1>3, <1>6, <1>7, <1>9, <1>10, <1>11 DEF AlignInv
<1>13. QED
  BY <1>1, <1>8, <1>9, <1>12, NoAnswerYet DEF IInv

LEMMA AlignedStep ==
  ASSUME IInv, Aligned
  PROVE  IInv'
<1>1. /\ step = "align" /\ step' = "divide" /\ call' = call
      /\ Reaches(num2, num1) /\ num2' = num2
      /\ num1' = num1 /\ original' = original /\ result' = result
      /\ negative' = negative /\ bp' = bp /\ buffer' = buffer /\ position' = position
  BY DEF Aligned, Goes, numVars, textVars
<1>2. RuntimeTypeOK /\ CallInv /\ AlignInv /\ DivisionInv
  BY <1>1 DEF IInv, AlignInv
<1>3. /\ ValueOf(num1) = FirstAbs /\ result = Zero /\ ValueOf(num2) < Base * Half
      /\ \E w \in Doublings : ValueOf(num2) = SecondAbs * w
  BY <1>2 DEF AlignInv, Shifted
<1>4. ValueOf(num1) < Base * Half
  BY <1>2, <1>3, DivisionFacts, Halves
<1>5. ValueOf(num2) >= ValueOf(num1)
  BY <1>1, <1>2, <1>3, <1>4, DivisionFacts, ReachesValue
<1>6. ValueOf(num2) >= 1
  <2>1. PICK w \in Doublings : ValueOf(num2) = SecondAbs * w
    BY <1>3
  <2>2. w \in Nat /\ w >= 1
    BY DoublingFacts
  <2>3. SecondAbs * w >= 1
    BY <1>2, <2>2, DivisionFacts
  <2>4. QED
    BY <2>1, <2>3
<1>7. ValueOf(result) = 0
  BY <1>3, ZeroValue
<1>8. ValueOf(num1) + ValueOf(result) * (2 * ValueOf(num2)) = FirstAbs
  BY <1>2, <1>3, <1>7, DivisionFacts
<1>9. ValueOf(num1) < 2 * ValueOf(num2)
  BY <1>2, <1>5, <1>6, DivisionFacts
<1>10. RuntimeTypeOK'
  BY <1>1, <1>2 DEF RuntimeTypeOK
<1>11. /\ CallInv' /\ First' = First /\ Second' = Second
       /\ FirstAbs' = FirstAbs /\ SecondAbs' = SecondAbs /\ IsDivision' = IsDivision
  BY <1>1, <1>2, SameCall
<1>12. DivisionInv'
  BY <1>1, <1>2, <1>11 DEF DivisionInv
<1>13. Shifted'
  BY <1>1, <1>3, <1>11 DEF Shifted
<1>14. /\ ValueOf(num2)' < Base * Half
       /\ ValueOf(num1)' + ValueOf(result)' * (2 * ValueOf(num2)') = FirstAbs'
       /\ ValueOf(num1)' < 2 * ValueOf(num2)'
  BY <1>1, <1>3, <1>8, <1>9, <1>11
<1>15. DivideInv'
  BY <1>12, <1>13, <1>14 DEF DivideInv
<1>16. QED
  BY <1>1, <1>10, <1>11, <1>15, NoAnswerYet DEF IInv

\* Where the bits of a division come from, as long as there is one to decide.
LEMMA DivideFacts ==
  ASSUME RuntimeTypeOK, CallInv, DivideInv
  PROVE  /\ DivisionInv
         /\ Reaches(num2, original) =>
              /\ \E w \in Doublings : ValueOf(num2) = SecondAbs * w
              /\ ValueOf(num2) < Base * Half /\ ValueOf(num2) >= 1
              /\ ValueOf(num1) + ValueOf(result) * (2 * ValueOf(num2)) = FirstAbs
              /\ ValueOf(num1) < 2 * ValueOf(num2)
              /\ ValueOf(num1) <= FirstAbs
              /\ 2 * ValueOf(result) + 1 < Base * Base
         /\ ~Reaches(num2, original) =>
              /\ ValueOf(num2) = SecondAbs \div 2
              /\ ValueOf(num1) + ValueOf(result) * SecondAbs = FirstAbs
              /\ ValueOf(num1) < SecondAbs
<1> DEFINE n1 == ValueOf(num1)
           n2 == ValueOf(num2)
           r == ValueOf(result)
           d == SecondAbs
           Open == /\ Shifted
                   /\ n2 < Base * Half
                   /\ n1 + r * (2 * n2) = FirstAbs
                   /\ n1 < 2 * n2
           Done == n2 = d \div 2 /\ n1 + r * d = FirstAbs /\ n1 < d
<1>1. DivisionInv /\ (Open \/ Done)
  BY DEF DivideInv
<1>2. /\ num2 \in Pairs /\ original \in Pairs /\ ValueOf(original) = d
      /\ n1 \in Nat /\ n2 \in Nat /\ r \in Nat /\ d \in Nat /\ d >= 1 /\ d < Base * Half
      /\ FirstAbs \in Nat /\ FirstAbs < Base /\ Base * Half \in Nat
      /\ 2 * Base <= Base * Half /\ Base * Base = 2 * (Base * Half)
  BY <1>1, DivisionFacts
<1> HIDE DEF d, n1, n2, r
<1>3. ASSUME Open
      PROVE  /\ Reaches(num2, original)
             /\ \E w \in Doublings : n2 = d * w
             /\ n2 >= 1 /\ n1 <= FirstAbs /\ 2 * r + 1 < Base * Base
  <2>1. PICK w \in Doublings : n2 = d * w
    BY <1>3 DEF Shifted, n2, d
  <2>2. w \in Nat /\ w >= 1
    BY DoublingFacts
  <2>3. d * w >= d
    BY <1>2, <2>2
  <2>4. n2 >= d
    BY <2>1, <2>3
  <2>5. Reaches(num2, original)
    BY <1>2, <1>3, <2>4, ReachesValue DEF n2
  <2>6. r * (2 * n2) \in Nat /\ r * (2 * n2) >= r * 2
    <3>1. 2 * n2 >= 2 /\ 2 * n2 \in Nat
      BY <1>2, <2>4
    <3>2. QED
      BY <1>2, <3>1
  <2>7. n1 <= FirstAbs /\ r * 2 <= FirstAbs
    BY <1>2, <1>3, <2>6
  <2>8. 2 * r + 1 < Base * Base
    BY <1>2, <2>7, Halves
  <2>9. QED
    BY <1>2, <2>1, <2>4, <2>5, <2>7, <2>8
<1>4. ASSUME Done
      PROVE  ~Reaches(num2, original)
  <2>1. d \div 2 < d
    BY <1>2
  <2>2. n2 < d /\ n2 < Base * Half
    BY <1>2, <1>4, <2>1
  <2>3. ~(n2 >= d)
    BY <1>2, <2>2
  <2>4. QED
    BY <1>2, <2>2, <2>3, ReachesValue DEF n2
<1>5. ASSUME Reaches(num2, original) PROVE Open
  BY <1>1, <1>4, <1>5
<1>6. ASSUME ~Reaches(num2, original) PROVE Done
  BY <1>1, <1>3, <1>6
<1>7. QED
  BY <1>1, <1>3, <1>5, <1>6 DEF d, n1, n2, r

\* One bit more of the quotient is as much less of the dividend.
LEMMA OneBit ==
  ASSUME NEW n \in Nat, NEW m \in Nat, NEW r \in Nat, NEW f \in {0, 1}
  PROVE  (n - f * m) + (2 * r + f) * m = n + r * (2 * m)
<1>1. (2 * r + f) * m = 2 * (r * m) + f * m
  OBVIOUS
<1>2. r * (2 * m) = 2 * (r * m)
  OBVIOUS
<1>3. r * m \in Int /\ f * m \in Int
  OBVIOUS
<1>4. QED
  BY <1>1, <1>2, <1>3

LEMMA DivideStep ==
  ASSUME IInv, Divide
  PROVE  IInv'
<1> DEFINE n1 == ValueOf(num1)
           n2 == ValueOf(num2)
           r == ValueOf(result)
           d == SecondAbs
           a == FirstAbs
           f == IF Reaches(num1, num2) THEN 1 ELSE 0
<1>1. /\ step = "divide" /\ step' = "divide" /\ call' = call
      /\ Reaches(num2, original) /\ num2' = ShiftedRight(num2)
      /\ result' = Pair(2 * r + f)
      /\ num1' = IF Reaches(num1, num2) THEN Subtracted(num1, num2) ELSE num1
      /\ original' = original
      /\ negative' = negative /\ bp' = bp /\ buffer' = buffer /\ position' = position
  BY DEF Divide, Goes, textVars
<1>2. RuntimeTypeOK /\ CallInv /\ DivideInv
  BY <1>1 DEF IInv
<1>3. DivisionInv
  BY <1>2, DivideFacts
<1>4. /\ num1 \in Pairs /\ num2 \in Pairs /\ original \in Pairs /\ result \in Pairs
      /\ n1 \in Nat /\ n2 \in Nat /\ r \in Nat /\ a \in Nat /\ d \in Nat
      /\ a < Base /\ d >= 1 /\ d < Base * Half
      /\ Base * Half \in Nat /\ 2 * Base <= Base * Half /\ Base * Base = 2 * (Base * Half)
  BY <1>2, <1>3, DivisionFacts
<1>5. /\ \E w \in Doublings : n2 = d * w
      /\ n2 < Base * Half /\ n2 >= 1
      /\ n1 + r * (2 * n2) = a
      /\ n1 < 2 * n2 /\ n1 <= a
      /\ 2 * r + 1 < Base * Base
  BY <1>1, <1>2, DivideFacts
<1>6. Reaches(num1, num2) <=> n1 >= n2
  <2>1. n1 < Base * Half
    BY <1>4, <1>5, Halves
  <2>2. QED
    BY <1>4, <1>5, <2>1, ReachesValue
<1>7. f \in {0, 1} /\ (f = 1 <=> n1 >= n2)
  BY <1>6
<1>8. num1' \in Pairs /\ ValueOf(num1)' = n1 - f * n2
  <2>1. ValueOf(num1)' = ValueOf(num1')
    BY DEF ValueOf
  <2>2. CASE Reaches(num1, num2)
    <3>1. n2 <= n1 /\ n1 < Base
      BY <1>4, <1>5, <1>6, <2>2, Halves
    <3>2. Subtracted(num1, num2) \in Pairs /\ ValueOf(Subtracted(num1, num2)) = n1 - n2
      BY <1>4, <3>1, SubtractedValue
    <3>3. f * n2 = n2
      BY <1>4, <2>2
    <3>4. QED
      BY <1>1, <2>1, <2>2, <3>2, <3>3
  <2>3. CASE ~Reaches(num1, num2)
    <3>1. f * n2 = 0
      BY <1>4, <2>3
    <3>2. QED
      BY <1>1, <1>4, <2>1, <2>3, <3>1
  <2>4. QED
    BY <2>2, <2>3
<1>9. num2' \in Pairs /\ ValueOf(num2)' = n2 \div 2
  <2>1. ValueOf(num2)' = ValueOf(num2')
    BY DEF ValueOf
  <2>2. QED
    BY <1>1, <1>4, <1>5, <2>1, ShiftedRightValue
<1>10. result' \in Pairs /\ ValueOf(result)' = 2 * r + f
  <2>1. ValueOf(result)' = ValueOf(result')
    BY DEF ValueOf
  <2> HIDE DEF f, r
  <2>2. 2 * r + f \in Int /\ 0 <= 2 * r + f /\ 2 * r + f < Base * Base
    BY <1>4, <1>5, <1>7
  <2>3. QED
    BY <1>1, <2>1, <2>2, ValueOfPair
<1>11. RuntimeTypeOK'
  BY <1>1, <1>2, <1>8, <1>9, <1>10 DEF RuntimeTypeOK
<1>12. /\ CallInv' /\ First' = First /\ Second' = Second
       /\ FirstAbs' = a /\ SecondAbs' = d /\ IsDivision' = IsDivision
  BY <1>1, <1>2, SameCall
<1>13. DivisionInv'
  BY <1>1, <1>3, <1>12 DEF DivisionInv
<1> DEFINE m1 == ValueOf(num1)'
           m2 == ValueOf(num2)'
           q == ValueOf(result)'
<1>14. m1 \in Nat /\ q \in Nat
  BY <1>8, <1>10, ValueBounds DEF ValueOf
<1> HIDE DEF f, n1, n2, r, d, a, m1, m2, q
<1>15. m1 + q * n2 = a /\ m1 < n2
  <2>1. m1 = n1 - f * n2 /\ q = 2 * r + f
    BY <1>8, <1>10 DEF m1, q
  <2>2. (n1 - f * n2) + (2 * r + f) * n2 = n1 + r * (2 * n2)
    BY <1>4, <1>7, OneBit
  <2>3. n1 - f * n2 < n2
    <3>1. CASE f = 1
      <4>1. f * n2 = n2
        BY <1>4, <3>1
      <4>2. QED
        BY <1>4, <1>5, <4>1
    <3>2. CASE f = 0
      <4>1. f * n2 = 0 /\ ~(n1 >= n2)
        BY <1>4, <1>7, <3>2
      <4>2. QED
        BY <1>4, <4>1
    <3>3. QED
      BY <1>7, <3>1, <3>2
  <2>4. QED
    BY <1>5, <2>1, <2>2, <2>3
<1>16. PICK w \in Doublings : n2 = d * w
  BY <1>5
<1>17. CASE w = 1
  <2>1. n2 = d
    BY <1>4, <1>16, <1>17
  <2>2. m2 = d \div 2 /\ m1 + q * d = a /\ m1 < d
    BY <1>9, <1>15, <2>1 DEF m2
  <2>3. DivideInv'
    BY <1>12, <1>13, <2>2 DEF DivideInv, m1, m2, q, a, d
  <2>4. QED
    BY <1>1, <1>11, <1>12, <2>3, NoAnswerYet DEF IInv
<1>18. CASE w # 1
  <2>1. PICK v \in Doublings : w = 2 * v
    BY <1>18, DoublingFacts
  <2>2. v \in Nat
    BY DoublingFacts
  <2>3. n2 = 2 * (d * v) /\ d * v \in Nat
    BY <1>4, <1>16, <2>1, <2>2
  <2>4. m2 = d * v
    <3> DEFINE k == d * v
    <3> HIDE DEF k
    <3>1. k \in Nat /\ n2 = 2 * k
      BY <2>3 DEF k
    <3>2. (2 * k) \div 2 = k
      BY <3>1
    <3>3. QED
      BY <1>9, <3>1, <3>2 DEF m2, k
  <2>5. n2 = 2 * m2 /\ m2 \in Nat
    BY <2>3, <2>4
  <2>6. m1 + q * (2 * m2) = a /\ m1 < 2 * m2 /\ m2 < Base * Half
    BY <1>4, <1>5, <1>15, <2>5
  <2>7. Shifted'
    BY <1>12, <2>4 DEF Shifted, m2
  <2>8. DivideInv'
    BY <1>12, <1>13, <2>6, <2>7 DEF DivideInv, m1, m2, q, a
  <2>9. QED
    BY <1>1, <1>11, <1>12, <2>8, NoAnswerYet DEF IInv
<1>19. QED
  BY <1>17, <1>18

\* When no bit is left, the quotient and the remainder are those of the magnitudes.
LEMMA DivisionDone ==
  ASSUME RuntimeTypeOK, CallInv, DivideInv, ~Reaches(num2, original)
  PROVE  /\ ValueOf(result) = FirstAbs \div SecondAbs
         /\ ValueOf(num1) = FirstAbs % SecondAbs
         /\ FirstAbs = SecondAbs * ValueOf(result) + ValueOf(num1)
         /\ ValueOf(result) <= FirstAbs
<1> DEFINE n1 == ValueOf(num1)
           r == ValueOf(result)
           d == SecondAbs
           a == FirstAbs
<1>1. DivisionInv /\ n1 + r * d = a /\ n1 < d
  BY DivideFacts
<1>2. n1 \in Nat /\ r \in Nat /\ d \in Nat /\ d >= 1 /\ a \in Nat
  BY <1>1, DivisionFacts
<1> HIDE DEF n1, r, d, a
<1>3. a = d * r + n1
  BY <1>1, <1>2
<1>4. a \div d = r /\ a % d = n1
  BY <1>1, <1>2, <1>3, DividesOnce
<1>5. r * d >= r
  BY <1>2
<1>6. r <= a
  <2>1. r * d \in Nat
    BY <1>2
  <2>2. QED
    BY <1>1, <1>2, <1>5, <2>1
<1>7. QED
  BY <1>3, <1>4, <1>6 DEF n1, r, d, a

LEMMA ReturnUnsignedStep ==
  ASSUME IInv, ReturnUnsigned
  PROVE  IInv'
<1>1. /\ step = "divide" /\ step' = "returned" /\ call' = call
      /\ call.routine = "DivideU32"
      /\ ~Reaches(num2, original) /\ num2' = num1
      /\ num1' = num1 /\ original' = original /\ result' = result
      /\ negative' = negative /\ bp' = bp /\ buffer' = buffer /\ position' = position
  BY DEF ReturnUnsigned, Goes, textVars
<1>2. RuntimeTypeOK /\ CallInv /\ DivideInv
  BY <1>1 DEF IInv
<1>3. RuntimeTypeOK'
  BY <1>1, <1>2 DEF RuntimeTypeOK
<1>4. /\ CallInv' /\ First' = First /\ Second' = Second
      /\ FirstAbs' = FirstAbs /\ SecondAbs' = SecondAbs /\ IsDivision' = IsDivision
  BY <1>1, <1>2, SameCall
<1>5. /\ ValueOf(result) = FirstAbs \div SecondAbs
      /\ FirstAbs = SecondAbs * ValueOf(result) + ValueOf(num1)
  BY <1>1, <1>2, DivisionDone
<1>6. /\ First = FirstAbs /\ Second = SecondAbs /\ First >= 0 /\ Second >= 0
      /\ First \in Int /\ Second \in Int
  BY <1>1, <1>2, CallFacts
<1>7. Quotient(First, Second) = ValueOf(result)
  <2>1. (First < 0) = (Second < 0)
    BY <1>6
  <2>2. QED
    BY <1>5, <2>1 DEF Quotient, FirstAbs, SecondAbs
<1>8. num1 \in Pairs /\ result \in Pairs
  BY <1>2, Types
<1>9. Remainder(First, Second) = ValueOf(num1)
  <2>1. ValueOf(num1) \in Nat /\ ValueOf(result) \in Nat
    BY <1>8, ValueBounds
  <2>2. SecondAbs * ValueOf(result) \in Int
    BY <1>6, <2>1
  <2>3. QED
    BY <1>5, <1>6, <1>7, <2>1, <2>2 DEF Remainder
<1>10. Returns(Quotient(First, Second), result) /\ Returns(Remainder(First, Second), num1)
  <2>1. \A p \in Pairs : ValueOf(p) \in Int /\ ValueOf(p) >= 0 /\ ValueOf(p) < Base * Base
    BY ValueBounds
  <2>2. -(Base * Base) < 0 /\ Base * Base \in Nat
    BY Halves
  <2>3. \A p \in Pairs : Returns(ValueOf(p), p)
    BY <2>1, <2>2, ReturnsValue
  <2>4. QED
    BY <1>7, <1>8, <1>9, <2>3
<1>11. QuotientsRight' /\ UnsignedRemaindersRight'
  BY <1>1, <1>4, <1>10 DEF QuotientsRight, UnsignedRemaindersRight, Returns
<1>12. ProductsRight' /\ DigitsRight'
  BY <1>1 DEF ProductsRight, DigitsRight
<1>13. QED
  BY <1>1, <1>3, <1>4, <1>11, <1>12 DEF IInv, AnswersRight

\* A magnitude that is given its sign is what is to be returned.
LEMMA SignedResult ==
  ASSUME NEW p \in Pairs, NEW n \in Int, NEW sign \in BOOLEAN,
         ValueOf(p) < Base,
         n = IF sign THEN -ValueOf(p) ELSE ValueOf(p)
  PROVE  LET q == IF sign THEN Negated(p) ELSE p IN q \in Pairs /\ Returns(n, q)
<1> DEFINE v == ValueOf(p)
           b == Base * Base
           q == IF sign THEN Negated(p) ELSE p
<1>1. v \in Nat /\ v < Base /\ b \in Nat /\ Base <= b
  <2>1. Base * 1 <= Base * Base /\ Base * 1 = Base
    BY Halves
  <2>2. QED
    BY <2>1, ValueBounds, Halves
<1>2. Negated(p) \in Pairs /\ ValueOf(Negated(p)) = IF v = 0 THEN 0 ELSE b - v
  BY NegatedValue DEF Complement
<1>3. n = IF sign THEN -v ELSE v
  OBVIOUS
<1>4. q \in Pairs
  BY <1>2
<1>5. ValueOf(q) = IF sign THEN (IF v = 0 THEN 0 ELSE b - v) ELSE v
  BY <1>2
<1> HIDE DEF v, b, q
<1>6. -b < n /\ n < b
  BY <1>1, <1>3, Halves
<1>7. ValueOf(q) = IF n < 0 THEN n + b ELSE n
  BY <1>1, <1>3, <1>5
<1>8. Returns(n, q)
  BY <1>4, <1>6, <1>7, ReturnsValue DEF b
<1>9. QED
  BY <1>4, <1>8 DEF q

LEMMA ReturnSignedStep ==
  ASSUME IInv, ReturnSigned
  PROVE  IInv'
<1>1. /\ step = "divide" /\ step' = "returned" /\ call' = call
      /\ call.routine = "DivideI32"
      /\ ~Reaches(num2, original) /\ num2' = num2
      /\ num1' = num2 /\ original' = original
      /\ result' = IF negative THEN Negated(result) ELSE result
      /\ negative' = negative /\ bp' = bp /\ buffer' = buffer /\ position' = position
  BY DEF ReturnSigned, Goes, textVars
<1>2. RuntimeTypeOK /\ CallInv /\ DivideInv /\ DivisionInv
  BY <1>1 DEF IInv, DivideInv
<1>3. /\ CallInv' /\ First' = First /\ Second' = Second
      /\ FirstAbs' = FirstAbs /\ SecondAbs' = SecondAbs /\ IsDivision' = IsDivision
  BY <1>1, <1>2, SameCall
<1>4. ValueOf(result) = FirstAbs \div SecondAbs /\ ValueOf(result) <= FirstAbs
  BY <1>1, <1>2, DivisionDone
<1>5. result \in Pairs /\ negative \in BOOLEAN /\ First \in Int /\ Second \in Int
  BY <1>2, Types, CallFacts
<1>6. ValueOf(result) < Base /\ ValueOf(result) \in Nat
  BY <1>2, <1>4, DivisionFacts, Halves
<1>7. Quotient(First, Second) = IF negative THEN -ValueOf(result) ELSE ValueOf(result)
  <2>1. negative <=> ~(First < 0 <=> Second < 0)
    BY <1>1, <1>2 DEF DivisionInv
  <2>2. (First < 0) = (Second < 0) <=> ~negative
    BY <1>5, <2>1
  <2>3. QED
    BY <1>4, <2>2 DEF Quotient, FirstAbs, SecondAbs
<1>8. result' \in Pairs /\ Returns(Quotient(First, Second), result')
  <2>1. Quotient(First, Second) \in Int
    BY <1>6, <1>7
  <2>2. QED
    BY <1>1, <1>5, <1>6, <1>7, <2>1, SignedResult
<1>9. RuntimeTypeOK'
  BY <1>1, <1>2, <1>8 DEF RuntimeTypeOK
<1>10. QuotientsRight'
  BY <1>3, <1>8 DEF QuotientsRight, Returns
<1>11. UnsignedRemaindersRight' /\ ProductsRight' /\ DigitsRight'
  BY <1>1 DEF UnsignedRemaindersRight, ProductsRight, DigitsRight
<1>12. QED
  BY <1>1, <1>3, <1>9, <1>10, <1>11 DEF IInv, AnswersRight

LEMMA MultiplyStep ==
  ASSUME IInv, Multiply
  PROVE  IInv'
<1> DEFINE v == ValueOf(num1)
           r == ValueOf(result)
           l == num2.lo
           k == l \div 2
           b == l % 2
           t == FirstAbs * SecondAbs
<1>1. /\ step = "multiply" /\ step' = "multiply" /\ call' = call
      /\ result' = IF b = 1 THEN Added(result, num1) ELSE result
      /\ num1' = ShiftedLeft(num1)
      /\ num2' = Swapped(ShiftedRight(Swapped(num2)))
      /\ original' = original
      /\ negative' = negative /\ bp' = bp /\ buffer' = buffer /\ position' = position
  BY DEF Multiply, Goes, textVars
<1>2. RuntimeTypeOK /\ CallInv /\ MultiplyInv
  BY <1>1 DEF IInv
<1>3. /\ call.routine = "MultiplyI32" /\ (negative <=> ~(First < 0 <=> Second < 0)) /\ l < Half
      /\ (l = 0 /\ r = t) \/ (l # 0 /\ v * l + r = t)
  BY <1>2 DEF MultiplyInv
<1>4. /\ num1 \in Pairs /\ num2 \in Pairs /\ result \in Pairs
      /\ v \in Nat /\ r \in Nat
      /\ l \in Int /\ 0 <= l /\ l < Base /\ num2.hi \in Int /\ 0 <= num2.hi /\ num2.hi < Base
  BY <1>2, Types, ValueBounds
<1>5. t \in Nat /\ t < Base
  BY <1>2, <1>3, CallFacts
<1>6. k \in Nat /\ b \in {0, 1} /\ l = 2 * k + b /\ k < Half
  BY <1>4, Halves
<1>7. num2' \in Pairs /\ num2'.lo = k
  <2> DEFINE p == Swapped(num2)
             q == ShiftedRight(p)
  <2>1. p = [lo |-> num2.hi, hi |-> l]
    BY DEF Swapped
  <2>2. p \in Pairs /\ p.hi = l
    BY <1>4, <2>1, Written
  <2>3. q \in Pairs /\ q.hi = k
    BY <1>3, <2>2, ShiftedRightValue
  <2>4. num2' = [lo |-> q.hi, hi |-> q.lo]
    BY <1>1 DEF Swapped
  <2> HIDE DEF q
  <2>5. q.lo \in Word /\ q.hi \in Word
    BY <2>3 DEF Pairs
  <2>6. QED
    BY <2>3, <2>4, <2>5 DEF Pairs
<1>8. num1' \in Pairs /\ (2 * v < Base * Base => ValueOf(num1)' = 2 * v)
  <2>1. ValueOf(num1)' = ValueOf(num1')
    BY DEF ValueOf
  <2>2. QED
    BY <1>1, <1>4, <2>1, ShiftedLeftValue
<1>9. result' \in Pairs
  BY <1>1, <1>4, AddedValue
<1>10. ValueOf(result)' = ValueOf(result')
  BY DEF ValueOf
<1>11. RuntimeTypeOK'
  BY <1>1, <1>2, <1>7, <1>8, <1>9 DEF RuntimeTypeOK
<1>12. /\ CallInv' /\ First' = First /\ Second' = Second
       /\ FirstAbs' = FirstAbs /\ SecondAbs' = SecondAbs
  BY <1>1, <1>2, SameCall
<1> DEFINE r2 == ValueOf(result)'
           v2 == ValueOf(num1)'
           k2 == num2'.lo
<1>13. (k2 = 0 /\ r2 = t) \/ (k2 # 0 /\ v2 * k2 + r2 = t)
  <2>1. CASE l = 0
    <3>1. k = 0 /\ b = 0
      BY <1>6, <2>1
    <3>2. r2 = r /\ r = t
      BY <1>1, <1>3, <1>10, <2>1, <3>1
    <3>3. QED
      BY <1>7, <3>1, <3>2
  <2>2. CASE l # 0
    <3> HIDE DEF t, k, b, v, r, l, r2, v2, k2
    <3>1. v * l + r = t /\ l >= 1
      BY <1>3, <1>4, <2>2
    <3>2. v * l >= v /\ v * l \in Nat
      BY <1>4, <3>1
    <3>3. v + r < Base
      BY <1>4, <1>5, <3>1, <3>2, Halves
    <3>4. r2 = r + b * v
      <4>1. CASE b = 1
        <5>1. ValueOf(Added(result, num1)) = r + v
          <6>1. ValueOf(result) + ValueOf(num1) < Base
            BY <1>4, <3>3 DEF r, v
          <6>2. ValueOf(Added(result, num1)) = ValueOf(result) + ValueOf(num1)
            BY <1>4, <6>1, AddedValue
          <6>3. QED
            BY <6>2 DEF r, v
        <5>2. b * v = v
          BY <1>4, <4>1
        <5>3. QED
          BY <1>1, <1>10, <4>1, <5>1, <5>2 DEF r2
      <4>2. CASE b = 0
        <5>1. b * v = 0
          BY <1>4, <4>2
        <5>2. QED
          BY <1>1, <1>4, <1>10, <4>2, <5>1 DEF r2, r
      <4>3. QED
        BY <1>6, <4>1, <4>2
    <3>5. v2 = 2 * v
      <4>1. 2 * v < Base * Base
        <5>1. Base * 2 <= Base * Base /\ Base * 2 = 2 * Base
          BY Halves
        <5>2. QED
          BY <1>4, <3>3, <5>1, Halves
      <4>2. QED
        BY <1>8, <4>1 DEF v2
    <3>6. v * l = (2 * v) * k + b * v
      BY <1>4, <1>6
    <3>7. /\ (2 * v) * k \in Int /\ b * v \in Int
      BY <1>4, <1>6
    <3>8. k2 = k
      BY <1>7 DEF k2
    <3>9. CASE k = 0
      <4>1. (2 * v) * k = 0
        BY <1>4, <3>9
      <4>2. r2 = t
        BY <1>4, <3>1, <3>4, <3>6, <3>7, <4>1
      <4>3. QED
        BY <3>8, <3>9, <4>2
    <3>10. CASE k # 0
      <4>1. v2 * k2 + r2 = t
        BY <1>4, <3>1, <3>4, <3>5, <3>6, <3>7, <3>8, SMTT(30)
      <4>2. QED
        BY <3>8, <3>10, <4>1
    <3>11. QED
      BY <3>9, <3>10
  <2>3. QED
    BY <2>1, <2>2
<1>14. k2 < Half
  BY <1>6, <1>7
<1>15. MultiplyInv'
  BY <1>1, <1>3, <1>12, <1>13, <1>14 DEF MultiplyInv
<1>16. QED
  BY <1>1, <1>11, <1>12, <1>15, NoAnswerYet DEF IInv

LEMMA ReturnProductStep ==
  ASSUME IInv, ReturnProduct
  PROVE  IInv'
<1>1. /\ step = "multiply" /\ step' = "returned" /\ call' = call
      /\ num2 = Zero /\ bp' = "caller"
      /\ result' = IF negative THEN Negated(result) ELSE result
      /\ num1' = [num1 EXCEPT !.lo = IF negative THEN 1 ELSE 0]
      /\ num2' = num2 /\ original' = original
      /\ negative' = negative /\ buffer' = buffer /\ position' = position
  BY DEF ReturnProduct, Goes, textVars
<1>2. RuntimeTypeOK /\ CallInv /\ MultiplyInv
  BY <1>1 DEF IInv
<1>3. /\ CallInv' /\ First' = First /\ Second' = Second
  BY <1>1, <1>2, SameCall
<1>4. /\ num1 \in Pairs /\ result \in Pairs /\ negative \in BOOLEAN
      /\ First \in Int /\ Second \in Int
      /\ FirstAbs = IF First < 0 THEN -First ELSE First
      /\ SecondAbs = IF Second < 0 THEN -Second ELSE Second
  BY <1>2, Types, CallFacts
<1>5. /\ call.routine = "MultiplyI32" /\ (negative <=> ~(First < 0 <=> Second < 0))
      /\ ValueOf(result) = FirstAbs * SecondAbs
  <2>1. num2.lo = 0
    BY <1>1, ZeroValue
  <2>2. QED
    BY <1>2, <2>1 DEF MultiplyInv
<1>6. ValueOf(result) < Base /\ ValueOf(result) \in Nat
  BY <1>2, <1>4, <1>5, CallFacts, ValueBounds
<1>7. First * Second = IF negative THEN -ValueOf(result) ELSE ValueOf(result)
  <2>1. CASE First < 0 /\ Second < 0
    <3>1. FirstAbs * SecondAbs = (-First) * (-Second) /\ ~negative
      BY <1>4, <1>5, <2>1
    <3>2. (-First) * (-Second) = First * Second
      BY <1>4
    <3>3. QED
      BY <1>5, <3>1, <3>2
  <2>2. CASE First < 0 /\ ~(Second < 0)
    <3>1. FirstAbs * SecondAbs = (-First) * Second /\ negative
      BY <1>4, <1>5, <2>2
    <3>2. (-First) * Second = -(First * Second)
      BY <1>4
    <3>3. First * Second \in Int
      BY <1>4
    <3>4. QED
      BY <1>5, <3>1, <3>2, <3>3
  <2>3. CASE ~(First < 0) /\ Second < 0
    <3>1. FirstAbs * SecondAbs = First * (-Second) /\ negative
      BY <1>4, <1>5, <2>3
    <3>2. First * (-Second) = -(First * Second)
      BY <1>4
    <3>3. First * Second \in Int
      BY <1>4
    <3>4. QED
      BY <1>5, <3>1, <3>2, <3>3
  <2>4. CASE ~(First < 0) /\ ~(Second < 0)
    BY <1>4, <1>5, <2>4
  <2>5. QED
    BY <2>1, <2>2, <2>3, <2>4
<1>8. result' \in Pairs /\ Returns(First * Second, result')
  <2>1. First * Second \in Int
    BY <1>4
  <2>2. QED
    BY <1>1, <1>4, <1>6, <1>7, <2>1, SignedResult
<1>9. num1' \in Pairs
  BY <1>1, <1>4, Halves DEF Pairs, Word
<1>10. RuntimeTypeOK'
  BY <1>1, <1>2, <1>8, <1>9 DEF RuntimeTypeOK
<1>11. ProductsRight'
  BY <1>3, <1>8 DEF ProductsRight, Returns
<1>12. QuotientsRight' /\ UnsignedRemaindersRight' /\ DigitsRight'
  BY <1>1, <1>5 DEF QuotientsRight, UnsignedRemaindersRight, DigitsRight, IsDivision
<1>13. QED
  BY <1>1, <1>3, <1>10, <1>11, <1>12 DEF IInv, AnswersRight

-----------------------------------------------------------------------------
(* Digits *)

\* The powers of the radix grow.
LEMMA RadixPowers ==
  /\ Power(Radix, 0) = 1
  /\ \A n \in Nat : /\ Power(Radix, n) \in Nat /\ Power(Radix, n) >= 1
                    /\ Power(Radix, n + 1) = Radix * Power(Radix, n)
                    /\ \A j \in 0 .. n : Power(Radix, j) <= Power(Radix, n)
<1> DEFINE V == {n \in Nat : \A j \in 0 .. n : Power(Radix, j) <= Power(Radix, n)}
<1>1. Radix \in Nat /\ Radix >= 2
  BY RadixAssumption, Halves
<1>2. /\ Power(Radix, 0) = 1
      /\ \A n \in Nat : Power(Radix, n) \in Nat /\ Power(Radix, n + 1) = Radix * Power(Radix, n)
  BY <1>1, Powers
<1>3. 0 \in V
  BY <1>2
<1>4. ASSUME NEW n \in V PROVE n + 1 \in V
  <2>1. n \in Nat /\ n + 1 \in Nat /\ \A j \in 0 .. n : Power(Radix, j) <= Power(Radix, n)
    OBVIOUS
  <2>2. \A q \in Nat : Radix * q >= q
    BY <1>1
  <2>3. Power(Radix, n + 1) >= Power(Radix, n)
    BY <1>2, <2>1, <2>2
  <2>4. /\ Power(Radix, n) \in Nat /\ Power(Radix, n + 1) \in Nat
        /\ \A j \in 0 .. n + 1 : Power(Radix, j) \in Nat
    BY <1>2, <2>1
  <2>5. ASSUME NEW j \in 0 .. n + 1 PROVE Power(Radix, j) <= Power(Radix, n + 1)
    <3>1. CASE j = n + 1
      BY <2>4, <3>1
    <3>2. CASE j # n + 1
      <4>1. j \in 0 .. n
        BY <2>1, <3>2
      <4>2. QED
        BY <2>1, <2>3, <2>4, <4>1
    <3>3. QED
      BY <3>1, <3>2
  <2>6. QED
    BY <2>1, <2>5
<1>5. V \in SUBSET Nat
  OBVIOUS
<1>6. V = Nat
  <2> HIDE DEF V
  <2>1. QED
    BY <1>3, <1>4, <1>5, NatInductive
<1>7. \A n \in Nat : Power(Radix, n) >= 1
  <2>1. \A n \in Nat : 0 \in 0 .. n /\ n \in V
    BY <1>6
  <2>2. QED
    BY <1>2, <2>1
<1>8. QED
  BY <1>2, <1>6, <1>7

\* A number less than the divisor, and no other, is divided without a quotient.
LEMMA NoQuotient ==
  ASSUME NEW n \in Nat, NEW d \in Nat, d > 0
  PROVE  n \div d = 0 <=> n < d
<1>1. ASSUME n < d PROVE n \div d = 0
  <2>1. n = d * 0 + n /\ 0 \in Int /\ 0 <= n
    OBVIOUS
  <2>2. QED
    BY <1>1, <2>1, DividesOnce
<1>2. ASSUME n \div d = 0 PROVE n < d
  <2>1. n = d * 0 + (n % d) /\ n % d < d /\ n % d \in Int
    BY <1>2, Divides
  <2>2. QED
    BY <2>1
<1>3. QED
  BY <1>1, <1>2

\* As long as there is a digit to write there is a place for it, and for a sign.
LEMMA RoomForDigits ==
  ASSUME BufferSuffices, CallInv
  PROVE  /\ BufferLength \in Nat /\ BufferLength >= 2
         /\ \A m \in 0 .. BufferLength :
              FirstAbs \div Power(Radix, m) # 0 => m < BufferLength - 1
<1> DEFINE L == BufferLength
<1>1. L \in Nat /\ L >= 1
  BY BufferAssumption
<1>2. FirstAbs \in Nat /\ FirstAbs <= Base * Half /\ Base * Half \in Nat /\ Base * Half >= 1
  <2>1. Base * 1 <= Base * Half /\ Base * 1 = Base
    BY Halves
  <2>2. QED
    BY <2>1, CallFacts, Halves
<1>3. (Base * Base) \div 2 = Base * Half
  BY ZeroValue, SignValue
<1>4. /\ Power(Radix, L - 1) \in Nat /\ Power(Radix, L - 1) > FirstAbs
      /\ Power(Radix, L - 1) > 1
  <2>1. Power(Radix, L - 1) \in Nat
    BY <1>1, RadixPowers
  <2>2. QED
    BY <1>2, <1>3, <2>1 DEF BufferSuffices
<1>5. L >= 2
  <2>1. L = 1 => L - 1 = 0
    BY <1>1
  <2>2. L # 1
    BY <1>4, <2>1, RadixPowers
  <2>3. QED
    BY <1>1, <2>2
<1>6. ASSUME NEW m \in 0 .. L, FirstAbs \div Power(Radix, m) # 0
      PROVE  m < L - 1
  <2>1. m \in Nat /\ Power(Radix, m) \in Nat /\ Power(Radix, m) > 0
    BY RadixPowers
  <2>2. Power(Radix, m) <= FirstAbs
    BY <1>2, <1>6, <2>1, NoQuotient
  <2>3. ASSUME m >= L - 1 PROVE FALSE
    <3>1. L - 1 \in 0 .. m
      BY <1>1, <2>1, <2>3
    <3>2. Power(Radix, L - 1) <= Power(Radix, m)
      BY <2>1, <3>1, RadixPowers
    <3>3. QED
      BY <1>2, <1>4, <2>1, <2>2, <3>2
  <2>4. QED
    BY <1>1, <2>1, <2>3
<1>7. QED
  BY <1>1, <1>5, <1>6

LEMMA WriteDigitStep ==
  ASSUME BufferSuffices, IInv, WriteDigit
  PROVE  IInv'
<1> DEFINE low == (num1.hi % Radix) * Base + num1.lo
           rest == [hi |-> num1.hi \div Radix, lo |-> low \div Radix]
           digit == low % Radix
           v == ValueOf(num1)
           m == BufferLength - position
<1>1. /\ step = "digits" /\ step' = (IF rest = Zero THEN "sign" ELSE "digits") /\ call' = call
      /\ buffer' = [buffer EXCEPT ![position] = digit]
      /\ position' = position - 1
      /\ num1' = rest
      /\ num2' = num2 /\ original' = original /\ result' = result
      /\ negative' = negative /\ bp' = bp
  BY DEF WriteDigit, Goes
<1>2. RuntimeTypeOK /\ CallInv /\ DigitsInv
  BY <1>1 DEF IInv
<1>3. num1 \in Pairs /\ v \in Nat /\ buffer \in [1 .. BufferLength -> 0 .. Minus]
  BY <1>2, Types, ValueBounds
<1>4. /\ rest \in Pairs /\ ValueOf(rest) = v \div Radix
      /\ digit = v % Radix /\ digit \in 0 .. Radix - 1
  BY <1>3, DigitValue
<1> HIDE DEF rest, digit, v
<1>5. /\ call.routine = "itoa" /\ (negative <=> First < 0)
      /\ position \in 1 .. BufferLength /\ WrittenInv
      /\ v = FirstAbs \div Power(Radix, m)
      /\ position < BufferLength => v # 0
  BY <1>2 DEF DigitsInv, v
<1>6. /\ BufferLength \in Nat /\ BufferLength >= 2
      /\ \A j \in 0 .. BufferLength : FirstAbs \div Power(Radix, j) # 0 => j < BufferLength - 1
  BY <1>2, RoomForDigits
<1>7. position \in 2 .. BufferLength
  <2>1. CASE position = BufferLength
    BY <1>6, <2>1
  <2>2. CASE position < BufferLength
    <3>1. m \in 0 .. BufferLength
      BY <1>5, <1>6
    <3>2. m < BufferLength - 1
      BY <1>5, <1>6, <2>2, <3>1
    <3>3. QED
      BY <1>5, <1>6, <3>2
  <2>3. QED
    BY <1>5, <1>6, <2>1, <2>2
<1>8. /\ position' \in 1 .. BufferLength - 1 /\ position' = position - 1
      /\ position' + 1 = position /\ BufferLength - position' = m + 1
      /\ m \in Nat /\ position \in Int
  BY <1>1, <1>6, <1>7
<1>9. FirstAbs \in Nat
  BY <1>2, CallFacts
<1>10. ValueOf(rest) = FirstAbs \div Power(Radix, m + 1)
  <2>1. Radix \in Nat /\ Radix > 0
    BY RadixAssumption, Halves
  <2>2. Power(Radix, m) \in Nat /\ Power(Radix, m) > 0
    BY <1>8, RadixPowers
  <2>3. Power(Radix, m + 1) = Radix * Power(Radix, m)
    BY <1>8, RadixPowers
  <2>4. (FirstAbs \div Power(Radix, m)) \div Radix = FirstAbs \div (Radix * Power(Radix, m))
    BY <1>9, <2>1, <2>2, DividesTwice
  <2>5. QED
    BY <1>4, <1>5, <2>3, <2>4
<1>11. ValueOf(num1)' = ValueOf(rest)
  <2>1. ValueOf(num1)' = ValueOf(num1')
    BY DEF ValueOf
  <2>2. QED
    BY <1>1, <2>1
<1>12. RuntimeTypeOK'
  <2>1. digit \in 0 .. Minus
    BY <1>4, RadixAssumption, Halves DEF Minus
  <2>2. buffer' \in [1 .. BufferLength -> 0 .. Minus]
    BY <1>1, <1>3, <2>1
  <2>3. position' \in 0 .. BufferLength
    BY <1>6, <1>8
  <2>4. QED
    BY <1>1, <1>2, <1>4, <2>2, <2>3 DEF RuntimeTypeOK
<1>13. CallInv' /\ First' = First /\ FirstAbs' = FirstAbs
  BY <1>1, <1>2, SameCall
<1>14. buffer'[position] = digit /\ \A k \in position + 1 .. BufferLength : buffer'[k] = buffer[k]
  BY <1>1, <1>3, <1>5, <1>6
<1>15. WrittenInv'
  <2>1. SUFFICES ASSUME NEW k \in position .. BufferLength
                 PROVE  buffer'[k] = (FirstAbs \div Power(Radix, BufferLength - k)) % Radix
    BY <1>8, <1>13 DEF WrittenInv
  <2>2. CASE k = position
    BY <1>4, <1>5, <1>14, <2>2
  <2>3. CASE k # position
    <3>1. k \in position + 1 .. BufferLength
      BY <1>6, <1>8, <2>3
    <3>2. QED
      BY <1>5, <1>14, <3>1 DEF WrittenInv
  <2>4. QED
    BY <2>2, <2>3
<1>16. CASE rest = Zero
  <2>1. step' = "sign"
    BY <1>1, <1>16
  <2>2. v \div Radix = 0 /\ FirstAbs \div Power(Radix, m + 1) = 0
    BY <1>4, <1>10, <1>16, ZeroValue
  <2>3. FirstAbs < Power(Radix, m + 1)
    <3>1. Power(Radix, m + 1) \in Nat /\ Power(Radix, m + 1) > 0
      BY <1>8, RadixPowers
    <3>2. QED
      BY <1>9, <2>2, <3>1, NoQuotient
  <2>4. position < BufferLength => digit # 0
    <3>1. Radix \in Nat /\ Radix > 0
      BY RadixAssumption, Halves
    <3>2. v = Radix * 0 + (v % Radix) /\ v % Radix \in Int
      BY <1>3, <2>2, <3>1, Divides
    <3>3. v = v % Radix
      BY <3>1, <3>2
    <3>4. QED
      BY <1>4, <1>5, <3>3
  <2>5. SignInv'
    <3>1. call'.routine = "itoa" /\ (negative' <=> First' < 0)
      BY <1>1, <1>5, <1>13
    <3>2. position' + 1 < BufferLength => buffer'[position' + 1] # 0
      BY <1>8, <1>14, <2>4
    <3>3. FirstAbs' < Power(Radix, BufferLength - position')
      BY <1>8, <1>13, <2>3
    <3>4. QED
      BY <1>8, <1>15, <3>1, <3>2, <3>3 DEF SignInv
  <2>6. QED
    BY <1>12, <1>13, <2>1, <2>5, NoAnswerYet DEF IInv
<1>17. CASE rest # Zero
  <2>1. step' = "digits"
    BY <1>1, <1>17
  <2>2. ValueOf(rest) # 0
    BY <1>4, <1>17, ZeroValue
  <2>3. DigitsInv'
    <3>1. call'.routine = "itoa" /\ (negative' <=> First' < 0)
      BY <1>1, <1>5, <1>13
    <3>2. ValueOf(num1)' = FirstAbs' \div Power(Radix, BufferLength - position')
      BY <1>8, <1>10, <1>11, <1>13
    <3>3. position' \in 1 .. BufferLength
      BY <1>6, <1>8
    <3>4. QED
      BY <1>11, <1>15, <2>2, <3>1, <3>2, <3>3 DEF DigitsInv
  <2>4. QED
    BY <1>12, <1>13, <2>1, <2>3, NoAnswerYet DEF IInv
<1>18. QED
  BY <1>16, <1>17

LEMMA WriteSignStep ==
  ASSUME IInv, WriteSign
  PROVE  IInv'
<1>1. /\ step = "sign" /\ step' = "returned" /\ call' = call
      /\ num1' = num1 /\ num2' = num2 /\ original' = original /\ result' = result
      /\ negative' = negative /\ bp' = bp
      /\ negative => buffer' = [buffer EXCEPT ![position] = Minus] /\ position' = position - 1
      /\ ~negative => buffer' = buffer /\ position' = position
  BY DEF WriteSign, Goes, numVars, textVars
<1>2. RuntimeTypeOK /\ CallInv /\ SignInv
  BY <1>1 DEF IInv
<1>3. buffer \in [1 .. BufferLength -> 0 .. Minus] /\ negative \in BOOLEAN
  BY <1>2, Types
<1>4. /\ call.routine = "itoa" /\ (negative <=> First < 0)
      /\ position \in 1 .. BufferLength - 1 /\ BufferLength \in Nat
      /\ WrittenInv
      /\ FirstAbs < Power(Radix, BufferLength - position)
      /\ position + 1 < BufferLength => buffer[position + 1] # 0
  BY <1>2, BufferAssumption DEF SignInv
<1>5. CallInv' /\ First' = First /\ FirstAbs' = FirstAbs
  BY <1>1, <1>2, SameCall
<1>6. Minus \in 0 .. Minus
  BY RadixAssumption, Halves DEF Minus
<1>7. RuntimeTypeOK'
  <2>1. buffer' \in [1 .. BufferLength -> 0 .. Minus]
    BY <1>1, <1>3, <1>6
  <2>2. position' \in 0 .. BufferLength
    BY <1>1, <1>3, <1>4
  <2>3. QED
    BY <1>1, <1>2, <2>1, <2>2 DEF RuntimeTypeOK
\* The digits begin behind the place of the sign.
<1>8. position' + (IF First' < 0 THEN 2 ELSE 1) = position + 1
  <2>1. CASE negative
    BY <1>1, <1>4, <1>5, <2>1
  <2>2. CASE ~negative
    BY <1>1, <1>4, <1>5, <2>2
  <2>3. QED
    BY <2>1, <2>2
<1>9. \A k \in position + 1 .. BufferLength : buffer'[k] = buffer[k]
  BY <1>1, <1>3, <1>4
<1>10. First' < 0 => buffer'[position' + 1] = Minus
  <2>1. SUFFICES ASSUME First' < 0 PROVE buffer'[position' + 1] = Minus
    OBVIOUS
  <2>2. negative
    BY <1>4, <1>5, <2>1
  <2>3. position' + 1 = position
    BY <1>1, <1>4, <2>2
  <2>4. QED
    BY <1>1, <1>3, <1>4, <2>2, <2>3
<1>11. \A k \in position + 1 .. BufferLength :
         buffer'[k] = (FirstAbs' \div Power(Radix, BufferLength - k)) % Radix
  BY <1>4, <1>5, <1>9 DEF WrittenInv
<1>12. BufferLength + 1 - (position + 1) = BufferLength - position
  BY <1>4
<1>13. FirstAbs' < Power(Radix, BufferLength + 1 - (position + 1))
  BY <1>4, <1>5, <1>12
<1>14. position + 1 < BufferLength => buffer'[position + 1] # 0
  BY <1>4, <1>9
<1>15. DigitsRight'
  <2> DEFINE first == position' + (IF First' < 0 THEN 2 ELSE 1)
  <2>1. first = position + 1
    BY <1>8
  <2> HIDE DEF first
  <2>2. /\ First' < 0 => buffer'[position' + 1] = Minus
        /\ \A k \in first .. BufferLength :
             buffer'[k] = (FirstAbs' \div Power(Radix, BufferLength - k)) % Radix
        /\ FirstAbs' < Power(Radix, BufferLength + 1 - first)
        /\ first < BufferLength => buffer'[first] # 0
    BY <1>10, <1>11, <1>13, <1>14, <2>1
  <2>3. QED
    BY <2>2 DEF DigitsRight, FirstAbs, first
<1>16. QuotientsRight' /\ UnsignedRemaindersRight' /\ ProductsRight'
  BY <1>1, <1>4 DEF QuotientsRight, UnsignedRemaindersRight, ProductsRight, IsDivision
<1>17. QED
  BY <1>1, <1>5, <1>7, <1>15, <1>16 DEF IInv, AnswersRight

-----------------------------------------------------------------------------
(* The theorems *)

LEMMA NextInv ==
  ASSUME BufferSuffices
  PROVE  IInv /\ [RNext]_runtimeVars => IInv'
<1> SUFFICES ASSUME IInv, [RNext]_runtimeVars
             PROVE  IInv'
  OBVIOUS
<1>1. CASE EnterUnsigned
  BY <1>1, EnterUnsignedStep
<1>2. CASE EnterSigned
  BY <1>2, EnterSignedStep
<1>3. CASE EnterItoa
  BY <1>3, EnterItoaStep
<1>4. CASE Align
  BY <1>4, AlignStep
<1>5. CASE Aligned
  BY <1>5, AlignedStep
<1>6. CASE Divide
  BY <1>6, DivideStep
<1>7. CASE ReturnUnsigned
  BY <1>7, ReturnUnsignedStep
<1>8. CASE ReturnSigned
  BY <1>8, ReturnSignedStep
<1>9. CASE Multiply
  BY <1>9, MultiplyStep
<1>10. CASE ReturnProduct
  BY <1>10, ReturnProductStep
<1>11. CASE WriteDigit
  BY <1>11, WriteDigitStep
<1>12. CASE WriteSign
  BY <1>12, WriteSignStep
<1>13. CASE UNCHANGED runtimeVars
  <2>1. /\ step' = step /\ call' = call /\ num1' = num1 /\ num2' = num2
        /\ original' = original /\ result' = result /\ negative' = negative /\ bp' = bp
        /\ buffer' = buffer /\ position' = position
    BY <1>13 DEF runtimeVars, numVars, textVars
  <2>2. First' = First /\ Second' = Second /\ FirstAbs' = FirstAbs /\ SecondAbs' = SecondAbs
        /\ IsDivision' = IsDivision
    BY <2>1, SameCall
  <2>3. RuntimeTypeOK' /\ CallInv' /\ BegunInv' = BegunInv
    BY <2>1, SameCall DEF IInv, RuntimeTypeOK, BegunInv
  <2>4. AnswersRight'
    BY <2>1, <2>2 DEF IInv, AnswersRight, QuotientsRight, UnsignedRemaindersRight,
                      ProductsRight, DigitsRight, Returns
  <2>5. DivisionInv' = DivisionInv /\ Shifted' = Shifted /\ WrittenInv' = WrittenInv
    BY <2>1, <2>2 DEF DivisionInv, Shifted, WrittenInv
  <2>6. AlignInv' = AlignInv /\ DivideInv' = DivideInv
    BY <2>1, <2>2, <2>5 DEF AlignInv, DivideInv
  <2>7. MultiplyInv' = MultiplyInv /\ DigitsInv' = DigitsInv /\ SignInv' = SignInv
    BY <2>1, <2>2, <2>5 DEF MultiplyInv, DigitsInv, SignInv
  <2>8. QED
    BY <2>1, <2>3, <2>4, <2>6, <2>7 DEF IInv
<1>14. QED
  BY <1>1, <1>2, <1>3, <1>4, <1>5, <1>6, <1>7, <1>8, <1>9, <1>10, <1>11, <1>12, <1>13
  DEF RNext, Serve, Returned

LEMMA Invariance ==
  ASSUME CallsSuit, BufferSuffices
  PROVE  RSpec => []IInv
<1>1. RInit => IInv
  BY InitInv
<1>2. IInv /\ [RNext]_runtimeVars => IInv'
  BY NextInv
<1>3. QED
  BY <1>1, <1>2, PTL DEF RSpec

\* Words stay words through every shift, borrow and carry, and itoa never writes in
\* front of its buffer.
THEOREM RuntimeTypesOK ==
  ASSUME CallsSuit, BufferSuffices
  PROVE  RSpec => []RuntimeTypeOK
<1>1. IInv => RuntimeTypeOK
  BY DEF IInv
<1>2. QED
  BY <1>1, Invariance, PTL

\* _DivideU32 and _DivideI32: what is found in di and si is the quotient, cut towards
\* zero, for every size of a word and dividends of one word (CallsSuit).
THEOREM QuotientsAreRight ==
  ASSUME CallsSuit, BufferSuffices
  PROVE  RSpec => []QuotientsRight
<1>1. IInv => QuotientsRight
  BY DEF IInv, AnswersRight
<1>2. QED
  BY <1>1, Invariance, PTL

\* _DivideU32 leaves the remainder in ax and bx, when a word is divided by a word.
THEOREM UnsignedRemaindersAreRight ==
  ASSUME CallsSuit, BufferSuffices
  PROVE  RSpec => []UnsignedRemaindersRight
<1>1. IInv => UnsignedRemaindersRight
  BY DEF IInv, AnswersRight
<1>2. QED
  BY <1>1, Invariance, PTL

\* The loop of both divisions: what is left of the dividend, and the quotient so far at
\* the weight of its last bit, make up the dividend, which is one word.
THEOREM PartialQuotientsAreRight ==
  ASSUME CallsSuit, BufferSuffices
  PROVE  RSpec => []PartialQuotients
<1>1. IInv => PartialQuotients
  <2> SUFFICES ASSUME IInv, step = "divide", Reaches(num2, original)
               PROVE  /\ ValueOf(num1) + ValueOf(result) * (2 * ValueOf(num2)) = Abs(First)
                      /\ ValueOf(num1) < 2 * ValueOf(num2)
    BY DEF PartialQuotients
  <2>1. RuntimeTypeOK /\ CallInv /\ DivideInv
    BY DEF IInv
  <2>2. /\ ValueOf(num1) + ValueOf(result) * (2 * ValueOf(num2)) = FirstAbs
        /\ ValueOf(num1) < 2 * ValueOf(num2)
    BY <2>1, DivideFacts
  <2>3. QED
    BY <2>2 DEF FirstAbs
<1>2. QED
  BY <1>1, Invariance, PTL

\* _MultiplyI32: what is found in di and si is the product, with its sign, when it is
\* of one word and the multiplier of less than half a word.
THEOREM ProductsAreRight ==
  ASSUME CallsSuit, BufferSuffices
  PROVE  RSpec => []ProductsRight
<1>1. IInv => ProductsRight
  BY DEF IInv, AnswersRight
<1>2. QED
  BY <1>1, Invariance, PTL

\* itoa: the text is the number in the radix, with its sign and without leading zeros,
\* for the smallest number as well.
THEOREM DigitsAreRight ==
  ASSUME CallsSuit, BufferSuffices
  PROVE  RSpec => []DigitsRight
<1>1. IInv => DigitsRight
  BY DEF IInv, AnswersRight
<1>2. QED
  BY <1>1, Invariance, PTL
=============================================================================
