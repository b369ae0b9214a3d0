---------------------------- MODULE NaturalSets ----------------------------
(***************************************************************************)
(* Induction over the natural numbers, for sets of them: what holds for    *)
(* the numbers of a set holds for all of them, if the set has 0 and the    *)
(* successor of each of its members.                                       *)
(***************************************************************************)
EXTENDS Integers, WellFoundedInduction, TLAPS

\* Every set of natural numbers has a least member.
LEMMA LeastMember ==
  ASSUME NEW S \in SUBSET Nat, S # {}
  PROVE  \E m \in S : \A n \in S : m <= n
<1> DEFINE R == OpToRel(<, Nat)
<1>1. IsWellFoundedOn(R, Nat)
  BY NatLessThanWellFounded
<1>2. \E m \in S : \A n \in S : ~(<<n, m>> \in R)
  <2> HIDE DEF R
  <2>1. QED
    BY <1>1, WFMin
<1>3. \A m, n \in S : ~(<<n, m>> \in R) => m <= n
  BY DEF OpToRel
<1>4. QED
  BY <1>2, <1>3

\* The principle of induction.
LEMMA NatInductive ==
  ASSUME NEW S \in SUBSET Nat, 0 \in S, \A n \in S : n + 1 \in S
  PROVE  S = Nat
<1> SUFFICES ASSUME S # Nat PROVE FALSE
  OBVIOUS
<1> DEFINE T == Nat \ S
<1>1. T \in SUBSET Nat /\ T # {}
  OBVIOUS
<1>2. PICK m \in T : \A n \in T : m <= n
  <2> HIDE DEF T
  <2>1. QED
    BY <1>1, LeastMember
<1>3. m \in Nat /\ m # 0
  OBVIOUS
<1>4. m - 1 \in Nat /\ ~(m <= m - 1) /\ (m - 1) + 1 = m
  BY <1>3
<1>5. m - 1 \in S
  BY <1>2, <1>4
<1>6. QED
  BY <1>2, <1>4, <1>5

\* Induction up to a number, for the numbers with a value in a set.
LEMMA ValuesUpTo ==
  ASSUME NEW L \in Nat, NEW D, NEW f, f[0] \in D,
         \A n \in 1 .. L : f[n - 1] \in D => f[n] \in D
  PROVE  \A n \in 0 .. L : f[n] \in D
<1> DEFINE S == {n \in Nat : n <= L => f[n] \in D}
<1>1. 0 \in S
  OBVIOUS
<1>2. ASSUME NEW n \in S PROVE n + 1 \in S
  <2>1. n \in Nat /\ (n <= L => f[n] \in D)
    OBVIOUS
  <2>2. n + 1 \in Nat /\ (n + 1) - 1 = n
    BY <2>1
  <2>3. n + 1 <= L => f[n + 1] \in D
    BY <2>1, <2>2
  <2>4. QED
    BY <2>2, <2>3
<1>3. S = Nat
  <2>1. S \in SUBSET Nat
    OBVIOUS
  <2> HIDE DEF S
  <2>2. QED
    BY <1>1, <1>2, <2>1, NatInductive
<1>4. QED
  BY <1>3

\* f is defined by recursion over the numbers up to L, from a and by the steps g.
StepMaps(L, D) == [1 .. L -> [D -> D]]
Recursion(f, L, D, a, g) ==
  f \in [0 .. L -> D] /\ f[0] = a /\ \A n \in 1 .. L : f[n] = g[n][f[n - 1]]

\* From an element of a set, by steps that stay in it, a recursion has a solution.
LEMMA RecursionSolved ==
  ASSUME NEW L \in Nat, NEW D, NEW a \in D, NEW g \in StepMaps(L, D)
  PROVE  \E f : Recursion(f, L, D, a, g)
<1> DEFINE Solves(f, m) == f \in [0 .. m -> D] /\ f[0] = a
                            /\ \A n \in 1 .. m : f[n] = g[n][f[n - 1]]
           S == {m \in Nat : m <= L => \E f : Solves(f, m)}
<1>1. 0 \in S
  <2>1. Solves([n \in 0 .. 0 |-> a], 0)
    OBVIOUS
  <2> HIDE DEF Solves
  <2>2. QED
    BY <2>1
<1>2. ASSUME NEW m \in S PROVE m + 1 \in S
  <2>1. m \in Nat /\ m + 1 \in Nat
    OBVIOUS
  <2>2. SUFFICES ASSUME m + 1 <= L PROVE \E f : Solves(f, m + 1)
    BY <2>1
  <2>3. PICK f : Solves(f, m)
    <3> HIDE DEF Solves
    <3>1. QED
      BY <2>1, <2>2
  <2> DEFINE h == [n \in 0 .. m + 1 |-> IF n <= m THEN f[n] ELSE g[m + 1][f[m]]]
  <2>4. m + 1 \in 1 .. L /\ f[m] \in D
    BY <2>1, <2>2, <2>3
  <2>5. g[m + 1][f[m]] \in D
    <3>1. g[m + 1] \in [D -> D]
      BY <2>4 DEF StepMaps
    <3>2. QED
      BY <2>4, <3>1
  <2>6. h \in [0 .. m + 1 -> D] /\ h[0] = a
    BY <2>1, <2>3, <2>5
  <2>7. ASSUME NEW n \in 1 .. m + 1 PROVE h[n] = g[n][h[n - 1]]
    <3>1. CASE n <= m
      <4>1. n \in 1 .. m /\ n - 1 \in 0 .. m /\ n \in 0 .. m + 1 /\ n - 1 \in 0 .. m + 1
        BY <2>1, <3>1
      <4>2. h[n] = f[n] /\ h[n - 1] = f[n - 1]
        BY <3>1, <4>1
      <4>3. QED
        BY <2>3, <4>1, <4>2
    <3>2. CASE n = m + 1
      <4>1. h[n - 1] = f[m] /\ h[n] = g[m + 1][f[m]]
        BY <2>1, <3>2
      <4>2. QED
        BY <3>2, <4>1
    <3>3. QED
      BY <2>1, <3>1, <3>2
  <2>8. Solves(h, m + 1)
    BY <2>6, <2>7
  <2> HIDE DEF Solves, h
  <2>9. QED
    BY <2>8
<1>3. S = Nat
  <2>1. S \in SUBSET Nat
    OBVIOUS
  <2> HIDE DEF S
  <2>2. QED
    BY <1>1, <1>2, <2>1, NatInductive
<1>4. PICK f : Solves(f, L)
  <2> HIDE DEF Solves, S
  <2>1. L \in S /\ L <= L
    BY <1>3
  <2>2. QED
    BY <2>1, Zenon DEF S
<1>5. QED
  BY <1>4 DEF Recursion

\* Numbers that never descend are at most the last of them.
LEMMA NeverDescends ==
  ASSUME NEW L \in Nat, NEW f, \A n \in 0 .. L : f[n] \in Nat,
         \A n \in 1 .. L : f[n - 1] <= f[n]
  PROVE  \A n \in 0 .. L : f[n] <= f[L]
<1> DEFINE S == {m \in Nat : m <= L => \A n \in 0 .. m : f[n] <= f[m]}
<1>1. 0 \in S
  OBVIOUS
<1>2. ASSUME NEW m \in S PROVE m + 1 \in S
  <2>1. m \in Nat /\ m + 1 \in Nat /\ (m + 1) - 1 = m
    OBVIOUS
  <2>2. SUFFICES ASSUME m + 1 <= L PROVE \A n \in 0 .. m + 1 : f[n] <= f[m + 1]
    BY <2>1
  <2>3. \A n \in 0 .. m : f[n] <= f[m]
    BY <2>1, <2>2
  <2>4. f[m] <= f[m + 1] /\ m \in 0 .. L /\ m + 1 \in 0 .. L
    <3>1. m + 1 \in 1 .. L
      BY <2>1, <2>2
    <3>2. QED
      BY <2>1, <2>2, <3>1
  <2>5. ASSUME NEW n \in 0 .. m + 1 PROVE f[n] <= f[m + 1]
    <3>1. n \in 0 .. L /\ f[n] \in Nat /\ f[m] \in Nat /\ f[m + 1] \in Nat
      BY <2>1, <2>2, <2>4
    <3>2. CASE n = m + 1
      BY <3>1, <3>2
    <3>3. CASE n # m + 1
      <4>1. n \in 0 .. m
        BY <2>1, <3>3
      <4>2. QED
        BY <2>3, <2>4, <3>1, <4>1
    <3>4. QED
      BY <3>2, <3>3
  <2>6. QED
    BY <2>5
<1>3. S = Nat
  <2>1. S \in SUBSET Nat
    OBVIOUS
  <2> HIDE DEF S
  <2>2. QED
    BY <1>1, <1>2, <2>1, NatInductive
<1>4. QED
  BY <1>3

\* One of finitely many numbers, or 0, is the greatest.
LEMMA GreatestValue ==
  ASSUME NEW L \in Nat, NEW f, \A n \in 1 .. L : f[n] \in Nat
  PROVE  \E x \in {0} \cup {f[n] : n \in 1 .. L} :
           \A y \in {0} \cup {f[n] : n \in 1 .. L} : x >= y
<1> DEFINE Values(m) == {0} \cup {f[n] : n \in 1 .. m}
           Greatest(x, m) == x \in Values(m) /\ \A y \in Values(m) : x >= y
           S == {m \in Nat : m <= L => \E x : Greatest(x, m)}
<1>1. 0 \in S
  <2>1. Greatest(0, 0)
    OBVIOUS
  <2> HIDE DEF Greatest
  <2>2. QED
    BY <2>1
<1>2. ASSUME NEW m \in S PROVE m + 1 \in S
  <2>1. m \in Nat /\ m + 1 \in Nat
    OBVIOUS
  <2>2. SUFFICES ASSUME m + 1 <= L PROVE \E x : Greatest(x, m + 1)
    BY <2>1
  <2>3. PICK x : Greatest(x, m)
    <3> HIDE DEF Greatest
    <3>1. QED
      BY <2>1, <2>2
  <2>4. Values(m + 1) = Values(m) \cup {f[m + 1]}
    <3>1. 1 .. m + 1 = (1 .. m) \cup {m + 1}
      BY <2>1
    <3>2. QED
      BY <3>1
  <2>5. Values(m + 1) \subseteq Nat
    BY <2>1, <2>2
  <2>6. x \in Values(m) /\ \A y \in Values(m) : x >= y
    BY <2>3
  <2> HIDE DEF Values
  <2>7. CASE x >= f[m + 1]
    <3>1. Greatest(x, m + 1)
      BY <2>4, <2>6, <2>7
    <3> HIDE DEF Greatest
    <3>2. QED
      BY <3>1
  <2>8. CASE ~(x >= f[m + 1])
    <3>1. x \in Nat /\ f[m + 1] \in Nat /\ Values(m) \subseteq Nat
      BY <2>4, <2>5, <2>6
    <3>2. Greatest(f[m + 1], m + 1)
      BY <2>4, <2>6, <2>8, <3>1
    <3> HIDE DEF Greatest
    <3>3. QED
      BY <3>2
  <2>9. QED
    BY <2>7, <2>8
<1>3. S = Nat
  <2>1. S \in SUBSET Nat
    OBVIOUS
  <2> HIDE DEF S
  <2>2. QED
    BY <1>1, <1>2, <2>1, NatInductive
<1>4. PICK x : Greatest(x, L)
  <2> HIDE DEF Greatest, S
  <2>1. L \in S /\ L <= L
    BY <1>3
  <2>2. QED
    BY <2>1, Zenon DEF S
<1>5. QED
  BY <1>4
=============================================================================
