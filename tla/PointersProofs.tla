--------------------------- MODULE PointersProofs ---------------------------
(***************************************************************************)
(* Machine-checked proofs about Pointers, for every program whose types    *)
(* the sizes are right for (ProgramSuits): the five computations of the    *)
(* size of a type agree, objects do not overlap, every pointer is what the *)
(* program means by it, and what is stored arrives there and nowhere else. *)
(***************************************************************************)
EXTENDS Pointers, NaturalSets

-----------------------------------------------------------------------------
(* Sums of sizes *)

\* What Sums computes: a sum is the one before it and the next size.
LEMMA SumsDefined ==
  ASSUME NEW sizes \in Seq(Nat)
  PROVE  /\ Sums(sizes)[0] = 0
         /\ \A n \in 1 .. Len(sizes) :
              /\ n - 1 \in 0 .. Len(sizes)
              /\ Sums(sizes)[n] = Sums(sizes)[n - 1] + sizes[n]
         /\ \A n \in 0 .. Len(sizes) : Sums(sizes)[n] \in Nat
<1> DEFINE L == Len(sizes)
           Is(f) == f = [n \in 0 .. L |-> IF n = 0 THEN 0 ELSE f[n - 1] + sizes[n]]
           g == [n \in 1 .. L |-> [x \in Nat |-> x + sizes[n]]]
<1>1. L \in Nat /\ 0 \in Nat /\ \A n \in 1 .. L : sizes[n] \in Nat /\ n - 1 \in 0 .. L
  OBVIOUS
<1>2. g \in StepMaps(L, Nat)
  <2> HIDE DEF L
  <2>1. QED
    BY <1>1 DEF StepMaps
<1>3. PICK f : Recursion(f, L, Nat, 0, g)
  <2> HIDE DEF L, g
  <2>1. QED
    BY <1>1, <1>2, RecursionSolved
<1>4. Is(f)
  <2> HIDE DEF L
  <2>1. ASSUME NEW n \in 1 .. L PROVE f[n] = f[n - 1] + sizes[n]
    BY <1>1, <1>3 DEF Recursion
  <2> HIDE DEF g
  <2>2. f = [n \in 0 .. L |-> f[n]] /\ f[0] = 0 /\ \A n \in 0 .. L : n = 0 \/ n \in 1 .. L
    BY <1>1, <1>3 DEF Recursion
  <2>3. QED
    BY <2>1, <2>2
<1>5. Is(Sums(sizes))
  <2>1. Sums(sizes) = CHOOSE h : Is(h)
    BY DEF Sums
  <2> HIDE DEF Is
  <2>2. QED
    BY <1>4, <2>1
<1> DEFINE sum == Sums(sizes)
<1> HIDE DEF L, sum
<1>6. sum = [n \in 0 .. L |-> IF n = 0 THEN 0 ELSE sum[n - 1] + sizes[n]]
  BY <1>5 DEF sum
<1>7. sum[0] = 0 /\ \A n \in 1 .. L : sum[n] = sum[n - 1] + sizes[n]
  <2>1. 0 \in 0 .. L /\ \A n \in 1 .. L : n \in 0 .. L /\ n # 0
    BY <1>1
  <2>2. QED
    BY <1>6, <2>1
<1>8. \A n \in 0 .. L : sum[n] \in Nat
  <2>1. sum[0] \in Nat /\ \A n \in 1 .. L : sum[n - 1] \in Nat => sum[n] \in Nat
    BY <1>1, <1>7
  <2>2. QED
    BY <1>1, <2>1, ValuesUpTo
<1>9. QED
  BY <1>1, <1>7, <1>8 DEF sum, L

\* A longer sum is no smaller.
LEMMA SumsAscend ==
  ASSUME NEW sizes \in Seq(Nat), NEW m \in 0 .. Len(sizes), NEW n \in 0 .. Len(sizes), m <= n
  PROVE  Sums(sizes)[m] <= Sums(sizes)[n]
<1> DEFINE L == Len(sizes)
           sum == Sums(sizes)
           f == [k \in 0 .. L |-> IF k <= n THEN sum[k] ELSE sum[n]]
<1>1. L \in Nat /\ \A k \in 1 .. L : sizes[k] \in Nat
  OBVIOUS
<1>2. /\ \A k \in 0 .. L : sum[k] \in Nat
      /\ \A k \in 1 .. L : k - 1 \in 0 .. L /\ sum[k] = sum[k - 1] + sizes[k]
  BY SumsDefined
<1> HIDE DEF L, sum
<1>3. \A k \in 0 .. L : f[k] \in Nat
  BY <1>2 DEF L
<1>4. \A k \in 1 .. L : f[k - 1] <= f[k]
  <2> SUFFICES ASSUME NEW k \in 1 .. L PROVE f[k - 1] <= f[k]
    OBVIOUS
  <2>1. k - 1 \in 0 .. L /\ k \in 0 .. L /\ n \in Nat
    BY <1>1, <1>2 DEF L
  <2>2. CASE k <= n
    <3>1. f[k - 1] = sum[k - 1] /\ f[k] = sum[k]
      BY <2>1, <2>2
    <3>2. sum[k] = sum[k - 1] + sizes[k] /\ sum[k - 1] \in Nat /\ sizes[k] \in Nat
      BY <1>1, <1>2, <2>1
    <3> HIDE DEF f
    <3>3. QED
      BY <3>1, <3>2
  <2>3. CASE ~(k <= n)
    <3>1. f[k] = sum[n] /\ f[k - 1] = sum[n] /\ sum[n] \in Nat
      <4>1. k - 1 <= n => k - 1 = n
        BY <2>1, <2>3
      <4>2. QED
        BY <1>2, <2>1, <2>3, <4>1 DEF L
    <3> HIDE DEF f
    <3>2. QED
      BY <3>1
  <2>4. QED
    BY <2>2, <2>3
<1>5. \A k \in 0 .. L : f[k] <= f[L]
  <2> HIDE DEF f
  <2>1. QED
    BY <1>1, <1>3, <1>4, NeverDescends
<1>6. f[m] = sum[m] /\ f[L] = sum[n]
  BY <1>1 DEF L
<1>7. QED
  BY <1>5, <1>6 DEF L, sum
-----------------------------------------------------------------------------
(* The sizes of types *)

\* What a type of one of the three shapes consists of.
LEMMA Shapes ==
  ASSUME ProgramSuits
  PROVE  /\ \A t \in Scalars : /\ t \in Types /\ IsScalar(t)
                               /\ t.bits \in {8, 16, 32} /\ t.bits \div 8 \in {1, 2, 4}
                               /\ t.kind = "ptr" => t = Ptr
         /\ \A t \in Types : \/ t \in Scalars
                             \/ t.kind = "array" /\ t.n \in Nat /\ t.of \in Scalars
                             \/ t.kind = "struct" /\ t.fields \in Seq(Scalars)
<1>1. ASSUME NEW t \in Scalars
      PROVE  /\ t \in Types /\ IsScalar(t)
             /\ t.bits \in {8, 16, 32} /\ t.bits \div 8 \in {1, 2, 4}
             /\ t.kind = "ptr" => t = Ptr
  <2>1. t \in Types
    BY DEF ProgramSuits
  <2>2. t \in {Int8, Int16, Int32, Ptr}
    BY DEF Scalars
  <2>3. QED
    BY <2>1, <2>2 DEF Int8, Int16, Int32, Ptr, IsScalar
<1>2. QED
  BY <1>1 DEF ProgramSuits, Flat

\* IrSize is the function its recursive definition describes.
LEMMA IrSizesDefined ==
  ASSUME ProgramSuits
  PROVE  /\ IrSize = [t \in Types |-> IrSize[t]]
         /\ \A t \in Scalars : IrSize[t] = t.bits \div 8
         /\ \A t \in Types : t.kind = "array" => IrSize[t] = t.n * IrSize[t.of]
         /\ \A t \in Types : t.kind = "struct" => IrSize[t] = Total(IrSizes(t.fields))
<1> DEFINE Step(f, t) == CASE t.kind = "array"  -> t.n * f[t.of]
                           [] t.kind = "struct" -> Total([k \in DOMAIN t.fields |-> f[t.fields[k]]])
                           [] OTHER             -> t.bits \div 8
           Is(f) == f = [t \in Types |-> Step(f, t)]
           g == [t \in Types |->
                   CASE t.kind = "array"  -> t.n * (t.of.bits \div 8)
                     [] t.kind = "struct" -> Total([k \in DOMAIN t.fields |-> t.fields[k].bits \div 8])
                     [] OTHER             -> t.bits \div 8]
<1>1. \A t \in Scalars : t \in Types /\ t.kind # "array" /\ t.kind # "struct"
  BY Shapes DEF IsScalar
<1>2. \A t \in Types : /\ t.kind = "array" => t.of \in Scalars
                       /\ t.kind = "struct" => t.fields \in Seq(Scalars)
  BY Shapes, <1>1
<1>3. \A t \in Scalars : g[t] = t.bits \div 8
  BY <1>1
<1>4. ASSUME NEW t \in Types PROVE g[t] = Step(g, t)
  <2>1. CASE t.kind = "array"
    <3>1. g[t] = t.n * (t.of.bits \div 8)
      BY <2>1
    <3>2. Step(g, t) = t.n * g[t.of]
      BY <2>1
    <3> HIDE DEF g, Step
    <3>3. QED
      BY <1>2, <1>3, <2>1, <3>1, <3>2
  <2>2. CASE t.kind = "struct"
    <3>1. g[t] = Total([k \in DOMAIN t.fields |-> t.fields[k].bits \div 8])
      BY <2>2
    <3>2. Step(g, t) = Total([k \in DOMAIN t.fields |-> g[t.fields[k]]])
      BY <2>2
    <3> HIDE DEF g, Step
    <3>3. \A k \in DOMAIN t.fields : t.fields[k] \in Scalars
      BY <1>2, <2>2
    <3>4. [k \in DOMAIN t.fields |-> g[t.fields[k]]]
            = [k \in DOMAIN t.fields |-> t.fields[k].bits \div 8]
      BY <1>3, <3>3
    <3>5. QED
      BY <3>1, <3>2, <3>4
  <2>3. CASE t.kind # "array" /\ t.kind # "struct"
    BY <2>3
  <2>4. QED
    BY <2>1, <2>2, <2>3
<1>5. Is(g)
  <2>1. g = [t \in Types |-> g[t]]
    OBVIOUS
  <2> HIDE DEF g, Step
  <2>2. QED
    BY <1>4, <2>1
<1>6. Is(IrSize)
  <2>1. IrSize = CHOOSE f : Is(f)
    BY DEF IrSize
  <2> HIDE DEF Is
  <2>2. QED
    BY <1>5, <2>1
<1>7. \A t \in Types : IrSize[t] = Step(IrSize, t)
  <2> HIDE DEF Step
  <2>1. QED
    BY <1>6
<1>8. IrSize = [t \in Types |-> IrSize[t]]
  <2> HIDE DEF Step
  <2>1. QED
    BY <1>6
<1> HIDE DEF Is
<1>9. QED
  BY <1>1, <1>7, <1>8 DEF IrSizes

\* The sizes of scalars are one, two and four bytes.
LEMMA ScalarSizes ==
  ASSUME ProgramSuits, NEW t \in Scalars
  PROVE  IrSize[t] \in {1, 2, 4} /\ IrSize[t] = t.bits \div 8 /\ IrSize[t] \in Nat
  BY Shapes, IrSizesDefined

\* The sizes of the fields of a structure.
LEMMA FieldSizes ==
  ASSUME ProgramSuits, NEW fields \in Seq(Scalars)
  PROVE  /\ IrSizes(fields) \in Seq(Nat) /\ Len(IrSizes(fields)) = Len(fields)
         /\ \A k \in 1 .. Len(fields) :
              fields[k] \in Scalars /\ IrSizes(fields)[k] = IrSize[fields[k]]
<1>1. DOMAIN fields = 1 .. Len(fields) /\ Len(fields) \in Nat
  OBVIOUS
<1>2. \A k \in 1 .. Len(fields) : fields[k] \in Scalars /\ IrSize[fields[k]] \in Nat
  BY ScalarSizes
<1>3. QED
  BY <1>1, <1>2 DEF IrSizes

\* Every type has a size.
LEMMA SizesAreNatural ==
  ASSUME ProgramSuits, NEW t \in Types
  PROVE  IrSize[t] \in Nat
<1>1. CASE t \in Scalars
  BY <1>1, ScalarSizes
<1>2. CASE t.kind = "array" /\ t.n \in Nat /\ t.of \in Scalars
  <2>1. IrSize[t] = t.n * IrSize[t.of] /\ IrSize[t.of] \in Nat
    BY <1>2, IrSizesDefined, ScalarSizes
  <2>2. QED
    BY <1>2, <2>1
<1>3. CASE t.kind = "struct" /\ t.fields \in Seq(Scalars)
  <2>1. IrSize[t] = Total(IrSizes(t.fields))
    BY <1>3, IrSizesDefined
  <2>2. IrSizes(t.fields) \in Seq(Nat)
    BY <1>3, FieldSizes
  <2>3. Len(IrSizes(t.fields)) \in 0 .. Len(IrSizes(t.fields))
    BY <2>2
  <2>4. QED
    BY <2>1, <2>2, <2>3, SumsDefined DEF Total
<1>4. QED
  BY <1>1, <1>2, <1>3, Shapes
\* typeSizeBytes: the size the constant expressions reckon with is the real one.
LEMMA TypeSizeBytesAgrees ==
  ASSUME ProgramSuits
  PROVE  \A t \in Types : TypeSizeBytes[t] = IrSize[t]
<1> DEFINE Step(f, t) ==
             CASE t.kind = "int"    -> t.bits \div 8
               [] t.kind = "ptr"    -> PointerBytes
               [] t.kind = "array"  -> t.n * f[t.of]
               [] OTHER             -> Total([k \in DOMAIN t.fields |-> f[t.fields[k]]])
           Is(f) == f = [t \in Types |-> Step(f, t)]
<1>1. \A t \in Scalars : /\ t \in Types /\ t.kind \in {"int", "ptr"}
                         /\ t.kind = "ptr" => t.bits \div 8 = 4
  BY Shapes DEF IsScalar, Ptr
<1>2. \A t \in Types : \/ t \in Scalars
                       \/ t.kind = "array" /\ t.n \in Nat /\ t.of \in Scalars
                       \/ t.kind = "struct" /\ t.fields \in Seq(Scalars)
  BY Shapes
<1>3. ASSUME NEW f, \A t \in Scalars : f[t] = IrSize[t], NEW t \in Types
      PROVE  Step(f, t) = IrSize[t]
  <2>1. CASE t \in Scalars
    <3>1. IrSize[t] = t.bits \div 8
      BY <2>1, IrSizesDefined
    <3>2. QED
      BY <1>1, <2>1, <3>1 DEF PointerBytes
  <2>2. CASE t.kind = "array" /\ t.n \in Nat /\ t.of \in Scalars
    <3>1. IrSize[t] = t.n * IrSize[t.of] /\ f[t.of] = IrSize[t.of]
      BY <1>3, <2>2, IrSizesDefined
    <3>2. QED
      BY <2>2, <3>1
  <2>3. CASE t.kind = "struct" /\ t.fields \in Seq(Scalars)
    <3>1. IrSize[t] = Total(IrSizes(t.fields))
      BY <2>3, IrSizesDefined
    <3>2. [k \in DOMAIN t.fields |-> f[t.fields[k]]] = IrSizes(t.fields)
      BY <1>3, <2>3 DEF IrSizes
    <3>3. Step(f, t) = Total([k \in DOMAIN t.fields |-> f[t.fields[k]]])
      BY <2>3
    <3> HIDE DEF Step
    <3>4. QED
      BY <3>1, <3>2, <3>3
  <2>4. QED
    BY <1>2, <2>1, <2>2, <2>3
<1>4. Is(IrSize)
  <2>1. \A t \in Types : Step(IrSize, t) = IrSize[t]
    BY <1>3
  <2>2. IrSize = [t \in Types |-> IrSize[t]]
    BY IrSizesDefined
  <2> HIDE DEF Step
  <2>3. QED
    BY <2>1, <2>2
<1>5. Is(TypeSizeBytes)
  <2>1. TypeSizeBytes = CHOOSE f : Is(f)
    BY DEF TypeSizeBytes
  <2> HIDE DEF Is
  <2>2. QED
    BY <1>4, <2>1
<1>6. \A t \in Types : TypeSizeBytes[t] = Step(TypeSizeBytes, t)
  <2> HIDE DEF Step
  <2>1. QED
    BY <1>5
<1>7. \A t \in Scalars : TypeSizeBytes[t] = IrSize[t]
  <2> SUFFICES ASSUME NEW t \in Scalars PROVE TypeSizeBytes[t] = IrSize[t]
    OBVIOUS
  <2>1. TypeSizeBytes[t] = Step(TypeSizeBytes, t)
    BY <1>1, <1>6
  <2>2. Step(TypeSizeBytes, t) = IF t.kind = "int" THEN t.bits \div 8 ELSE 4
    BY <1>1 DEF PointerBytes
  <2> HIDE DEF Step
  <2>3. IrSize[t] = t.bits \div 8
    BY IrSizesDefined
  <2>4. QED
    BY <1>1, <2>1, <2>2, <2>3
<1> HIDE DEF Step, Is
<1>8. QED
  BY <1>3, <1>6, <1>7

\* The size a global without a value gets holds it, unless it is a structure.
LEMMA GlobalBytesSuffice ==
  ASSUME ProgramSuits, NEW t \in Types
  PROVE  GlobalBytes(t) \in Nat /\ (t.kind # "struct" => IrSize[t] <= GlobalBytes(t))
<1>1. CASE t \in Scalars
  <2> DEFINE size == t.bits \div 8
  <2>1. /\ IrSize[t] = size /\ size \in {1, 2, 4} /\ t.kind \in {"int", "ptr"}
        /\ t.kind = "ptr" => size = 4
    BY <1>1, Shapes, ScalarSizes DEF IsScalar, Ptr
  <2>2. GlobalBytes(t) = IF t.kind = "int" THEN Max({size, 2}) ELSE 4
    BY <2>1 DEF GlobalBytes
  <2> HIDE DEF size
  <2>3. Max({size, 2}) \in {size, 2} /\ Max({size, 2}) >= size
    BY <2>1 DEF Max
  <2>4. QED
    BY <2>1, <2>2, <2>3
<1>2. CASE t.kind = "array" /\ t.n \in Nat /\ t.of \in Scalars
  <2>1. IrSize[t] = t.n * IrSize[t.of] /\ IrSize[t.of] = t.of.bits \div 8 /\ IrSize[t.of] \in Nat
    BY <1>2, IrSizesDefined, ScalarSizes
  <2>2. t.of.kind # "int" => t.of.bits \div 8 = 4
    BY <1>2, Shapes DEF IsScalar, Ptr
  <2>3. GlobalBytes(t) = t.n * IrSize[t.of]
    BY <1>2, <2>1, <2>2 DEF GlobalBytes
  <2>4. QED
    BY <1>2, <2>1, <2>3
<1>3. CASE t.kind = "struct" /\ t.fields \in Seq(Scalars)
  BY <1>3 DEF GlobalBytes
<1>4. QED
  BY <1>1, <1>2, <1>3, Shapes

\* The size of an alloca holds a scalar and an array of integers.
LEMMA AllocaBytesSuffice ==
  ASSUME ProgramSuits, NEW t \in Types, OnStack(t)
  PROVE  AllocaBytes(t) \in Nat /\ IrSize[t] <= AllocaBytes(t)
<1>1. CASE t \in Scalars
  <2> DEFINE size == t.bits \div 8
  <2>1. /\ IrSize[t] = size /\ size \in {1, 2, 4} /\ t.kind \in {"int", "ptr"}
        /\ t.kind = "ptr" => size = 4
    BY <1>1, Shapes, ScalarSizes DEF IsScalar, Ptr
  <2>2. AllocaBytes(t) = IF t.kind = "int" THEN Max({size, 2}) ELSE 4
    BY <2>1 DEF AllocaBytes
  <2> HIDE DEF size
  <2>3. Max({size, 2}) \in {size, 2} /\ Max({size, 2}) >= size
    BY <2>1 DEF Max
  <2>4. QED
    BY <2>1, <2>2, <2>3
<1>2. CASE t \notin Scalars
  <2>1. t.kind = "array" /\ t.of.kind = "int" /\ t.n \in Nat /\ t.of \in Scalars
    BY <1>2, Shapes DEF OnStack
  <2>2. IrSize[t] = t.n * IrSize[t.of] /\ IrSize[t.of] = t.of.bits \div 8
    BY <2>1, IrSizesDefined, ScalarSizes
  <2>3. t.of.bits \in {8, 16, 32}
    BY <2>1, Shapes
  <2> DEFINE bits == t.n * t.of.bits
  <2>4. bits \in Nat /\ bits \div 8 = IrSize[t]
    BY <2>1, <2>2, <2>3
  <2>5. AllocaBytes(t) = Max({bits, 16}) \div 8
    BY <2>1 DEF AllocaBytes
  <2> HIDE DEF bits
  <2>6. Max({bits, 16}) \in {bits, 16} /\ Max({bits, 16}) >= bits
    BY <2>4 DEF Max
  <2>7. \A m \in {bits, 16} : m >= bits => m \div 8 \in Nat /\ m \div 8 >= bits \div 8
    BY <2>4
  <2>8. QED
    BY <2>4, <2>5, <2>6, <2>7
<1>3. QED
  BY <1>1, <1>2

\* elemSize is the real size of what the indices count.
LEMMA ElemSizeAgrees ==
  ASSUME ProgramSuits, NEW t \in Types, t.kind # "struct"
  PROVE  /\ t.kind = "array" => ElemSize(t) = IrSize[t.of]
         /\ t.kind # "array" => ElemSize(t) = IrSize[t]
<1>1. \A u \in Scalars : IrSize[u] = IF u.kind = "int" THEN u.bits \div 8 ELSE IF u.kind = "ptr" THEN 4 ELSE 1
  <2> SUFFICES ASSUME NEW u \in Scalars
               PROVE  IrSize[u] = IF u.kind = "int" THEN u.bits \div 8 ELSE IF u.kind = "ptr" THEN 4 ELSE 1
    OBVIOUS
  <2>1. IrSize[u] = u.bits \div 8 /\ u \in {Int8, Int16, Int32, Ptr}
    BY ScalarSizes DEF Scalars
  <2>2. QED
    BY <2>1 DEF Int8, Int16, Int32, Ptr
<1>2. CASE t.kind = "array"
  <2>1. t.of \in Scalars
    BY <1>2, Shapes DEF IsScalar
  <2>2. QED
    BY <1>1, <1>2, <2>1 DEF ElemSize
<1>3. CASE t.kind # "array"
  <2>1. t \in Scalars
    BY <1>3, Shapes
  <2>2. QED
    BY <1>1, <1>3, <2>1 DEF ElemSize
<1>4. QED
  BY <1>2, <1>3

\* The shift of a variable index multiplies by the size of a scalar.
LEMMA ShiftsAgree ==
  ASSUME NEW size \in {1, 2, 4}
  PROVE  ShiftedBy(size) = size
  BY DEF ShiftedBy, Max

\* computeGEPByteOffset agrees with the meaning of the constant expression.
LEMMA ConstOffsetAgrees ==
  ASSUME ProgramSuits, NEW t \in Types, ~IsScalar(t), NEW i \in Nat,
         t.kind = "struct" => i < Len(t.fields)
  PROVE  ConstOffset(t, <<0, i>>) = IrOffset(t, <<0, i>>) /\ IrOffset(t, <<0, i>>) = IrStep(t, i)
<1>1. TypeSizeBytes[t] = IrSize[t] /\ IrSize[t] \in Nat /\ t \notin Scalars
  BY TypeSizeBytesAgrees, SizesAreNatural, Shapes
<1>2. CASE t.kind = "array" /\ t.n \in Nat /\ t.of \in Scalars
  <2>1. TypeSizeBytes[t.of] = IrSize[t.of] /\ IrSize[t.of] \in Nat /\ IsScalar(t.of)
    BY <1>2, Shapes, ScalarSizes, TypeSizeBytesAgrees
  <2>2. QED
    BY <1>1, <1>2, <2>1 DEF ConstOffset, IrOffset, IrStep, Known, SourceSize
<1>3. CASE t.kind = "struct" /\ t.fields \in Seq(Scalars)
  <2>1. [f \in DOMAIN t.fields |-> TypeSizeBytes[t.fields[f]]] = IrSizes(t.fields)
    <3>1. \A f \in DOMAIN t.fields : t.fields[f] \in Types
      BY <1>3, Shapes
    <3>2. QED
      BY <3>1, TypeSizeBytesAgrees DEF IrSizes
  <2>2. FieldOffset(t, i) = Sums(IrSizes(t.fields))[i]
    BY <2>1 DEF FieldOffset
  <2>3. SourceSize(t) = IrSize[t] /\ Known(t)
    BY <1>1, <1>3 DEF SourceSize, Known
  <2>4. ConstOffset(t, <<0, i>>) = 0 * IrSize[t] + Sums(IrSizes(t.fields))[i]
    BY <1>3, <2>2, <2>3 DEF ConstOffset
  <2>5. IrOffset(t, <<0, i>>) = 0 * IrSize[t] + Sums(IrSizes(t.fields))[i]
    BY <1>3 DEF IrOffset, IrStep
  <2>6. Sums(IrSizes(t.fields))[i] \in Nat
    BY <1>3, FieldSizes, SumsDefined
  <2>7. QED
    BY <1>1, <1>3, <2>4, <2>5, <2>6 DEF IrStep
<1>4. QED
  BY <1>1, <1>2, <1>3, Shapes

-----------------------------------------------------------------------------
(* The layout of the objects *)

\* At this offset, an object of the type has an element of this type: itself, an
\* element of the array or a field of the structure.
ElementAt(t, off, elem) ==
  \/ off = 0 /\ elem = t
  \/ t.kind = "array" /\ elem = t.of /\ \E k \in 0 .. t.n - 1 : off = k * IrSize[t.of]
  \/ t.kind = "struct" /\ \E f \in 1 .. Len(t.fields) :
       elem = t.fields[f] /\ off = Sums(IrSizes(t.fields))[f - 1]

\* An element is within the object, and a part of an object is a scalar.
LEMMA ElementsFit ==
  ASSUME ProgramSuits, NEW t \in Types, NEW off, NEW elem, ElementAt(t, off, elem)
  PROVE  /\ off \in Nat /\ elem \in Types /\ IrSize[elem] \in Nat /\ IrSize[t] \in Nat
         /\ off + IrSize[elem] <= IrSize[t]
         /\ elem # t => elem \in Scalars
<1>1. IrSize[t] \in Nat
  BY SizesAreNatural
<1>2. CASE off = 0 /\ elem = t
  BY <1>1, <1>2
<1>3. CASE t.kind = "array" /\ elem = t.of /\ \E k \in 0 .. t.n - 1 : off = k * IrSize[t.of]
  <2>1. PICK k \in 0 .. t.n - 1 : off = k * IrSize[t.of]
    BY <1>3
  <2>2. t.n \in Nat /\ elem \in Scalars /\ elem \in Types
    BY <1>3, Shapes DEF IsScalar
  <2>3. IrSize[elem] \in {1, 2, 4} /\ IrSize[t] = t.n * IrSize[elem]
    BY <1>3, <2>2, ScalarSizes, IrSizesDefined
  <2> DEFINE size == IrSize[elem]
             n == t.n
  <2>4. off = k * size /\ size \in {1, 2, 4} /\ n \in Nat /\ k \in 0 .. n - 1
    BY <1>3, <2>1, <2>2, <2>3
  <2> HIDE DEF size, n
  <2>5. off \in Nat /\ off + size <= n * size
    BY <2>4
  <2>6. QED
    BY <1>1, <2>2, <2>3, <2>4, <2>5 DEF size, n
<1>4. CASE t.kind = "struct" /\ \E f \in 1 .. Len(t.fields) :
             elem = t.fields[f] /\ off = Sums(IrSizes(t.fields))[f - 1]
  <2>1. PICK f \in 1 .. Len(t.fields) : elem = t.fields[f] /\ off = Sums(IrSizes(t.fields))[f - 1]
    BY <1>4
  <2> DEFINE sizes == IrSizes(t.fields)
  <2>2. t.fields \in Seq(Scalars)
    BY <1>4, Shapes DEF IsScalar
  <2>3. /\ sizes \in Seq(Nat) /\ Len(sizes) = Len(t.fields)
        /\ elem \in Scalars /\ sizes[f] = IrSize[elem]
    BY <2>1, <2>2, FieldSizes
  <2>4. IrSize[t] = Sums(sizes)[Len(sizes)] /\ elem \in Types /\ IrSize[elem] \in Nat
    BY <1>4, <2>3, Shapes, IrSizesDefined, ScalarSizes DEF Total
  <2> HIDE DEF sizes
  <2>5. /\ off \in Nat /\ Sums(sizes)[f] = off + IrSize[elem]
        /\ f \in 0 .. Len(sizes) /\ Len(sizes) \in 0 .. Len(sizes) /\ f <= Len(sizes)
    BY <2>1, <2>3, SumsDefined DEF sizes
  <2>6. Sums(sizes)[f] <= Sums(sizes)[Len(sizes)]
    BY <2>3, <2>5, SumsAscend
  <2>7. QED
    BY <1>1, <2>3, <2>4, <2>5, <2>6
<1>5. QED
  BY <1>2, <1>3, <1>4 DEF ElementAt

\* Two scalar elements of an object are the same one or do not overlap.
LEMMA ElementsApart ==
  ASSUME ProgramSuits, NEW t \in Types, NEW off1, NEW elem1, NEW off2, NEW elem2,
         ElementAt(t, off1, elem1), ElementAt(t, off2, elem2),
         IsScalar(elem1), IsScalar(elem2)
  PROVE  \/ off1 = off2 /\ elem1 = elem2
         \/ off1 + IrSize[elem1] <= off2
         \/ off2 + IrSize[elem2] <= off1
<1>1. CASE t \in Scalars
  BY <1>1, Shapes DEF ElementAt, IsScalar
<1>2. CASE t.kind = "array" /\ t.n \in Nat /\ t.of \in Scalars
  <2> DEFINE size == IrSize[t.of]
  <2>1. size \in {1, 2, 4}
    BY <1>2, ScalarSizes
  <2>2. /\ elem1 = t.of /\ elem2 = t.of
        /\ (\E k \in 0 .. t.n - 1 : off1 = k * size) /\ \E k \in 0 .. t.n - 1 : off2 = k * size
    BY <1>2 DEF ElementAt, IsScalar
  <2>3. PICK k \in 0 .. t.n - 1, m \in 0 .. t.n - 1 : off1 = k * size /\ off2 = m * size
    BY <2>2
  <2>4. k \in Nat /\ m \in Nat
    BY <1>2, <2>3
  <2> HIDE DEF size
  <2>5. k = m \/ k + 1 <= m \/ m + 1 <= k
    BY <2>4
  <2>6. off1 = off2 \/ off1 + size <= off2 \/ off2 + size <= off1
    BY <2>1, <2>3, <2>4, <2>5
  <2>7. QED
    BY <2>2, <2>6 DEF size
<1>3. CASE t.kind = "struct" /\ t.fields \in Seq(Scalars)
  <2> DEFINE sizes == IrSizes(t.fields)
  <2>1. /\ \E f \in 1 .. Len(t.fields) : elem1 = t.fields[f] /\ off1 = Sums(sizes)[f - 1]
        /\ \E f \in 1 .. Len(t.fields) : elem2 = t.fields[f] /\ off2 = Sums(sizes)[f - 1]
    BY <1>3 DEF ElementAt, IsScalar
  <2>2. PICK f \in 1 .. Len(t.fields) : elem1 = t.fields[f] /\ off1 = Sums(sizes)[f - 1]
    BY <2>1
  <2>3. PICK g \in 1 .. Len(t.fields) : elem2 = t.fields[g] /\ off2 = Sums(sizes)[g - 1]
    BY <2>1
  <2>4. /\ sizes \in Seq(Nat) /\ Len(sizes) = Len(t.fields) /\ Len(sizes) \in Nat
        /\ sizes[f] = IrSize[elem1] /\ sizes[g] = IrSize[elem2]
    BY <1>3, <2>2, <2>3, FieldSizes
  <2> HIDE DEF sizes
  <2>5. /\ Sums(sizes)[f] = off1 + IrSize[elem1] /\ Sums(sizes)[g] = off2 + IrSize[elem2]
        /\ \A n \in {f, g, f - 1, g - 1} : n \in 0 .. Len(sizes)
    BY <2>2, <2>3, <2>4, SumsDefined, SMTT(30)
  <2>6. CASE f < g
    <3>1. Sums(sizes)[f] <= Sums(sizes)[g - 1]
      BY <2>4, <2>5, <2>6, SumsAscend
    <3>2. QED
      BY <2>3, <2>5, <3>1
  <2>7. CASE g < f
    <3>1. Sums(sizes)[g] <= Sums(sizes)[f - 1]
      BY <2>4, <2>5, <2>7, SumsAscend
    <3>2. QED
      BY <2>2, <2>5, <3>1
  <2>8. CASE f = g
    BY <2>2, <2>3, <2>8
  <2>9. f \in Int /\ g \in Int
    OBVIOUS
  <2>10. QED
    BY <2>6, <2>7, <2>8, <2>9
<1>4. QED
  BY <1>1, <1>2, <1>3, Shapes

\* Globals, allocas and the caller's objects have different names and types of the
\* program.
LEMMA ObjectTypes ==
  ASSUME ProgramSuits
  PROVE  /\ \A k \in DOMAIN Globals : /\ <<"global", k>> \in GlobalNames
                                      /\ TypeOf(<<"global", k>>) = Globals[k]
         /\ \A k \in DOMAIN Locals : /\ <<"local", k>> \in LocalNames
                                     /\ TypeOf(<<"local", k>>) = Locals[k]
         /\ \A k \in {1, 2} : /\ <<"outer", k>> \in OuterNames
                              /\ TypeOf(<<"outer", k>>) = OuterTypes[k]
         /\ OuterNames = {<<"outer", 1>>, <<"outer", 2>>}
         /\ \A o \in Objects : TypeOf(o) \in Types /\ IrSize[TypeOf(o)] \in Nat
         /\ \A o \in GlobalNames : o \notin LocalNames /\ o \notin OuterNames
         /\ \A o \in LocalNames : o \notin OuterNames
<1>1. DOMAIN OuterTypes = {1, 2}
  BY DEF OuterTypes
<1>2. OuterNames = {<<"outer", 1>>, <<"outer", 2>>}
  BY <1>1 DEF OuterNames
<1>3. /\ \A o \in GlobalNames : o \notin LocalNames /\ o \notin OuterNames
      /\ \A o \in LocalNames : o \notin OuterNames
  BY <1>2 DEF GlobalNames, LocalNames
<1>4. \A k \in DOMAIN Globals : <<"global", k>> \in GlobalNames /\ TypeOf(<<"global", k>>) = Globals[k]
  BY <1>3 DEF GlobalNames, TypeOf
<1>5. \A k \in DOMAIN Locals : <<"local", k>> \in LocalNames /\ TypeOf(<<"local", k>>) = Locals[k]
  BY <1>3 DEF LocalNames, TypeOf
<1>6. \A k \in {1, 2} : <<"outer", k>> \in OuterNames /\ TypeOf(<<"outer", k>>) = OuterTypes[k]
  BY <1>2, <1>3 DEF TypeOf
<1>7. /\ \A k \in DOMAIN Globals : Globals[k] \in Types
      /\ \A k \in DOMAIN Locals : Locals[k] \in Types
      /\ \A k \in {1, 2} : OuterTypes[k] \in Types
  <2>1. \A s \in Seq(Types) : \A k \in DOMAIN s : s[k] \in Types
    OBVIOUS
  <2>2. Globals \in Seq(Types) /\ Locals \in Seq(Types) /\ OuterTypes \in Seq(Types)
    BY DEF ProgramSuits
  <2>3. QED
    BY <1>1, <2>1, <2>2
<1>8. \A o \in Objects : TypeOf(o) \in Types
  BY <1>2, <1>4, <1>5, <1>6, <1>7 DEF Objects, GlobalNames, LocalNames
<1>9. QED
  BY <1>2, <1>3, <1>4, <1>5, <1>6, <1>8, SizesAreNatural

\* The sizes that are added up: of globals and of allocas.
GlobalSizes == [k \in DOMAIN Globals |-> GlobalBytes(Globals[k])]
LocalSizes == [k \in DOMAIN Locals |-> AllocaBytes(Locals[k])]

LEMMA SizesOfObjects ==
  ASSUME ProgramSuits
  PROVE  /\ GlobalSizes \in Seq(Nat) /\ Len(GlobalSizes) = Len(Globals)
         /\ LocalSizes \in Seq(Nat) /\ Len(LocalSizes) = Len(Locals)
         /\ \A k \in 1 .. Len(Globals) : k < Len(Globals) => IrSize[Globals[k]] <= GlobalSizes[k]
         /\ \A k \in 1 .. Len(Locals) : IrSize[Locals[k]] <= LocalSizes[k]
<1>1. Globals \in Seq(Types) /\ Locals \in Seq(Types)
  BY DEF ProgramSuits
<1>2. /\ DOMAIN Globals = 1 .. Len(Globals) /\ \A k \in 1 .. Len(Globals) : Globals[k] \in Types
      /\ DOMAIN Locals = 1 .. Len(Locals) /\ \A k \in 1 .. Len(Locals) : Locals[k] \in Types
      /\ Len(Globals) \in Nat /\ Len(Locals) \in Nat
  BY <1>1
<1>3. \A k \in 1 .. Len(Globals) :
        GlobalSizes[k] \in Nat /\ (k < Len(Globals) => IrSize[Globals[k]] <= GlobalSizes[k])
  <2> SUFFICES ASSUME NEW k \in 1 .. Len(Globals)
               PROVE  GlobalSizes[k] \in Nat /\ (k < Len(Globals) => IrSize[Globals[k]] <= GlobalSizes[k])
    OBVIOUS
  <2>1. GlobalSizes[k] = GlobalBytes(Globals[k]) /\ Globals[k] \in Types
    BY <1>2 DEF GlobalSizes
  <2>2. k < Len(Globals) => Globals[k].kind # "struct"
    BY <1>2 DEF ProgramSuits
  <2>3. QED
    BY <2>1, <2>2, GlobalBytesSuffice
<1>4. \A k \in 1 .. Len(Locals) : LocalSizes[k] \in Nat /\ IrSize[Locals[k]] <= LocalSizes[k]
  <2> SUFFICES ASSUME NEW k \in 1 .. Len(Locals)
               PROVE  LocalSizes[k] \in Nat /\ IrSize[Locals[k]] <= LocalSizes[k]
    OBVIOUS
  <2>1. LocalSizes[k] = AllocaBytes(Locals[k]) /\ Locals[k] \in Types /\ OnStack(Locals[k])
    BY <1>2 DEF LocalSizes, ProgramSuits
  <2>2. QED
    BY <2>1, AllocaBytesSuffice
<1>5. GlobalSizes = [k \in 1 .. Len(Globals) |-> GlobalSizes[k]]
  BY <1>2 DEF GlobalSizes
<1>6. LocalSizes = [k \in 1 .. Len(Locals) |-> LocalSizes[k]]
  BY <1>2 DEF LocalSizes
<1>7. GlobalSizes \in Seq(Nat) /\ Len(GlobalSizes) = Len(Globals)
  BY <1>2, <1>3, <1>5
<1>8. LocalSizes \in Seq(Nat) /\ Len(LocalSizes) = Len(Locals)
  BY <1>2, <1>4, <1>6
<1>9. QED
  BY <1>3, <1>4, <1>7, <1>8

\* Where the objects are.
LEMMA Addresses ==
  ASSUME ProgramSuits
  PROVE  /\ \A k \in DOMAIN Globals : Address[<<"global", k>>] = 4 + Sums(GlobalSizes)[k - 1]
         /\ \A k \in DOMAIN Locals : Address[<<"local", k>>] = FrameTop - Sums(LocalSizes)[k]
         /\ Address[<<"outer", 1>>] = FrameTop + 12 /\ Address[<<"outer", 2>>] = FrameTop + 16
         /\ \A o \in Objects : Address[o] \in Nat /\ Address[o] + IrSize[TypeOf(o)] <= W
<1>1. \A o \in Objects : Address[o] =
        CASE o \in GlobalNames -> 4 + Sums(GlobalSizes)[o[2] - 1]
          [] o \in LocalNames  -> FrameTop - Sums(LocalSizes)[o[2]]
          [] o \in OuterNames  -> FrameTop + 8 + 4 * o[2]
  BY DEF Address, GlobalSizes, LocalSizes
<1>2. /\ \A k \in DOMAIN Globals : <<"global", k>> \in GlobalNames
      /\ \A k \in DOMAIN Locals : <<"local", k>> \in LocalNames
      /\ OuterNames = {<<"outer", 1>>, <<"outer", 2>>}
      /\ \A o \in GlobalNames : o \notin LocalNames /\ o \notin OuterNames
      /\ \A o \in LocalNames : o \notin OuterNames
  BY ObjectTypes
<1>3. \A k \in DOMAIN Globals : Address[<<"global", k>>] = 4 + Sums(GlobalSizes)[k - 1]
  BY <1>1, <1>2 DEF Objects
<1>4. \A k \in DOMAIN Locals : Address[<<"local", k>>] = FrameTop - Sums(LocalSizes)[k]
  BY <1>1, <1>2 DEF Objects
<1>5. Address[<<"outer", 1>>] = FrameTop + 12 /\ Address[<<"outer", 2>>] = FrameTop + 16
  <2> SUFFICES ASSUME NEW k \in {1, 2} PROVE Address[<<"outer", k>>] = FrameTop + 8 + 4 * k
    BY SegmentAssumption
  <2>1. <<"outer", k>> \in OuterNames /\ <<"outer", k>> \in Objects
    BY <1>2 DEF Objects
  <2>2. QED
    BY <1>1, <1>2, <2>1
<1>6. \A o \in Objects : Address[o] \in Int
  <2>1. \A k \in DOMAIN Globals : Sums(GlobalSizes)[k - 1] \in Nat
    BY SizesOfObjects, SumsDefined DEF ProgramSuits
  <2>2. \A k \in DOMAIN Locals : Sums(LocalSizes)[k] \in Nat
    <3>1. \A k \in DOMAIN Locals : k \in 0 .. Len(LocalSizes)
      BY SizesOfObjects DEF ProgramSuits
    <3>2. QED
      BY <3>1, SizesOfObjects, SumsDefined
  <2>3. QED
    BY <1>2, <1>3, <1>4, <1>5, <2>1, <2>2, SegmentAssumption DEF Objects, GlobalNames, LocalNames
<1>7. \A o \in Objects : Address[o] \in Nat /\ Address[o] + IrSize[TypeOf(o)] <= W
  BY <1>6 DEF ProgramSuits
<1>8. QED
  BY <1>3, <1>4, <1>5, <1>7

\* A global ends where the next one begins, or before.
LEMMA GlobalsApart ==
  ASSUME ProgramSuits, NEW k \in DOMAIN Globals, NEW m \in DOMAIN Globals, k < m
  PROVE  Address[<<"global", k>>] + IrSize[TypeOf(<<"global", k>>)] <= Address[<<"global", m>>]
<1>1. k \in 1 .. Len(Globals) /\ m \in 1 .. Len(Globals) /\ Len(Globals) \in Nat /\ k < Len(Globals)
  BY DEF ProgramSuits
<1>2. /\ GlobalSizes \in Seq(Nat) /\ Len(GlobalSizes) = Len(Globals)
      /\ IrSize[Globals[k]] <= GlobalSizes[k]
  BY <1>1, SizesOfObjects
<1>3. /\ k \in 0 .. Len(GlobalSizes) /\ m - 1 \in 0 .. Len(GlobalSizes)
      /\ k - 1 \in 0 .. Len(GlobalSizes) /\ k <= m - 1
      /\ GlobalSizes[k] \in Nat
  BY <1>1, <1>2
<1>4. /\ Sums(GlobalSizes)[k] = Sums(GlobalSizes)[k - 1] + GlobalSizes[k]
      /\ Sums(GlobalSizes)[k - 1] \in Nat /\ Sums(GlobalSizes)[m - 1] \in Nat
  BY <1>1, <1>2, <1>3, SumsDefined
<1>5. Sums(GlobalSizes)[k] <= Sums(GlobalSizes)[m - 1]
  BY <1>2, <1>3, SumsAscend
<1>6. /\ Address[<<"global", k>>] = 4 + Sums(GlobalSizes)[k - 1]
      /\ Address[<<"global", m>>] = 4 + Sums(GlobalSizes)[m - 1]
  BY Addresses
<1>7. TypeOf(<<"global", k>>) = Globals[k] /\ IrSize[Globals[k]] \in Nat
  BY <1>1, ObjectTypes, SizesAreNatural DEF ProgramSuits
<1> DEFINE A == Sums(GlobalSizes)[k - 1]
           B == Sums(GlobalSizes)[m - 1]
           size == IrSize[Globals[k]]
           bytes == GlobalSizes[k]
<1>8. A \in Nat /\ B \in Nat /\ size \in Nat /\ A + size <= B
  <2>1. A \in Nat /\ B \in Nat /\ size \in Nat /\ bytes \in Nat
    BY <1>3, <1>4, <1>7
  <2>2. A + bytes <= B /\ size <= bytes
    BY <1>2, <1>4, <1>5
  <2> HIDE DEF A, B, size, bytes
  <2>3. QED
    BY <2>1, <2>2
<1>9. Address[<<"global", k>>] = 4 + A /\ Address[<<"global", m>>] = 4 + B
      /\ IrSize[TypeOf(<<"global", k>>)] = size
  BY <1>6, <1>7
<1> HIDE DEF A, B, size
<1>10. QED
  BY <1>8, <1>9

\* An alloca ends where the one before it begins, or before, and in the frame.
LEMMA LocalsApart ==
  ASSUME ProgramSuits, NEW k \in DOMAIN Locals
  PROVE  /\ Address[<<"local", k>>] + IrSize[TypeOf(<<"local", k>>)] <= FrameTop
         /\ \A m \in DOMAIN Locals : m < k =>
              Address[<<"local", k>>] + IrSize[TypeOf(<<"local", k>>)] <= Address[<<"local", m>>]
<1>1. DOMAIN Locals = 1 .. Len(Locals) /\ Len(Locals) \in Nat /\ k \in 1 .. Len(Locals)
  BY DEF ProgramSuits
<1>2. /\ LocalSizes \in Seq(Nat) /\ Len(LocalSizes) = Len(Locals)
      /\ IrSize[Locals[k]] <= LocalSizes[k]
  BY <1>1, SizesOfObjects
<1>3. k - 1 \in 0 .. Len(LocalSizes) /\ LocalSizes[k] \in Nat
  BY <1>1, <1>2
<1>4. /\ Sums(LocalSizes)[k] = Sums(LocalSizes)[k - 1] + LocalSizes[k]
      /\ Sums(LocalSizes)[k - 1] \in Nat
  BY <1>1, <1>2, <1>3, SumsDefined
<1>5. Address[<<"local", k>>] = FrameTop - Sums(LocalSizes)[k]
  BY Addresses
<1>6. TypeOf(<<"local", k>>) = Locals[k] /\ IrSize[Locals[k]] \in Nat
  BY <1>1, ObjectTypes, SizesAreNatural DEF ProgramSuits
<1>7. Address[<<"local", k>>] + IrSize[Locals[k]] <= FrameTop - Sums(LocalSizes)[k - 1]
  BY <1>2, <1>3, <1>4, <1>5, <1>6, SegmentAssumption, SMTT(30)
<1>8. ASSUME NEW m \in DOMAIN Locals, m < k
      PROVE  Address[<<"local", k>>] + IrSize[Locals[k]] <= Address[<<"local", m>>]
  <2>1. m \in 0 .. Len(LocalSizes) /\ m <= k - 1
    BY <1>1, <1>2, <1>8
  <2>2. Sums(LocalSizes)[m] <= Sums(LocalSizes)[k - 1] /\ Sums(LocalSizes)[m] \in Nat
    BY <1>2, <1>3, <2>1, SumsAscend, SumsDefined
  <2>3. Address[<<"local", m>>] = FrameTop - Sums(LocalSizes)[m]
    BY Addresses
  <2>4. Address[<<"local", k>>] \in Int
    BY <1>3, <1>4, <1>5, SegmentAssumption
  <2>5. QED
    BY <1>4, <1>6, <1>7, <2>2, <2>3, <2>4, SegmentAssumption
<1>9. Address[<<"local", k>>] + IrSize[Locals[k]] <= FrameTop
  <2>1. Address[<<"local", k>>] \in Int
    BY <1>3, <1>4, <1>5, SegmentAssumption
  <2>2. QED
    BY <1>4, <1>6, <1>7, <2>1, SegmentAssumption
<1>10. QED
  BY <1>6, <1>8, <1>9

\* No two objects of a segment overlap.
LEMMA ObjectsApart ==
  ASSUME ProgramSuits, NEW o \in Objects, NEW u \in Objects, o # u, Segment(o) = Segment(u)
  PROVE  \/ Address[o] + IrSize[TypeOf(o)] <= Address[u]
         \/ Address[u] + IrSize[TypeOf(u)] <= Address[o]
<1>1. /\ OuterNames = {<<"outer", 1>>, <<"outer", 2>>}
      /\ o \in GlobalNames <=> u \in GlobalNames
  BY ObjectTypes DEF Segment, Ds, Ss
<1>2. CASE o \in GlobalNames /\ u \in GlobalNames
  <2>1. PICK k \in DOMAIN Globals, m \in DOMAIN Globals : o = <<"global", k>> /\ u = <<"global", m>>
    BY <1>2 DEF GlobalNames
  <2>2. k \in Nat /\ m \in Nat /\ k # m
    BY <2>1 DEF ProgramSuits
  <2>3. k < m \/ m < k
    BY <2>2
  <2>4. QED
    BY <2>1, <2>3, GlobalsApart
<1>3. CASE o \in LocalNames /\ u \in LocalNames
  <2>1. PICK k \in DOMAIN Locals, m \in DOMAIN Locals : o = <<"local", k>> /\ u = <<"local", m>>
    BY <1>3 DEF LocalNames
  <2>2. k \in Nat /\ m \in Nat /\ k # m
    BY <2>1 DEF ProgramSuits
  <2>3. k < m \/ m < k
    BY <2>2
  <2>4. QED
    BY <2>1, <2>3, LocalsApart
<1>4. \A l \in LocalNames : Address[l] + IrSize[TypeOf(l)] <= FrameTop
  BY LocalsApart DEF LocalNames
<1>5. /\ Address[<<"outer", 1>>] = FrameTop + 12 /\ Address[<<"outer", 2>>] = FrameTop + 16
      /\ \A v \in Objects : Address[v] \in Nat /\ IrSize[TypeOf(v)] \in Nat
  BY Addresses, ObjectTypes
<1>6. IrSize[TypeOf(<<"outer", 1>>)] = 4
  <2>1. TypeOf(<<"outer", 1>>) = Array(2, Int16)
    BY ObjectTypes DEF OuterTypes
  <2>2. Array(2, Int16) \in Types /\ Int16 \in Scalars
    BY DEF ProgramSuits, OuterTypes, Scalars
  <2>3. IrSize[Array(2, Int16)] = 2 * IrSize[Int16]
    BY <2>2, IrSizesDefined DEF Array
  <2>4. IrSize[Int16] = 2
    BY <2>2, ScalarSizes DEF Int16
  <2>5. QED
    BY <2>1, <2>3, <2>4
<1>7. CASE o \in LocalNames /\ u \in OuterNames
  <2>1. Address[o] + IrSize[TypeOf(o)] <= FrameTop /\ u \in {<<"outer", 1>>, <<"outer", 2>>}
    BY <1>1, <1>4, <1>7
  <2>2. FrameTop <= Address[u]
    BY <1>5, <2>1, SegmentAssumption
  <2>3. QED
    BY <1>5, <2>1, <2>2, SegmentAssumption
<1>8. CASE u \in LocalNames /\ o \in OuterNames
  <2>1. Address[u] + IrSize[TypeOf(u)] <= FrameTop /\ o \in {<<"outer", 1>>, <<"outer", 2>>}
    BY <1>1, <1>4, <1>8
  <2>2. FrameTop <= Address[o]
    BY <1>5, <2>1, SegmentAssumption
  <2>3. QED
    BY <1>5, <2>1, <2>2, SegmentAssumption
<1>9. CASE o \in OuterNames /\ u \in OuterNames
  <2>1. \/ o = <<"outer", 1>> /\ u = <<"outer", 2>>
        \/ u = <<"outer", 1>> /\ o = <<"outer", 2>>
    BY <1>1, <1>9
  <2>2. QED
    BY <1>5, <1>6, <2>1, SegmentAssumption
<1>10. QED
  BY <1>1, <1>2, <1>3, <1>7, <1>8, <1>9 DEF Objects

-----------------------------------------------------------------------------
(* The inductive invariant *)

\* What vregs hold in the program: pointers to elements, and numbers.  No pointer
\* that an index is added to is into a structure.
IsPointer(v) ==
  /\ v.kind = "ptr" /\ v = To(v.obj, v.off, v.elem, v.far)
  /\ v.obj \in Objects /\ v.far \in BOOLEAN
  /\ ElementAt(TypeOf(v.obj), v.off, v.elem)
  /\ IsScalar(v.elem) => TypeOf(v.obj).kind # "struct"
IsNumber(v) == v.kind = "int" /\ v = Number32(v.words, v.bits)

\* The vregs are the parameters and what the instructions so far defined.
ValuesInv ==
  /\ steps \in 0 .. MaxSteps
  /\ DOMAIN val \subseteq {P, I} \cup {<<"vreg", k>> : k \in 0 .. steps - 1}
  /\ \A x \in DOMAIN val : IsPointer(val[x]) \/ IsNumber(val[x])
  /\ I \in DOMAIN held /\ \E n \in Nat : val[I] = Number32(<<Number(n), Zero>>, 32)

\* The slots, and the registers when no word is loaded through a far pointer.
SlotsInv ==
  /\ DOMAIN held \subseteq DOMAIN val /\ Pointers \subseteq DOMAIN held
  /\ \A x \in DOMAIN held :
       x \in InSlots \/ "farWord" \notin Features => held[x] = Words(val[x])

SelectorsInv ==
  /\ ssDerived \subseteq Pointers
  /\ \A x \in Pointers : ~val[x].far => (x \in ssDerived <=> Segment(val[x].obj) = Ss)

ObjectsInv ==
  /\ DOMAIN mem \subseteq Cells /\ DOMAIN objects = Objects
  /\ \A o \in Objects : DOMAIN objects[o] = 1 .. IrSize[TypeOf(o)]
  /\ MemoryAgrees

\* The pointers in the objects are the bytes of their words.
StoredInv ==
  \A c \in DOMAIN stored :
    /\ c = <<c[1], c[2]>> /\ c[1] \in Objects
    /\ ElementAt(TypeOf(c[1]), c[2], Ptr) /\ IsPointer(stored[c])
    /\ \A j \in 1 .. 4 : objects[c[1]][c[2] + j] = BytesOf(Words(stored[c]), 4)[j]

PInv == ValuesInv /\ SlotsInv /\ SelectorsInv /\ ObjectsInv /\ StoredInv

-----------------------------------------------------------------------------
(* Facts about values and memory *)

\* A pointer into an object is in the segment of the object, and so is the element.
LEMMA PointerFacts ==
  ASSUME ProgramSuits, NEW v, IsPointer(v)
  PROVE  /\ v.kind = "ptr" /\ TypeOf(v.obj) \in Types
         /\ v.off \in Nat /\ v.elem \in Types /\ IrSize[v.elem] \in Nat /\ IrSize[TypeOf(v.obj)] \in Nat
         /\ Address[v.obj] \in Nat /\ Address[v.obj] + IrSize[TypeOf(v.obj)] <= W
         /\ v.off + IrSize[v.elem] <= IrSize[TypeOf(v.obj)]
         /\ Segment(v.obj) \in {Ds, Ss}
         /\ Words(v) = <<Number(Address[v.obj] + v.off), Segment(v.obj)>>
         /\ IsAddress(Words(v))
<1>1. v.kind = "ptr" /\ v.obj \in Objects /\ ElementAt(TypeOf(v.obj), v.off, v.elem)
  BY DEF IsPointer
<1>2. TypeOf(v.obj) \in Types /\ Address[v.obj] \in Nat /\ Address[v.obj] + IrSize[TypeOf(v.obj)] <= W
  BY <1>1, ObjectTypes, Addresses
<1>3. /\ v.off \in Nat /\ v.elem \in Types /\ IrSize[v.elem] \in Nat /\ IrSize[TypeOf(v.obj)] \in Nat
      /\ v.off + IrSize[v.elem] <= IrSize[TypeOf(v.obj)]
  BY <1>1, <1>2, ElementsFit
<1>4. Segment(v.obj) \in {Ds, Ss}
  BY DEF Segment
<1>5. Words(v) = <<Number(Address[v.obj] + v.off), Segment(v.obj)>>
  BY <1>1 DEF Words
<1>6. IsAddress(Words(v))
  BY <1>4, <1>5 DEF IsAddress, Number
<1>7. QED
  BY <1>1, <1>2, <1>3, <1>4, <1>5, <1>6

\* A number is not a pointer.
LEMMA NumberFacts ==
  ASSUME NEW v, IsNumber(v)
  PROVE  v.kind = "int" /\ Words(v) = v.words
  BY DEF IsNumber, Words

\* An object as an operand is a pointer to all of it.
LEMMA ObjectPointers ==
  ASSUME ProgramSuits, NEW o \in Objects
  PROVE  LET v == To(o, 0, TypeOf(o), FALSE) IN
           /\ v.kind = "ptr" /\ v.obj = o /\ v.off = 0 /\ v.elem = TypeOf(o) /\ v.far = FALSE
           /\ IsPointer(v)
           /\ Words(v) = <<Number(Address[o]), Segment(o)>>
<1> DEFINE v == To(o, 0, TypeOf(o), FALSE)
<1>1. v.kind = "ptr" /\ v.obj = o /\ v.off = 0 /\ v.elem = TypeOf(o) /\ v.far = FALSE
  BY DEF To
<1>2. IsScalar(TypeOf(o)) => TypeOf(o).kind # "struct"
  BY DEF IsScalar
<1>3. ElementAt(TypeOf(o), 0, TypeOf(o))
  BY DEF ElementAt
<1> HIDE DEF v
<1>4. v = To(v.obj, v.off, v.elem, v.far)
  BY <1>1 DEF v
<1>5. IsPointer(v)
  BY <1>1, <1>2, <1>3, <1>4 DEF IsPointer
<1>6. Words(v) = <<Number(Address[o]), Segment(o)>>
  <2>1. Address[o] + 0 = Address[o]
    BY Addresses
  <2>2. QED
    BY <1>1, <2>1 DEF Words
<1>7. QED
  BY <1>1, <1>5, <1>6 DEF v

\* The words of a pointer survive being stored and loaded.
LEMMA WordsSurvive ==
  ASSUME NEW n, NEW seg \in {Ds, Ss}
  PROVE  WordsOf(BytesOf(<<Number(n), seg>>, 4), 4) = <<Number(n), seg>>
<1> DEFINE w == Number(n)
           bytes == BytesOf(<<w, seg>>, 4)
<1>1. w[1] = "n" /\ Len(w) = 2 /\ Len(Zero) = 2 /\ Len(seg) = 2 /\ seg # Zero /\ seg[1] # "const"
  BY DEF Number, Zero, Ds, Ss
<1> HIDE DEF w
<1>2. bytes = <<LowByte(w), HighByte(w), LowByte(seg), HighByte(seg)>>
  BY DEF BytesOf
<1>3. WordsOf(bytes, 4) = <<Join(bytes[1], bytes[2]), Join(bytes[3], bytes[4])>>
  BY DEF WordsOf
<1>4. LowByte(w)[1] = w /\ LowByte(seg)[1] = seg
  BY <1>1 DEF LowByte, ZeroByte
<1> HIDE DEF bytes
<1>5. Join(bytes[1], bytes[2]) = w /\ Join(bytes[3], bytes[4]) = seg
  BY <1>2, <1>4 DEF Join
<1>6. QED
  BY <1>3, <1>5 DEF w, bytes

\* Offsets of the segment are not reduced.
LEMMA Offsets ==
  \A m \in 0 .. W - 1 : m % W = m
<1>1. W \in Nat \ {0}
  BY SegmentAssumption
<1>2. QED
  BY <1>1

\* What a pointer to an element of an object fetches is the bytes of the element.
LEMMA FetchesElement ==
  ASSUME ProgramSuits, ObjectsInv, NEW o \in Objects, NEW off \in Nat, NEW n \in Nat,
         off + n <= IrSize[TypeOf(o)]
  PROVE  Fetch(<<Number(Address[o] + off), Segment(o)>>, n) = [j \in 1 .. n |-> objects[o][off + j]]
<1> DEFINE words == <<Number(Address[o] + off), Segment(o)>>
           a == Address[o]
           size == IrSize[TypeOf(o)]
<1>1. a \in Nat /\ a + size <= W /\ size \in Nat /\ W \in Nat \ {0}
  BY Addresses, ObjectTypes, SegmentAssumption
<1>2. IsAddress(words) /\ words[2] = Segment(o)
  BY DEF IsAddress, Number, Segment
<1>3. \A j \in 1 .. n : ByteAt(Segment(o), (a + (off + j)) - 1) = objects[o][off + j]
  <2>1. \A j \in 1 .. n : off + j \in 1 .. size
    BY <1>1
  <2>2. DOMAIN objects[o] = 1 .. size
    BY DEF ObjectsInv
  <2>3. QED
    BY <2>1, <2>2 DEF ObjectsInv, MemoryAgrees
<1>4. n = 0 \/ a + off < W
  BY <1>1
<1>5. words[1][2] = (a + off) % W
  BY DEF Number
<1> HIDE DEF a, size, words
<1>6. \A j \in 1 .. n : ((words[1][2] + j) - 1) % W = (a + (off + j)) - 1
  <2> SUFFICES ASSUME NEW j \in 1 .. n PROVE ((words[1][2] + j) - 1) % W = (a + (off + j)) - 1
    OBVIOUS
  <2>1. (a + off) % W = a + off
    BY <1>1, <1>4
  <2>2. (a + (off + j)) - 1 \in 0 .. W - 1
    BY <1>1 DEF size
  <2>3. ((a + off) + j) - 1 = (a + (off + j)) - 1
    BY <1>1
  <2>4. \A m \in 0 .. W - 1 : m % W = m
    BY Offsets
  <2>5. QED
    BY <1>5, <2>1, <2>2, <2>3, <2>4
<1>7. \A j \in 1 .. n : ByteAt(words[2], ((words[1][2] + j) - 1) % W) = objects[o][off + j]
  BY <1>2, <1>3, <1>6
<1>8. QED
  BY <1>2, <1>7 DEF Fetch, words, a

\* What is written to an element of an object is in the object, and nowhere else.
LEMMA WritesElement ==
  ASSUME ProgramSuits, ObjectsInv, NEW o \in Objects, NEW off \in Nat, NEW n \in Nat, NEW bytes,
         off + n <= IrSize[TypeOf(o)],
         mem' = Written(<<Number(Address[o] + off), Segment(o)>>, bytes, n),
         objects' = [objects EXCEPT ![o] =
           [j \in DOMAIN objects[o] |-> IF j - off \in 1 .. n THEN bytes[j - off] ELSE objects[o][j]]]
  PROVE  ObjectsInv'
<1> DEFINE place == <<Number(Address[o] + off), Segment(o)>>
           a == Address[o]
           size == IrSize[TypeOf(o)]
           base == place[1][2]
           cells == {<<place[2], (base + j) % W>> : j \in 0 .. n - 1}
<1>1. a \in Nat /\ a + size <= W /\ size \in Nat /\ W \in Nat \ {0}
  BY Addresses, ObjectTypes, SegmentAssumption
<1>2. IsAddress(place) /\ place[2] = Segment(o) /\ Segment(o) \in {Ds, Ss}
  BY DEF IsAddress, Number, Segment
<1>3. mem' = [c \in DOMAIN mem \cup cells |->
                IF c \in cells THEN bytes[((c[2] - base) % W) + 1] ELSE mem[c]]
  BY <1>2 DEF Written
<1>4. base = (a + off) % W
  BY DEF Number
<1> HIDE DEF place
<1>5. \A j \in 0 .. n - 1 : (base + j) % W = (a + off) + j
  <2> HIDE DEF a, size, base
  <2> SUFFICES ASSUME NEW j \in 0 .. n - 1 PROVE (base + j) % W = (a + off) + j
    OBVIOUS
  <2>1. \A m \in 0 .. W - 1 : m % W = m
    BY Offsets
  <2>2. a + off \in 0 .. W - 1 /\ (a + off) + j \in 0 .. W - 1
    BY <1>1 DEF size
  <2>3. QED
    BY <1>4, <2>1, <2>2
<1>6. n > 0 => base = a + off
  <2> HIDE DEF a, size, base
  <2>1. \A m \in 0 .. W - 1 : m % W = m
    BY Offsets
  <2>2. n > 0 => a + off \in 0 .. W - 1
    BY <1>1 DEF size
  <2>3. QED
    BY <1>4, <2>1, <2>2
<1>7. cells = {<<Segment(o), (a + off) + j>> : j \in 0 .. n - 1}
  BY <1>2, <1>5
<1> HIDE DEF cells, base, a, size
<1>8. cells \subseteq Cells
  <2>1. \A j \in 0 .. n - 1 : (a + off) + j \in 0 .. W - 1
    BY <1>1 DEF size
  <2>2. QED
    BY <1>2, <1>7, <2>1 DEF Cells
<1>9. DOMAIN mem' \subseteq Cells
  BY <1>3, <1>8 DEF ObjectsInv
<1>10. /\ DOMAIN objects' = Objects
       /\ \A u \in Objects : DOMAIN objects'[u] = 1 .. IrSize[TypeOf(u)]
       /\ \A u \in Objects \ {o} : objects'[u] = objects[u]
       /\ \A j \in 1 .. size :
            objects'[o][j] = IF j - off \in 1 .. n THEN bytes[j - off] ELSE objects[o][j]
  BY DEF ObjectsInv, size
<1>11. ASSUME NEW u \in Objects, NEW j \in 1 .. IrSize[TypeOf(u)]
       PROVE  ByteAt(Segment(u), (Address[u] + j) - 1)' = objects'[u][j]
  <2> DEFINE b == (Address[u] + j) - 1
             c == <<Segment(u), b>>
  <2>1. /\ Address[u] \in Nat /\ IrSize[TypeOf(u)] \in Nat /\ j \in Nat
        /\ b \in Int /\ Address[u] <= b /\ b < Address[u] + IrSize[TypeOf(u)]
    BY Addresses, ObjectTypes
  <2>2. ByteAt(Segment(u), b) = objects[u][j]
    BY DEF ObjectsInv, MemoryAgrees
  <2>3. ByteAt(Segment(u), b) = IF c \in DOMAIN mem THEN mem[c] ELSE Old(b)
    BY DEF ByteAt
  <2>4. ByteAt(Segment(u), b)' = IF c \in DOMAIN mem' THEN mem'[c] ELSE Old(b)
    BY DEF ByteAt, Segment, Address
  <2>5. c \in cells <=> Segment(u) = Segment(o) /\ \E k \in 0 .. n - 1 : b = (a + off) + k
    BY <1>7
  <2> HIDE DEF b
  <2>6. CASE c \notin cells
    <3>1. ByteAt(Segment(u), b)' = objects[u][j]
      BY <1>3, <2>2, <2>3, <2>4, <2>6
    <3>2. u = o => ~(j - off \in 1 .. n)
      <4> SUFFICES ASSUME u = o, j - off \in 1 .. n PROVE FALSE
        OBVIOUS
      <4>1. b = (a + off) + ((j - off) - 1) /\ (j - off) - 1 \in 0 .. n - 1
        BY <1>1, <2>1 DEF b, a
      <4>2. QED
        BY <2>5, <2>6, <4>1
    <3>3. QED
      BY <1>10, <3>1, <3>2 DEF b, size
  <2>7. CASE c \in cells
    <3>1. PICK k \in 0 .. n - 1 : b = (a + off) + k
      BY <2>5, <2>7
    <3>2. Segment(u) = Segment(o) /\ a <= b /\ b < a + size
      BY <1>1, <2>5, <2>7, <3>1 DEF size
    <3>3. u = o
      <4>1. ~(a + size <= Address[u]) /\ ~(Address[u] + IrSize[TypeOf(u)] <= a)
        BY <1>1, <2>1, <3>2
      <4>2. QED
        BY <3>2, <4>1, ObjectsApart DEF a, size
    <3>4. j - off = k + 1 /\ j - off \in 1 .. n
      BY <1>1, <2>1, <3>1, <3>3 DEF b, a
    <3>5. ByteAt(Segment(u), b)' = bytes[((b - base) % W) + 1]
      BY <1>3, <2>4, <2>7
    <3>6. (b - base) % W = k
      <4>1. b - base = k /\ k \in 0 .. W - 1
        BY <1>1, <1>6, <3>1 DEF size
      <4>2. QED
        BY <4>1, Offsets
    <3>7. objects'[u][j] = bytes[j - off]
      BY <1>10, <3>3, <3>4 DEF size
    <3>8. QED
      BY <3>4, <3>5, <3>6, <3>7 DEF b
  <2>8. QED
    BY <2>6, <2>7
<1>12. MemoryAgrees'
  <2>1. \A u \in Objects : \A j \in DOMAIN objects'[u] :
          ByteAt(Segment(u), (Address[u] + j) - 1)' = objects'[u][j]
    <3>1. \A u \in Objects : DOMAIN objects'[u] = 1 .. IrSize[TypeOf(u)]
      BY <1>10
    <3>2. QED
      BY <3>1, <1>11
  <2>2. QED
    BY <2>1 DEF MemoryAgrees, ByteAt
<1>13. QED
  BY <1>9, <1>10, <1>12 DEF ObjectsInv

-----------------------------------------------------------------------------
(* The steps keep the invariant *)

\* What an instruction defines is a new vreg.
LEMMA ResultIsNew ==
  ASSUME PInv
  PROVE  Result \notin DOMAIN val /\ Result \notin {P, I}
<1>1. steps \in Nat /\ DOMAIN val \subseteq {P, I} \cup {<<"vreg", k>> : k \in 0 .. steps - 1}
  BY IndicesAssumption DEF PInv, ValuesInv
<1>2. \A k \in 0 .. steps - 1 : k # steps
  BY <1>1
<1>3. QED
  BY <1>1, <1>2 DEF Result, P, I

\* An instruction that defines a vreg, and says the right thing about its segment.
LEMMA DefinesKeeps ==
  ASSUME ProgramSuits, PInv, Counted, NEW v, NEW words, Defines(v, words),
         IsPointer(v) \/ IsNumber(v),
         v.kind = "ptr" \/ v.bits # 16 \/ "farWord" \notin Features => words = Words(v),
         ssDerived \subseteq ssDerived', ssDerived' \subseteq ssDerived \cup {Result},
         v.kind # "ptr" => ssDerived' = ssDerived,
         v.kind = "ptr" /\ ~v.far => (Result \in ssDerived' <=> Segment(v.obj) = Ss),
         UNCHANGED <<mem, objects, stored>>
  PROVE  PInv'
<1>1. Result \notin DOMAIN val /\ Result \notin {P, I}
  BY ResultIsNew
<1>2. /\ DOMAIN val' = DOMAIN val \cup {Result} /\ val'[Result] = v
      /\ \A x \in DOMAIN val : val'[x] = val[x]
  BY <1>1 DEF Defines
<1>3. /\ DOMAIN held' = InSlots \cup {Result} /\ held'[Result] = words
      /\ \A x \in InSlots : x # Result /\ held'[x] = held[x]
  <2>1. InSlots \subseteq DOMAIN val
    BY DEF PInv, SlotsInv, InSlots
  <2>2. QED
    BY <1>1, <2>1 DEF Defines
<1>4. steps' = steps + 1 /\ steps \in Nat /\ steps < MaxSteps /\ MaxSteps \in Nat
  BY IndicesAssumption DEF Counted, PInv, ValuesInv
<1>5. ValuesInv'
  <2>1. steps' \in 0 .. MaxSteps
    BY <1>4
  <2>2. DOMAIN val' \subseteq {P, I} \cup {<<"vreg", k>> : k \in 0 .. steps' - 1}
    <3>1. \A k \in 0 .. steps - 1 : k \in 0 .. steps' - 1
      BY <1>4
    <3>2. steps \in 0 .. steps' - 1
      BY <1>4
    <3>3. QED
      BY <1>2, <3>1, <3>2 DEF PInv, ValuesInv, Result
  <2>3. \A x \in DOMAIN val' : IsPointer(val'[x]) \/ IsNumber(val'[x])
    BY <1>2 DEF PInv, ValuesInv
  <2>4. PICK n \in Nat : val[I] = Number32(<<Number(n), Zero>>, 32)
    BY DEF PInv, ValuesInv
  <2>5. I \in DOMAIN held /\ I \in DOMAIN val /\ val[I].bits = 32
    BY <2>4 DEF PInv, ValuesInv, SlotsInv, Number32
  <2>6. I \in DOMAIN held' /\ val'[I] = Number32(<<Number(n), Zero>>, 32)
    BY <1>2, <1>3, <2>4, <2>5 DEF InSlots
  <2>7. (\A x \in DOMAIN val : IsPointer(val[x]) \/ IsNumber(val[x]))'
    BY <2>3 DEF IsPointer, IsNumber
  <2>8. (\E m \in Nat : val[I] = Number32(<<Number(m), Zero>>, 32))'
    BY <2>6
  <2>9. QED
    BY <2>1, <2>2, <2>6, <2>7, <2>8 DEF ValuesInv, P, I
<1>6. SlotsInv'
  <2>1. DOMAIN held' \subseteq DOMAIN val'
    BY <1>2, <1>3 DEF PInv, SlotsInv, InSlots
  <2>2. \A x \in DOMAIN val' : val'[x].kind = "ptr" => x \in DOMAIN held'
    BY <1>2, <1>3 DEF PInv, SlotsInv, Pointers, InSlots
  <2>3. ASSUME NEW x \in DOMAIN held', val'[x].kind = "ptr" \/ val'[x].bits # 16 \/ "farWord" \notin Features
        PROVE  held'[x] = Words(val'[x])
    <3>1. CASE x = Result
      BY <1>2, <1>3, <2>3, <3>1
    <3>2. CASE x # Result
      <4>1. x \in InSlots /\ x \in DOMAIN held /\ x \in DOMAIN val
        BY <1>3, <3>2 DEF InSlots, PInv, SlotsInv
      <4>2. held[x] = Words(val[x])
        BY <4>1 DEF PInv, SlotsInv
      <4>3. QED
        BY <1>2, <1>3, <4>1, <4>2
    <3>3. QED
      BY <3>1, <3>2
  <2>4. (\A x \in DOMAIN held : x \in InSlots \/ "farWord" \notin Features => held[x] = Words(val[x]))'
    BY <2>3 DEF InSlots, Words, Address, Segment
  <2>5. QED
    BY <2>1, <2>2, <2>4 DEF SlotsInv, Pointers
<1>7. SelectorsInv'
  <2>1. ssDerived \subseteq DOMAIN val
    BY DEF PInv, SelectorsInv, Pointers
  <2>2. \A x \in ssDerived' : x \in DOMAIN val' /\ val'[x].kind = "ptr"
    BY <1>2, <2>1 DEF PInv, SelectorsInv, Pointers
  <2>3. ASSUME NEW x \in DOMAIN val', val'[x].kind = "ptr", ~val'[x].far
        PROVE  x \in ssDerived' <=> Segment(val'[x].obj) = Ss
    <3>1. CASE x = Result
      BY <1>2, <2>3, <3>1
    <3>2. CASE x # Result
      <4>1. x \in DOMAIN val /\ (x \in ssDerived' <=> x \in ssDerived) /\ val'[x] = val[x]
        BY <1>2, <3>2
      <4>2. QED
        BY <2>3, <4>1 DEF PInv, SelectorsInv, Pointers
    <3>3. QED
      BY <3>1, <3>2
  <2>4. QED
    BY <2>2, <2>3 DEF SelectorsInv, Pointers, Segment, Ss
<1>8. ObjectsInv'
  BY DEF PInv, ObjectsInv, MemoryAgrees, ByteAt
<1>9. StoredInv'
  BY DEF PInv, StoredInv, IsPointer
<1>10. QED
  BY <1>5, <1>6, <1>7, <1>8, <1>9 DEF PInv

\* What vregs and objects are as operands: pointers, with their words.
LEMMA OperandFacts ==
  ASSUME ProgramSuits, PInv, NEW x \in Operands
  PROVE  /\ IsPointer(Target(x)) /\ Base(x) = Words(Target(x))
         /\ x \in Objects => Target(x) = To(x, 0, TypeOf(x), FALSE) /\ x \in GlobalNames \cup LocalNames
         /\ x \notin Objects => x \in Pointers /\ Target(x) = val[x]
<1>1. CASE x \in Objects
  <2>1. Target(x) = To(x, 0, TypeOf(x), FALSE) /\ Base(x) = <<Number(Address[x]), Segment(x)>>
    BY <1>1 DEF Target, Base
  <2>2. IsPointer(Target(x)) /\ Words(Target(x)) = Base(x)
    BY <1>1, <2>1, ObjectPointers
  <2>3. x \in GlobalNames \cup LocalNames
    <3>1. x \notin Pointers
      <4>1. x \notin {P, I} /\ \A k : x # <<"vreg", k>>
        BY <1>1, ObjectTypes DEF Objects, GlobalNames, LocalNames, P, I
      <4>2. QED
        BY <4>1 DEF Pointers, PInv, ValuesInv
    <3>2. QED
      BY <3>1 DEF Operands
  <2>4. QED
    BY <1>1, <2>1, <2>2, <2>3
<1>2. CASE x \notin Objects
  <2>1. x \in Pointers /\ Target(x) = val[x] /\ Base(x) = held[x]
    BY <1>2 DEF Operands, Objects, Target, Base
  <2>2. x \in DOMAIN held /\ x \in InSlots /\ x \in DOMAIN val /\ val[x].kind = "ptr"
    BY <2>1 DEF PInv, SlotsInv, Pointers, InSlots
  <2>3. held[x] = Words(val[x])
    BY <2>2 DEF PInv, SlotsInv
  <2>4. IsPointer(val[x])
    BY <2>2, NumberFacts DEF PInv, ValuesInv
  <2>5. QED
    BY <1>2, <2>1, <2>3, <2>4
<1>3. QED
  BY <1>1, <1>2

\* What is stored is what the program means by it.
LEMMA StorableFacts ==
  ASSUME ProgramSuits, PInv, NEW t, NEW x \in Storable(t)
  PROVE  /\ StoredWords(x) = StoredValue(x)
         /\ t.kind = "ptr" => IsPointer(Target(x)) /\ StoredValue(x) = Words(Target(x))
<1>1. \A k : <<"global", k>> \notin Constants /\ <<"vreg", k>> \notin Constants
  BY DEF Constants, Const
<1>2. P \notin Constants /\ I \notin Constants
  BY DEF Constants, Const, P, I
<1>3. (\A y \in GlobalNames : ~IsConst(y)) /\ \A y \in DOMAIN val : ~IsConst(y)
  BY <1>1, <1>2 DEF IsConst, GlobalNames, PInv, ValuesInv
<1>4. CASE t.kind = "ptr"
  <2>1. x \in Operands /\ ~IsConst(x)
    BY <1>3, <1>4 DEF Storable, Operands, Pointers
  <2>2. QED
    BY <2>1, OperandFacts DEF StoredWords, StoredValue
<1>5. CASE t.kind # "ptr"
  <2>1. CASE x \in Constants
    BY <1>5, <2>1 DEF StoredWords, StoredValue, IsConst
  <2>2. CASE x \in InSlots
    <3>1. x \in DOMAIN held /\ x \in DOMAIN val /\ held[x] = Words(val[x])
      BY <2>2 DEF PInv, SlotsInv, InSlots
    <3>2. x \notin Objects
      <4>1. \A o \in Objects : o \notin {P, I} /\ \A k : o # <<"vreg", k>>
        BY ObjectTypes DEF Objects, GlobalNames, LocalNames, P, I
      <4>2. QED
        BY <3>1, <4>1 DEF PInv, ValuesInv
    <3>3. Base(x) = held[x] /\ Target(x) = val[x] /\ ~IsConst(x)
      BY <1>3, <3>1, <3>2 DEF Base, Target
    <3>4. QED
      BY <1>5, <3>1, <3>3 DEF StoredWords, StoredValue
  <2>3. QED
    BY <1>5, <2>1, <2>2 DEF Storable
<1>6. QED
  BY <1>4, <1>5

\* A store to a scalar element, through its address.
LEMMA StoreKeeps ==
  ASSUME ProgramSuits, PInv, NEW target, NEW x \in Storable(target.elem),
         target.obj \in Objects, target.elem \in Scalars,
         ElementAt(TypeOf(target.obj), target.off, target.elem),
         LowerStore(<<Number(Address[target.obj] + target.off), Segment(target.obj)>>, target, x)
  PROVE  PInv'
<1> DEFINE o == target.obj
           off == target.off
           elem == target.elem
           n == IrSize[elem]
           bytes == BytesOf(StoredValue(x), n)
           cell == <<o, off>>
<1>1. /\ TypeOf(o) \in Types /\ off \in Nat /\ n \in {1, 2, 4} /\ n \in Nat
      /\ off + n <= IrSize[TypeOf(o)] /\ IrSize[TypeOf(o)] \in Nat
      /\ IsScalar(elem) /\ (elem.kind = "ptr" => elem = Ptr)
  <2>1. TypeOf(o) \in Types
    BY ObjectTypes
  <2>2. QED
    BY <2>1, ElementsFit, ScalarSizes, Shapes
<1>2. /\ StoredWords(x) = StoredValue(x)
      /\ elem.kind = "ptr" => IsPointer(Target(x)) /\ StoredValue(x) = Words(Target(x))
  BY StorableFacts
<1>3. /\ Counted /\ mem' = Written(<<Number(Address[o] + off), Segment(o)>>, bytes, n)
      /\ objects' = [objects EXCEPT ![o] =
           [j \in DOMAIN objects[o] |-> IF j - off \in 1 .. n THEN bytes[j - off] ELSE objects[o][j]]]
      /\ stored' = IF elem.kind # "ptr" THEN stored ELSE
           [c \in DOMAIN stored \cup {cell} |-> IF c = cell THEN Target(x) ELSE stored[c]]
      /\ held' = [y \in InSlots |-> held[y]]
      /\ UNCHANGED <<ssDerived, val>>
  BY <1>2 DEF LowerStore
<1> HIDE DEF o, off, elem, n, bytes, cell
<1>4. ObjectsInv'
  BY <1>1, <1>3, WritesElement DEF PInv, o
<1>5. steps' \in 0 .. MaxSteps /\ steps' = steps + 1 /\ steps \in Nat
  BY <1>3, IndicesAssumption DEF Counted, PInv, ValuesInv
<1>6. ValuesInv'
  <2>1. DOMAIN val \subseteq {P, I} \cup {<<"vreg", k>> : k \in 0 .. steps' - 1}
    <3>1. \A k \in 0 .. steps - 1 : k \in 0 .. steps' - 1
      BY <1>5
    <3>2. QED
      BY <3>1 DEF PInv, ValuesInv
  <2>2. I \in DOMAIN held'
    <3>1. val[I].bits = 32 /\ I \in DOMAIN held
      BY DEF PInv, ValuesInv, Number32
    <3>2. QED
      BY <1>3, <3>1 DEF InSlots
  <2>3. QED
    BY <1>3, <1>5, <2>1, <2>2 DEF PInv, ValuesInv, IsPointer, IsNumber, P, I
<1>7. SlotsInv'
  <2>1. DOMAIN held' = InSlots /\ val' = val /\ \A y \in InSlots : held'[y] = held[y] /\ y \in DOMAIN held
    BY <1>3 DEF InSlots
  <2>2. Pointers \subseteq InSlots
    BY DEF Pointers, InSlots, PInv, SlotsInv
  <2>3. InSlots \subseteq DOMAIN val /\ \A y \in InSlots : held[y] = Words(val[y])
    BY DEF InSlots, PInv, SlotsInv
  <2>4. Pointers' = Pointers
    BY <2>1 DEF Pointers
  <2>5. (\A y \in DOMAIN held : y \in InSlots \/ "farWord" \notin Features => held[y] = Words(val[y]))'
    BY <2>1, <2>3 DEF Words
  <2>6. QED
    BY <2>1, <2>2, <2>3, <2>4, <2>5 DEF SlotsInv
<1>8. SelectorsInv'
  BY <1>3 DEF PInv, SelectorsInv, Pointers
<1>9. \A u \in Objects : objects'[u] = IF u = o THEN
        [j \in DOMAIN objects[o] |-> IF j - off \in 1 .. n THEN bytes[j - off] ELSE objects[o][j]]
        ELSE objects[u]
  BY <1>3 DEF PInv, ObjectsInv
<1>10. DOMAIN objects[o] = 1 .. IrSize[TypeOf(o)]
  BY DEF PInv, ObjectsInv, o
<1>11. \A c \in DOMAIN stored' : \/ c = cell /\ elem.kind = "ptr" /\ stored'[c] = Target(x)
                                 \/ /\ c \in DOMAIN stored /\ stored'[c] = stored[c]
                                    /\ elem.kind = "ptr" => c # cell
  BY <1>3
<1>12. ASSUME NEW c \in DOMAIN stored'
       PROVE  /\ c = <<c[1], c[2]>> /\ c[1] \in Objects
              /\ ElementAt(TypeOf(c[1]), c[2], Ptr) /\ IsPointer(stored'[c])
              /\ \A j \in 1 .. 4 : objects'[c[1]][c[2] + j] = BytesOf(Words(stored'[c]), 4)[j]
  <2>0. IrSize[Ptr] = 4 /\ IsScalar(Ptr)
    <3>1. Ptr \in Scalars /\ Ptr.bits = 32
      BY DEF Scalars, Ptr
    <3>2. QED
      BY <3>1, ScalarSizes, Shapes
  <2>1. CASE c = cell /\ elem.kind = "ptr" /\ stored'[c] = Target(x)
    <3>1. elem = Ptr /\ n = 4 /\ c[1] = o /\ c[2] = off
      BY <1>1, <2>0, <2>1 DEF cell, n
    <3>2. c = <<c[1], c[2]>> /\ o \in Objects /\ ElementAt(TypeOf(o), off, Ptr) /\ IsPointer(stored'[c])
      BY <1>2, <2>1, <3>1 DEF cell, o, off, elem
    <3>3. bytes = BytesOf(Words(stored'[c]), 4)
      BY <1>2, <2>1, <3>1 DEF bytes
    <3>4. \A j \in 1 .. 4 : objects'[o][off + j] = bytes[j]
      <4> SUFFICES ASSUME NEW j \in 1 .. 4 PROVE objects'[o][off + j] = bytes[j]
        OBVIOUS
      <4>1. off + j \in 1 .. IrSize[TypeOf(o)] /\ (off + j) - off = j /\ j \in 1 .. n
        BY <1>1, <3>1
      <4>2. QED
        BY <1>9, <1>10, <3>2, <4>1
    <3>5. QED
      BY <3>1, <3>2, <3>3, <3>4
  <2>2. CASE c \in DOMAIN stored /\ stored'[c] = stored[c] /\ (elem.kind = "ptr" => c # cell)
    <3>1. /\ c = <<c[1], c[2]>> /\ c[1] \in Objects
          /\ ElementAt(TypeOf(c[1]), c[2], Ptr) /\ IsPointer(stored[c])
          /\ \A j \in 1 .. 4 : objects[c[1]][c[2] + j] = BytesOf(Words(stored[c]), 4)[j]
      BY <2>2 DEF PInv, StoredInv
    <3>2. c[2] \in Nat /\ c[2] + 4 <= IrSize[TypeOf(c[1])]
      BY <2>0, <3>1, ElementsFit, ObjectTypes
    <3>3. c[1] = o => c[2] + 4 <= off \/ off + n <= c[2]
      <4> SUFFICES ASSUME c[1] = o PROVE c[2] + 4 <= off \/ off + n <= c[2]
        OBVIOUS
      <4>1. \/ c[2] = off /\ Ptr = elem
            \/ c[2] + 4 <= off
            \/ off + n <= c[2]
        BY <1>1, <2>0, <3>1, ElementsApart DEF o, off, elem, n
      <4>2. Ptr = elem => elem.kind = "ptr"
        BY DEF Ptr
      <4>3. QED
        BY <2>2, <3>1, <4>1, <4>2 DEF cell
    <3>4. \A j \in 1 .. 4 : objects'[c[1]][c[2] + j] = objects[c[1]][c[2] + j]
      <4> SUFFICES ASSUME NEW j \in 1 .. 4, c[1] = o
                   PROVE  objects'[c[1]][c[2] + j] = objects[c[1]][c[2] + j]
        BY <1>9, <3>1
      <4>1. c[2] + j \in 1 .. IrSize[TypeOf(o)] /\ ~((c[2] + j) - off \in 1 .. n)
        BY <1>1, <3>2, <3>3
      <4> DEFINE k == c[2] + j
      <4>2. k \in DOMAIN objects[o] /\ ~(k - off \in 1 .. n)
        BY <1>10, <4>1
      <4>3. objects'[o] = [i \in DOMAIN objects[o] |->
                             IF i - off \in 1 .. n THEN bytes[i - off] ELSE objects[o][i]]
        BY <1>9, <3>1
      <4> HIDE DEF k
      <4>4. objects'[o][k] = objects[o][k]
        BY <4>2, <4>3
      <4>5. QED
        BY <4>4 DEF k
    <3>5. QED
      BY <2>2, <3>1, <3>4
  <2>3. QED
    BY <1>11, <2>1, <2>2
<1>13. StoredInv'
  BY <1>12 DEF StoredInv, IsPointer, Words
<1>14. QED
  BY <1>4, <1>6, <1>7, <1>8, <1>13 DEF PInv

\* What an index is worth, and what it is scaled to.
LEMMA IndexFacts ==
  ASSUME ProgramSuits, PInv, NEW i \in {Const(n) : n \in Indices} \cup {I, Const(0)}, NEW size \in {1, 2, 4}
  PROVE  IndexValue(i) \in Nat /\ Scaled(i, size) = IndexValue(i) * size
<1>1. CASE i = I
  <2>1. PICK n \in Nat : val[I] = Number32(<<Number(n), Zero>>, 32)
    BY DEF PInv, ValuesInv
  <2>2. I \in InSlots /\ I \in DOMAIN held /\ val[I].words = <<Number(n), Zero>> /\ val[I].kind = "int"
    BY <2>1 DEF PInv, ValuesInv, InSlots, Number32
  <2>3. held[I] = <<Number(n), Zero>>
    BY <2>2 DEF PInv, SlotsInv, Words
  <2>4. n % W \in Nat
    BY SegmentAssumption
  <2>5. held[I][1][2] = n % W /\ val[I].words[1][2] = n % W
    BY <2>2, <2>3 DEF Number
  <2>6. QED
    BY <1>1, <2>4, <2>5, ShiftsAgree DEF IndexValue, Scaled
<1>2. CASE i \in {Const(n) : n \in Indices} \cup {Const(0)}
  <2>1. PICK n \in Nat : i = Const(n)
    BY <1>2, IndicesAssumption
  <2>2. i # I /\ i[2] = n
    BY <2>1 DEF Const, I
  <2>3. QED
    BY <2>2 DEF IndexValue, Scaled
<1>3. QED
  BY <1>1, <1>2

\* Adding to an offset within the segment carries nothing into the selector.
LEMMA AddsWithin ==
  ASSUME NEW a \in Nat, NEW k \in Nat, NEW seg, a + k < W
  PROVE  Added(<<Number(a), seg>>, k) = <<Number(a + k), seg>>
<1>1. a % W = a /\ k % W = k /\ W \in Nat
  <2>1. W \in Nat /\ a \in 0 .. W - 1 /\ k \in 0 .. W - 1
    BY SegmentAssumption
  <2>2. QED
    BY <2>1, Offsets
<1>2. QED
  BY <1>1 DEF Added, Number

\* An instruction that defines a pointer to an element of the same object.
LEMMA GepDefines ==
  ASSUME ProgramSuits, PInv, NEW x \in Operands, NEW off, NEW elem,
         ElementAt(TypeOf(Target(x).obj), off, elem),
         IsScalar(elem) => TypeOf(Target(x).obj).kind # "struct",
         Counted,
         Defines(To(Target(x).obj, off, elem, Target(x).far),
                 <<Number(Address[Target(x).obj] + off), Segment(Target(x).obj)>>),
         ssDerived' = IF x \in LocalNames \cup ssDerived THEN ssDerived \cup {Result} ELSE ssDerived,
         UNCHANGED <<mem, objects, stored>>
  PROVE  PInv'
<1> DEFINE target == Target(x)
           v == To(target.obj, off, elem, target.far)
<1>1. IsPointer(target)
  BY OperandFacts
<1>2. v.kind = "ptr" /\ v.obj = target.obj /\ v.off = off /\ v.elem = elem /\ v.far = target.far
  BY DEF To
<1>3. v = To(v.obj, v.off, v.elem, v.far)
  BY <1>2
<1> HIDE DEF v, target
<1>4. IsPointer(v)
  BY <1>1, <1>2, <1>3 DEF IsPointer, target
<1>5. Words(v) = <<Number(Address[target.obj] + off), Segment(target.obj)>>
  BY <1>2 DEF Words
<1>6. Result \notin ssDerived
  BY ResultIsNew DEF PInv, SelectorsInv, Pointers
<1>7. ~v.far => (Result \in ssDerived' <=> Segment(v.obj) = Ss)
  <2>1. SUFFICES ASSUME ~target.far PROVE x \in LocalNames \cup ssDerived <=> Segment(target.obj) = Ss
    BY <1>2, <1>6
  <2>2. CASE x \in Objects
    <3>1. target.obj = x /\ x \in GlobalNames \cup LocalNames
      BY <2>2, OperandFacts DEF target, To
    <3>2. x \notin ssDerived
      <4>1. \A o \in Objects : o \notin {P, I} /\ \A k : o # <<"vreg", k>>
        BY ObjectTypes DEF Objects, GlobalNames, LocalNames, P, I
      <4>2. QED
        BY <2>2, <4>1 DEF PInv, SelectorsInv, ValuesInv, Pointers
    <3>3. QED
      BY <3>1, <3>2, ObjectTypes DEF Segment, Ds, Ss
  <2>3. CASE x \notin Objects
    <3>1. x \in Pointers /\ target = val[x] /\ x \notin LocalNames
      BY <2>3, OperandFacts DEF target, Objects
    <3>2. QED
      BY <2>1, <3>1 DEF PInv, SelectorsInv
  <2>4. QED
    BY <2>2, <2>3
<1>8. Defines(v, Words(v))
  BY <1>5 DEF v, target
<1>9. ssDerived \subseteq ssDerived' /\ ssDerived' \subseteq ssDerived \cup {Result}
  OBVIOUS
<1>10. QED
  BY <1>2, <1>4, <1>7, <1>8, <1>9, DefinesKeeps

\* getelementptr: into an array, or along the elements.
LEMMA GepKeeps ==
  ASSUME ProgramSuits, PInv, NEW x \in Operands, NEW i \in {Const(n) : n \in Indices} \cup {I}, Gep(x, i)
  PROVE  PInv'
<1> DEFINE target == Target(x)
           t == target.elem
           T == TypeOf(target.obj)
           a == Address[target.obj]
           m == IndexValue(i)
<1>1. /\ IsPointer(target) /\ Base(x) = <<Number(a + target.off), Segment(target.obj)>>
      /\ T \in Types /\ t \in Types /\ ElementAt(T, target.off, t)
      /\ a \in Nat /\ target.off \in Nat /\ IrSize[T] \in Nat /\ a + IrSize[T] <= W
  BY OperandFacts, PointerFacts DEF IsPointer
<1>2. \A size \in {1, 2, 4} : m \in Nat /\ Scaled(i, size) = m * size /\ Scaled(Const(0), size) = 0
  <2>1. IndexValue(Const(0)) = 0
    BY DEF IndexValue, Const, I
  <2>2. QED
    BY <2>1, IndexFacts
<1>3. CASE t.kind = "array" /\ LowerGetElementPtr(x, t, <<Const(0), i>>)
  <2> DEFINE size == IrSize[t.of]
             off == target.off + m * size
             values == [k \in DOMAIN <<Const(0), i>> |-> IndexValue(<<Const(0), i>>[k])]
  <2>1. T = t /\ target.off = 0 /\ t.of \in Scalars /\ t.n \in Nat /\ ~IsScalar(t)
    <3>1. ~IsScalar(t)
      BY <1>3 DEF IsScalar
    <3>2. T = t
      BY <1>1, <3>1, ElementsFit, Shapes
    <3>3. t.of \in Scalars /\ t.n \in Nat
      BY <1>1, <1>3, <3>1, Shapes
    <3>4. t # t.of
      BY <3>1, <3>3, Shapes
    <3>5. target.off = 0
      BY <1>1, <1>3, <3>2, <3>4 DEF ElementAt
    <3>6. QED
      BY <3>1, <3>2, <3>3, <3>5
  <2>2. size \in {1, 2, 4} /\ IrSize[t] = t.n * size /\ ElemSize(t) = size
    BY <1>1, <1>3, <2>1, ScalarSizes, IrSizesDefined, ElemSizeAgrees
  <2>3. values = <<0, m>>
    <3>1. IndexValue(Const(0)) = 0
      BY DEF IndexValue, Const, I
    <3>2. QED
      BY <3>1
  <2>4. IrElement(t, values) = t.of /\ IrOffset(t, values) = m * size
    <3>1. IrElement(t, values) = t.of
      BY <1>3, <2>3 DEF IrElement, IrInner
    <3>2. IrOffset(t, values) = 0 * IrSize[t] + m * size
      BY <1>3, <2>3 DEF IrOffset, IrStep
    <3>3. 0 * IrSize[t] + m * size = m * size
      BY <1>1, <1>2, <2>1, <2>2
    <3>4. QED
      BY <3>1, <3>2, <3>3
  <2>5. /\ Counted /\ off >= 0 /\ off + size <= IrSize[T]
        /\ Defines(To(target.obj, off, t.of, target.far),
                   Added(Added(Base(x), Scaled(Const(0), size)), Scaled(i, size)))
        /\ ssDerived' = IF x \in LocalNames \cup ssDerived THEN ssDerived \cup {Result} ELSE ssDerived
        /\ UNCHANGED <<mem, objects, stored>>
    <3>1. Stepped(Base(x), <<Const(0), i>>, size) =
            Added(Added(Base(x), Scaled(Const(0), size)), Scaled(i, size))
      BY DEF Stepped
    <3> DEFINE at == target.off + IrOffset(t, values)
    <3>2. /\ Counted /\ at >= 0 /\ at + IrSize[IrElement(t, values)] <= IrSize[T]
          /\ Defines(To(target.obj, at, IrElement(t, values), target.far),
                     Stepped(Base(x), <<Const(0), i>>, ElemSize(t)))
          /\ ssDerived' = IF x \in LocalNames \cup ssDerived THEN ssDerived \cup {Result} ELSE ssDerived
          /\ UNCHANGED <<mem, objects, stored>>
      BY <1>3 DEF LowerGetElementPtr
    <3>3. at = off
      BY <2>4
    <3> HIDE DEF values, at, off
    <3>4. QED
      BY <2>2, <2>4, <3>1, <3>2, <3>3
  <2>6. m \in 0 .. t.n - 1 /\ off = m * size /\ a + off < W /\ off \in Nat
    <3> DEFINE n == t.n
    <3>1. n \in Nat /\ m \in Nat /\ size \in {1, 2, 4} /\ m * size + size <= n * size
      BY <1>2, <2>1, <2>2, <2>5
    <3> HIDE DEF n, m, size
    <3>2. m \in 0 .. n - 1 /\ m * size \in Nat
      BY <3>1
    <3>3. off = m * size
      BY <2>1, <3>2
    <3>4. a + off < W
      BY <1>1, <2>1, <2>5, <3>1, <3>2, <3>3, SegmentAssumption
    <3>5. QED
      BY <3>2, <3>3, <3>4 DEF n
  <2>7. ElementAt(T, off, t.of)
    BY <1>3, <2>1, <2>6 DEF ElementAt
  <2>8. Added(Added(Base(x), Scaled(Const(0), size)), Scaled(i, size)) =
          <<Number(a + off), Segment(target.obj)>>
    <3>1. Base(x) = <<Number(a), Segment(target.obj)>> /\ Scaled(Const(0), size) = 0
      BY <1>1, <1>2, <2>1, <2>2
    <3>2. Added(Base(x), 0) = <<Number(a), Segment(target.obj)>>
      <4>1. a + 0 < W /\ a + 0 = a
        <5> HIDE DEF a, off
        <5>1. QED
          BY <1>1, <2>6, SegmentAssumption
      <4>2. QED
        BY <1>1, <3>1, <4>1, AddsWithin
    <3>3. Scaled(i, size) = off
      BY <1>2, <2>2, <2>6
    <3> HIDE DEF off
    <3>4. QED
      BY <1>1, <2>6, <3>1, <3>2, <3>3, AddsWithin
  <2>9. T.kind # "struct"
    BY <1>3, <2>1
  <2> HIDE DEF off, size
  <2>10. QED
    BY <2>5, <2>7, <2>8, <2>9, GepDefines
<1>4. CASE IsScalar(t) /\ x \notin Objects /\ LowerGetElementPtr(x, t, <<i>>)
  <2> DEFINE size == IrSize[t]
             off == target.off + m * size
             values == [k \in DOMAIN <<i>> |-> IndexValue(<<i>>[k])]
  <2>1. t \in Scalars /\ T.kind # "struct" /\ t.kind # "array" /\ t.kind # "struct"
    <3>1. t \in Scalars
      BY <1>1, <1>4, Shapes DEF IsScalar
    <3>2. QED
      BY <1>1, <1>4, <3>1 DEF IsPointer, IsScalar
  <2>2. size \in {1, 2, 4} /\ ElemSize(t) = size
    BY <1>1, <2>1, ScalarSizes, ElemSizeAgrees
  <2>3. values = <<m>>
    OBVIOUS
  <2>4. IrElement(t, values) = t /\ IrOffset(t, values) = m * size
    <3>1. IrOffset(t, values) = m * size + 0
      BY <2>3 DEF IrOffset
    <3>2. m * size + 0 = m * size
      BY <1>2, <2>2
    <3>3. QED
      BY <2>3, <3>1, <3>2 DEF IrElement
  <2>5. /\ Counted /\ off >= 0 /\ off + size <= IrSize[T]
        /\ Defines(To(target.obj, off, t, target.far), Added(Base(x), Scaled(i, size)))
        /\ ssDerived' = IF x \in LocalNames \cup ssDerived THEN ssDerived \cup {Result} ELSE ssDerived
        /\ UNCHANGED <<mem, objects, stored>>
    <3>1. Stepped(Base(x), <<i>>, size) = Added(Base(x), Scaled(i, size))
      BY DEF Stepped
    <3> DEFINE at == target.off + IrOffset(t, values)
    <3>2. /\ Counted /\ at >= 0 /\ at + IrSize[IrElement(t, values)] <= IrSize[T]
          /\ Defines(To(target.obj, at, IrElement(t, values), target.far),
                     Stepped(Base(x), <<i>>, ElemSize(t)))
          /\ ssDerived' = IF x \in LocalNames \cup ssDerived THEN ssDerived \cup {Result} ELSE ssDerived
          /\ UNCHANGED <<mem, objects, stored>>
      BY <1>4 DEF LowerGetElementPtr
    <3>3. at = off
      BY <2>4
    <3> HIDE DEF values, at, off
    <3>4. QED
      BY <2>2, <2>4, <3>1, <3>2, <3>3
  <2>6. off \in Nat /\ a + off < W /\ m * size \in Nat
    <3>1. m * size \in Nat
      BY <1>2, <2>2
    <3>2. QED
      BY <1>1, <2>2, <2>5, <3>1, SegmentAssumption
  <2>7. ElementAt(T, off, t)
    <3>1. CASE target.off = 0 /\ t = T
      <4>1. m * size + size <= size
        <5>1. off = m * size /\ IrSize[T] = size
          BY <2>6, <3>1
        <5> HIDE DEF off, size, m
        <5>2. QED
          BY <2>5, <5>1
      <4>2. m = 0
        <5>1. m \in Nat /\ size \in {1, 2, 4}
          BY <1>2, <2>2
        <5> HIDE DEF m, size
        <5>2. QED
          BY <4>1, <5>1
      <4>3. off = 0
        BY <2>2, <3>1, <4>2
      <4>4. QED
        BY <3>1, <4>3 DEF ElementAt
    <3>2. CASE T.kind = "array" /\ t = T.of /\ \E k \in 0 .. T.n - 1 : target.off = k * IrSize[T.of]
      <4>1. PICK k \in 0 .. T.n - 1 : target.off = k * size
        BY <3>2
      <4>2. T.n \in Nat /\ IrSize[T] = T.n * size
        BY <1>1, <3>2, Shapes, IrSizesDefined DEF IsScalar
      <4> DEFINE n == T.n
      <4>3. /\ n \in Nat /\ k \in Nat /\ m \in Nat /\ size \in {1, 2, 4}
            /\ (k * size + m * size) + size <= n * size
        BY <1>2, <2>2, <2>5, <4>1, <4>2
      <4> HIDE DEF n, m, size
      <4>4. k + m \in 0 .. n - 1 /\ (k + m) * size = k * size + m * size
        BY <4>3
      <4>5. off = (k + m) * size
        BY <4>1, <4>4
      <4>6. QED
        BY <3>2, <4>4, <4>5 DEF ElementAt, n, size
    <3>3. QED
      BY <1>1, <2>1, <3>1, <3>2 DEF ElementAt
  <2>8. Added(Base(x), Scaled(i, size)) = <<Number(a + off), Segment(target.obj)>>
    <3>1. Scaled(i, size) = m * size
      BY <1>2, <2>2
    <3> DEFINE b == a + target.off
               k == m * size
    <3>2. b \in Nat /\ k \in Nat /\ b + k = a + off /\ b + k < W
      BY <1>1, <2>6
    <3> HIDE DEF k, b, off
    <3>3. Added(<<Number(b), Segment(target.obj)>>, k) = <<Number(b + k), Segment(target.obj)>>
      BY <3>2, AddsWithin
    <3>4. QED
      BY <1>1, <3>1, <3>2, <3>3 DEF k, b
  <2> HIDE DEF off, size
  <2>9. QED
    BY <2>1, <2>5, <2>7, <2>8, GepDefines
<1>5. QED
  BY <1>3, <1>4 DEF Gep

\* A store through a pointer or to an object by its name.
LEMMA StoreStepKeeps ==
  ASSUME ProgramSuits, PInv, NEW x \in ToScalars, NEW value, Store(x, value)
  PROVE  PInv'
<1> DEFINE target == Target(x)
<1>1. x \in Operands /\ IsScalar(target.elem)
  BY DEF ToScalars
<1>2. IsPointer(target) /\ Base(x) = <<Number(Address[target.obj] + target.off), Segment(target.obj)>>
  BY <1>1, OperandFacts, PointerFacts
<1>3. target.elem \in Scalars
  BY <1>1, <1>2, PointerFacts, Shapes DEF IsScalar
<1>4. /\ value \in Storable(target.elem)
      /\ LowerStore(<<Number(Address[target.obj] + target.off), Segment(target.obj)>>, target, value)
  BY <1>2 DEF Store
<1>5. target.obj \in Objects /\ ElementAt(TypeOf(target.obj), target.off, target.elem)
  BY <1>2 DEF IsPointer
<1> HIDE DEF target
<1>6. QED
  BY <1>3, <1>4, <1>5, StoreKeeps

\* A store to a constant expression.
LEMMA StoreConstantKeeps ==
  ASSUME ProgramSuits, PInv, NEW g \in GlobalNames, NEW i \in Indices, NEW value, StoreConstant(g, i, value)
  PROVE  PInv'
<1> DEFINE t == TypeOf(g)
           elem == IrElement(t, <<0, i>>)
           off == IrOffset(t, <<0, i>>)
           target == To(g, off, elem, FALSE)
<1>1. /\ ~IsScalar(t) /\ i \in 0 .. (IF t.kind = "array" THEN t.n ELSE Len(t.fields)) - 1
      /\ value \in Storable(elem)
      /\ LowerStore(<<Number(Address[g] + ConstOffset(t, <<0, i>>)), Ds>>, target, value)
  BY DEF StoreConstant
<1>2. i \in Nat /\ g \in Objects /\ t \in Types /\ Segment(g) = Ds
  BY IndicesAssumption, ObjectTypes DEF Objects, Segment
<1>3. t \notin Scalars
  BY <1>1, Shapes
<1>4. CASE t.kind = "array" /\ t.n \in Nat /\ t.of \in Scalars
  <2>1. ConstOffset(t, <<0, i>>) = off /\ off = i * IrSize[t.of]
    BY <1>1, <1>2, <1>4, ConstOffsetAgrees DEF IrStep
  <2>2. elem = t.of
    BY <1>4 DEF IrElement, IrInner
  <2>3. ElementAt(t, off, elem)
    BY <1>1, <1>4, <2>1, <2>2 DEF ElementAt
  <2>4. target.obj = g /\ target.off = off /\ target.elem = elem
    BY DEF To
  <2> HIDE DEF t, elem, off, target
  <2>5. QED
    BY <1>1, <1>2, <1>4, <2>1, <2>2, <2>3, <2>4, StoreKeeps DEF t
<1>5. CASE t.kind = "struct" /\ t.fields \in Seq(Scalars)
  <2>0. i \in 0 .. Len(t.fields) - 1 /\ i < Len(t.fields) /\ i + 1 \in 1 .. Len(t.fields)
    BY <1>1, <1>2, <1>5
  <2>1. ConstOffset(t, <<0, i>>) = off /\ off = Sums(IrSizes(t.fields))[i]
    BY <1>1, <1>2, <1>5, <2>0, ConstOffsetAgrees DEF IrStep
  <2>2. elem = t.fields[i + 1] /\ elem \in Scalars
    BY <1>5, <2>0 DEF IrElement, IrInner
  <2>3. ElementAt(t, off, elem)
    <3>1. (i + 1) - 1 = i
      BY <1>2
    <3>2. QED
      BY <1>5, <2>0, <2>1, <2>2, <3>1 DEF ElementAt
  <2>4. target.obj = g /\ target.off = off /\ target.elem = elem
    BY DEF To
  <2> HIDE DEF t, elem, off, target
  <2>5. QED
    BY <1>1, <1>2, <2>1, <2>2, <2>3, <2>4, StoreKeeps DEF t
<1>6. QED
  BY <1>2, <1>3, <1>4, <1>5, Shapes

\* A pointer that has been in memory is far.
LEMMA FarPointers ==
  ASSUME NEW o, NEW off, NEW elem, NEW far, NEW isFar
  PROVE  [To(o, off, elem, far) EXCEPT !.far = isFar] = To(o, off, elem, isFar)
  BY DEF To

\* A load: of a number, or of a pointer that was stored there.
LEMMA LoadKeeps ==
  ASSUME ProgramSuits, PInv, NEW x \in ToScalars, Load(x)
  PROVE  PInv'
<1> DEFINE target == Target(x)
           o == target.obj
           off == target.off
           elem == target.elem
           bits == elem.bits
           n == bits \div 8
           bytes == [j \in 1 .. n |-> objects[o][off + j]]
           cell == <<o, off>>
           v == IF elem.kind = "int" THEN Number32(WordsOf(bytes, n), bits)
                ELSE [stored[cell] EXCEPT !.far = TRUE]
           words == WordsOf(Fetch(Source(x, bits), n), n)
<1>1. /\ Counted /\ Defines(v, words)
      /\ ssDerived' = IF elem.kind = "ptr" /\ x \in ssDerived THEN ssDerived \cup {Result} ELSE ssDerived
      /\ UNCHANGED <<mem, objects, stored>>
      /\ elem.kind = "ptr" => cell \in DOMAIN stored
      /\ bits = 16 /\ target.far => "farWord" \in Features
  BY DEF Load, LowerLoad
<1>2. x \in Operands /\ IsPointer(target) /\ Base(x) = Words(target) /\ IsScalar(elem)
  BY OperandFacts DEF ToScalars
<1>3. /\ Base(x) = <<Number(Address[o] + off), Segment(o)>>
      /\ o \in Objects /\ off \in Nat /\ off + IrSize[elem] <= IrSize[TypeOf(o)] /\ elem \in Types
  BY <1>2, PointerFacts DEF IsPointer
<1>4. elem \in Scalars
  BY <1>2, <1>3, Shapes DEF IsScalar
<1>5. n \in {1, 2, 4} /\ n \in Nat /\ IrSize[elem] = n /\ elem.kind \in {"int", "ptr"}
  BY <1>4, ScalarSizes, Shapes DEF IsScalar
<1>6. Fetch(Base(x), n) = bytes
  <2> HIDE DEF n, o, off
  <2>1. QED
    BY <1>3, <1>5, FetchesElement, SMTT(30) DEF PInv
<1>7. bits # 16 \/ "farWord" \notin Features => words = WordsOf(bytes, n)
  <2>1. CASE bits # 16 \/ x \in Objects
    BY <1>6, <2>1 DEF Source
  <2>2. CASE bits = 16 /\ x \notin Objects /\ "farWord" \notin Features
    <3>1. ~target.far /\ x \in Pointers /\ target = val[x] /\ Base(x) = held[x]
      BY <1>1, <1>2, <2>2, OperandFacts DEF Base
    <3>2. x \in ssDerived <=> Segment(o) = Ss
      BY <3>1 DEF PInv, SelectorsInv
    <3>3. Segment(o) \in {Ds, Ss} /\ Ds # Ss
      BY DEF Segment, Ds, Ss
    <3>4. Source(x, bits) = <<held[x][1], Segment(o)>>
      BY <2>2, <3>2, <3>3 DEF Source
    <3>5. Source(x, bits) = Base(x)
      BY <1>3, <3>1, <3>4
    <3>6. QED
      BY <1>6, <3>5
  <2>3. QED
    BY <2>1, <2>2
<1> HIDE DEF bytes, words, n, o, off, bits, cell
<1>8. CASE elem.kind = "int"
  <2>1. v = Number32(WordsOf(bytes, n), bits)
    BY <1>8
  <2> HIDE DEF v
  <2>2. v.kind = "int" /\ v.words = WordsOf(bytes, n) /\ v.bits = bits
    BY <2>1 DEF Number32
  <2>3. IsNumber(v) /\ Words(v) = WordsOf(bytes, n)
    BY <2>1, <2>2 DEF IsNumber, Words
  <2>4. ssDerived' = ssDerived
    BY <1>1, <1>8
  <2>5. v.kind # "ptr"
    BY <2>2
  <2>6. v.kind = "ptr" \/ v.bits # 16 \/ "farWord" \notin Features => words = Words(v)
    BY <1>7, <2>2, <2>3
  <2>7. QED
    BY <1>1, <2>3, <2>4, <2>5, <2>6, DefinesKeeps
<1>9. CASE elem.kind = "ptr"
  <2> DEFINE w == stored[cell]
  <2>1. elem = Ptr /\ n = 4 /\ bits = 32
    <3>1. elem = Ptr
      BY <1>4, <1>9, Shapes
    <3>2. QED
      BY <3>1 DEF Ptr, n, bits
  <2>2. cell \in DOMAIN stored /\ cell[1] = o /\ cell[2] = off
    BY <1>1, <1>9 DEF cell
  <2>3. IsPointer(w) /\ \A j \in 1 .. 4 : objects[o][off + j] = BytesOf(Words(w), 4)[j]
    BY <2>2 DEF PInv, StoredInv
  <2>4. v = [w EXCEPT !.far = TRUE]
    BY <1>9
  <2> HIDE DEF w, v
  <2>5. w = To(w.obj, w.off, w.elem, w.far)
    BY <2>3 DEF IsPointer
  <2>6. v = To(w.obj, w.off, w.elem, TRUE)
    <3>1. [To(w.obj, w.off, w.elem, w.far) EXCEPT !.far = TRUE] = To(w.obj, w.off, w.elem, TRUE)
      <4>1. \A far : [To(w.obj, w.off, w.elem, w.far) EXCEPT !.far = far] = To(w.obj, w.off, w.elem, far)
        BY FarPointers
      <4>2. QED
        BY <4>1
    <3>2. QED
      BY <2>4, <2>5, <3>1
  <2>7. /\ v.kind = "ptr" /\ v.obj = w.obj /\ v.off = w.off /\ v.elem = w.elem /\ v.far = TRUE
        /\ v = To(v.obj, v.off, v.elem, v.far)
    BY <2>6 DEF To
  <2>8. IsPointer(v)
    BY <2>3, <2>7 DEF IsPointer
  <2>9. Words(v) = Words(w)
    BY <2>3, <2>7, PointerFacts DEF Words
  <2>10. bytes = BytesOf(Words(w), 4)
    <3> DEFINE b == BytesOf(Words(w), 4)
    <3>1. b = [j \in 1 .. 4 |-> b[j]]
      BY DEF BytesOf
    <3>2. bytes = [j \in 1 .. 4 |-> objects[o][off + j]]
      BY <2>1 DEF bytes
    <3> HIDE DEF b
    <3>3. QED
      BY <2>3, <3>1, <3>2 DEF b
  <2>11. WordsOf(bytes, 4) = Words(w)
    BY <2>3, <2>10, PointerFacts, WordsSurvive
  <2>12. words = Words(v)
    BY <1>7, <2>1, <2>9, <2>11
  <2>13. ssDerived \subseteq ssDerived' /\ ssDerived' \subseteq ssDerived \cup {Result}
    BY <1>1
  <2>14. QED
    BY <1>1, <2>7, <2>8, <2>12, <2>13, DefinesKeeps
<1>10. QED
  BY <1>5, <1>8, <1>9

\* The invariant holds at the start.
LEMMA PInvInit ==
  ASSUME ProgramSuits, Init
  PROVE  PInv
<1>1. PICK o \in OuterNames \cup {g \in GlobalNames : IsScalar(TypeOf(g))}, n \in Indices :
        val = [v \in {P, I} |->
                IF v = I THEN Number32(<<Number(n), Zero>>, 32)
                ELSE To(o, 0, IF IsScalar(TypeOf(o)) THEN TypeOf(o) ELSE TypeOf(o).of, TRUE)]
  BY DEF Init
<1>2. /\ mem = <<>> /\ ssDerived = {} /\ steps = 0
      /\ objects = [u \in Objects |-> [j \in 1 .. IrSize[TypeOf(u)] |-> Old(Address[u] + j - 1)]]
      /\ stored = [u \in {} |-> Zero] /\ held = [v \in {P, I} |-> Words(val[v])]
  BY DEF Init
<1> DEFINE elem == IF IsScalar(TypeOf(o)) THEN TypeOf(o) ELSE TypeOf(o).of
           p == To(o, 0, elem, TRUE)
<1>3. P # I /\ DOMAIN val = {P, I} /\ val[I] = Number32(<<Number(n), Zero>>, 32) /\ val[P] = p
  <2>1. P # I
    BY DEF P, I
  <2> HIDE DEF p
  <2>2. val = [v \in {P, I} |-> IF v = I THEN Number32(<<Number(n), Zero>>, 32) ELSE p]
    BY <1>1 DEF p
  <2>3. QED
    BY <2>1, <2>2
<1>4. o \in Objects /\ TypeOf(o) \in Types
  BY ObjectTypes DEF Objects
<1>5. ElementAt(TypeOf(o), 0, elem) /\ (IsScalar(elem) => TypeOf(o).kind # "struct")
  <2>1. CASE IsScalar(TypeOf(o))
    BY <2>1 DEF ElementAt, IsScalar
  <2>2. CASE ~IsScalar(TypeOf(o)) /\ o \in OuterNames
    <3>1. o \in {<<"outer", 1>>, <<"outer", 2>>} /\ TypeOf(o) \in {Array(2, Int16), Array(2, Int32)}
      BY <2>2, ObjectTypes DEF OuterTypes
    <3>2. TypeOf(o).kind = "array" /\ TypeOf(o).n = 2 /\ elem = TypeOf(o).of /\ elem \in Scalars
      BY <2>2, <3>1 DEF Array, Scalars
    <3>3. 0 = 0 * IrSize[elem] /\ 0 \in 0 .. 2 - 1
      BY <3>2, ScalarSizes
    <3>4. ElementAt(TypeOf(o), 0, elem)
      BY <3>2, <3>3 DEF ElementAt
    <3>5. QED
      BY <3>2, <3>4
  <2>3. QED
    BY <2>1, <2>2
<1>6. p.obj = o /\ p.off = 0 /\ p.elem = elem /\ p.far = TRUE /\ p.kind = "ptr"
  BY DEF To
<1>7. IsPointer(val[P]) /\ val[P].far = TRUE /\ val[P].kind = "ptr"
  <2>1. p = To(p.obj, p.off, p.elem, p.far)
    BY <1>6
  <2> HIDE DEF p, elem
  <2>2. QED
    BY <1>3, <1>4, <1>5, <1>6, <2>1 DEF IsPointer
<1>8. IsNumber(val[I]) /\ val[I].kind = "int" /\ n \in Nat
  BY <1>3, IndicesAssumption DEF IsNumber, Number32
<1> HIDE DEF p, elem
<1>9. ValuesInv
  BY <1>2, <1>3, <1>7, <1>8, IndicesAssumption DEF ValuesInv
<1>10. SlotsInv
  BY <1>2, <1>3 DEF SlotsInv, Pointers
<1>11. SelectorsInv
  BY <1>2, <1>3, <1>7, <1>8 DEF SelectorsInv, Pointers
<1>12. DOMAIN mem = {}
  BY <1>2
<1>13. ObjectsInv
  <2>1. \A u \in Objects : \A j \in 1 .. IrSize[TypeOf(u)] :
          ByteAt(Segment(u), (Address[u] + j) - 1) = objects[u][j]
    <3> SUFFICES ASSUME NEW u \in Objects, NEW j \in 1 .. IrSize[TypeOf(u)]
                 PROVE  ByteAt(Segment(u), (Address[u] + j) - 1) = objects[u][j]
      OBVIOUS
    <3>1. ByteAt(Segment(u), (Address[u] + j) - 1) = Old((Address[u] + j) - 1)
      BY <1>12 DEF ByteAt
    <3>2. objects[u][j] = Old(Address[u] + j - 1)
      BY <1>2
    <3>3. Address[u] + j - 1 = (Address[u] + j) - 1
      BY Addresses, ObjectTypes
    <3>4. QED
      BY <3>1, <3>2, <3>3
  <2>2. DOMAIN objects = Objects /\ \A u \in Objects : DOMAIN objects[u] = 1 .. IrSize[TypeOf(u)]
    BY <1>2
  <2>3. QED
    BY <1>12, <2>1, <2>2 DEF ObjectsInv, MemoryAgrees
<1>14. StoredInv
  BY <1>2 DEF StoredInv
<1>15. QED
  BY <1>9, <1>10, <1>11, <1>13, <1>14 DEF PInv

\* And every step keeps it.
LEMMA PInvInductive ==
  ASSUME ProgramSuits, PInv, [Next]_vars
  PROVE  PInv'
<1>1. ASSUME NEW x \in Operands, NEW i \in {Const(n) : n \in Indices} \cup {I}, Gep(x, i)
      PROVE  PInv'
  BY <1>1, GepKeeps
<1>2. ASSUME NEW x \in ToScalars, NEW value \in Storable(Target(x).elem), Store(x, value)
      PROVE  PInv'
  BY <1>2, StoreStepKeeps
<1>3. ASSUME NEW g \in GlobalNames, NEW i \in Indices, NEW value, StoreConstant(g, i, value)
      PROVE  PInv'
  BY <1>3, StoreConstantKeeps
<1>4. ASSUME NEW x \in ToScalars, Load(x)
      PROVE  PInv'
  BY <1>4, LoadKeeps
<1>5. CASE UNCHANGED vars
  <2>1. /\ mem' = mem /\ held' = held /\ ssDerived' = ssDerived /\ val' = val
        /\ objects' = objects /\ stored' = stored /\ steps' = steps
    BY <1>5 DEF vars
  <2>2. ValuesInv'
    BY <2>1 DEF PInv, ValuesInv, IsPointer, IsNumber
  <2>3. SlotsInv' /\ SelectorsInv'
    BY <2>1 DEF PInv, SlotsInv, SelectorsInv, Pointers, InSlots
  <2>4. ObjectsInv'
    BY <2>1 DEF PInv, ObjectsInv, MemoryAgrees, ByteAt
  <2>5. StoredInv'
    BY <2>1 DEF PInv, StoredInv, IsPointer
  <2>6. QED
    BY <2>2, <2>3, <2>4, <2>5 DEF PInv
<1>6. CASE Finished
  BY <1>5, <1>6 DEF Finished
<1>7. QED
  BY <1>1, <1>2, <1>3, <1>4, <1>5, <1>6 DEF Next

\* What holds of every state that satisfies the invariant.
LEMMA PInvImplies ==
  ASSUME ProgramSuits, PInv
  PROVE  /\ PointersTypeOK /\ AddressesRight /\ MemoryAgrees
         /\ "farWord" \notin Features => LoadsRight
<1>1. \A x \in Pointers : /\ x \in DOMAIN held /\ x \in InSlots /\ held[x] = Words(val[x])
                          /\ IsPointer(val[x])
  BY NumberFacts DEF PInv, SlotsInv, ValuesInv, Pointers, InSlots
<1>2. PointersTypeOK
  BY <1>1, PointerFacts DEF PointersTypeOK, PInv, ValuesInv, SlotsInv, SelectorsInv, ObjectsInv
<1>3. AddressesRight
  BY <1>1 DEF AddressesRight, PInv, SelectorsInv
<1>4. "farWord" \notin Features => LoadsRight
  BY DEF LoadsRight, PInv, SlotsInv
<1>5. QED
  BY <1>2, <1>3, <1>4 DEF PInv, ObjectsInv

-----------------------------------------------------------------------------
(* The theorems *)

\* In a program whose types the sizes are right for, the invariant always holds.
THEOREM PInvAlways ==
  ASSUME ProgramSuits
  PROVE  Spec => []PInv
<1>1. Init => PInv
  BY PInvInit
<1>2. PInv /\ [Next]_vars => PInv'
  BY PInvInductive
<1>3. QED
  BY <1>1, <1>2, PTL DEF Spec

\* lowerGetElementPtr, lowerLoad: however long the chain of GEPs, loads and stores,
\* every pointer is an offset and one of the two selectors; the `adc dx, 0` never
\* carries into a selector.
THEOREM PointersTypeCorrect ==
  ASSUME ProgramSuits
  PROVE  Spec => []PointersTypeOK
<1>1. PInv => PointersTypeOK
  BY PInvImplies
<1>2. QED
  BY <1>1, PInvAlways, PTL

\* lowerGetElementPtr, computeGEPByteOffset: every pointer is the one the program
\* computes with the real sizes, and ssDerivedPtrVregs says of every pointer that is
\* made in the function whether it is into the stack.
THEOREM PointersAreRight ==
  ASSUME ProgramSuits
  PROVE  Spec => []AddressesRight
<1>1. PInv => AddressesRight
  BY PInvImplies
<1>2. QED
  BY <1>1, PInvAlways, PTL

\* lowerStore, the layout of bss and of the frame: no two objects overlap, and a
\* store changes the object it is to and no other.
THEOREM MemoryIsRight ==
  ASSUME ProgramSuits
  PROVE  Spec => []MemoryAgrees
<1>1. PInv => MemoryAgrees
  BY PInvImplies
<1>2. QED
  BY <1>1, PInvAlways, PTL

\* lowerLoad: what is loaded is what was last stored there, when no word is loaded
\* through a far pointer (then it is not: the run far_word).
THEOREM LoadsAreRight ==
  ASSUME ProgramSuits, "farWord" \notin Features
  PROVE  Spec => []LoadsRight
<1>1. PInv => LoadsRight
  BY PInvImplies
<1>2. QED
  BY <1>1, PInvAlways, PTL
=============================================================================
