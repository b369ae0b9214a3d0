----------------------------- MODULE Pointers -----------------------------
(***************************************************************************)
(* Memory through far pointers: how many bytes globals and allocas get,    *)
(* what getelementptr adds to an address, as an instruction and as a       *)
(* constant expression, and which segment loads and stores go through.     *)
(* The sizes are computed in five places, from types that have lost more   *)
(* or less of their structure on the way.                                  *)
(*                                                                         *)
(* A behaviour is one straight piece of a function: GEPs, stores and loads *)
(* on global and local objects and on the caller's object that a parameter *)
(* points to, as clang writes them, every access with the type of what is  *)
(* accessed.  A word is a kind and a number; a byte is a half of a word.   *)
(***************************************************************************)
EXTENDS Integers, Sequences, FiniteSetsExt

CONSTANTS
  W,          (* the addresses of a segment; offsets are modulo W, for 2^16  *)
  FrameTop,   (* bp, less the saved registers: the end of the allocas        *)
  Types,      (* the types of the program and of what they consist of        *)
  Globals,    (* the types of the global objects, in the order of the module *)
  Locals,     (* the types of the allocas, in order                          *)
  Indices,    (* the indices used                                            *)
  Features,   (* {"farWord"}: words are loaded through far pointers, too     *)
  MaxSteps    (* bound on the instructions of a program                      *)

Int8 == [kind |-> "int", bits |-> 8]
Int16 == [kind |-> "int", bits |-> 16]
Int32 == [kind |-> "int", bits |-> 32]
Ptr == [kind |-> "ptr", bits |-> 32]
Array(n, t) == [kind |-> "array", n |-> n, of |-> t]
Struct(fields) == [kind |-> "struct", fields |-> fields]
IsScalar(t) == t.kind \in {"int", "ptr"}

ASSUME FeaturesAssumption == Features \subseteq {"farWord"}
ASSUME IndicesAssumption == Indices \subseteq Nat /\ MaxSteps \in Nat
ASSUME SegmentAssumption == W \in Nat \ {0} /\ FrameTop \in Nat

\* What the first n of a sequence of sizes add up to.
Sums(sizes) ==
  LET sum[n \in 0 .. Len(sizes)] == IF n = 0 THEN 0 ELSE sum[n - 1] + sizes[n]
  IN sum
Total(sizes) == Sums(sizes)[Len(sizes)]

-----------------------------------------------------------------------------
(* What a type means *)

IrSize[t \in Types] ==
  CASE t.kind = "array"  -> t.n * IrSize[t.of]
    [] t.kind = "struct" -> Total([f \in DOMAIN t.fields |-> IrSize[t.fields[f]]])
    [] OTHER             -> t.bits \div 8
IrSizes(fields) == [f \in DOMAIN fields |-> IrSize[fields[f]]]

\* One index into an array or a structure; and all indices but the first, which
\* steps over whole objects of the type.
IrInner(t, i) == IF t.kind = "array" THEN t.of ELSE t.fields[i + 1]
IrStep(t, i) ==
  IF t.kind = "array" THEN i * IrSize[t.of] ELSE Sums(IrSizes(t.fields))[i]

IrOffset(t, idx) ==
  idx[1] * IrSize[t] + IF Len(idx) = 1 THEN 0 ELSE IrStep(t, idx[2])
IrElement(t, idx) == IF Len(idx) = 1 THEN t ELSE IrInner(t, idx[2])

-----------------------------------------------------------------------------
(* What the code makes of it *)

PointerBytes == 4
TypeSizeBytes[t \in Types] ==
  CASE t.kind = "int"    -> t.bits \div 8
    [] t.kind = "ptr"    -> PointerBytes
    [] t.kind = "array"  -> t.n * TypeSizeBytes[t.of]
    [] OTHER             -> Total([f \in DOMAIN t.fields |-> TypeSizeBytes[t.fields[f]]])

\* Seeded fault: the bytes of an array are counted as its elements.
GlobalBytesUnscaled(t) ==
  CASE t.kind = "int"   -> Max({t.bits \div 8, 2})
    [] t.kind = "ptr"   -> 4
    [] t.kind = "array" -> t.n
    [] OTHER            -> 2

\* Of a global without a value, in the bss segment.
GlobalBytes(t) ==
  CASE t.kind = "int"   -> Max({t.bits \div 8, 2})
    [] t.kind = "ptr"   -> 4
    [] t.kind = "array" -> t.n * (IF t.of.kind = "int" THEN t.of.bits \div 8 ELSE 4)
    [] OTHER            -> 2

\* Of an alloca: only the bits of integers are read from the type.
AllocaBytes(t) ==
  CASE t.kind = "int"   -> Max({t.bits \div 8, 2})
    [] t.kind = "array" -> Max({t.n * (IF t.of.kind = "int" THEN t.of.bits ELSE 8), 16}) \div 8
    [] OTHER            -> 4

\* Seeded fault: a pointer is thought to be a word.
ElemSizeNear(t) ==
  LET e == IF t.kind = "array" THEN t.of ELSE t
  IN IF e.kind = "int" THEN e.bits \div 8 ELSE IF e.kind = "ptr" THEN 2 ELSE 1

\* elemSize of lowerGetElementPtr: the one size all indices are scaled with.
ElemSize(t) ==
  LET e == IF t.kind = "array" THEN t.of ELSE t
  IN IF e.kind = "int" THEN e.bits \div 8 ELSE IF e.kind = "ptr" THEN 4 ELSE 1

\* computeGEPByteOffset, which reads the type again from the text of the constant:
\* of an array only when its elements are scalar.
Known(t) == t.kind # "array" \/ IsScalar(t.of)
SourceSize(t) == IF Known(t) THEN TypeSizeBytes[t] ELSE 0

FieldOffset(t, i) == Sums([f \in DOMAIN t.fields |-> TypeSizeBytes[t.fields[f]]])[i]

\* Seeded fault: the field itself is counted as in front of it.
ConstOffsetLate(t, idx) ==
  idx[1] * SourceSize(t) +
    CASE Len(idx) = 1 \/ ~Known(t) -> 0
      [] t.kind = "array"  -> idx[2] * TypeSizeBytes[t.of]
      [] t.kind = "struct" -> FieldOffset(t, idx[2] + 1)

ConstOffset(t, idx) ==
  idx[1] * SourceSize(t) +
    CASE Len(idx) = 1 \/ ~Known(t) -> 0
      [] t.kind = "array"  -> idx[2] * TypeSizeBytes[t.of]
      [] t.kind = "struct" -> FieldOffset(t, idx[2])

-----------------------------------------------------------------------------
(* Words, bytes and objects *)

Number(n) == <<"n", n % W>>
Zero == Number(0)
Const(n) == <<"const", n>>        \* a constant below 256
ZeroByte == <<Zero, "zero">>

LowByte(w) == IF w = Zero THEN ZeroByte ELSE IF Len(w) = 3 THEN w[2] ELSE <<w, "low">>
HighByte(w) ==
  IF w = Zero \/ w[1] = "const" THEN ZeroByte
  ELSE IF Len(w) = 3 THEN w[3] ELSE <<w, "high">>

\* The word of two bytes, which may come from two words.
Join(low, high) ==
  IF LowByte(low[1]) = low /\ HighByte(low[1]) = high THEN low[1]
  ELSE <<"mixed", low, high>>

\* The first n bytes of two words, and the words of n bytes.
BytesOf(words, n) ==
  LET bytes == <<LowByte(words[1]), HighByte(words[1]), LowByte(words[2]), HighByte(words[2])>>
  IN [j \in 1 .. n |-> bytes[j]]
WordsOf(bytes, n) ==
  CASE n = 1 -> <<Join(bytes[1], ZeroByte), Zero>>
    [] n = 2 -> <<Join(bytes[1], bytes[2]), Zero>>
    [] n = 4 -> <<Join(bytes[1], bytes[2]), Join(bytes[3], bytes[4])>>

Ds == <<"ds", 0>>
Ss == <<"ss", 0>>

GlobalNames == {<<"global", k>> : k \in DOMAIN Globals}
LocalNames == {<<"local", k>> : k \in DOMAIN Locals}
OuterTypes == <<Array(2, Int16), Array(2, Int32)>>
OuterNames == {<<"outer", k>> : k \in DOMAIN OuterTypes}
Objects == GlobalNames \cup LocalNames \cup OuterNames

TypeOf(o) ==
  CASE o \in GlobalNames -> Globals[o[2]]
    [] o \in LocalNames  -> Locals[o[2]]
    [] o \in OuterNames  -> OuterTypes[o[2]]

P == <<"param", 1>>
I == <<"param", 2>>

Segment(o) == IF o \in GlobalNames THEN Ds ELSE Ss
Address == [o \in Objects |->
  CASE o \in GlobalNames -> 4 + Sums([k \in DOMAIN Globals |-> GlobalBytes(Globals[k])])[o[2] - 1]
    [] o \in LocalNames  -> FrameTop - Sums([k \in DOMAIN Locals |-> AllocaBytes(Locals[k])])[o[2]]
    [] o \in OuterNames  -> FrameTop + 8 + 4 * o[2]]

VARIABLES
  mem,        \* the bytes written to the segments
  held,       \* what the slot of a vreg holds, or the register of a 16-bit one
  ssDerived,  \* ssDerivedPtrVregs
  val,        \* auxiliary: the value of each vreg in the program
  objects,    \* auxiliary: the bytes of the objects in the program
  stored,     \* auxiliary: the pointers the objects contain
  steps

vars == <<mem, held, ssDerived, val, objects, stored, steps>>

\* A pointer into an object, to an element of a type; far, if another function or
\* memory had it.
To(o, off, elem, far) == [kind |-> "ptr", obj |-> o, off |-> off, elem |-> elem, far |-> far]
Number32(words, bits) == [kind |-> "int", words |-> words, bits |-> bits]

Words(v) ==
  IF v.kind = "int" THEN v.words ELSE <<Number(Address[v.obj] + v.off), Segment(v.obj)>>

Cells == {Ds, Ss} \X (0 .. W - 1)
Old(a) == <<<<"old", a>>, "low">>
ByteAt(seg, a) == IF <<seg, a>> \in DOMAIN mem THEN mem[<<seg, a>>] ELSE Old(a)

\* P points to the caller's object or to a global, I is a number.
Init ==
  /\ mem = <<>>
  /\ objects = [o \in Objects |-> [j \in 1 .. IrSize[TypeOf(o)] |-> Old(Address[o] + j - 1)]]
  /\ stored = [o \in {} |-> Zero]
  /\ \E o \in OuterNames \cup {g \in GlobalNames : IsScalar(TypeOf(g))}, n \in Indices :
       val = [v \in {P, I} |->
                IF v = I THEN Number32(<<Number(n), Zero>>, 32)
                ELSE To(o, 0, IF IsScalar(TypeOf(o)) THEN TypeOf(o) ELSE TypeOf(o).of, TRUE)]
  /\ held = [v \in {P, I} |-> Words(val[v])]
  /\ ssDerived = {}
  /\ steps = 0

\* What the next instruction defines.
Result == <<"vreg", steps>>

\* The result of a word load is in a register, which later instructions reuse.
InSlots == {x \in DOMAIN held : val[x].kind = "ptr" \/ val[x].bits # 16}

Defines(v, words) ==
  /\ val' = [x \in DOMAIN val \cup {Result} |-> IF x = Result THEN v ELSE val[x]]
  /\ held' = [x \in InSlots \cup {Result} |-> IF x = Result THEN words ELSE held[x]]

Counted == steps < MaxSteps /\ steps' = steps + 1

-----------------------------------------------------------------------------
(* getelementptr *)

\* The pointer operands: an object by its name, or a vreg.
Pointers == {x \in DOMAIN val : val[x].kind = "ptr"}
Operands == GlobalNames \cup LocalNames \cup Pointers
Target(x) == IF x \in Objects THEN To(x, 0, TypeOf(x), FALSE) ELSE val[x]

\* lea of an object, or the words of the slot.
Base(x) == IF x \in Objects THEN <<Number(Address[x]), Segment(x)>> ELSE held[x]

\* Seeded fault: `stc` in front of the `adc`.
AddedCarries(words, n) ==
  <<Number(words[1][2] + (n % W)), <<words[2][1], words[2][2] + 1>>>>

\* `add ax, n; adc dx, 0`.
Added(words, n) ==
  LET sum == words[1][2] + (n % W)
  IN <<Number(sum), IF sum >= W THEN <<words[2][1], words[2][2] + 1>> ELSE words[2]>>

\* A constant is multiplied; the low word of a variable is shifted, as often as
\* the size can be halved.
ShiftedBy(size) == Max({p \in {1, 2, 4, 8} : p <= size})
Scaled(i, size) == IF i = I THEN held[I][1][2] * ShiftedBy(size) ELSE i[2] * size
\* One index after the other.
Stepped(words, idx, size) ==
  LET first == Added(words, Scaled(idx[1], size))
  IN IF Len(idx) = 1 THEN first ELSE Added(first, Scaled(idx[2], size))
IndexValue(i) == IF i = I THEN val[I].words[1][2] ELSE i[2]

LowerGetElementPtr(x, t, idx) ==
  LET target == Target(x)
      values == [k \in DOMAIN idx |-> IndexValue(idx[k])]
      off == target.off + IrOffset(t, values)
      elem == IrElement(t, values)
      size == ElemSize(t)
  IN /\ Counted
     /\ off >= 0 /\ off + IrSize[elem] <= IrSize[TypeOf(target.obj)]
     /\ Defines(To(target.obj, off, elem, target.far),
                Stepped(Base(x), idx, size))
     /\ ssDerived' = IF x \in LocalNames \cup ssDerived THEN ssDerived \cup {Result} ELSE ssDerived
     /\ UNCHANGED <<mem, objects, stored>>

\* The GEPs written for a pointer: into an array, or along the elements.
Gep(x, i) ==
  LET elem == Target(x).elem
  IN \/ elem.kind = "array" /\ LowerGetElementPtr(x, elem, <<Const(0), i>>)
     \/ IsScalar(elem) /\ x \notin Objects /\ LowerGetElementPtr(x, elem, <<i>>)

-----------------------------------------------------------------------------
(* store and load *)

IsAddress(words) == words[1][1] = "n" /\ words[2] \in {Ds, Ss}

Fetch(words, n) ==
  [j \in 1 .. n |-> IF IsAddress(words) THEN ByteAt(words[2], ((words[1][2] + j) - 1) % W)
                    ELSE <<<<"fault", 0>>, "low">>]

Written(words, bytes, n) ==
  LET cells == {<<words[2], (words[1][2] + j) % W>> : j \in 0 .. n - 1}
  IN IF ~IsAddress(words) THEN mem
     ELSE [c \in DOMAIN mem \cup cells |->
             IF c \in cells THEN bytes[((c[2] - words[1][2]) % W) + 1] ELSE mem[c]]

\* One constant; its high word is zero.
Constants == {Const(1)}

\* What is stored: constants, what slots hold, the addresses of globals.
Storable(type) ==
  IF type.kind = "ptr"
    THEN Pointers \cup GlobalNames
    ELSE Constants \cup {x \in InSlots \ Pointers : val[x].bits = type.bits}

IsConst(x) == x \in Constants
StoredWords(x) == IF IsConst(x) THEN <<x, Zero>> ELSE Base(x)
StoredValue(x) == IF IsConst(x) THEN <<x, Zero>> ELSE Words(Target(x))

LowerStore(place, target, x) ==
  LET n == IrSize[target.elem]
      bytes == BytesOf(StoredValue(x), n)
      cell == <<target.obj, target.off>>
  IN /\ Counted
     /\ mem' = Written(place, BytesOf(StoredWords(x), n), n)
     /\ objects' = [objects EXCEPT ![target.obj] =
          [j \in DOMAIN @ |-> IF j - target.off \in 1 .. n THEN bytes[j - target.off] ELSE @[j]]]
     /\ stored' = IF target.elem.kind # "ptr" THEN stored ELSE
          [c \in DOMAIN stored \cup {cell} |-> IF c = cell THEN Target(x) ELSE stored[c]]
     /\ held' = [v \in InSlots |-> held[v]]
     /\ UNCHANGED <<ssDerived, val>>

ToScalars == {x \in Operands : IsScalar(Target(x).elem)}

Store(x, value) ==
  /\ value \in Storable(Target(x).elem)
  /\ LowerStore(Base(x), Target(x), value)

\* To a constant expression: `lea bx, [g]; add bx, offset`, in ds.
StoreConstant(g, i, value) ==
  LET t == TypeOf(g)
      idx == <<0, i>>
      off == IrOffset(t, idx)
  IN /\ ~IsScalar(t) /\ i \in 0 .. (IF t.kind = "array" THEN t.n ELSE Len(t.fields)) - 1
     /\ value \in Storable(IrElement(t, idx))
     /\ LowerStore(<<Number(Address[g] + ConstOffset(t, idx)), Ds>>,
                   To(g, off, IrElement(t, idx), FALSE), value)

\* Seeded fault: ds unless the pointer is known to point into the stack.
SourceNear(x, bits) ==
  IF x \notin Objects THEN <<held[x][1], IF x \in ssDerived THEN Ss ELSE Ds>> ELSE Base(x)

\* A word is read through ds or ss although es is loaded.
Source(x, bits) ==
  IF bits = 16 /\ x \notin Objects
    THEN <<held[x][1], IF x \in ssDerived THEN Ss ELSE Ds>> ELSE Base(x)

LowerLoad(x) ==
  LET target == Target(x)
      bits == target.elem.bits
      n == bits \div 8
      bytes == [j \in 1 .. n |-> objects[target.obj][target.off + j]]
      cell == <<target.obj, target.off>>
  IN /\ Counted
     /\ Defines(IF target.elem.kind = "int" THEN Number32(WordsOf(bytes, n), bits)
                   ELSE [stored[cell] EXCEPT !.far = TRUE],
                WordsOf(Fetch(Source(x, bits), n), n))
     /\ ssDerived' = IF target.elem.kind = "ptr" /\ x \in ssDerived
                       THEN ssDerived \cup {Result} ELSE ssDerived
     /\ UNCHANGED <<mem, objects, stored>>

\* Not loaded: pointers nobody stored; words through far pointers, unless the
\* instance has "farWord"; and bytes and words of a global by its name, which the
\* code leaves in al and bx while the result is looked up elsewhere.
Load(x) ==
  LET target == Target(x) IN
  /\ target.elem.kind = "ptr" => <<target.obj, target.off>> \in DOMAIN stored
  /\ target.elem.bits = 16 /\ target.far => "farWord" \in Features
  /\ target.elem.bits < 32 => x \notin GlobalNames
  /\ LowerLoad(x)

Finished == steps = MaxSteps /\ UNCHANGED vars

Next ==
  \/ \E x \in Operands, i \in {Const(n) : n \in Indices} \cup {I} : Gep(x, i)
  \/ \E x \in ToScalars : \E value \in Storable(Target(x).elem) : Store(x, value)
  \/ \E g \in GlobalNames, i \in Indices :
       \E value \in Storable(Int32) \cup Storable(Ptr) : StoreConstant(g, i, value)
  \/ \E x \in ToScalars : Load(x)
  \/ Finished

Spec == Init /\ [][Next]_vars

-----------------------------------------------------------------------------
(* Properties *)

\* Pointers that are held are an offset and one of the two selectors: no carry
\* has gone into a selector (the `adc dx, 0` of lowerGetElementPtr).
PointersTypeOK ==
  /\ steps \in 0 .. MaxSteps
  /\ DOMAIN mem \subseteq Cells /\ DOMAIN objects = Objects
  /\ DOMAIN held \subseteq DOMAIN val /\ ssDerived \subseteq Pointers
  /\ \A x \in Pointers : IsAddress(held[x])

\* After any chain of GEPs, loads and stores of pointers, every pointer is what the
\* program computed with the real sizes of the types; and the pointers made from
\* allocas, and only they, are known to point into the stack, unless they come
\* from elsewhere.
AddressesRight ==
  \A x \in Pointers :
    /\ held[x] = Words(val[x])
    /\ ~val[x].far => (x \in ssDerived <=> Segment(val[x].obj) = Ss)

\* What is loaded is what the program last stored there, whichever name or pointer
\* the store and the load went through; a byte comes zero-extended.
LoadsRight == \A x \in DOMAIN held \ Pointers : held[x] = Words(val[x])

\* Objects do not overlap, and what is stored to one, through a pointer, by its name
\* or by a constant expression, arrives there and nowhere else.
MemoryAgrees ==
  \A o \in Objects : \A j \in DOMAIN objects[o] :
    ByteAt(Segment(o), (Address[o] + j) - 1) = objects[o][j]
-----------------------------------------------------------------------------
(* What the sizes are right for: types that nest no deeper than a scalar in an  *)
(* array or a structure, no structure in front of another global or on the      *)
(* stack, no array of pointers on the stack, and segments that hold the objects *)

Scalars == {Int8, Int16, Int32, Ptr}

Flat(t) ==
  \/ t \in Scalars
  \/ t.kind = "array" /\ t = Array(t.n, t.of) /\ t.n \in Nat /\ t.of \in Scalars
  \/ t.kind = "struct" /\ t = Struct(t.fields) /\ t.fields \in Seq(Scalars)

OnStack(t) == t \in Scalars \/ (t.kind = "array" /\ t.of.kind = "int")

ProgramSuits ==
  /\ Scalars \subseteq Types /\ \A t \in Types : Flat(t)
  /\ Globals \in Seq(Types) /\ Locals \in Seq(Types) /\ OuterTypes \in Seq(Types)
  /\ \A k \in DOMAIN Globals : Globals[k].kind = "struct" => k = Len(Globals)
  /\ \A k \in DOMAIN Locals : OnStack(Locals[k])
  /\ \A o \in Objects : Address[o] >= 0 /\ Address[o] + IrSize[TypeOf(o)] <= W
=============================================================================
