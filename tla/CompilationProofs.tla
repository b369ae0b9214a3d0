------------------------- MODULE CompilationProofs -------------------------
(***************************************************************************)
(* Machine-checked proofs about Execution, for every set of well-formed    *)
(* functions: that analysis, layout and handlers use the frame as its      *)
(* class means it to be used, and that the temp space the analysis         *)
(* estimates suffices.  What is proved of StackFrame then holds of every   *)
(* compiled function.  The second half is about the code that the handlers *)
(* emit: it keeps to the function's own cells.                             *)
(***************************************************************************)
EXTENDS Execution, StackFrameProofs, NaturalSets, FiniteSetTheorems

-----------------------------------------------------------------------------
(* Sequences of instructions *)

\* What is picked is kept in a sequence, and nothing is lost.
LEMMA PickedMembers ==
  ASSUME NEW R, NEW seq \in Seq(R), NEW keep
  PROVE  /\ Picked(seq, keep) \in Seq({seq[n] : n \in {m \in 1 .. Len(seq) : m \in keep}})
         /\ \A n \in 1 .. Len(seq) :
              n \in keep => \E k \in 1 .. Len(Picked(seq, keep)) : Picked(seq, keep)[k] = seq[n]
<1> DEFINE L == Len(seq)
           kept == {seq[n] : n \in {m \in 1 .. L : m \in keep}}
           D == Seq(kept)
           Is(f) == f = [n \in 0 .. L |->
                           IF n = 0 THEN <<>>
                           ELSE IF n \in keep THEN Append(f[n - 1], seq[n]) ELSE f[n - 1]]
           Kept(n, x) == IF n \in keep THEN Append(x, seq[n]) ELSE x
           g == [n \in 1 .. L |-> [x \in D |-> Kept(n, x)]]
<1>1. L \in Nat /\ <<>> \in D
  OBVIOUS
<1>2. ASSUME NEW n \in 1 .. L, NEW x \in D
      PROVE  Kept(n, x) \in D
  <2>1. CASE n \in keep
    <3>1. seq[n] \in kept
      BY <2>1
    <3> HIDE DEF kept
    <3>2. QED
      BY <2>1, <3>1
  <2>2. QED
    BY <2>1
<1>3. g \in StepMaps(L, D)
  <2> HIDE DEF D, L, Kept
  <2>1. QED
    BY <1>2 DEF StepMaps
<1>4. PICK f : Recursion(f, L, D, <<>>, g)
  <2> HIDE DEF D, g, L
  <2>1. QED
    BY <1>1, <1>3, RecursionSolved
<1>5. Is(f)
  <2>1. ASSUME NEW n \in 1 .. L
        PROVE  f[n] = Kept(n, f[n - 1])
    <3> HIDE DEF D, Kept, L
    <3>1. n - 1 \in 0 .. L
      BY <1>1
    <3>2. f[n] = g[n][f[n - 1]] /\ f[n - 1] \in D
      BY <1>4, <3>1 DEF Recursion
    <3>3. QED
      BY <3>2
  <2> HIDE DEF D, g, L
  <2>2. f = [n \in 0 .. L |-> f[n]] /\ f[0] = <<>> /\ \A n \in 0 .. L : n = 0 \/ n \in 1 .. L
    BY <1>1, <1>4 DEF Recursion
  <2>3. QED
    BY <2>1, <2>2
<1>6. Picked(seq, keep) = (CHOOSE h : Is(h))[L]
  BY DEF Picked
<1> DEFINE c == CHOOSE h : Is(h)
<1>7. Is(c)
  <2> HIDE DEF Is
  <2>1. QED
    BY <1>5
<1> HIDE DEF c
<1>8. c[0] = <<>>
  BY <1>1, <1>7
<1> DEFINE Has(x, n) == \A m \in 1 .. n : m \in keep => \E k \in 1 .. Len(x) : x[k] = seq[m]
           Good(n) == c[n] \in D /\ Has(c[n], n)
           e == [n \in 0 .. L |-> Good(n)]
<1>9. ASSUME NEW n \in 1 .. L, Good(n - 1) PROVE Good(n)
  <2>1. c[n] = Kept(n, c[n - 1])
    <3> HIDE DEF L
    <3>1. n \in 0 .. L /\ n # 0
      BY <1>1
    <3>2. QED
      BY <1>7, <3>1
  <2>2. c[n] \in D
    <3> HIDE DEF D, Kept, Has
    <3>1. QED
      BY <1>2, <1>9, <2>1
  <2>3. ASSUME NEW m \in 1 .. n, m \in keep PROVE \E k \in 1 .. Len(c[n]) : c[n][k] = seq[m]
    <3> DEFINE x == c[n - 1]
    <3>1. x \in Seq(kept) /\ Len(x) \in Nat
      BY <1>9
    <3>2. \/ c[n] = x /\ n \notin keep
          \/ /\ c[n] = Append(x, seq[n]) /\ n \in keep /\ Len(c[n]) = Len(x) + 1
             /\ c[n][Len(x) + 1] = seq[n] /\ \A k \in 1 .. Len(x) : c[n][k] = x[k]
      <4> HIDE DEF kept, L
      <4>1. QED
        BY <2>1, <3>1
    <3>3. n \in Nat /\ (m = n \/ m \in 1 .. n - 1)
      BY <1>1
    <3>4. CASE m = n
      <4>1. Len(x) + 1 \in 1 .. Len(c[n])
        BY <2>3, <3>1, <3>2, <3>4
      <4>2. QED
        BY <2>3, <3>2, <3>4, <4>1
    <3>5. CASE m \in 1 .. n - 1
      <4>1. PICK k \in 1 .. Len(x) : x[k] = seq[m]
        BY <1>9, <2>3, <3>5
      <4> HIDE DEF x
      <4>2. k \in 1 .. Len(c[n]) /\ c[n][k] = x[k]
        BY <3>1, <3>2
      <4>3. QED
        BY <4>1, <4>2
    <3>6. QED
      BY <3>3, <3>4, <3>5
  <2>4. QED
    BY <2>2, <2>3
<1>10. Good(L)
  <2> DEFINE same == [n \in 0 .. L |-> n]
             G == {n \in 0 .. L : Good(n)}
  <2> HIDE DEF Good, L
  <2>1. Good(0)
    BY <1>1, <1>8 DEF Good
  <2>2. same[0] \in G
    BY <1>1, <2>1
  <2>3. ASSUME NEW n \in 1 .. L, same[n - 1] \in G PROVE same[n] \in G
    <3>1. n - 1 \in 0 .. L /\ n \in 0 .. L
      BY <1>1
    <3>2. Good(n)
      BY <1>9, <2>3, <3>1
    <3>3. QED
      BY <3>1, <3>2
  <2> HIDE DEF same, G
  <2>4. \A n \in 0 .. L : same[n] \in G
    BY <1>1, <2>2, <2>3, ValuesUpTo
  <2>5. QED
    BY <1>1, <2>4 DEF same, G
<1>11. QED
  BY <1>6, <1>10 DEF c

\* Choosing by opcode is picking the positions that have it.
LEMMA WithOpcodePicks ==
  ASSUME NEW R, NEW seq \in Seq(R), NEW op
  PROVE  WithOpcode(seq, op) = Picked(seq, {n \in DOMAIN seq : seq[n].op = op})
<1> DEFINE keep == {n \in DOMAIN seq : seq[n].op = op}
           ByPosition(f) ==
             [n \in 0 .. Len(seq) |->
                IF n = 0 THEN <<>>
                ELSE IF n \in keep THEN Append(f[n - 1], seq[n]) ELSE f[n - 1]]
           ByOpcode(f) ==
             [n \in 0 .. Len(seq) |->
                IF n = 0 THEN <<>>
                ELSE IF seq[n].op = op THEN Append(f[n - 1], seq[n]) ELSE f[n - 1]]
<1>1. \A f : ByPosition(f) = ByOpcode(f)
  <2> TAKE f
  <2>1. ASSUME NEW n \in 0 .. Len(seq), n # 0
        PROVE  (n \in keep) <=> seq[n].op = op
    BY <2>1
  <2>2. \A n \in 0 .. Len(seq) : ByPosition(f)[n] = ByOpcode(f)[n]
    BY <2>1
  <2>3. QED
    BY <2>2
<1>2. (CHOOSE f : f = ByPosition(f)) = (CHOOSE f : f = ByOpcode(f))
  <2> HIDE DEF ByPosition, ByOpcode
  <2>1. \A f : f = ByPosition(f) <=> f = ByOpcode(f)
    BY <1>1
  <2>2. QED
    BY <2>1
<1>3. Picked(seq, keep) = (CHOOSE f : f = ByPosition(f))[Len(seq)]
  BY DEF Picked
<1>4. WithOpcode(seq, op) = (CHOOSE f : f = ByOpcode(f))[Len(seq)]
  BY DEF WithOpcode
<1>5. QED
  BY <1>2, <1>3, <1>4

\* The instructions with an opcode are kept in a sequence, and none is lost.
LEMMA WithOpcodeTyped ==
  ASSUME NEW R, NEW seq \in Seq(R), NEW op
  PROVE  /\ WithOpcode(seq, op) \in Seq({r \in R : r.op = op})
         /\ \A n \in 1 .. Len(seq) :
              seq[n].op = op =>
                \E k \in 1 .. Len(WithOpcode(seq, op)) : WithOpcode(seq, op)[k] = seq[n]
<1> DEFINE keep == {n \in DOMAIN seq : seq[n].op = op}
           kept == {seq[n] : n \in {m \in 1 .. Len(seq) : m \in keep}}
<1>1. WithOpcode(seq, op) = Picked(seq, keep)
  BY WithOpcodePicks
<1>2. \A n \in 1 .. Len(seq) : (n \in keep <=> seq[n].op = op) /\ seq[n] \in R
  OBVIOUS
<1> HIDE DEF keep
<1>3. kept \subseteq {r \in R : r.op = op}
  BY <1>2
<1>4. /\ Picked(seq, keep) \in Seq(kept)
      /\ \A n \in 1 .. Len(seq) :
           n \in keep => \E k \in 1 .. Len(Picked(seq, keep)) : Picked(seq, keep)[k] = seq[n]
  BY PickedMembers
<1> HIDE DEF kept
<1>5. QED
  BY <1>1, <1>2, <1>3, <1>4

\* The instructions of all blocks.
LEMMA FlattenSeqTyped ==
  ASSUME NEW R, NEW seqs \in Seq(Seq(R))
  PROVE  /\ FlattenSeq(seqs) \in Seq(R)
         /\ \A k \in 1 .. Len(seqs) : \A j \in 1 .. Len(seqs[k]) :
              \E n \in 1 .. Len(FlattenSeq(seqs)) : FlattenSeq(seqs)[n] = seqs[k][j]
<1> DEFINE L == Len(seqs)
           D == Seq(R)
           Is(f) == f = [i \in 1 .. L |-> IF i = 1 THEN seqs[i] ELSE f[i - 1] \o seqs[i]]
           g == [n \in 1 .. L |-> [x \in D |-> x \o seqs[n]]]
<1>1. L \in Nat /\ <<>> \in D /\ \A n \in 1 .. L : seqs[n] \in D
  OBVIOUS
<1>2. CASE L = 0
  BY <1>2 DEF FlattenSeq
<1>3. CASE L # 0
  <2>1. g \in StepMaps(L, D)
    <3>1. ASSUME NEW n \in 1 .. L, NEW x \in D PROVE x \o seqs[n] \in D
      BY <1>1
    <3> HIDE DEF D, L
    <3>2. QED
      BY <3>1 DEF StepMaps
  <2>2. PICK f : Recursion(f, L, D, <<>>, g)
    <3> HIDE DEF D, g, L
    <3>1. QED
      BY <1>1, <2>1, RecursionSolved
  <2>3. ASSUME NEW n \in 1 .. L PROVE f[n] = f[n - 1] \o seqs[n]
    <3> HIDE DEF D, L
    <3>1. n - 1 \in 0 .. L
      BY <1>1
    <3>2. f[n] = g[n][f[n - 1]] /\ f[n - 1] \in D
      BY <2>2, <3>1 DEF Recursion
    <3>3. QED
      BY <3>2
  <2> DEFINE h == [n \in 1 .. L |-> f[n]]
  <2>4. Is(h)
    <3>1. ASSUME NEW n \in 1 .. L
          PROVE  h[n] = IF n = 1 THEN seqs[n] ELSE h[n - 1] \o seqs[n]
      <4>1. CASE n = 1
        <5>1. f[0] = <<>> /\ n - 1 = 0
          BY <2>2, <4>1 DEF Recursion
        <5>2. f[n] = <<>> \o seqs[n]
          BY <2>3, <5>1
        <5>3. QED
          BY <1>1, <4>1, <5>2
      <4>2. CASE n # 1
        <5>1. n - 1 \in 1 .. L
          BY <1>1, <4>2
        <5>2. QED
          BY <2>3, <4>2, <5>1
      <4>3. QED
        BY <4>1, <4>2
    <3>2. h = [n \in 1 .. L |-> h[n]]
      OBVIOUS
    <3> HIDE DEF h, L
    <3>3. QED
      BY <3>1, <3>2
  <2>5. FlattenSeq(seqs) = (CHOOSE k : Is(k))[L]
    BY <1>3 DEF FlattenSeq
  <2> DEFINE c == CHOOSE k : Is(k)
  <2>6. Is(c)
    <3> HIDE DEF Is, h
    <3>1. QED
      BY <2>4
  <2> HIDE DEF c
  <2> DEFINE e == [n \in 0 .. L |-> IF n = 0 THEN <<>> ELSE c[n]]
             Has(x, n) == \A k \in 1 .. n : \A j \in 1 .. Len(seqs[k]) :
                            \E m \in 1 .. Len(x) : x[m] = seqs[k][j]
             Good(n) == e[n] \in D /\ Has(e[n], n)
             id == [n \in 0 .. L |-> n]
             G == {n \in 0 .. L : Good(n)}
  <2>7. Good(0)
    BY <1>1
  <2>8. ASSUME NEW n \in 1 .. L, Good(n - 1) PROVE Good(n)
    <3> DEFINE x == e[n - 1]
               y == seqs[n]
    <3>1. c[n] = IF n = 1 THEN seqs[n] ELSE c[n - 1] \o seqs[n]
      <4> HIDE DEF L
      <4>1. QED
        BY <2>6
    <3>2. x \in D /\ y \in D /\ e[n] = c[n] /\ (n # 1 => x = c[n - 1]) /\ (n = 1 => x = <<>>)
      <4>1. n - 1 \in 0 .. L /\ (n - 1 = 0 <=> n = 1)
        BY <1>1
      <4> HIDE DEF D, L
      <4>2. QED
        BY <1>1, <2>8, <4>1
    <3>3. e[n] = x \o y
      <4> HIDE DEF x, y
      <4>1. CASE n = 1
        BY <3>1, <3>2, <4>1 DEF y
      <4>2. CASE n # 1
        BY <3>1, <3>2, <4>2 DEF y
      <4>3. QED
        BY <4>1, <4>2
    <3>4. /\ x \o y \in D /\ Len(x \o y) = Len(x) + Len(y)
          /\ \A k \in 1 .. Len(x) : (x \o y)[k] = x[k]
          /\ \A k \in 1 .. Len(y) : (x \o y)[Len(x) + k] = y[k]
          /\ Len(x) \in Nat /\ Len(y) \in Nat
      <4> HIDE DEF x, y
      <4>1. QED
        BY <3>2
    <3>5. ASSUME NEW k \in 1 .. n, NEW j \in 1 .. Len(seqs[k])
          PROVE  \E m \in 1 .. Len(e[n]) : e[n][m] = seqs[k][j]
      <4>1. k = n \/ k \in 1 .. n - 1
        BY <1>1
      <4>2. CASE k = n
        <5> HIDE DEF e, x
        <5>1. Len(x) + j \in 1 .. Len(e[n]) /\ e[n][Len(x) + j] = seqs[k][j]
          BY <3>3, <3>4, <3>5, <4>2
        <5>2. QED
          BY <5>1
      <4>3. CASE k \in 1 .. n - 1
        <5>1. PICK m \in 1 .. Len(x) : x[m] = seqs[k][j]
          BY <2>8, <3>5, <4>3
        <5> HIDE DEF e, x, y
        <5>2. m \in 1 .. Len(e[n]) /\ e[n][m] = x[m]
          BY <3>3, <3>4
        <5>3. QED
          BY <5>1, <5>2
      <4>4. QED
        BY <4>1, <4>2, <4>3
    <3> HIDE DEF e, x, y, D
    <3>6. QED
      BY <3>3, <3>4, <3>5
  <2> HIDE DEF Good, L
  <2>9. Good(L)
    <3>1. id[0] \in G
      BY <1>1, <2>7
    <3>2. ASSUME NEW n \in 1 .. L, id[n - 1] \in G PROVE id[n] \in G
      <4>1. n - 1 \in 0 .. L /\ n \in 0 .. L
        BY <1>1
      <4>2. Good(n)
        BY <2>8, <3>2, <4>1
      <4>3. QED
        BY <4>1, <4>2
    <3> HIDE DEF id, G
    <3>3. \A n \in 0 .. L : id[n] \in G
      BY <1>1, <3>1, <3>2, ValuesUpTo
    <3>4. QED
      BY <1>1, <3>3 DEF id, G
  <2>10. e[L] = c[L]
    BY <1>1, <1>3
  <2>11. FlattenSeq(seqs) = c[L]
    BY <2>5 DEF c
  <2>12. c[L] \in D /\ Has(c[L], L)
    BY <2>9, <2>10 DEF Good
  <2> HIDE DEF c
  <2>13. QED
    BY <2>11, <2>12, ZenonT(40) DEF L
<1>4. QED
  BY <1>2, <1>3

-----------------------------------------------------------------------------
(* What the analysis computes *)

\* What the parameters, the blocks and the instructions of a function are.
LEMMA ProgramFields ==
  ASSUME ProgramsFit, prog \in Programs
  PROVE  /\ Len(prog.params) \in Nat /\ DOMAIN prog.params = 1 .. Len(prog.params)
         /\ \A k \in 1 .. Len(prog.params) :
              prog.params[k].v \in Vregs /\ prog.params[k].w \in {1, 2}
         /\ Len(prog.blocks) \in Nat /\ DOMAIN prog.blocks = 1 .. Len(prog.blocks)
         /\ \A k \in 1 .. Len(prog.blocks) :
              /\ prog.blocks[k].instrs \in Seq(InstrsOf(prog))
              /\ DOMAIN prog.blocks[k].instrs = 1 .. Len(prog.blocks[k].instrs)
         /\ \A i \in InstrsOf(prog) :
              i.w \in {1, 2} /\ (HasResult(i) => i.res \in Vregs \ ParamNames(prog))
         /\ MaxTempSpace(prog) \in TempSpaces
<1>1. WellFormed(prog) /\ MaxTempSpace(prog) \in TempSpaces
  BY DEF ProgramsFit
<1>2. IsSequence(prog.params) /\ IsSequence(prog.blocks)
  BY <1>1 DEF WellFormed
<1>3. \A k \in DOMAIN prog.blocks : IsSequence(prog.blocks[k].instrs)
  BY <1>1 DEF WellFormed
<1>4. \A seq : IsSequence(seq) => Len(seq) \in Nat /\ DOMAIN seq = 1 .. Len(seq)
  BY DEF IsSequence
<1>5. ASSUME NEW k \in DOMAIN prog.blocks
      PROVE  prog.blocks[k].instrs \in Seq(InstrsOf(prog))
  <2> DEFINE seq == prog.blocks[k].instrs
  <2>1. seq \in Seq({seq[j] : j \in DOMAIN seq})
    BY <1>3 DEF IsSequence
  <2>2. {seq[j] : j \in DOMAIN seq} \subseteq InstrsOf(prog)
    BY DEF InstrsOf
  <2> HIDE DEF seq
  <2>3. seq \in Seq(InstrsOf(prog))
    BY <2>1, <2>2
  <2>4. QED
    BY <2>3 DEF seq
<1>6. ASSUME NEW i \in InstrsOf(prog)
      PROVE  i.w \in {1, 2} /\ (HasResult(i) => i.res \in Vregs \ ParamNames(prog))
  <2>1. PICK k \in DOMAIN prog.blocks :
          \E j \in DOMAIN prog.blocks[k].instrs : i = prog.blocks[k].instrs[j]
    BY DEF InstrsOf
  <2>2. PICK j \in DOMAIN prog.blocks[k].instrs : i = prog.blocks[k].instrs[j]
    BY <2>1
  <2>3. QED
    BY <1>1, <2>2 DEF WellFormed
<1>7. \A k \in DOMAIN prog.params : prog.params[k].v \in Vregs /\ prog.params[k].w \in {1, 2}
  BY <1>1 DEF WellFormed
<1> HIDE DEF InstrsOf
<1>8. QED
  BY <1>1, <1>2, <1>3, <1>4, <1>5, <1>6, <1>7

\* OfOpcode: the instructions with an opcode are instructions of the function.
LEMMA OfOpcodeTyped ==
  ASSUME ProgramsFit, prog \in Programs, NEW op
  PROVE  /\ Len(OfOpcode(op)) \in Nat /\ DOMAIN OfOpcode(op) = 1 .. Len(OfOpcode(op))
         /\ \A k \in 1 .. Len(OfOpcode(op)) :
              /\ OfOpcode(op)[k].op = op /\ OfOpcode(op)[k].w \in {1, 2}
              /\ op # "store" => OfOpcode(op)[k].res \in Vregs \ ParamNames(prog)
              /\ OfOpcode(op)[k] \in InstrsOf(prog)
         /\ \A i \in InstrsOf(prog) :
              i.op = op => \E k \in 1 .. Len(OfOpcode(op)) : OfOpcode(op)[k] = i
<1> DEFINE seqs == [k \in DOMAIN prog.blocks |-> prog.blocks[k].instrs]
           R == InstrsOf(prog)
           kept == {r \in R : r.op = op}
<1>1. /\ Len(prog.blocks) \in Nat /\ DOMAIN prog.blocks = 1 .. Len(prog.blocks)
      /\ \A k \in 1 .. Len(prog.blocks) : prog.blocks[k].instrs \in Seq(R)
  BY ProgramFields
<1>2. seqs \in Seq(Seq(R))
  <2> HIDE DEF R
  <2>1. QED
    BY <1>1
<1>3. /\ FlattenSeq(seqs) \in Seq(R)
      /\ \A k \in 1 .. Len(seqs) : \A j \in 1 .. Len(seqs[k]) :
           \E n \in 1 .. Len(FlattenSeq(seqs)) : FlattenSeq(seqs)[n] = seqs[k][j]
  <2> HIDE DEF R, seqs
  <2>1. QED
    BY <1>2, FlattenSeqTyped
<1>4. Instructions \in Seq(R)
  BY <1>3 DEF Instructions
<1>5. /\ OfOpcode(op) \in Seq(kept)
      /\ \A n \in 1 .. Len(Instructions) :
           Instructions[n].op = op =>
             \E k \in 1 .. Len(OfOpcode(op)) : OfOpcode(op)[k] = Instructions[n]
  <2> HIDE DEF R
  <2>1. QED
    BY <1>4, WithOpcodeTyped DEF OfOpcode
<1>6. ASSUME NEW i \in kept
      PROVE  i.op = op /\ i.w \in {1, 2} /\ (op # "store" => i.res \in Vregs \ ParamNames(prog))
  <2>1. i \in InstrsOf(prog) /\ i.op = op
    OBVIOUS
  <2>2. i.w \in {1, 2} /\ (HasResult(i) => i.res \in Vregs \ ParamNames(prog))
    BY <2>1, ProgramFields
  <2>3. QED
    BY <2>1, <2>2 DEF HasResult
<1>7. ASSUME NEW i \in R, i.op = op
      PROVE  \E k \in 1 .. Len(OfOpcode(op)) : OfOpcode(op)[k] = i
  <2>1. PICK k \in DOMAIN prog.blocks : \E j \in DOMAIN prog.blocks[k].instrs :
          i = prog.blocks[k].instrs[j]
    BY DEF InstrsOf
  <2>2. PICK j \in DOMAIN prog.blocks[k].instrs : i = prog.blocks[k].instrs[j]
    BY <2>1
  <2>3. k \in 1 .. Len(seqs) /\ j \in 1 .. Len(seqs[k]) /\ i = seqs[k][j]
    <3>1. DOMAIN prog.blocks[k].instrs = 1 .. Len(prog.blocks[k].instrs)
      BY <1>1, ProgramFields
    <3>2. seqs[k] = prog.blocks[k].instrs /\ DOMAIN seqs = 1 .. Len(prog.blocks)
      BY <1>1
    <3> HIDE DEF R
    <3>3. Len(seqs) = Len(prog.blocks)
      BY <1>1, <1>2, <3>2
    <3>4. QED
      BY <1>1, <2>2, <3>1, <3>2, <3>3
  <2> HIDE DEF seqs, R, kept
  <2>4. PICK n \in 1 .. Len(Instructions) : Instructions[n] = i
    BY <1>3, <2>3 DEF Instructions, seqs
  <2>5. QED
    BY <1>5, <1>7, <2>4
<1>8. \A i \in kept : i \in InstrsOf(prog)
  OBVIOUS
<1> HIDE DEF kept
<1>9. QED
  BY <1>5, <1>6, <1>7, <1>8

\* computeLiveness: what is spilled are results of the function.
LEMMA SpillsTyped ==
  ASSUME ProgramsFit, prog \in Programs
  PROVE  SpillCount \in Nat /\ \A k \in 1 .. SpillCount : Spills[k] \in Vregs \ ParamNames(prog)
<1> DEFINE S == CrossBlock \ Allocas
<1>1. S \subseteq Vregs \ ParamNames(prog)
  <2> SUFFICES ASSUME NEW v \in CrossBlock PROVE v \in Vregs \ ParamNames(prog)
    OBVIOUS
  <2>1. PICK i \in DOMAIN prog.blocks : v \in Defined(prog.blocks[i])
    BY DEF CrossBlock
  <2>2. PICK j \in DOMAIN prog.blocks[i].instrs :
          HasResult(prog.blocks[i].instrs[j]) /\ v = prog.blocks[i].instrs[j].res
    BY <2>1 DEF Defined
  <2>3. prog.blocks[i].instrs[j] \in InstrsOf(prog)
    BY DEF InstrsOf
  <2>4. QED
    BY <2>2, <2>3, ProgramFields
<1>2. IsFiniteSet(S)
  BY <1>1, FS_Subset DEF ProgramsFit
<1>3. \E f \in [1 .. Cardinality(S) -> S] : IsInjective(f)
  <2> HIDE DEF S
  <2>1. PICK f : f \in Bijection(1 .. Cardinality(S), S)
    BY <1>2, FS_CardinalityType DEF ExistsBijection
  <2>2. f \in [1 .. Cardinality(S) -> S] /\ IsInjective(f)
    BY <2>1 DEF Bijection, Injection, IsInjective
  <2>3. QED
    BY <2>2
<1>4. Spills \in [1 .. Cardinality(S) -> S] /\ Cardinality(S) \in Nat
  <2> HIDE DEF S
  <2>1. SetToSeq(S) \in [1 .. Cardinality(S) -> S]
    BY <1>3 DEF SetToSeq
  <2>2. QED
    BY <1>2, <2>1, FS_CardinalityType DEF Spills, S
<1>5. SpillCount = Cardinality(S)
  <2> HIDE DEF S
  <2>1. Spills \in Seq(S)
    BY <1>4
  <2>2. QED
    BY <1>4, <2>1 DEF SpillCount
<1> HIDE DEF S
<1>6. QED
  BY <1>1, <1>4, <1>5

\* computeMaxTempSpace: what the first instructions of a block need grows with each
\* of them by its estimate, up to what the whole block needs.
LEMMA NeededFacts ==
  ASSUME ProgramsFit, prog \in Programs, NEW k \in 1 .. Len(prog.blocks)
  PROVE  LET b == prog.blocks[k] IN
         /\ Needed(b)[0] = 0
         /\ \A n \in 1 .. Len(b.instrs) :
              /\ Needed(b)[n] = Needed(b)[n - 1] + Estimate(b.instrs[n])
              /\ Estimate(b.instrs[n]) \in Nat
         /\ \A n \in 0 .. Len(b.instrs) : Needed(b)[n] \in Nat /\ Needed(b)[n] <= TempSpace(b)
<1> DEFINE b == prog.blocks[k]
           L == Len(b.instrs)
           Is(f) == f = [n \in 0 .. L |-> IF n = 0 THEN 0 ELSE f[n - 1] + Estimate(b.instrs[n])]
           g == [n \in 1 .. L |-> [x \in Nat |-> x + Estimate(b.instrs[n])]]
<1>1. L \in Nat /\ b.instrs \in Seq(InstrsOf(prog))
  <2>1. b.instrs \in Seq(InstrsOf(prog))
    BY ProgramFields
  <2> HIDE DEF b
  <2>2. QED
    BY <2>1
<1>2. ASSUME NEW n \in 1 .. L PROVE Estimate(b.instrs[n]) \in Nat
  <2> DEFINE i == b.instrs[n]
  <2>1. i \in InstrsOf(prog)
    <3> HIDE DEF b
    <3>1. QED
      BY <1>1
  <2>2. i.w \in {1, 2}
    BY <2>1, ProgramFields
  <2> HIDE DEF i
  <2>3. Estimate(i) \in Nat
    BY <2>2 DEF Estimate, Words
  <2>4. QED
    BY <2>3 DEF i
<1>3. g \in StepMaps(L, Nat)
  <2> HIDE DEF b, L
  <2>1. QED
    BY <1>2 DEF StepMaps
<1>4. PICK f : Recursion(f, L, Nat, 0, g)
  <2> HIDE DEF b, L, g
  <2>1. QED
    BY <1>1, <1>3, RecursionSolved
<1>5. Is(f)
  <2> HIDE DEF b, L
  <2>1. ASSUME NEW n \in 1 .. L PROVE f[n] = f[n - 1] + Estimate(b.instrs[n])
    <3>1. n - 1 \in 0 .. L
      BY <1>1
    <3>2. f[n] = g[n][f[n - 1]] /\ f[n - 1] \in Nat
      BY <1>4, <3>1 DEF Recursion
    <3>3. QED
      BY <3>2
  <2> HIDE DEF g
  <2>2. f = [n \in 0 .. L |-> f[n]] /\ f[0] = 0 /\ \A n \in 0 .. L : n = 0 \/ n \in 1 .. L
    BY <1>1, <1>4 DEF Recursion
  <2>3. QED
    BY <2>1, <2>2
<1>6. Needed(b) = CHOOSE h : Is(h)
  BY DEF Needed
<1>7. Is(Needed(b))
  <2> HIDE DEF Is, b
  <2>1. QED
    BY <1>5, <1>6
<1> DEFINE need == Needed(b)
<1>8. Is(need)
  BY <1>7
<1> HIDE DEF need, b, L
<1>9. need[0] = 0
  BY <1>1, <1>8
<1>10. ASSUME NEW n \in 1 .. L PROVE need[n] = need[n - 1] + Estimate(b.instrs[n])
  <2>1. n \in 0 .. L /\ n # 0
    BY <1>1
  <2>2. QED
    BY <1>8, <2>1
<1> HIDE DEF Is
<1>11. \A n \in 0 .. L : need[n] \in Nat
  <2>1. \A n \in 1 .. L : need[n - 1] \in Nat => need[n] \in Nat
    BY <1>2, <1>10
  <2>2. need[0] \in Nat
    BY <1>9
  <2>3. QED
    BY <1>1, <2>1, <2>2, ValuesUpTo
<1>12. \A n \in 0 .. L : need[n] <= need[L]
  <2>1. \A n \in 1 .. L : need[n - 1] <= need[n]
    <3> SUFFICES ASSUME NEW n \in 1 .. L PROVE need[n - 1] <= need[n]
      OBVIOUS
    <3>1. n - 1 \in 0 .. L
      BY <1>1
    <3>2. need[n - 1] \in Nat /\ Estimate(b.instrs[n]) \in Nat
      BY <1>2, <1>11, <3>1
    <3>3. QED
      BY <1>10, <3>2
  <2>2. QED
    BY <1>1, <1>11, <2>1, NeverDescends
<1>13. TempSpace(b) = need[L]
  BY DEF TempSpace, need, L
<1>14. QED
  BY <1>2, <1>9, <1>10, <1>11, <1>12, <1>13 DEF need, b, L

\* computeMaxTempSpace: no block needs more than what is reserved.
LEMMA MaxTempSpaceBounds ==
  ASSUME ProgramsFit, prog \in Programs, NEW k \in 1 .. Len(prog.blocks)
  PROVE  TempSpace(prog.blocks[k]) <= MaxTempSpace(prog)
<1> DEFINE L == Len(prog.blocks)
           f == [n \in 1 .. L |-> TempSpace(prog.blocks[n])]
           S == {0} \cup {f[n] : n \in 1 .. L}
<1>1. L \in Nat /\ DOMAIN prog.blocks = 1 .. L
  BY ProgramFields
<1>2. \A n \in 1 .. L : f[n] \in Nat
  <2> SUFFICES ASSUME NEW n \in 1 .. L PROVE TempSpace(prog.blocks[n]) \in Nat
    OBVIOUS
  <2>1. Len(prog.blocks[n].instrs) \in 0 .. Len(prog.blocks[n].instrs)
    BY ProgramFields
  <2>2. Needed(prog.blocks[n])[Len(prog.blocks[n].instrs)] \in Nat
    BY <2>1, NeededFacts
  <2>3. QED
    BY <2>2 DEF TempSpace
<1>3. \E x \in S : \A y \in S : x >= y
  <2> HIDE DEF f, L
  <2>1. QED
    BY <1>1, <1>2, GreatestValue
<1>4. S = {0} \cup {TempSpace(prog.blocks[n]) : n \in DOMAIN prog.blocks}
  <2> HIDE DEF L
  <2>1. {f[n] : n \in 1 .. L} = {TempSpace(prog.blocks[n]) : n \in 1 .. L}
    OBVIOUS
  <2>2. QED
    BY <1>1, <2>1
<1>5. S \subseteq Nat
  <2> HIDE DEF f, L
  <2>1. QED
    BY <1>2
<1>6. f[k] \in S /\ f[k] = TempSpace(prog.blocks[k])
  OBVIOUS
<1> HIDE DEF f, S, L
<1>7. Max(S) \in S /\ \A y \in S : Max(S) >= y
  BY <1>3 DEF Max
<1>8. MaxTempSpace(prog) = 16 + Max(S)
  BY <1>4 DEF MaxTempSpace
<1>9. f[k] \in Nat /\ Max(S) \in Nat /\ Max(S) >= f[k]
  BY <1>5, <1>6, <1>7
<1>10. QED
  BY <1>6, <1>8, <1>9

-----------------------------------------------------------------------------
(* The inductive invariant: the frame's own, IInv, and how the analysis and *)
(* the selector stand to the frame.                                        *)

Parts == {"label", "phis", "body", "widen", "stores", "term"}

\* The selector stays within the function, and waits for the layout.
SelectorInv ==
  /\ prog \in Programs
  /\ todo \in Nat \ {0}
  /\ at \in [block : Nat \ {0}, part : Parts, pos : Nat \ {0}]
  /\ phase # "lowering" => at = Start
  /\ at.part \in {"phis", "body", "widen"} => at.block <= Len(prog.blocks)
  /\ at.part \in {"body", "widen"} => at.pos <= Len(Body) + 1
  /\ at.part = "widen" => at.pos <= Len(Body) /\ I.op = "zext" /\ I.w = 2

\* What has no slot is in a temp register.
PlacesInv == \A v \in DOMAIN vregToPhys : HasSlot(v) \/ vregToPhys[v] \in TempRegs

\* Only the function's parameters have a parameter's slot.
ParamsInv == \A v \in DOMAIN index : KindOf(v) = "Param" => v \in ParamNames(prog)

\* The block has taken no more temp space than is estimated for the instructions
\* that have been lowered.
EstimateInv ==
  /\ phase # "analysis" => tempSize >= MaxTempSpace(prog)
  /\ phase = "lowering" =>
       /\ tempCurrent <= nextLocalOffset
       /\ at.part = "phis" => tempCurrent = tempBase
       /\ at.part \in {"body", "widen"} =>
            tempCurrent <= tempBase + Needed(AtBlock)[at.pos - 1]

CompilationInv == IInv /\ SelectorInv /\ PlacesInv /\ ParamsInv /\ EstimateInv

-----------------------------------------------------------------------------
(* What a handler does to the frame *)

\* The instruction to lower.
LEMMA InstructionAt ==
  ASSUME ProgramsFit, CompilationInv, at.part \in {"body", "widen"}, at.pos <= Len(Body)
  PROVE  /\ I.w \in {1, 2}
         /\ I.op # "store" => I.res \in Vregs \ ParamNames(prog)
         /\ at.block \in 1 .. Len(prog.blocks) /\ AtBlock = prog.blocks[at.block]
         /\ at.pos \in 1 .. Len(Body) /\ at.pos - 1 \in 0 .. Len(Body)
         /\ I \in InstrsOf(prog)
<1>1. prog \in Programs /\ at \in [block : Nat \ {0}, part : Parts, pos : Nat \ {0}]
      /\ at.block <= Len(prog.blocks)
  BY DEF CompilationInv, SelectorInv
<1>2. at.block \in 1 .. Len(prog.blocks)
  BY <1>1, ProgramFields
<1>3. Body \in Seq(InstrsOf(prog)) /\ Len(Body) \in Nat
  BY <1>1, <1>2, ProgramFields DEF Body, AtBlock
<1>4. at.pos \in 1 .. Len(Body) /\ at.pos - 1 \in 0 .. Len(Body)
  BY <1>1, <1>3
<1>5. I \in InstrsOf(prog)
  BY <1>3, <1>4 DEF I
<1>6. I.w \in {1, 2} /\ (HasResult(I) => I.res \in Vregs \ ParamNames(prog))
  BY <1>1, <1>5, ProgramFields
<1>7. QED
  BY <1>2, <1>4, <1>5, <1>6 DEF HasResult, AtBlock

\* getPhysReg: what a handler finds for its result is a place it may leave it in.
LEMMA ResultPlaceFits ==
  ASSUME ProgramsFit, CompilationInv, NEW v \in Vregs \ ParamNames(prog)
  PROVE  /\ GetPhysReg(v) \in ResultPlaces(v)
         /\ HasSlot(v) \/ GetPhysReg(v) \in TempRegs
         /\ TempRegs \subseteq ResultPlaces(v)
<1>1. TempRegs \subseteq ResultPlaces(v)
  BY DEF ProgramsFit, ResultPlaces
<1>2. CASE HasSlot(v)
  <2>1. index[v] \in 1 .. Len(slots)
    BY <1>2 DEF HasSlot, CompilationInv, IInv, TypeOK
  <2>2. KindOf(v) # "Param"
    BY <1>2 DEF HasSlot, CompilationInv, ParamsInv
  <2>3. GetPhysReg(v) = slots[index[v]].off
    BY <1>2, <2>2 DEF GetPhysReg, KindOf
  <2>4. QED
    BY <1>1, <1>2, <2>1, <2>3 DEF ResultPlaces
<1>3. CASE ~HasSlot(v)
  <2>1. GetPhysReg(v) \in TempRegs
    BY <1>3 DEF GetPhysReg, CompilationInv, PlacesInv, TempRegs
  <2>2. QED
    BY <1>1, <2>1
<1>4. QED
  BY <1>2, <1>3

\* The three ways in which a handler uses the frame.
Rests == UNCHANGED vars
Registers ==
  \E p \in ResultPlaces(I.res) : (HasSlot(I.res) \/ p \in TempRegs) /\ SetPhysReg(I.res, p)
Keeps ==
  \E size \in {2, 4} :
    /\ size <= Estimate(I) /\ (size = 4 \/ I.op = "icmp")
    /\ KeepResult(I.res, size)

Advances ==
  Selecting("body") /\ at.pos <= Len(Body) /\ at' = [at EXCEPT !.pos = @ + 1]

\* The 32-bit handlers, and icmp, keep their result in a slot.
LEMMA HandlerKeeps ==
  ASSUME \/ LowerAdd32 \/ LowerSub32 \/ LowerMul32 \/ LowerDivRem32 \/ LowerBinaryOp32
         \/ LowerSExt \/ LowerICmp32 \/ LowerICmp16 \/ LowerLoad32
  PROVE  Keeps /\ I.op # "store" /\ Advances /\ UNCHANGED anaVars
<1>1. ASSUME NEW op, Lowers(op, 2), KeepResult(I.res, 4), op \notin {"store", "alloca"}
      PROVE  Keeps /\ I.op # "store" /\ Selecting("body") /\ at.pos <= Len(Body)
  <2>1. I.op = op /\ I.w = 2 /\ Selecting("body") /\ at.pos <= Len(Body)
    BY <1>1 DEF Lowers, I
  <2>2. 4 <= Estimate(I)
    BY <1>1, <2>1 DEF Estimate, HasResult, Words
  <2>3. QED
    BY <1>1, <2>1, <2>2 DEF Keeps
<1>2. ASSUME Lowers("icmp", 1) \/ Lowers("icmp", 2), KeepResult(I.res, 2)
      PROVE  Keeps /\ I.op # "store" /\ Selecting("body") /\ at.pos <= Len(Body)
  <2>1. I.op = "icmp" /\ I.w \in {1, 2} /\ Selecting("body") /\ at.pos <= Len(Body)
    BY <1>2 DEF Lowers, I
  <2>2. 2 <= Estimate(I)
    BY <2>1 DEF Estimate, HasResult, Words
  <2>3. QED
    BY <1>2, <2>1, <2>2 DEF Keeps
<1>3. CASE LowerAdd32
  BY <1>1, <1>3 DEF LowerAdd32, Emit, Advances
<1>4. CASE LowerSub32
  BY <1>1, <1>4 DEF LowerSub32, Emit, Advances
<1>5. CASE LowerMul32
  BY <1>1, <1>5, SMTT(30) DEF LowerMul32, Emit, Advances
<1>6. CASE LowerDivRem32
  BY <1>1, <1>6 DEF LowerDivRem32, Divisions, Emit, Advances
<1>7. CASE LowerBinaryOp32
  BY <1>1, <1>7 DEF LowerBinaryOp32, Logical, Emit, Advances
<1>8. CASE LowerSExt
  BY <1>1, <1>8, SMTT(30) DEF LowerSExt, Emit, Advances
<1>9. CASE LowerICmp32
  BY <1>2, <1>9 DEF LowerICmp32, Emit, Advances
<1>10. CASE LowerICmp16
  BY <1>2, <1>10 DEF LowerICmp16, Emit, Advances
<1>11. CASE LowerLoad32
  BY <1>1, <1>11 DEF LowerLoad32, Emit, Advances
<1>12. QED
  BY <1>3, <1>4, <1>5, <1>6, <1>7, <1>8, <1>9, <1>10, <1>11

\* The 16-bit handlers leave their result in a temp register or in its own slot.
LEMMA HandlerRegisters ==
  ASSUME ProgramsFit, CompilationInv,
         \/ LowerAdd16 \/ LowerSub16 \/ LowerMul16 \/ LowerDivRem16 \/ LowerBinaryOp16
         \/ LowerShift \/ LowerTrunc \/ LowerZExt16 \/ LowerFreeze \/ LowerAlloca
         \/ LowerLoad16 \/ LowerSelect
  PROVE  Registers /\ I.op # "store" /\ Advances /\ UNCHANGED anaVars
<1> DEFINE Fit(p) == p = ResultPlace \/ p \in TempRegs
<1>1. ASSUME NEW op, NEW w, NEW p, Lowers(op, w), op # "store", SetPhysReg(I.res, p), Fit(p)
      PROVE  Registers /\ I.op # "store" /\ Selecting("body") /\ at.pos <= Len(Body)
  <2>1. I.op = op /\ Selecting("body") /\ at.pos <= Len(Body)
    BY <1>1 DEF Lowers, I
  <2>2. I.res \in Vregs \ ParamNames(prog)
    BY <1>1, <2>1, InstructionAt DEF Selecting
  <2>3. p \in ResultPlaces(I.res) /\ (HasSlot(I.res) \/ p \in TempRegs)
    BY <1>1, <2>2, ResultPlaceFits DEF ResultPlace
  <2>4. QED
    BY <1>1, <2>1, <2>3 DEF Registers
<1>2. ax \in TempRegs /\ cx \in TempRegs /\ dx \in TempRegs
  BY DEF TempRegs
<1>3. CASE LowerAdd16
  BY <1>1, <1>2, <1>3 DEF LowerAdd16, Emit, Advances
<1>4. CASE LowerSub16
  BY <1>1, <1>4 DEF LowerSub16, Emit, Advances
<1>5. CASE LowerMul16
  BY <1>1, <1>2, <1>5 DEF LowerMul16, Emit, Advances
<1>6. CASE LowerDivRem16
  BY <1>1, <1>2, <1>6 DEF LowerDivRem16, Divisions, Emit, Advances
<1>7. WorkReg = ResultPlace \/ WorkReg \in TempRegs
  BY <1>2 DEF WorkReg
<1>8. CASE LowerBinaryOp16
  BY <1>1, <1>7, <1>8 DEF LowerBinaryOp16, Logical, Emit, Advances
<1>9. CASE LowerShift
  BY <1>1, <1>7, <1>9 DEF LowerShift, Shifts, Emit, Advances
<1>10. CASE LowerTrunc
  BY <1>1, <1>10 DEF LowerTrunc, Emit, Advances
<1>11. CASE LowerZExt16
  BY <1>1, <1>11 DEF LowerZExt16, Emit, Advances
<1>12. CASE LowerFreeze
  BY <1>1, <1>2, <1>12 DEF LowerFreeze, Emit, Advances
<1>13. CASE LowerAlloca
  BY <1>1, <1>13 DEF LowerAlloca, Emit, Advances
<1>14. GetFreeTempReg \in TempRegs
  BY <1>2 DEF GetFreeTempReg
<1>15. CASE LowerLoad16
  BY <1>1, <1>14, <1>15 DEF LowerLoad16, Emit, Advances
<1>16. CASE LowerSelect
  BY <1>1, <1>16 DEF LowerSelect, Emit, Advances
<1>17. QED
  BY <1>3, <1>4, <1>5, <1>6, <1>8, <1>9, <1>10, <1>11, <1>12, <1>13, <1>15, <1>16

\* A zext to 32 bits does both, one after the other.
LEMMA ZExtRegisters ==
  ASSUME ProgramsFit, CompilationInv, LowerZExt32
  PROVE  /\ Registers /\ UNCHANGED anaVars
         /\ Selecting("body") /\ at.pos <= Len(Body) /\ I.op = "zext" /\ I.w = 2
         /\ at' = [at EXCEPT !.part = "widen"]
<1>1. /\ Selecting("body") /\ at.pos <= Len(Body) /\ I.op = "zext" /\ I.w = 2
      /\ SetPhysReg(I.res, ResultPlace) /\ UNCHANGED anaVars
      /\ at' = [at EXCEPT !.part = "widen"]
  BY DEF LowerZExt32, Lowers, I
<1>2. I.res \in Vregs \ ParamNames(prog)
  BY <1>1, InstructionAt DEF Selecting
<1>3. QED
  BY <1>1, <1>2, ResultPlaceFits DEF Registers, ResultPlace

LEMMA ZExtKeeps ==
  ASSUME ProgramsFit, CompilationInv, WidenZExt
  PROVE  /\ Keeps /\ UNCHANGED anaVars
         /\ at.part = "widen" /\ at.pos <= Len(Body) /\ I.op # "store"
         /\ at' = [at EXCEPT !.part = "body", !.pos = @ + 1]
<1>1. /\ at.part = "widen" /\ KeepResult(I.res, 4) /\ UNCHANGED anaVars
      /\ at' = [at EXCEPT !.part = "body", !.pos = @ + 1]
  BY DEF WidenZExt, Selecting
<1>2. at.pos <= Len(Body) /\ I.op = "zext" /\ I.w = 2
  BY <1>1 DEF CompilationInv, SelectorInv
<1>3. 4 <= Estimate(I)
  BY <1>2 DEF Estimate, HasResult, Words
<1>4. QED
  BY <1>1, <1>2, <1>3 DEF Keeps

\* Stores and phis leave the frame as it is.
LEMMA HandlerRests ==
  ASSUME LowerStore32 \/ LowerStore16 \/ LowerPhi
  PROVE  Rests /\ Advances /\ UNCHANGED anaVars
  BY DEF LowerStore32, LowerStore16, LowerPhi, Lowers, Emit, Rests, Advances

-----------------------------------------------------------------------------
(* What the three ways mean for the frame and the invariant *)

AfterSelecting == SelectorInv /\ PlacesInv /\ ParamsInv /\ EstimateInv

\* setPhysReg records one vreg in a place, and forgets another one at most.
LEMMA MapRegRecords ==
  ASSUME NEW v, NEW p, MapReg(v, p)
  PROVE  \A u \in DOMAIN vregToPhys' :
           \/ u = v /\ vregToPhys'[u] = p
           \/ u \in DOMAIN vregToPhys /\ vregToPhys'[u] = vregToPhys[u]
  BY DEF MapReg, Put, Drop

\* A temp that fits is taken without extending the area.
LEMMA TempFits ==
  ASSUME IInv, phase = "lowering", NEW size \in {2, 4}, NEW name, NewTempSlot(name, size),
         tempCurrent + size <= nextLocalOffset
  PROVE  /\ UNCHANGED <<tempBase, tempSize, nextLocalOffset, phase>>
         /\ tempCurrent' = tempCurrent + size
<1>1. /\ tempBase \in Int /\ tempCurrent \in Int /\ tempSize \in Nat /\ nextLocalOffset \in Int
      /\ tempBase + tempSize = nextLocalOffset
  BY DEF IInv, TypeOK, OrderInv, TempOrder
<1>2. ~(tempCurrent - tempBase + size - tempSize > 0)
  BY <1>1
<1>3. UNCHANGED <<tempBase, tempSize>>
  BY <1>2 DEF NewTempSlot, ExtendTempArea
<1>4. QED
  BY <1>3 DEF NewTempSlot, layoutVars

\* What the estimate still leaves for the instruction.
LEMMA EstimateLeaves ==
  ASSUME ProgramsFit, CompilationInv, phase = "lowering",
         at.part \in {"body", "widen"}, at.pos <= Len(Body)
  PROVE  /\ tempBase + Needed(AtBlock)[at.pos] <= nextLocalOffset
         /\ tempCurrent + Estimate(I) <= tempBase + Needed(AtBlock)[at.pos]
         /\ Estimate(I) \in Nat /\ Needed(AtBlock)[at.pos] \in Int
<1> DEFINE need == Needed(AtBlock)
           L == Len(Body)
<1>1. /\ prog \in Programs /\ at.block \in 1 .. Len(prog.blocks)
      /\ AtBlock = prog.blocks[at.block] /\ at.pos \in 1 .. L /\ at.pos - 1 \in 0 .. L
  BY InstructionAt DEF CompilationInv, SelectorInv
<1>2. /\ need[at.pos] = need[at.pos - 1] + Estimate(I) /\ Estimate(I) \in Nat
      /\ \A n \in 0 .. L : need[n] \in Nat /\ need[n] <= TempSpace(AtBlock)
  BY <1>1, NeededFacts DEF Body, I
<1>3. TempSpace(AtBlock) <= MaxTempSpace(prog) /\ MaxTempSpace(prog) <= tempSize
      /\ MaxTempSpace(prog) \in Nat
  <2>1. MaxTempSpace(prog) \in Nat
    BY <1>1, ProgramFields, TempSpacesAssumption
  <2>2. MaxTempSpace(prog) <= tempSize
    BY <2>1 DEF CompilationInv, EstimateInv, IInv, TypeOK
  <2>3. QED
    BY <1>1, <2>1, <2>2, MaxTempSpaceBounds
<1>4. /\ tempBase \in Int /\ tempCurrent \in Int /\ tempSize \in Nat /\ nextLocalOffset \in Int
      /\ tempBase + tempSize = nextLocalOffset
  BY DEF CompilationInv, IInv, TypeOK, OrderInv, TempOrder
<1>5. tempCurrent <= tempBase + need[at.pos - 1]
  BY DEF CompilationInv, EstimateInv
<1> HIDE DEF need
<1>6. need[at.pos] \in Nat /\ need[at.pos] <= TempSpace(AtBlock) /\ need[at.pos - 1] \in Nat
  <2>1. at.pos \in 0 .. L
    BY <1>1
  <2>2. QED
    BY <1>1, <1>2, <2>1
<1>7. need[at.pos] <= tempSize
  <2>1. TempSpace(AtBlock) \in Nat
    <3>1. L \in 0 .. L
      BY <1>1
    <3>2. QED
      BY <1>2, <3>1 DEF TempSpace, need, Body
  <2>2. QED
    BY <1>3, <1>4, <1>6, <2>1
<1>8. QED
  BY <1>2, <1>4, <1>5, <1>6, <1>7, SMTT(30) DEF need

\* The position moves past the instruction, or a zext waits to be widened.
Moves ==
  \/ at' = [at EXCEPT !.pos = @ + 1]
  \/ at.part = "widen" /\ at' = [at EXCEPT !.part = "body", !.pos = @ + 1]
  \/ at.part = "body" /\ I.op = "zext" /\ I.w = 2 /\ at' = [at EXCEPT !.part = "widen"]

LEMMA MovesWithin ==
  ASSUME ProgramsFit, CompilationInv, Moves, UNCHANGED anaVars, phase' = "lowering",
         at.part = "body" \/ (at.part = "widen" /\ at'.part = "body"), at.pos <= Len(Body)
  PROVE  /\ SelectorInv' /\ at'.part \in {"body", "widen"} /\ AtBlock' = AtBlock
         /\ at'.pos - 1 = at.pos \/ (at'.pos = at.pos /\ at'.part = "widen")
<1>1. at \in [block : Nat \ {0}, part : Parts, pos : Nat \ {0}] /\ prog' = prog /\ todo' = todo
      /\ prog \in Programs /\ todo \in Nat \ {0}
  BY DEF CompilationInv, SelectorInv, anaVars
<1>2. at.pos \in 1 .. Len(Body) /\ at.block \in 1 .. Len(prog.blocks)
  BY InstructionAt
<1>3. /\ at' \in [block : Nat \ {0}, part : Parts, pos : Nat \ {0}]
      /\ at'.block = at.block /\ at'.part \in {"body", "widen"}
      /\ \/ at'.part = "body" /\ at'.pos = at.pos + 1
         \/ at'.part = "widen" /\ at'.pos = at.pos /\ I.op = "zext" /\ I.w = 2
  <2>1. CASE at' = [at EXCEPT !.pos = @ + 1] /\ at.part = "body"
    BY <1>1, <2>1
  <2>2. CASE at.part = "widen" /\ at' = [at EXCEPT !.part = "body", !.pos = @ + 1]
    <3>1. at' = [block |-> at.block, part |-> "body", pos |-> at.pos + 1]
      BY <1>1, <2>2
    <3>2. at.block \in Nat \ {0} /\ at.pos \in Nat \ {0} /\ at.pos + 1 \in Nat \ {0}
      BY <1>1
    <3>3. at' \in [block : Nat \ {0}, part : Parts, pos : Nat \ {0}]
      BY <3>1, <3>2 DEF Parts
    <3>4. at'.part = "body" /\ at'.block = at.block /\ at'.pos = at.pos + 1
      BY <3>1
    <3>5. QED
      BY <3>3, <3>4
  <2>3. CASE at.part = "body" /\ I.op = "zext" /\ I.w = 2 /\ at' = [at EXCEPT !.part = "widen"]
    BY <1>1, <2>3 DEF Parts
  <2>4. CASE at' = [at EXCEPT !.pos = @ + 1] /\ at.part = "widen"
    <3>1. at'.part = "widen"
      BY <1>1, <2>4
    <3>2. QED
      BY <2>4, <3>1
  <2>5. QED
    BY <2>1, <2>2, <2>3, <2>4 DEF Moves
<1>4. AtBlock' = AtBlock /\ Body' = Body
  BY <1>1, <1>3 DEF AtBlock, Body
<1>5. at'.part = "widen" => I' = I
  BY <1>3, <1>4 DEF I
<1>6. QED
  BY <1>1, <1>2, <1>3, <1>4, <1>5 DEF SelectorInv, Parts

\* After a handler that takes no temp.
LEMMA RegistersStep ==
  ASSUME ProgramsFit, CompilationInv, Rests \/ (Registers /\ I.op # "store"), Moves,
         UNCHANGED anaVars, Selecting("body"), at.pos <= Len(Body)
  PROVE  [Next]_vars /\ AfterSelecting'
<1>0. phase = "lowering" /\ at.part = "body"
  BY DEF Selecting
<1>1. UNCHANGED <<phase, slots, index, tempSize, tempBase, tempCurrent, nextLocalOffset>>
  BY DEF Registers, Rests, SetPhysReg, vars, layoutVars, tempVars
<1>2. SelectorInv' /\ at'.part \in {"body", "widen"} /\ AtBlock' = AtBlock
      /\ (at'.pos - 1 = at.pos \/ at'.pos = at.pos)
  BY <1>0, <1>1, MovesWithin
<1>3. ASSUME Registers, I.op # "store" PROVE [Next]_vars /\ PlacesInv'
  <2>1. I.res \in Vregs
    BY <1>0, <1>3, InstructionAt
  <2>2. PICK p \in ResultPlaces(I.res) : (HasSlot(I.res) \/ p \in TempRegs) /\ SetPhysReg(I.res, p)
    BY <1>3 DEF Registers
  <2>3. Next
    BY <2>1, <2>2 DEF Next, Lowering
  <2>4. PlacesInv'
    <3>1. MapReg(I.res, p) /\ index' = index
      BY <2>2 DEF SetPhysReg
    <3>2. QED
      BY <2>2, <3>1, MapRegRecords DEF PlacesInv, HasSlot, CompilationInv
  <2>5. QED
    BY <2>3, <2>4
<1>4. ASSUME Rests PROVE [Next]_vars /\ PlacesInv'
  BY <1>4 DEF Rests, vars, regVars, PlacesInv, HasSlot, CompilationInv
<1>5. ParamsInv'
  BY <1>1, <1>2 DEF ParamsInv, KindOf, CompilationInv, anaVars
<1>6. EstimateInv'
  <2>1. /\ Estimate(I) \in Nat /\ tempCurrent + Estimate(I) <= tempBase + Needed(AtBlock)[at.pos]
        /\ Needed(AtBlock)[at.pos] \in Int
    BY <1>0, EstimateLeaves
  <2>2. tempCurrent \in Int /\ tempBase \in Int
    BY DEF CompilationInv, IInv, TypeOK
  <2>3. tempCurrent <= tempBase + Needed(AtBlock)[at.pos]
    BY <2>1, <2>2
  <2>4. tempCurrent <= tempBase + Needed(AtBlock)[at.pos - 1]
    BY <1>0 DEF CompilationInv, EstimateInv
  <2>5. tempCurrent' <= tempBase' + Needed(AtBlock)[at'.pos - 1]
    BY <1>1, <1>2, <2>3, <2>4
  <2>6. tempCurrent' <= nextLocalOffset' /\ tempSize' >= MaxTempSpace(prog')
    BY <1>0, <1>1 DEF CompilationInv, EstimateInv, anaVars
  <2>7. QED
    BY <1>2, <2>5, <2>6 DEF EstimateInv
<1>7. QED
  BY <1>2, <1>3, <1>4, <1>5, <1>6 DEF AfterSelecting

\* After a handler that keeps its result in a slot.
LEMMA KeepsStep ==
  ASSUME ProgramsFit, CompilationInv, Keeps, Moves, UNCHANGED anaVars,
         at.part \in {"body", "widen"}, at'.part = "body", at.pos <= Len(Body),
         I.op # "store"
  PROVE  [Next]_vars /\ AfterSelecting'
<1>1. PICK size \in {2, 4} :
        size <= Estimate(I) /\ (size = 4 \/ I.op = "icmp") /\ KeepResult(I.res, size)
  BY DEF Keeps
<1> DEFINE v == I.res
<1>2. v \in Vregs \ ParamNames(prog) /\ size \in Sizes
  BY InstructionAt DEF ProgramsFit
<1>3. Next
  BY <1>1, <1>2 DEF Next, Lowering
<1>4. phase = "lowering" /\ ResultSlot(v, size) /\ MapReg(v, ResultOffset(v))
  BY <1>1 DEF KeepResult, MayHoldResult
<1>5. phase' = "lowering" /\ nextLocalOffset' = nextLocalOffset
  BY <1>4 DEF ResultSlot, NewTempSlot, layoutVars
<1>6. /\ SelectorInv' /\ AtBlock' = AtBlock /\ at'.pos - 1 = at.pos
  BY <1>5, MovesWithin
<1>7. TypeOK
  BY DEF CompilationInv, IInv
\* The slot: one of the analysis, or a new temp.
<1>8. CASE HasSpillSlot(v)
  <2>1. UNCHANGED <<slots, index, tempSize, tempBase, tempCurrent>>
    BY <1>4, <1>8 DEF ResultSlot, tempVars
  <2>2. PlacesInv'
    BY <1>4, <1>8, <2>1, MapRegRecords DEF PlacesInv, HasSpillSlot, HasSlot, CompilationInv
  <2>3. ParamsInv'
    BY <2>1 DEF ParamsInv, KindOf, CompilationInv, anaVars
  <2>4. EstimateInv'
    <3>1. /\ Estimate(I) \in Nat /\ tempCurrent + Estimate(I) <= tempBase + Needed(AtBlock)[at.pos]
          /\ Needed(AtBlock)[at.pos] \in Int
      BY <1>4, EstimateLeaves
    <3>2. tempCurrent <= tempBase + Needed(AtBlock)[at.pos]
      BY <1>7, <3>1 DEF TypeOK
    <3>3. tempCurrent' <= nextLocalOffset' /\ tempSize' >= MaxTempSpace(prog')
      BY <1>4, <1>5, <2>1 DEF CompilationInv, EstimateInv, anaVars
    <3>4. QED
      BY <1>6, <2>1, <3>2, <3>3 DEF EstimateInv
  <2>5. QED
    BY <1>3, <1>6, <2>2, <2>3, <2>4 DEF AfterSelecting
<1>9. CASE ~HasSpillSlot(v)
  <2>1. NewTempSlot(v, size)
    BY <1>4, <1>9 DEF ResultSlot
  <2>2. /\ slots' \in Seq(Slot) /\ Len(slots') = Len(slots) + 1
        /\ \A i \in 1 .. Len(slots) : slots'[i] = slots[i]
        /\ slots'[Len(slots) + 1].kind = "Temp"
        /\ DOMAIN index' = DOMAIN index \cup {v}
        /\ \A n \in DOMAIN index \ {v} : index'[n] = index[n]
        /\ index'[v] = Len(slots) + 1
    <3>1. /\ AddSlot(v, size, "Temp", NoReg, tempCurrent) /\ tempCurrent \in Int
          /\ v \in Names /\ "Temp" \in Kinds /\ NoReg \in ParamRegs \cup {NoReg}
      BY <1>2, <1>7, <2>1 DEF NewTempSlot, TypeOK, Names, Kinds
    <3>2. QED
      BY <1>2, <1>7, <3>1, SlotAdded
  <2>3. PlacesInv'
    BY <1>4, <2>2, MapRegRecords DEF PlacesInv, HasSlot, CompilationInv
  <2>4. ParamsInv'
    <3> SUFFICES ASSUME NEW n \in DOMAIN index', slots'[index'[n]].kind = "Param"
                 PROVE  n \in ParamNames(prog)
      BY DEF ParamsInv, KindOf, anaVars
    <3>1. n # v /\ n \in DOMAIN index /\ index'[n] = index[n]
      BY <2>2
    <3>2. index[n] \in 1 .. Len(slots)
      BY <1>7, <3>1 DEF TypeOK
    <3>3. QED
      BY <2>2, <3>1, <3>2 DEF CompilationInv, ParamsInv, KindOf
  <2>5. EstimateInv'
    <3>1. /\ Estimate(I) \in Nat /\ tempCurrent + Estimate(I) <= tempBase + Needed(AtBlock)[at.pos]
          /\ tempBase + Needed(AtBlock)[at.pos] <= nextLocalOffset
          /\ Needed(AtBlock)[at.pos] \in Int
      BY <1>4, EstimateLeaves
    <3>2. tempCurrent \in Int /\ tempBase \in Int /\ nextLocalOffset \in Int
      BY <1>7 DEF TypeOK
    <3>3. /\ tempCurrent + size <= nextLocalOffset
          /\ tempCurrent + size <= tempBase + Needed(AtBlock)[at.pos]
      BY <1>1, <3>1, <3>2
    <3>4. UNCHANGED <<tempBase, tempSize>> /\ tempCurrent' = tempCurrent + size
      BY <1>4, <2>1, <3>3, TempFits DEF CompilationInv
    <3>5. tempSize' >= MaxTempSpace(prog')
      BY <1>4, <3>4 DEF CompilationInv, EstimateInv, anaVars
    <3>6. QED
      BY <1>5, <1>6, <3>3, <3>4, <3>5 DEF EstimateInv
  <2>6. QED
    BY <1>3, <1>6, <2>3, <2>4, <2>5 DEF AfterSelecting
<1>10. QED
  BY <1>8, <1>9

\* lowerInstruction, whichever handler it is.
LEMMA InstructionStep ==
  ASSUME ProgramsFit, CompilationInv, LowerInstruction
  PROVE  [Next]_vars /\ AfterSelecting'
<1>1. ASSUME Advances PROVE Moves /\ Selecting("body") /\ at.pos <= Len(Body) /\ at.part = "body"
                            /\ at'.part = "body"
  <2>1. at \in [block : Nat \ {0}, part : Parts, pos : Nat \ {0}]
    BY DEF CompilationInv, SelectorInv
  <2>2. QED
    BY <1>1, <2>1 DEF Advances, Moves, Selecting
<1>2. CASE \/ LowerAdd32 \/ LowerSub32 \/ LowerMul32 \/ LowerDivRem32 \/ LowerBinaryOp32
           \/ LowerSExt \/ LowerICmp32 \/ LowerICmp16 \/ LowerLoad32
  <2>1. Keeps /\ I.op # "store" /\ Advances /\ UNCHANGED anaVars
    BY <1>2, HandlerKeeps
  <2>2. QED
    BY <1>1, <2>1, KeepsStep
<1>3. CASE \/ LowerAdd16 \/ LowerSub16 \/ LowerMul16 \/ LowerDivRem16 \/ LowerBinaryOp16
           \/ LowerShift \/ LowerTrunc \/ LowerZExt16 \/ LowerFreeze \/ LowerAlloca
           \/ LowerLoad16 \/ LowerSelect
  <2>1. Registers /\ I.op # "store" /\ Advances /\ UNCHANGED anaVars
    BY <1>3, HandlerRegisters
  <2>2. QED
    BY <1>1, <2>1, RegistersStep
<1>4. CASE LowerStore32 \/ LowerStore16 \/ LowerPhi
  <2>1. Rests /\ Advances /\ UNCHANGED anaVars
    BY <1>4, HandlerRests
  <2>2. QED
    BY <1>1, <2>1, RegistersStep
<1>5. CASE LowerZExt32
  <2>1. /\ Registers /\ UNCHANGED anaVars /\ Selecting("body") /\ at.pos <= Len(Body)
        /\ I.op = "zext" /\ I.w = 2 /\ at' = [at EXCEPT !.part = "widen"]
    BY <1>5, ZExtRegisters
  <2>2. Moves /\ I.op # "store"
    BY <2>1 DEF Moves, Selecting
  <2>3. QED
    BY <2>1, <2>2, RegistersStep
<1>6. CASE WidenZExt
  <2>1. /\ Keeps /\ UNCHANGED anaVars /\ at.part = "widen" /\ at.pos <= Len(Body)
        /\ I.op # "store" /\ at' = [at EXCEPT !.part = "body", !.pos = @ + 1]
    BY <1>6, ZExtKeeps
  <2>2. at'.part = "body" /\ Moves
    BY <2>1 DEF Moves, CompilationInv, SelectorInv
  <2>3. QED
    BY <2>1, <2>2, KeepsStep
<1>7. QED
  BY <1>2, <1>3, <1>4, <1>5, <1>6 DEF LowerInstruction

-----------------------------------------------------------------------------
(* The analysis, the layout, and the steps between the handlers *)

\* A slot of the analysis does not make a parameter of anything else.
LEMMA SlotKeepsParams ==
  ASSUME TypeOK, ParamsInv, NEW name \in Names, NEW size \in Sizes, NEW kind \in Kinds,
         NEW reg \in ParamRegs \cup {NoReg}, AddSlot(name, size, kind, reg, 0),
         UNCHANGED prog, kind = "Param" => name \in ParamNames(prog)
  PROVE  ParamsInv' /\ DOMAIN index' = DOMAIN index \cup {name}
<1>1. /\ \A i \in 1 .. Len(slots) : slots'[i] = slots[i]
      /\ slots'[Len(slots) + 1].kind = kind
      /\ DOMAIN index' = DOMAIN index \cup {name}
      /\ \A n \in DOMAIN index \ {name} : index'[n] = index[n]
      /\ index'[name] = Len(slots) + 1
  <2>1. 0 \in Int
    OBVIOUS
  <2>2. QED
    BY <2>1, SlotAdded
<1>2. SUFFICES ASSUME NEW n \in DOMAIN index', slots'[index'[n]].kind = "Param"
               PROVE  n \in ParamNames(prog)
  BY <1>1 DEF ParamsInv, KindOf
<1>3. CASE n = name
  BY <1>1, <1>2, <1>3
<1>4. CASE n # name
  <2>1. n \in DOMAIN index /\ index'[n] = index[n] /\ index[n] \in 1 .. Len(slots)
    BY <1>1, <1>4 DEF TypeOK
  <2>2. QED
    BY <1>1, <1>2, <2>1 DEF ParamsInv, KindOf
<1>5. QED
  BY <1>3, <1>4

\* FunctionAnalysis registers what its class allows, and reserves enough.
LEMMA AnalyzeStep ==
  ASSUME ProgramsFit, CompilationInv, Analyze, UNCHANGED lowVars
  PROVE  [Next]_vars /\ AfterSelecting'
<1>1. /\ phase = "analysis" /\ prog \in Programs /\ todo \in Nat \ {0} /\ at = Start
      /\ at' = at /\ TypeOK
  BY DEF Analyze, CompilationInv, SelectorInv, IInv, lowVars
<1>2. ASSUME prog' = prog, todo' \in Nat \ {0}, phase' # "lowering" PROVE SelectorInv'
  BY <1>1, <1>2 DEF SelectorInv, CompilationInv, Start
<1>3. Registered => prog' = prog /\ todo' \in Nat \ {0}
  BY <1>1 DEF Registered
<1>4. ASSUME phase' = "analysis" PROVE EstimateInv'
  BY <1>4 DEF EstimateInv
<1>5. CASE AnalyzeParam
  <2> DEFINE v == prog.params[todo].v
             size == 2 * prog.params[todo].w
             reg == ParamReg(todo)
  <2>1. todo \in 1 .. Len(prog.params) /\ DOMAIN prog.params = 1 .. Len(prog.params)
    BY <1>1, <1>5, ProgramFields DEF AnalyzeParam, ParamCount
  <2>2. v \in Vregs /\ prog.params[todo].w \in {1, 2} /\ v \in ParamNames(prog)
    BY <1>1, <2>1, ProgramFields DEF ParamNames
  <2>3. size \in Sizes \cap {2, 4}
    BY <2>2 DEF ProgramsFit
  <2>4. reg \in ParamRegs \cup {NoReg}
    <3>1. CASE todo <= 3 /\ prog.params[todo].w = 1
      <4>1. todo = 1 \/ todo = 2 \/ todo = 3
        BY <2>1, <3>1
      <4>2. QED
        BY <3>1, <4>1 DEF ParamReg, ParamRegs
    <3>2. QED
      BY <3>1 DEF ParamReg
  <2>5. AddParam(v, size, reg) /\ Registered
    BY <1>5 DEF AnalyzeParam
  <2> HIDE DEF v, size, reg
  <2>6. Next
    BY <2>2, <2>3, <2>4, <2>5 DEF Next, Analysis
  <2>7. /\ AddSlot(v, size, "Param", reg, 0) /\ v \in Names /\ "Param" \in Kinds
        /\ phase' = phase
    BY <2>2, <2>5 DEF AddParam, Names, Kinds, layoutVars
  <2>8. ParamsInv' /\ DOMAIN index' = DOMAIN index \cup {v}
    <3>1. ParamsInv /\ prog' = prog
      BY <1>3, <2>5 DEF CompilationInv
    <3>2. QED
      BY <1>1, <2>2, <2>3, <2>4, <2>7, <3>1, SlotKeepsParams
  <2>9. PlacesInv'
    BY <2>5, <2>8 DEF AddParam, Put, PlacesInv, HasSlot, CompilationInv
  <2>10. QED
    BY <1>1, <1>2, <1>3, <1>4, <2>5, <2>6, <2>7, <2>8, <2>9 DEF AfterSelecting
\* Allocas and spill slots.
<1>6. ASSUME NEW v \in Vregs, NEW size \in {2, 4}, NEW kind \in {"Alloca", "Spill"},
             IF kind = "Alloca" THEN AddAllocaSlot(v, size) ELSE AddSpillSlot(v, size),
             Registered
      PROVE  [Next]_vars /\ AfterSelecting'
  <2>1. size \in Sizes \cap {2, 4}
    BY DEF ProgramsFit
  <2>2. Next
    BY <1>6, <2>1 DEF Next, Analysis
  <2>3. /\ AddSlot(v, size, kind, NoReg, 0) /\ v \in Names /\ kind \in Kinds
        /\ NoReg \in ParamRegs \cup {NoReg} /\ kind # "Param"
        /\ phase' = phase /\ vregToPhys' = vregToPhys
    BY <1>6 DEF AddAllocaSlot, AddSpillSlot, Names, Kinds, layoutVars, regVars
  <2>4. ParamsInv' /\ DOMAIN index' = DOMAIN index \cup {v}
    <3>1. ParamsInv /\ prog' = prog
      BY <1>3, <1>6 DEF CompilationInv
    <3>2. QED
      BY <1>1, <2>1, <2>3, <3>1, SlotKeepsParams
  <2>5. PlacesInv'
    BY <2>3, <2>4 DEF PlacesInv, HasSlot, CompilationInv
  <2>6. QED
    BY <1>1, <1>2, <1>3, <1>4, <1>6, <2>2, <2>3, <2>4, <2>5 DEF AfterSelecting
<1>7. CASE AnalyzeAlloca
  <2> DEFINE k == todo - ParamCount
             i == OfOpcode("alloca")[k]
  <2>1. k \in 1 .. Len(OfOpcode("alloca")) /\ AddAllocaSlot(i.res, Words(i)) /\ Registered
    BY <1>7 DEF AnalyzeAlloca, AllocaCount
  <2> HIDE DEF k
  <2>2. i.res \in Vregs /\ i.w \in {1, 2}
    BY <1>1, <2>1, OfOpcodeTyped
  <2>3. Words(i) \in {2, 4}
    BY <2>2 DEF Words
  <2> HIDE DEF i
  <2>4. QED
    BY <1>6, <2>1, <2>2, <2>3
<1>8. CASE SpillCrossBlock
  <2> DEFINE k == todo - ParamCount - AllocaCount
  <2>1. k \in 1 .. SpillCount /\ AddSpillSlot(Spills[k], 4) /\ Registered
    BY <1>8 DEF SpillCrossBlock
  <2> HIDE DEF k
  <2>2. Spills[k] \in Vregs
    BY <1>1, <2>1, SpillsTyped
  <2>3. QED
    BY <1>6, <2>1, <2>2
<1>9. CASE SpillPhi
  <2> DEFINE k == todo - ParamCount - AllocaCount - SpillCount
             i == OfOpcode("phi")[k]
  <2>1. /\ k \in 1 .. Len(OfOpcode("phi")) /\ Registered
        /\ UNCHANGED vars \/ AddSpillSlot(i.res, Words(i))
    BY <1>9 DEF SpillPhi, PhiCount
  <2> HIDE DEF k
  <2>2. i.res \in Vregs /\ i.w \in {1, 2}
    BY <1>1, <2>1, OfOpcodeTyped
  <2>3. Words(i) \in {2, 4}
    BY <2>2 DEF Words
  <2> HIDE DEF i
  <2>4. CASE UNCHANGED vars
    <3>1. PlacesInv' /\ ParamsInv' /\ phase' = "analysis"
      BY <1>1, <1>3, <2>1, <2>4 DEF vars, regVars, layoutVars, PlacesInv, HasSlot,
         ParamsInv, KindOf, CompilationInv
    <3>2. QED
      BY <1>2, <1>3, <1>4, <2>1, <2>4, <3>1 DEF AfterSelecting
  <2>5. QED
    BY <1>6, <2>1, <2>2, <2>3, <2>4
<1>10. CASE FinishAnalysis
  <2>1. SetMaxTempSpace(MaxTempSpace(prog)) /\ UNCHANGED anaVars
    BY <1>10 DEF FinishAnalysis
  <2>2. MaxTempSpace(prog) \in TempSpaces
    BY <1>1, ProgramFields
  <2>3. Next
    BY <2>1, <2>2 DEF Next, Analysis
  <2>4. /\ phase' = "params" /\ tempSize' = MaxTempSpace(prog) /\ prog' = prog
        /\ MaxTempSpace(prog) \in Nat
    BY <2>1, <2>2, TempSpacesAssumption DEF SetMaxTempSpace, anaVars
  <2>5. EstimateInv'
    BY <2>4 DEF EstimateInv
  <2>6. PlacesInv' /\ ParamsInv'
    BY <2>1, <2>4 DEF SetMaxTempSpace, regVars, PlacesInv, HasSlot, ParamsInv, KindOf,
       CompilationInv
  <2>7. QED
    BY <1>1, <1>2, <2>1, <2>3, <2>4, <2>5, <2>6 DEF AfterSelecting, anaVars
<1>11. QED
  BY <1>5, <1>7, <1>8, <1>9, <1>10 DEF Analyze

\* computeLayout keeps what the analysis reserved, and starts with no temp taken.
LEMMA LayoutStep ==
  ASSUME ProgramsFit, CompilationInv, Layout, UNCHANGED lowVars
  PROVE  [Next]_vars /\ AfterSelecting'
<1>1. /\ phase \in {"params", "locals"} /\ at = Start /\ at' = at /\ prog' = prog /\ todo' = todo
      /\ UNCHANGED <<index, vregToPhys, tempSize>>
  BY DEF Layout, ComputeLayout, PlaceParam, ParamsPlaced, PlaceLocal, PlaceTempArea,
         CompilationInv, SelectorInv, lowVars, anaVars, regVars, tempVars
<1>2. Next
  BY DEF Layout, Next
<1>3. TypeOK /\ slots \in Seq(Slot)
  BY DEF CompilationInv, IInv, TypeOK
<1>4. \A i \in 1 .. Len(slots) : slots'[i].kind = slots[i].kind
  <2>1. ASSUME NEW o \in Int, cursor \in 1 .. Len(slots),
               slots' = [slots EXCEPT ![cursor].off = o]
        PROVE  \A i \in 1 .. Len(slots) : slots'[i].kind = slots[i].kind
    BY <1>3, <2>1, SlotMoved
  <2>2. CASE PlaceParam
    <3>1. cursor \in 1 .. Len(slots) /\ paramOffset \in Int
      BY <1>3, <2>2 DEF PlaceParam, TypeOK
    <3>2. QED
      BY <2>1, <2>2, <3>1 DEF PlaceParam
  <2>3. CASE PlaceLocal
    <3>1. cursor \in 1 .. Len(slots) /\ nextLocalOffset \in Int
      BY <1>3, <2>3 DEF PlaceLocal, TypeOK
    <3>2. CASE IsLocal(slots[cursor])
      <4>1. slots[cursor].size \in Int
        BY <1>3, <3>1, SlotFields
      <4>2. nextLocalOffset' \in Int
        BY <2>3, <3>1, <3>2, <4>1 DEF PlaceLocal
      <4>3. QED
        BY <2>1, <2>3, <3>1, <3>2, <4>2 DEF PlaceLocal
    <3>3. QED
      BY <2>3, <3>2 DEF PlaceLocal
  <2>4. CASE ParamsPlaced \/ PlaceTempArea
    BY <2>4 DEF ParamsPlaced, PlaceTempArea
  <2>5. QED
    BY <2>2, <2>3, <2>4 DEF Layout, ComputeLayout
<1>5. ParamsInv'
  <2> SUFFICES ASSUME NEW n \in DOMAIN index, slots'[index[n]].kind = "Param"
               PROVE  n \in ParamNames(prog)
    BY <1>1 DEF ParamsInv, KindOf
  <2>1. index[n] \in 1 .. Len(slots)
    BY <1>3 DEF TypeOK
  <2>2. QED
    BY <1>4, <2>1 DEF ParamsInv, KindOf, CompilationInv
<1>6. PlacesInv'
  BY <1>1 DEF PlacesInv, HasSlot, CompilationInv
<1>7. SelectorInv'
  BY <1>1 DEF SelectorInv, CompilationInv, Start
<1>8. EstimateInv'
  <2>1. tempSize' >= MaxTempSpace(prog')
    BY <1>1 DEF EstimateInv, CompilationInv
  <2>2. phase' = "lowering" => tempCurrent' <= nextLocalOffset'
    <3>1. phase' = "lowering" => PlaceTempArea
      BY DEF Layout, ComputeLayout, PlaceParam, ParamsPlaced, PlaceLocal
    <3>2. PlaceTempArea => tempCurrent' <= nextLocalOffset'
      BY <1>3 DEF PlaceTempArea, TypeOK
    <3>3. QED
      BY <3>1, <3>2
  <2>3. at'.part = "label"
    BY <1>1 DEF Start
  <2>4. QED
    BY <2>1, <2>2, <2>3 DEF EstimateInv
<1>9. QED
  BY <1>2, <1>5, <1>6, <1>7, <1>8 DEF AfterSelecting

\* Between the handlers.
LEMMA BetweenStep ==
  ASSUME ProgramsFit, CompilationInv,
         \/ BeginBlock \/ LoadPhi \/ PhisLoaded \/ BodyDone \/ StorePhi \/ PhisStored
         \/ LowerRet \/ LowerBr \/ LowerCondBr \/ LowerSwitch
  PROVE  [Next]_vars /\ AfterSelecting'
<1>1. /\ at \in [block : Nat \ {0}, part : Parts, pos : Nat \ {0}]
      /\ prog \in Programs /\ todo \in Nat \ {0} /\ TypeOK
      /\ tempBase \in Int /\ tempCurrent \in Int /\ tempSize \in Nat /\ nextLocalOffset \in Int
  BY DEF CompilationInv, SelectorInv, IInv, TypeOK
<1>2. phase = "lowering" /\ at.block <= Len(prog.blocks) /\ UNCHANGED anaVars
  BY DEF Selecting, BeginBlock, LoadPhi, PhisLoaded, BodyDone, StorePhi, PhisStored,
         LowerRet, LowerBr, LowerCondBr, LowerSwitch, Ends, Terminate
<1>3. tempBase + tempSize = nextLocalOffset
  BY <1>2 DEF CompilationInv, IInv, OrderInv, TempOrder
<1>4. tempSize >= MaxTempSpace(prog) /\ tempCurrent <= nextLocalOffset
  BY <1>2 DEF CompilationInv, EstimateInv
<1>5. at.block \in 1 .. Len(prog.blocks) /\ AtBlock = prog.blocks[at.block]
      /\ Len(Body) \in Nat /\ Body \in Seq(InstrsOf(prog))
  BY <1>1, <1>2, ProgramFields DEF AtBlock, Body
\* The frame as it is, the position in another part.
<1>6. ASSUME UNCHANGED vars, UNCHANGED prog,
             at' \in [block : Nat \ {0}, part : Parts, pos : Nat \ {0}],
             \/ at'.part \notin {"phis", "body", "widen"}
             \/ at'.part = "body" /\ at.part = "phis" /\ at'.pos = 1 /\ at'.block = at.block
      PROVE  [Next]_vars /\ AfterSelecting'
  <2>1. PlacesInv' /\ ParamsInv'
    BY <1>6 DEF vars, regVars, PlacesInv, ParamsInv, HasSlot, KindOf, CompilationInv
  <2>2. /\ UNCHANGED <<phase, tempSize, tempBase, tempCurrent, nextLocalOffset>>
        /\ todo' = todo
    BY <1>2, <1>6 DEF vars, layoutVars, tempVars, anaVars
  <2>3. CASE at'.part \notin {"phis", "body", "widen"}
    <3>1. SelectorInv'
      BY <1>1, <1>2, <1>6, <2>2, <2>3 DEF SelectorInv
    <3>2. EstimateInv'
      BY <1>4, <1>6, <2>2, <2>3 DEF EstimateInv
    <3>3. QED
      BY <1>6, <2>1, <3>1, <3>2 DEF AfterSelecting
  <2>4. CASE at'.part = "body" /\ at.part = "phis" /\ at'.pos = 1 /\ at'.block = at.block
    <3>1. AtBlock' = AtBlock /\ Body' = Body
      BY <1>6, <2>4 DEF AtBlock, Body
    <3>2. SelectorInv'
      BY <1>1, <1>2, <1>5, <1>6, <2>2, <2>4, <3>1 DEF SelectorInv
    <3>3. Needed(AtBlock)[0] = 0
      BY <1>1, <1>5, NeededFacts
    <3>4. tempCurrent = tempBase
      BY <1>2, <2>4 DEF CompilationInv, EstimateInv
    <3>5. EstimateInv'
      BY <1>1, <1>4, <1>6, <2>2, <2>4, <3>1, <3>3, <3>4 DEF EstimateInv
    <3>6. QED
      BY <1>6, <2>1, <3>2, <3>5 DEF AfterSelecting
  <2>5. QED
    BY <1>6, <2>3, <2>4
<1>7. CASE BeginBlock
  <2>1. /\ ResetTemp /\ at.part = "label" /\ at' = [at EXCEPT !.part = "phis"]
        /\ UNCHANGED <<prog, todo>>
    BY <1>7 DEF BeginBlock, Selecting, anaVars
  <2>2. Next
    BY <2>1 DEF Next, Lowering
  <2>3. /\ UNCHANGED <<slots, index, vregToPhys, tempSize, tempBase, nextLocalOffset, phase>>
        /\ tempCurrent' = tempBase
    BY <2>1 DEF ResetTemp, layoutVars, regVars
  <2>4. PlacesInv' /\ ParamsInv'
    BY <2>1, <2>3 DEF PlacesInv, ParamsInv, HasSlot, KindOf, CompilationInv
  <2>5. /\ at' \in [block : Nat \ {0}, part : Parts, pos : Nat \ {0}]
        /\ at'.part = "phis" /\ at'.block = at.block
    BY <1>1, <2>1 DEF Parts
  <2>6. SelectorInv'
    BY <1>1, <1>2, <2>1, <2>3, <2>5 DEF SelectorInv
  <2>7. EstimateInv'
    BY <1>1, <1>3, <1>4, <2>1, <2>3, <2>5 DEF EstimateInv
  <2>8. QED
    BY <2>2, <2>4, <2>6, <2>7 DEF AfterSelecting
<1>8. CASE LoadPhi
  <2> DEFINE v == PhisOf(AtBlock)[at.pos].res
  <2>1. /\ SetPhysReg(v, ax) /\ at.part = "phis" /\ at.pos <= Len(PhisOf(AtBlock))
        /\ at' = [at EXCEPT !.pos = @ + 1] /\ UNCHANGED <<prog, todo>>
    BY <1>8 DEF LoadPhi, Selecting, anaVars
  <2>2. v \in Vregs \ ParamNames(prog)
    <3>1. PhisOf(AtBlock) \in Seq({r \in InstrsOf(prog) : r.op = "phi"})
      BY <1>5, WithOpcodeTyped DEF PhisOf, Body
    <3>2. at.pos \in 1 .. Len(PhisOf(AtBlock))
      BY <1>1, <2>1, <3>1
    <3>3. PhisOf(AtBlock)[at.pos] \in {r \in InstrsOf(prog) : r.op = "phi"}
      BY <3>1, <3>2
    <3>4. QED
      BY <1>1, <3>3, ProgramFields DEF HasResult
  <2> HIDE DEF v
  <2>3. ax \in ResultPlaces(v) /\ ax \in TempRegs
    BY <2>2, ResultPlaceFits DEF TempRegs
  <2>4. Next
    BY <2>1, <2>2, <2>3 DEF Next, Lowering
  <2>5. UNCHANGED <<slots, index, tempSize, tempBase, tempCurrent, nextLocalOffset, phase>>
        /\ MapReg(v, ax)
    BY <2>1 DEF SetPhysReg, layoutVars, tempVars
  <2>6. PlacesInv' /\ ParamsInv'
    BY <2>1, <2>3, <2>5, MapRegRecords DEF PlacesInv, ParamsInv, HasSlot, KindOf, CompilationInv
  <2>7. /\ at' \in [block : Nat \ {0}, part : Parts, pos : Nat \ {0}]
        /\ at'.part = "phis" /\ at'.block = at.block
    BY <1>1, <2>1
  <2>8. SelectorInv'
    BY <1>1, <1>2, <2>1, <2>5, <2>7 DEF SelectorInv
  <2>9. EstimateInv'
    BY <1>2, <1>4, <2>1, <2>5, <2>7 DEF EstimateInv, CompilationInv
  <2>10. QED
    BY <2>4, <2>6, <2>8, <2>9 DEF AfterSelecting
<1>9. CASE PhisLoaded
  <2>1. /\ UNCHANGED <<vars, prog>> /\ at.part = "phis"
        /\ at' = [at EXCEPT !.part = "body", !.pos = 1]
    BY <1>9 DEF PhisLoaded, Selecting, anaVars
  <2>2. /\ at' \in [block : Nat \ {0}, part : Parts, pos : Nat \ {0}]
        /\ at'.part = "body" /\ at'.pos = 1 /\ at'.block = at.block
    <3>1. at' = [block |-> at.block, part |-> "body", pos |-> 1] /\ at.block \in Nat \ {0}
      BY <1>1, <2>1
    <3>2. QED
      BY <3>1 DEF Parts
  <2>3. QED
    BY <1>6, <2>1, <2>2
<1>10. CASE BodyDone \/ StorePhi \/ PhisStored
  <2>1. /\ UNCHANGED <<vars, prog>> /\ at.part \in {"body", "stores"}
        /\ \/ at' = [at EXCEPT !.part = "stores", !.pos = 1]
           \/ at.part = "stores" /\ at' = [at EXCEPT !.pos = @ + 1]
           \/ at' = [at EXCEPT !.part = "term"]
    BY <1>10 DEF BodyDone, StorePhi, PhisStored, Selecting, anaVars
  <2>2. /\ at' \in [block : Nat \ {0}, part : Parts, pos : Nat \ {0}]
        /\ at'.part \in {"stores", "term"}
    <3>1. CASE at' = [at EXCEPT !.part = "stores", !.pos = 1]
      <4>1. at' = [block |-> at.block, part |-> "stores", pos |-> 1] /\ at.block \in Nat \ {0}
        BY <1>1, <3>1
      <4>2. QED
        BY <4>1 DEF Parts
    <3>2. CASE at.part = "stores" /\ at' = [at EXCEPT !.pos = @ + 1]
      BY <1>1, <3>2
    <3>3. CASE at' = [at EXCEPT !.part = "term"]
      BY <1>1, <3>3 DEF Parts
    <3>4. QED
      BY <2>1, <3>1, <3>2, <3>3
  <2>3. QED
    BY <1>6, <2>1, <2>2
<1>11. CASE LowerRet \/ LowerBr \/ LowerCondBr \/ LowerSwitch
  <2>1. UNCHANGED <<vars, prog>> /\ at' = [Start EXCEPT !.block = at.block + 1]
    BY <1>11 DEF LowerRet, LowerBr, LowerCondBr, LowerSwitch, Terminate, anaVars
  <2>2. /\ at' \in [block : Nat \ {0}, part : Parts, pos : Nat \ {0}]
        /\ at'.part = "label"
    BY <1>1, <2>1 DEF Parts, Start
  <2>3. QED
    BY <1>6, <2>1, <2>2
<1>12. QED
  BY <1>7, <1>8, <1>9, <1>10, <1>11

-----------------------------------------------------------------------------
(* The theorems *)

\* What is proved of StackFrame's steps holds of the compiler's.
LEMMA CompilationStep ==
  ASSUME ProgramsFit, CompilationInv, [CNext]_allVars
  PROVE  [Next]_vars /\ CompilationInv'
<1>1. [Next]_vars /\ AfterSelecting'
  <2>1. CASE Compile
    BY <2>1, AnalyzeStep, LayoutStep, BetweenStep, InstructionStep
    DEF Compile, Prepare, SelectInstructions
  <2>2. CASE UNCHANGED compileVars
    BY <2>2 DEF compileVars, vars, anaVars, lowVars, layoutVars, regVars, tempVars, AfterSelecting,
       CompilationInv, SelectorInv, PlacesInv, ParamsInv, EstimateInv, HasSlot, KindOf,
       AtBlock, Body, I
  <2>3. Compile \/ UNCHANGED compileVars
    BY DEF CNext, BeginCall, PassArgument, Enter, Executes, Compute1, ComputeFixed, Jump1,
       PassLabel, PassMarker, CallRuntime, RunRuntime, ReturnFromRuntime, Return, Halted, allVars
  <2>4. QED
    BY <2>1, <2>2, <2>3
<1>2. IInv'
  BY <1>1, TypeStep, RegMapsStep, AnalysisStep, OrderStep DEF IInv, CompilationInv
<1>3. QED
  BY <1>1, <1>2 DEF AfterSelecting, CompilationInv

\* It holds when the analysis begins.
LEMMA CompilationInit ==
  ASSUME ProgramsFit, CInit
  PROVE  Init /\ CompilationInv
<1>1. /\ Init /\ prog \in Programs /\ todo = 1 /\ at = Start
  BY DEF CInit, SelectionInit, AnalysisInit
<1>2. IInv
  BY <1>1, TypeInit, OrderInit DEF Init, IInv, RegMapsInverse, AnalysisInv, EmptyMap
<1>3. SelectorInv
  BY <1>1 DEF Init, SelectorInv, Start, Parts
<1>4. PlacesInv /\ ParamsInv /\ EstimateInv
  BY <1>1 DEF Init, PlacesInv, ParamsInv, EstimateInv, EmptyMap
<1>5. QED
  BY <1>1, <1>2, <1>3, <1>4 DEF CompilationInv

\* FunctionAnalysis, computeLayout and the handlers use the frame as its class
\* means it to be used, for every set of well-formed functions: the compiler
\* implements StackFrame, and everything proved of StackFrame holds of it.
THEOREM FrameIsUsedAsMeant ==
  ASSUME ProgramsFit
  PROVE  CSpec => FrameUse
<1>1. CInit => Init /\ CompilationInv
  BY CompilationInit
<1>2. CompilationInv /\ [CNext]_allVars => [Next]_vars /\ CompilationInv'
  BY CompilationStep
<1>3. QED
  BY <1>1, <1>2, PTL DEF CSpec, FrameUse, Spec

\* computeMaxTempSpace: in every block of every function, what the handlers take
\* fits in the temp space that was estimated.
THEOREM EstimatesSuffice ==
  ASSUME ProgramsFit
  PROVE  CSpec => []EstimateSuffices
<1>1. CInit => CompilationInv
  BY CompilationInit
<1>2. CompilationInv /\ [CNext]_allVars => CompilationInv'
  BY CompilationStep
<1>3. CompilationInv => EstimateSuffices
  BY DEF CompilationInv, EstimateInv, EstimateSuffices
<1>4. QED
  BY <1>1, <1>2, <1>3, PTL DEF CSpec

\* setPhysReg, as the handlers call it: no register is ever recorded as holding
\* two vregs of the function.
THEOREM CompiledRegMapsInverse ==
  ASSUME ProgramsFit
  PROVE  CSpec => []RegMapsInverse
  BY FrameIsUsedAsMeant, RegMapsInverseAlways, PTL DEF FrameUse

\* computeLayout, allocTemp, resetTemp, as the compiler calls them: in every
\* compilation the frame does what FrameContract promises.
THEOREM CompilerKeepsContract ==
  ASSUME ProgramsFit
  PROVE  CSpec => KeepsContract
  BY FrameIsUsedAsMeant, StackFrameKeepsContract, PTL DEF FrameUse

\* allocTemp, allocResultSlot: the temps of a compiled block never reach its
\* allocas and spilled vregs, nor the saved registers, because the estimate
\* suffices; of the class alone this is not true.
THEOREM CompiledTempsAvoidLocals ==
  ASSUME ProgramsFit
  PROVE  CSpec => []TempsAvoidLocals
<1>1. CInit => CompilationInv
  BY CompilationInit
<1>2. CompilationInv /\ [CNext]_allVars => CompilationInv'
  BY CompilationStep
<1>3. CompilationInv => TempsAvoidLocals
  <2> SUFFICES ASSUME CompilationInv, phase = "lowering", NEW i \in BlockTemps
               PROVE  /\ \A j \in LocalIndices : Disjoint(slots[i], slots[j])
                      /\ End(slots[i]) <= -SavedRegs
    BY DEF TempsAvoidLocals
  <2>1. tempCurrent <= nextLocalOffset
    BY DEF CompilationInv, EstimateInv
  <2>2. /\ slots[i].off \in Int /\ slots[i].size \in Int
        /\ tempCurrent \in Int /\ nextLocalOffset \in Int
    BY SlotFields DEF BlockTemps, CompilationInv, IInv, TypeOK
  <2>3. End(slots[i]) <= tempCurrent /\ nextLocalOffset <= -SavedRegs
    BY DEF CompilationInv, IInv, OrderInv, TempOrder, LocalOrder
  <2>4. End(slots[i]) <= nextLocalOffset
    BY <2>1, <2>2, <2>3 DEF End
  <2>5. ASSUME NEW j \in LocalIndices PROVE Disjoint(slots[i], slots[j])
    <3>1. nextLocalOffset <= slots[j].off /\ slots[j].off \in Int
      <4>1. j \in PlacedLocals
        BY DEF PlacedLocals, LocalIndices
      <4>2. QED
        BY <4>1, SlotFields DEF CompilationInv, IInv, TypeOK, OrderInv, LocalOrder, LocalIndices
    <3>2. QED
      BY <2>2, <2>4, <3>1 DEF Disjoint, End
  <2>6. QED
    BY <2>2, <2>3, <2>4, <2>5 DEF End, SavedRegs
<1>4. QED
  BY <1>1, <1>2, <1>3, PTL DEF CSpec

-----------------------------------------------------------------------------
(* Code that stays in the frame *)

\* Where the function's own cells are, seen from bp.
OwnCells == FrameCells \ (-SavedRegs .. FirstParam - 1)

SafeOperand(o) == "mem" \in DOMAIN o => o.mem \in OwnCells
Safe(i) ==
  \A o \in {i[field] : field \in DOMAIN i \cap {"dst", "src"}} : SafeOperand(o)
SafeCode(seq) == IsSequence(seq) /\ \A k \in DOMAIN seq : Safe(seq[k])

\* Only a memory operand can leave the frame.
LEMMA OperandsSafe ==
  /\ \A r : SafeOperand(Reg(r)) /\ SafeOperand(LowByte(r))
  /\ \A n : SafeOperand(Imm(n))
  /\ SafeOperand(Unknown)
  /\ \A p : p \in OwnCells => SafeOperand(Mem(p))
<1>1. /\ \A r : SafeOperand(Reg(r)) /\ SafeOperand(LowByte(r))
      /\ \A n : SafeOperand(Imm(n))
      /\ SafeOperand(Unknown)
  BY DEF SafeOperand, Reg, LowByte, Imm, Unknown
<1>2. ASSUME NEW p \in OwnCells PROVE SafeOperand(Mem(p))
  BY DEF SafeOperand, Mem
<1>3. QED
  BY <1>1, <1>2

\* mov, and the instructions of two operands.
LEMMA MovesSafe ==
  ASSUME NEW d, NEW s, SafeOperand(d), SafeOperand(s)
  PROVE  Safe(Mov(d, s)) /\ \A op : Safe(Alu(op, d, s))
<1>1. Safe(Mov(d, s))
  BY DEF Safe, Mov
<1>2. \A op : Safe(Alu(op, d, s))
  BY DEF Safe, Alu
<1>3. QED
  BY <1>1, <1>2

\* The instructions that name no cell, and those with one operand.
LEMMA OthersSafe ==
  /\ \A op, s, lo, hi : SafeOperand(s) => Safe(Fixed(op, s, lo, hi))
  /\ \A op, to : Safe(Jump(op, to))
  /\ \A r : Safe(Call(r))
  /\ \A l : Safe(Label(l))
  /\ Safe(Retf)
  /\ \A i, place : Safe(Effect(i, place))
<1>1. \A op, s, lo, hi : SafeOperand(s) => Safe(Fixed(op, s, lo, hi))
  BY DEF Safe, Fixed
<1>2. \A op, to : Safe(Jump(op, to))
  BY DEF Safe, Jump
<1>3. (\A r : Safe(Call(r))) /\ (\A l : Safe(Label(l))) /\ Safe(Retf)
  BY DEF Safe, Call, Label, Retf
<1>4. \A i, place : Safe(Effect(i, place))
  BY DEF Safe, Effect
<1>5. QED
  BY <1>1, <1>2, <1>3, <1>4

\* Code is safe when its instructions are.
LEMMA SafeSequence ==
  ASSUME NEW R, NEW s \in Seq(R), \A r \in R : Safe(r)
  PROVE  SafeCode(s)
<1> DEFINE T == {s[k] : k \in DOMAIN s}
<1>1. Len(s) \in Nat /\ DOMAIN s = 1 .. Len(s) /\ s = [k \in 1 .. Len(s) |-> s[k]]
      /\ \A k \in 1 .. Len(s) : s[k] \in R
  OBVIOUS
<1>2. \A k \in 1 .. Len(s) : s[k] \in T
  BY <1>1
<1> HIDE DEF T
<1>3. s \in Seq(T)
  BY <1>1, <1>2
<1>4. IsSequence(s)
  BY <1>3 DEF IsSequence, T
<1> HIDE DEF Safe
<1>5. QED
  BY <1>1, <1>4 DEF SafeCode

\* Pieces of code are put together.
LEMMA ConcatSafe ==
  ASSUME NEW s, NEW t, SafeCode(s), SafeCode(t)
  PROVE  SafeCode(s \o t)
<1> DEFINE R == {s[k] : k \in DOMAIN s} \cup {t[k] : k \in DOMAIN t}
<1>1. \A r \in R : Safe(r)
  BY DEF SafeCode
<1>2. s \in Seq(R) /\ t \in Seq(R)
  <2>1. s \in Seq({s[k] : k \in DOMAIN s}) /\ t \in Seq({t[k] : k \in DOMAIN t})
    BY DEF SafeCode, IsSequence
  <2>2. QED
    BY <2>1
<1> HIDE DEF R
<1>3. s \o t \in Seq(R)
  BY <1>2
<1>4. QED
  BY <1>1, <1>3, SafeSequence

\* The short pieces that the handlers write out.
LEMMA TuplesSafe ==
  /\ SafeCode(<<>>)
  /\ \A a : Safe(a) => SafeCode(<<a>>)
  /\ \A a, b : Safe(a) /\ Safe(b) => SafeCode(<<a, b>>)
  /\ \A a, b, c : Safe(a) /\ Safe(b) /\ Safe(c) => SafeCode(<<a, b, c>>)
  /\ \A a, b, c, d : Safe(a) /\ Safe(b) /\ Safe(c) /\ Safe(d) => SafeCode(<<a, b, c, d>>)
<1>1. SafeCode(<<>>)
  <2> DEFINE R == {r \in {1} : FALSE}
             s == <<>>
  <2>1. s \in Seq(R) /\ \A r \in R : Safe(r)
    OBVIOUS
  <2> HIDE DEF R, s
  <2>2. SafeCode(s)
    BY <2>1, SafeSequence
  <2>3. QED
    BY <2>2 DEF s
<1>2. ASSUME NEW a, Safe(a) PROVE SafeCode(<<a>>)
  <2> DEFINE R == {a}
             s == <<a>>
  <2>1. s \in Seq(R) /\ \A r \in R : Safe(r)
    BY <1>2
  <2> HIDE DEF R, s
  <2>2. SafeCode(s)
    BY <2>1, SafeSequence
  <2>3. QED
    BY <2>2 DEF s
<1>3. ASSUME NEW a, NEW b, Safe(a), Safe(b) PROVE SafeCode(<<a, b>>)
  <2> DEFINE R == {a, b}
             s == <<a, b>>
  <2>1. s \in Seq(R) /\ \A r \in R : Safe(r)
    BY <1>3
  <2> HIDE DEF R, s
  <2>2. SafeCode(s)
    BY <2>1, SafeSequence
  <2>3. QED
    BY <2>2 DEF s
<1>4. ASSUME NEW a, NEW b, NEW c, Safe(a), Safe(b), Safe(c) PROVE SafeCode(<<a, b, c>>)
  <2> DEFINE R == {a, b, c}
             s == <<a, b, c>>
  <2>1. s \in Seq(R) /\ \A r \in R : Safe(r)
    BY <1>4
  <2> HIDE DEF R, s
  <2>2. SafeCode(s)
    BY <2>1, SafeSequence
  <2>3. QED
    BY <2>2 DEF s
<1>5. ASSUME NEW a, NEW b, NEW c, NEW d, Safe(a), Safe(b), Safe(c), Safe(d)
      PROVE  SafeCode(<<a, b, c, d>>)
  <2> DEFINE R == {a, b, c, d}
             s == <<a, b, c, d>>
  <2>1. s \in Seq(R) /\ \A r \in R : Safe(r)
    BY <1>5
  <2> HIDE DEF R, s
  <2>2. SafeCode(s)
    BY <2>1, SafeSequence
  <2>3. QED
    BY <2>2 DEF s
<1>6. QED
  BY <1>1, <1>2, <1>3, <1>4, <1>5

-----------------------------------------------------------------------------
(* The types of vregs and operands *)

Width == CHOOSE width \in [Vregs -> {1, 2}] : TypedBy(prog, width)

\* The widths that ProgramsTyped says there are.
LEMMA TypingOf ==
  ASSUME ProgramsTyped, prog \in Programs
  PROVE  Width \in [Vregs -> {1, 2}] /\ TypedBy(prog, Width)
<1>1. \E width \in [Vregs -> {1, 2}] : TypedBy(prog, width)
  BY DEF ProgramsTyped
<1> HIDE DEF TypedBy
<1>2. QED
  BY <1>1 DEF Width

\* An operand that is a constant or a vreg of the function, of so many words.
Known(o) == IsConst(o) \/ o.v \in Vregs
Wide(o, w) == IsConst(o) \/ (o.v \in Vregs /\ Width[o.v] = w)
PointsTo(o, w) ==
  ~IsConst(o) /\ Wide(o, w) /\ \E i \in InstrsOf(prog) : i.op = "alloca" /\ i.res = o.v

\* What the types say of an instruction.
LEMMA InstructionTyped ==
  ASSUME ProgramsTyped, prog \in Programs, NEW i \in InstrsOf(prog)
  PROVE  /\ HasResult(i) => Width[i.res] = IF i.op = "icmp" THEN 1 ELSE i.w
         /\ \A k \in OperandsOf(i.op) : Known(i.args[k])
         /\ i.op \in OfOneWidth => Wide(i.args[1], i.w) /\ Wide(i.args[2], i.w)
         /\ i.op = "store" => Wide(i.args[1], i.w) /\ PointsTo(i.args[2], i.w)
         /\ i.op = "load" => PointsTo(i.args[1], i.w)
         /\ i.op = "phi" => IsSequence(i.args) /\ \A k \in DOMAIN i.args : Wide(i.args[k], i.w)
<1>1. TypedBy(prog, Width)
  BY TypingOf
<1> HIDE DEF Width
<1>2. QED
  BY <1>1 DEF TypedBy, Known, Wide, PointsTo

\* What they say of a terminator.
LEMMA TermTyped ==
  ASSUME ProgramsTyped, prog \in Programs, NEW k \in DOMAIN prog.blocks
  PROVE  LET t == prog.blocks[k].term IN
         /\ t.op \in {"ret", "condbr", "switch"} => Known(t.args[1])
         /\ t.op = "switch" => IsSequence(t.cases)
<1>1. TypedBy(prog, Width)
  BY TypingOf
<1> HIDE DEF Width
<1>2. QED
  BY <1>1 DEF TypedBy, Known

-----------------------------------------------------------------------------
(* The frame as the handlers find it *)

\* Every alloca and every phi that has been registered has a slot.
RegisteredInv ==
  /\ \A k \in 1 .. AllocaCount :
       phase # "analysis" \/ todo > ParamCount + k => HasSlot(OfOpcode("alloca")[k].res)
  /\ \A k \in 1 .. PhiCount :
       phase # "analysis" \/ todo > ParamCount + AllocaCount + SpillCount + k =>
         HasSlot(OfOpcode("phi")[k].res)

\* A vreg's slot is wide enough for it.
SizedInv ==
  \A v \in DOMAIN index :
    /\ v \in Vregs
    /\ slots[index[v]].size \in {2, 4} /\ slots[index[v]].size >= 2 * Width[v]

\* Words are at even offsets.
EvenInv ==
  /\ paramOffset % 2 = 0 /\ nextLocalOffset % 2 = 0
  /\ tempSize % 2 = 0 /\ tempBase % 2 = 0 /\ tempCurrent % 2 = 0
  /\ \A i \in 1 .. Len(slots) : slots[i].off % 2 = 0 /\ slots[i].size % 2 = 0

\* The temps of all blocks are below the locals.
TempsInv ==
  \A i \in 1 .. Len(slots) :
    slots[i].kind = "Temp" =>
      phase = "lowering" /\ tempBase <= slots[i].off /\ End(slots[i]) <= nextLocalOffset

SlotsInv == RegisteredInv /\ SizedInv /\ EvenInv /\ TempsInv

\* A place, and the words from it, that a handler may use.
PlaceFits(p, w) == p \in Regs \/ (p \in OwnCells /\ (w = 2 => p + 2 \in OwnCells))

\* Whole words stay whole.
LEMMA EvenArithmetic ==
  ASSUME NEW x \in Int, NEW y \in Int, x % 2 = 0, y % 2 = 0
  PROVE  (x + y) % 2 = 0 /\ (x - y) % 2 = 0 /\ (-x) % 2 = 0
  OBVIOUS

\* A piece of the frame below the saved registers or above the return address.
LEMMA AreaOwned ==
  ASSUME IInv, phase = "lowering", NEW off \in Int, NEW size \in Int, off % 2 = 0, size >= 2,
         \/ tempBase <= off /\ off + size <= -SavedRegs
         \/ FirstParam <= off /\ off + size <= paramOffset
  PROVE  off \in OwnCells /\ (size >= 4 => off + 2 \in OwnCells)
<1>1. /\ tempBase \in Int /\ paramOffset \in Int /\ nextLocalOffset \in Int /\ tempSize \in Nat
      /\ tempBase + tempSize = nextLocalOffset /\ nextLocalOffset <= -6 /\ paramOffset >= 6
  BY DEF IInv, TypeOK, OrderInv, ParamOrder, LocalOrder, TempOrder, SavedRegs, FirstParam
<1>2. (off + 2) % 2 = 0
  BY EvenArithmetic
<1>3. ASSUME NEW x \in Int, x % 2 = 0,
             \/ tempBase <= x /\ x + 2 <= -6
             \/ 6 <= x /\ x + 2 <= paramOffset
      PROVE  x \in OwnCells
  BY <1>1, <1>3 DEF OwnCells, FrameCells, SavedRegs, FirstParam
<1>4. off \in OwnCells
  BY <1>1, <1>3 DEF SavedRegs, FirstParam
<1>5. ASSUME size >= 4 PROVE off + 2 \in OwnCells
  BY <1>1, <1>2, <1>3, <1>5 DEF SavedRegs, FirstParam
<1>6. QED
  BY <1>4, <1>5

\* A slot is in the frame, unless it stands for a parameter in a register.
LEMMA SlotOwned ==
  ASSUME IInv, EvenInv, TempsInv, phase = "lowering", NEW i \in 1 .. Len(slots),
         slots[i].kind = "Param" => slots[i].reg = NoReg, slots[i].size >= 2
  PROVE  slots[i].off \in OwnCells /\ (slots[i].size >= 4 => slots[i].off + 2 \in OwnCells)
<1>1. /\ slots[i].size \in Int /\ slots[i].off \in Int /\ slots[i].kind \in Kinds
      /\ slots[i].off % 2 = 0 /\ nextLocalOffset \in Int /\ tempBase \in Int /\ tempSize \in Nat
  BY SlotFields DEF IInv, TypeOK, EvenInv
<1>2. tempBase + tempSize = nextLocalOffset /\ nextLocalOffset <= -SavedRegs
  BY DEF IInv, OrderInv, LocalOrder, TempOrder
<1>3. CASE slots[i].kind = "Param"
  <2>1. i \in PlacedParams
    BY <1>3 DEF PlacedParams, IsStackParam
  <2>2. FirstParam <= slots[i].off /\ End(slots[i]) <= paramOffset
    BY <2>1 DEF IInv, OrderInv, ParamOrder
  <2>3. QED
    BY <1>1, <2>2, AreaOwned DEF End
<1>4. CASE slots[i].kind \in {"Alloca", "Spill"}
  <2>1. i \in PlacedLocals
    BY <1>4 DEF PlacedLocals, IsLocal
  <2>2. nextLocalOffset <= slots[i].off /\ End(slots[i]) <= -SavedRegs
    BY <2>1 DEF IInv, OrderInv, LocalOrder
  <2>3. tempBase <= slots[i].off
    BY <1>1, <1>2, <2>2
  <2>4. QED
    BY <1>1, <2>2, <2>3, AreaOwned DEF End
<1>5. CASE slots[i].kind = "Temp"
  <2>1. tempBase <= slots[i].off /\ End(slots[i]) <= nextLocalOffset
    BY <1>5 DEF TempsInv
  <2>2. slots[i].off + slots[i].size <= -SavedRegs
    BY <1>1, <1>2, <2>1 DEF End, SavedRegs
  <2>3. QED
    BY <1>1, <2>1, <2>2, AreaOwned
<1>6. QED
  BY <1>1, <1>3, <1>4, <1>5 DEF Kinds

\* getPhysReg: a vreg is in a register, or in as many words as it has.
LEMMA VregFits ==
  ASSUME ProgramsTyped, CompilationInv, SlotsInv, phase = "lowering", NEW v \in Vregs
  PROVE  PlaceFits(GetPhysReg(v), Width[v])
<1>1. Width[v] \in {1, 2}
  BY TypingOf DEF CompilationInv, SelectorInv
<1>2. IInv /\ SizedInv /\ EvenInv /\ TempsInv
  BY DEF CompilationInv, SlotsInv
<1>3. CASE HasSlot(v)
  <2> DEFINE i == index[v]
  <2>1. i \in 1 .. Len(slots) /\ slots[i].size \in {2, 4} /\ slots[i].size >= 2 * Width[v]
    BY <1>2, <1>3 DEF HasSlot, IInv, TypeOK, SizedInv
  <2>2. slots[i].kind = "Param" /\ slots[i].reg # NoReg => slots[i].reg \in Regs
    <3>1. slots[i] \in Slot
      BY <1>2, <2>1 DEF IInv, TypeOK
    <3>2. slots[i].reg \in ParamRegs \cup {NoReg}
      BY <3>1 DEF Slot
    <3>3. QED
      BY <3>2 DEF Regs
  <2>3. ~(slots[i].kind = "Param" /\ slots[i].reg # NoReg) =>
          slots[i].off \in OwnCells /\ (slots[i].size >= 4 => slots[i].off + 2 \in OwnCells)
    BY <1>2, <2>1, SlotOwned
  <2> HIDE DEF i
  <2>4. Width[v] = 2 => slots[i].size >= 4
    BY <2>1
  <2>5. GetPhysReg(v) = IF slots[i].kind = "Param" /\ slots[i].reg # NoReg THEN slots[i].reg
                        ELSE slots[i].off
    BY <1>3 DEF GetPhysReg, i
  <2>6. QED
    BY <2>2, <2>3, <2>4, <2>5 DEF PlaceFits
<1>4. CASE ~HasSlot(v)
  <2>1. GetPhysReg(v) \in TempRegs
    BY <1>4 DEF GetPhysReg, CompilationInv, PlacesInv, TempRegs
  <2>2. QED
    BY <2>1 DEF PlaceFits, Regs
<1>5. QED
  BY <1>3, <1>4

\* getPhysReg of an operand: as many words as it has are the function's own.
LEMMA OperandFits ==
  ASSUME ProgramsTyped, CompilationInv, SlotsInv, phase = "lowering", NEW o
  PROVE  /\ Known(o) => PlaceFits(PlaceOf(o), 1)
         /\ Wide(o, 1) => PlaceFits(PlaceOf(o), 1)
         /\ Wide(o, 2) => PlaceFits(PlaceOf(o), 2) /\ PlaceFits(PlaceOf(o), 1)
<1>1. CASE IsConst(o)
  BY <1>1 DEF PlaceOf, PlaceFits, Regs, TempRegs
<1>2. CASE ~IsConst(o)
  <2>1. PlaceOf(o) = GetPhysReg(o.v)
    BY <1>2 DEF PlaceOf
  <2>2. \A p, w : PlaceFits(p, w) => PlaceFits(p, 1)
    BY DEF PlaceFits
  <2>3. o.v \in Vregs => PlaceFits(PlaceOf(o), Width[o.v])
    BY <2>1, VregFits
  <2>4. QED
    BY <1>2, <2>2, <2>3 DEF Known, Wide
<1>3. QED
  BY <1>1, <1>2

\* The slot of an alloca or of a phi.
LEMMA HomeFits ==
  ASSUME ProgramsFit, ProgramsTyped, CompilationInv, SlotsInv, phase = "lowering",
         NEW i \in InstrsOf(prog), i.op \in {"alloca", "phi"}
  PROVE  /\ HasSlot(i.res) /\ GetPhysReg(i.res) \in OwnCells
         /\ GetPhysReg(i.res) = slots[index[i.res]].off
         /\ Width[i.res] = 2 => GetPhysReg(i.res) + 2 \in OwnCells
         /\ slots[index[i.res]].size = 4 => GetPhysReg(i.res) + 2 \in OwnCells
<1>1. prog \in Programs
  BY DEF CompilationInv, SelectorInv
<1>2. PICK k \in 1 .. Len(OfOpcode(i.op)) : OfOpcode(i.op)[k] = i
  BY <1>1, OfOpcodeTyped
<1>3. HasSlot(i.res)
  BY <1>2 DEF SlotsInv, RegisteredInv, AllocaCount, PhiCount
<1>4. i.res \in Vregs \ ParamNames(prog)
  BY <1>1, ProgramFields DEF HasResult
<1>5. IInv /\ SizedInv /\ EvenInv /\ TempsInv
  BY DEF CompilationInv, SlotsInv
<1> DEFINE n == index[i.res]
<1>6. n \in 1 .. Len(slots) /\ slots[n].size \in {2, 4} /\ slots[n].size >= 2 * Width[i.res]
  BY <1>3, <1>5 DEF HasSlot, IInv, TypeOK, SizedInv
<1>7. slots[n].kind # "Param"
  BY <1>3, <1>4 DEF CompilationInv, ParamsInv, HasSlot, KindOf
<1>8. slots[n].off \in OwnCells /\ (slots[n].size >= 4 => slots[n].off + 2 \in OwnCells)
  BY <1>5, <1>6, <1>7, SlotOwned
<1>9. GetPhysReg(i.res) = slots[n].off
  BY <1>3, <1>7 DEF GetPhysReg
<1>10. Width[i.res] = 2 => slots[n].size >= 4
  BY <1>6
<1>11. QED
  BY <1>3, <1>6, <1>8, <1>9, <1>10

\* The alloca a pointer names.
LEMMA PointerFits ==
  ASSUME ProgramsFit, ProgramsTyped, CompilationInv, SlotsInv, phase = "lowering",
         NEW o, NEW w, PointsTo(o, w)
  PROVE  PlaceOf(o) \in OwnCells /\ (w = 2 => PlaceOf(o) + 2 \in OwnCells)
<1>1. PICK i \in InstrsOf(prog) : i.op = "alloca" /\ i.res = o.v
  BY DEF PointsTo
<1>2. PlaceOf(o) = GetPhysReg(i.res) /\ (w = 2 => Width[i.res] = 2)
  BY <1>1 DEF PointsTo, PlaceOf, Wide
<1>3. QED
  BY <1>1, <1>2, HomeFits

\* allocResultSlot: where a handler keeps a result.
LEMMA ResultFits ==
  ASSUME ProgramsFit, ProgramsTyped, CompilationInv, SlotsInv, phase = "lowering",
         at.part \in {"body", "widen"}, at.pos <= Len(Body), I.op # "store",
         NEW size \in {2, 4}, size <= Estimate(I), 2 * Width[I.res] <= size
  PROVE  /\ ResultOffset(I.res) \in OwnCells
         /\ Width[I.res] = 2 => ResultOffset(I.res) + 2 \in OwnCells
<1>1. IInv /\ SizedInv /\ EvenInv /\ TempsInv /\ I.res \in Vregs
  BY InstructionAt DEF CompilationInv, SlotsInv
<1>2. Width[I.res] \in {1, 2}
  BY <1>1, TypingOf DEF CompilationInv, SelectorInv
<1>3. CASE HasSpillSlot(I.res)
  <2> DEFINE i == index[I.res]
  <2>1. i \in 1 .. Len(slots) /\ slots[i].size \in {2, 4} /\ slots[i].size >= 2 * Width[I.res]
        /\ slots[i].kind = "Spill"
    BY <1>1, <1>3 DEF HasSpillSlot, HasSlot, KindOf, IInv, TypeOK, SizedInv
  <2>2. slots[i].off \in OwnCells /\ (slots[i].size >= 4 => slots[i].off + 2 \in OwnCells)
    BY <1>1, <2>1, SlotOwned
  <2>3. Width[I.res] = 2 => slots[i].size >= 4
    BY <2>1
  <2>4. ResultOffset(I.res) = slots[i].off
    BY <1>3 DEF ResultOffset
  <2>5. QED
    BY <2>2, <2>3, <2>4
<1>4. CASE ~HasSpillSlot(I.res)
  <2>1. /\ tempBase + Needed(AtBlock)[at.pos] <= nextLocalOffset
        /\ tempCurrent + Estimate(I) <= tempBase + Needed(AtBlock)[at.pos]
        /\ Estimate(I) \in Nat /\ Needed(AtBlock)[at.pos] \in Int
    BY EstimateLeaves
  <2>2. /\ tempCurrent \in Int /\ nextLocalOffset \in Int /\ tempBase \in Int
        /\ tempBase <= tempCurrent /\ nextLocalOffset <= -SavedRegs /\ tempCurrent % 2 = 0
    BY <1>1 DEF IInv, TypeOK, OrderInv, LocalOrder, TempOrder, EvenInv
  <2>3. tempCurrent + size <= -SavedRegs
    BY <2>1, <2>2 DEF SavedRegs
  <2>4. tempCurrent \in OwnCells /\ (size >= 4 => tempCurrent + 2 \in OwnCells)
    <3>1. size \in Int /\ size >= 2 /\ tempCurrent \in Int
      BY <2>2
    <3>2. QED
      BY <1>1, <2>2, <2>3, <3>1, AreaOwned, Zenon
  <2>5. Width[I.res] = 2 => size >= 4
    OBVIOUS
  <2>6. QED
    BY <1>4, <2>4, <2>5 DEF ResultOffset
<1>5. QED
  BY <1>3, <1>4

-----------------------------------------------------------------------------
(* What the handlers' code is made of *)

\* A cell is no register,
LEMMA OwnCellsAreOffsets == \A p \in OwnCells : IsMem(p)
  BY DEF OwnCells, FrameCells, IsMem

\* and a register no cell.
LEMMA RegistersAreNot == \A r \in Regs : ~IsMem(r)
  BY RegsAssumption DEF IsMem

\* The operand at a place.
LEMMA PlaceSafe ==
  ASSUME NEW p, PlaceFits(p, 1)
  PROVE  SafeOperand(Loc(p)) /\ (IsMem(p) => p \in OwnCells /\ SafeOperand(Mem(p)))
<1>1. CASE p \in Regs
  BY <1>1, RegistersAreNot, OperandsSafe DEF Loc
<1>2. CASE p \in OwnCells
  BY <1>2, OperandsSafe DEF Loc
<1>3. QED
  BY <1>1, <1>2 DEF PlaceFits

\* Two words are loaded from a place that has two.
LEMMA LoadPlaceSafe ==
  ASSUME NEW p, PlaceFits(p, 2), NEW lo, NEW hi
  PROVE  /\ SafeCode(SafeMemAddr(p)) /\ SafeCode(LoadWords(p, lo, hi))
         /\ SafeCode(LoadPlace(p, lo, hi))
<1>1. SafeCode(SafeMemAddr(p))
  <2>1. Safe(Mov(Reg(bx), Reg(p)))
    BY OperandsSafe, MovesSafe
  <2>2. QED
    BY <2>1, TuplesSafe DEF SafeMemAddr
<1>2. SafeCode(LoadWords(p, lo, hi))
  <2>1. CASE IsMem(p)
    <3>1. p \in OwnCells /\ p + 2 \in OwnCells
      BY <2>1, RegistersAreNot DEF PlaceFits
    <3>2. Safe(Mov(Reg(lo), Mem(p))) /\ Safe(Mov(Reg(hi), Mem(p + 2)))
      BY <3>1, OperandsSafe, MovesSafe
    <3>3. QED
      BY <2>1, <3>2, TuplesSafe DEF LoadWords
  <2>2. CASE ~IsMem(p)
    <3>1. Safe(Mov(Reg(lo), Unknown)) /\ Safe(Mov(Reg(hi), Unknown))
      BY OperandsSafe, MovesSafe
    <3>2. QED
      BY <2>2, <3>1, TuplesSafe DEF LoadWords
  <2>3. QED
    BY <2>1, <2>2
<1>3. QED
  BY <1>1, <1>2, ConcatSafe DEF LoadPlace

\* A constant is loaded.
LEMMA LoadConstSafe ==
  ASSUME NEW n, NEW lo, NEW hi
  PROVE  SafeCode(LoadConst(n, lo, hi))
<1>1. Safe(Mov(Reg(lo), Imm(LowWord(n)))) /\ Safe(Mov(Reg(hi), Imm(HighWord(n))))
  BY OperandsSafe, MovesSafe
<1>2. QED
  BY <1>1, TuplesSafe DEF LoadConst

\* Two words are stored where there is room for two.
LEMMA StoreWideSafe ==
  ASSUME NEW off, off \in OwnCells, off + 2 \in OwnCells, NEW lo, NEW hi
  PROVE  SafeCode(StoreWide(off, lo, hi))
<1>1. Safe(Mov(Mem(off), Reg(lo))) /\ Safe(Mov(Mem(off + 2), Reg(hi)))
  BY OperandsSafe, MovesSafe
<1>2. QED
  BY <1>1, TuplesSafe DEF StoreWide

\* The state in which a handler emits.
Handling ==
  /\ ProgramsFit /\ ProgramsTyped /\ CompilationInv /\ SlotsInv /\ phase = "lowering"

\* A 32-bit operand is loaded.
LEMMA LoadWideSafe ==
  ASSUME Handling, NEW o, Wide(o, 2), NEW lo, NEW hi
  PROVE  SafeCode(LoadWide(o, lo, hi))
<1>1. PlaceFits(PlaceOf(o), 2)
  BY OperandFits DEF Handling
<1>2. QED
  BY <1>1, LoadPlaceSafe, LoadConstSafe DEF LoadWide

\* The pieces that take one word from an operand.
LEMMA OperandPieces ==
  ASSUME Handling, NEW o, Known(o)
  PROVE  /\ SafeCode(LoadOp1(o)) /\ \A temp : SafeCode(LoadOp2(o, temp))
         /\ \A temp : SafeOperand(Op2Loc(o, temp))
         /\ \A dest : SafeCode(MoveOp1(o, dest))
         /\ SafeOperand(Simple(o)) /\ SafeOperand(Loc(PlaceOf(o)))
         /\ SafeCode(ToAx(PlaceOf(o))) /\ SafeCode(LoadCount(PlaceOf(o)))
         /\ SafeCode(LoadCond(PlaceOf(o)))
<1> DEFINE p == PlaceOf(o)
<1>1. PlaceFits(p, 1)
  BY OperandFits DEF Handling
<1>2. SafeOperand(Loc(p)) /\ (IsMem(p) => p \in OwnCells /\ SafeOperand(Mem(p)))
  BY <1>1, PlaceSafe
<1>3. \A r : IsMem(p) => Safe(Mov(Reg(r), Mem(p)))
  BY <1>2, OperandsSafe, MovesSafe
<1>4. \A r : Safe(Mov(Reg(r), Loc(p))) /\ Safe(Mov(Loc(p), Reg(r)))
  BY <1>2, OperandsSafe, MovesSafe
<1>5. SafeCode(LoadOp1(o)) /\ \A temp : SafeCode(LoadOp2(o, temp))
  BY <1>3, TuplesSafe DEF LoadOp1, LoadOp2
<1>6. \A temp : SafeOperand(Op2Loc(o, temp))
  BY OperandsSafe DEF Op2Loc
<1>7. ASSUME NEW dest PROVE SafeCode(MoveOp1(o, dest))
  <2>1. Safe(Mov(Reg(dest), Imm(o.c))) /\ Safe(Mov(Reg(dest), Reg(Op1Reg(o))))
    BY OperandsSafe, MovesSafe
  <2>2. QED
    BY <2>1, TuplesSafe DEF MoveOp1
<1>8. SafeOperand(Simple(o))
  BY <1>2, OperandsSafe DEF Simple
<1>9. SafeCode(ToAx(p)) /\ SafeCode(LoadCond(p))
  BY <1>4, TuplesSafe DEF ToAx, LoadCond
<1>10. SafeCode(LoadCount(p))
  <2>1. Safe(Mov(Reg(ax), Reg(p))) /\ Safe(Mov(LowByte(cx), LowByte(ax)))
    BY OperandsSafe, MovesSafe
  <2>2. SafeOperand(IF IsMem(p) THEN Mem(p) ELSE LowByte(p))
    BY <1>2, OperandsSafe
  <2>3. Safe(Mov(LowByte(cx), IF IsMem(p) THEN Mem(p) ELSE LowByte(p)))
    BY <2>2, OperandsSafe, MovesSafe
  <2>4. QED
    BY <2>1, <2>3, TuplesSafe DEF LoadCount
<1>11. QED
  BY <1>2, <1>5, <1>6, <1>7, <1>8, <1>9, <1>10

\* The pieces that leave one word in a result's place.
LEMMA ResultPieces ==
  ASSUME NEW p, PlaceFits(p, 1)
  PROVE  /\ SafeCode(ToMemory(p)) /\ SafeOperand(Loc(p))
         /\ \A from : PlaceFits(from, 1) => SafeCode(CopyWord(from, p))
<1>1. SafeOperand(Loc(p)) /\ (IsMem(p) => SafeOperand(Mem(p)))
  BY PlaceSafe
<1>2. IsMem(p) => Safe(Mov(Mem(p), Reg(ax)))
  BY <1>1, OperandsSafe, MovesSafe
<1>3. SafeCode(ToMemory(p))
  BY <1>2, TuplesSafe DEF ToMemory
<1>4. ASSUME NEW from, PlaceFits(from, 1) PROVE SafeCode(CopyWord(from, p))
  <2>1. SafeOperand(Loc(from)) /\ (IsMem(from) => SafeOperand(Mem(from)))
    BY <1>4, PlaceSafe
  <2>2. Safe(Mov(Loc(p), Loc(from))) /\ (IsMem(from) => Safe(Mov(Reg(ax), Mem(from))))
    BY <1>1, <2>1, OperandsSafe, MovesSafe
  <2>3. QED
    BY <1>2, <2>2, TuplesSafe DEF CopyWord
<1>5. QED
  BY <1>1, <1>3, <1>4

\* A handler emits its code, and its marker.
LEMMA EmitSafe ==
  ASSUME SafeCode(code), NEW seq, SafeCode(seq), NEW place, Emit(seq, place)
  PROVE  SafeCode(code')
<1>1. SafeCode(<<Effect(I, place)>>)
  BY OthersSafe, TuplesSafe
<1>2. code' = code \o seq \o <<Effect(I, place)>>
  BY DEF Emit
<1>3. SafeCode(code \o seq \o <<Effect(I, place)>>)
  BY <1>1, ConcatSafe
<1>4. QED
  BY <1>2, <1>3

-----------------------------------------------------------------------------
(* The instruction handlers *)

\* What a handler may rely on: its operands are typed, its result has a place.
LEMMA InstructionFits ==
  ASSUME Handling, at.part \in {"body", "widen"}, at.pos <= Len(Body)
  PROVE  /\ \A k \in OperandsOf(I.op) : Known(Arg(k))
         /\ I.op \in OfOneWidth => Wide(Arg(1), I.w) /\ Wide(Arg(2), I.w)
         /\ I.op = "store" => Wide(Arg(1), I.w) /\ PointsTo(Arg(2), I.w)
         /\ I.op = "load" => PointsTo(Arg(1), I.w)
         /\ I.op # "store" => PlaceFits(ResultPlace, 1)
         /\ I.w = 2 /\ I.op \notin {"store", "icmp", "alloca"} =>
              ResultOffset(I.res) \in OwnCells /\ ResultOffset(I.res) + 2 \in OwnCells
         /\ I.op = "icmp" => ResultOffset(I.res) \in OwnCells
<1>1. I \in InstrsOf(prog) /\ I.w \in {1, 2} /\ (I.op # "store" => I.res \in Vregs)
  BY InstructionAt DEF Handling
<1>2. prog \in Programs
  BY DEF Handling, CompilationInv, SelectorInv
<1>3. /\ \A k \in OperandsOf(I.op) : Known(Arg(k))
      /\ I.op \in OfOneWidth => Wide(Arg(1), I.w) /\ Wide(Arg(2), I.w)
      /\ I.op = "store" => Wide(Arg(1), I.w) /\ PointsTo(Arg(2), I.w)
      /\ I.op = "load" => PointsTo(Arg(1), I.w)
      /\ I.op # "store" => Width[I.res] = IF I.op = "icmp" THEN 1 ELSE I.w
  BY <1>1, <1>2, InstructionTyped DEF Handling, Arg, HasResult
<1> HIDE DEF Width
<1>4. ASSUME I.op # "store" PROVE PlaceFits(ResultPlace, 1)
  <2>1. PlaceFits(ResultPlace, Width[I.res])
    BY <1>1, <1>4, VregFits DEF Handling, ResultPlace
  <2>2. QED
    BY <2>1 DEF PlaceFits
<1>5. ASSUME I.w = 2, I.op \notin {"store", "icmp", "alloca"}
      PROVE  ResultOffset(I.res) \in OwnCells /\ ResultOffset(I.res) + 2 \in OwnCells
  <2>1. 4 <= Estimate(I) /\ Width[I.res] = 2
    BY <1>3, <1>5 DEF Estimate, HasResult, Words
  <2>2. QED
    BY <1>5, <2>1, ResultFits DEF Handling
<1>6. ASSUME I.op = "icmp" PROVE ResultOffset(I.res) \in OwnCells
  <2>1. 2 <= Estimate(I) /\ Width[I.res] = 1
    BY <1>1, <1>3, <1>6 DEF Estimate, HasResult, Words
  <2>2. QED
    BY <1>6, <2>1, ResultFits DEF Handling
<1>7. QED
  BY <1>3, <1>4, <1>5, <1>6

\* Of an instruction of 32 bits: its operands, and the slot of its result.
LEMMA WideOperands ==
  ASSUME Handling, NEW op, Lowers(op, 2), op \in OfOneWidth, NEW k \in {1, 2}
  PROVE  /\ PlaceFits(PlaceOf(Arg(k)), 2)
         /\ \A lo, hi : SafeCode(LoadWide(Arg(k), lo, hi))
         /\ \A lo, hi : SafeCode(LoadPlace(PlaceOf(Arg(k)), lo, hi))
         /\ \A lo, hi : SafeCode(LoadWords(PlaceOf(Arg(k)), lo, hi))
         /\ SafeCode(SafeMemAddr(PlaceOf(Arg(k))))
<1>1. I.op = op /\ I.w = 2 /\ at.part = "body" /\ at.pos <= Len(Body)
  BY DEF Lowers, I, Selecting
<1>2. Wide(Arg(k), 2)
  BY <1>1, InstructionFits
<1>3. PlaceFits(PlaceOf(Arg(k)), 2)
  BY <1>2, OperandFits DEF Handling
<1>4. QED
  BY <1>2, <1>3, LoadWideSafe, LoadPlaceSafe

\* The slot of a 32-bit result.
LEMMA WideResult ==
  ASSUME Handling, NEW op, Lowers(op, 2), op \notin {"store", "icmp", "alloca"}, NEW lo, NEW hi
  PROVE  SafeCode(StoreWide(ResultOffset(I.res), lo, hi))
<1>1. I.op = op /\ I.w = 2 /\ at.part = "body" /\ at.pos <= Len(Body)
  BY DEF Lowers, I, Selecting
<1>2. ResultOffset(I.res) \in OwnCells /\ ResultOffset(I.res) + 2 \in OwnCells
  BY <1>1, InstructionFits
<1>3. QED
  BY <1>2, StoreWideSafe

\* Of any instruction: the operands it looks at, and the place of its result.
LEMMA Operands ==
  ASSUME Handling, NEW op, NEW w, Lowers(op, w), NEW k \in OperandsOf(op)
  PROVE  Known(Arg(k))
<1>1. I.op = op /\ at.part = "body" /\ at.pos <= Len(Body)
  BY DEF Lowers, I, Selecting
<1>2. QED
  BY <1>1, InstructionFits

\* The place of any result.
LEMMA ResultOf ==
  ASSUME Handling, NEW op, NEW w, Lowers(op, w), op # "store"
  PROVE  /\ PlaceFits(ResultPlace, 1)
         /\ SafeCode(ToMemory(ResultPlace)) /\ SafeOperand(Loc(ResultPlace))
         /\ \A k \in OperandsOf(op) : SafeCode(CopyWord(PlaceOf(Arg(k)), ResultPlace))
<1>1. I.op = op /\ at.part = "body" /\ at.pos <= Len(Body)
  BY DEF Lowers, I, Selecting
<1>2. PlaceFits(ResultPlace, 1)
  BY <1>1, InstructionFits
<1>3. \A k \in OperandsOf(op) : PlaceFits(PlaceOf(Arg(k)), 1)
  BY <1>1, InstructionFits, OperandFits DEF Handling
<1>4. QED
  BY <1>2, <1>3, ResultPieces

\* What touches registers only.
LEMMA RegistersSafe ==
  \A op, r, s : Safe(Alu(op, Reg(r), Reg(s))) /\ Safe(Mov(Reg(r), Reg(s)))
  BY OperandsSafe, MovesSafe

\* lowerAdd, 32 bits.
LEMMA Add32Safe ==
  ASSUME Handling, SafeCode(code), LowerAdd32
  PROVE  SafeCode(code')
<1> DEFINE seq == LoadWide(Arg(1), ax, bx) \o LoadWide(Arg(2), cx, dx)
                    \o <<Alu("add", Reg(ax), Reg(cx)), Alu("adc", Reg(bx), Reg(dx))>>
                    \o StoreWide(ResultOffset(I.res), ax, bx)
<1>1. Lowers("add", 2) /\ Emit(seq, ResultOffset(I.res))
  BY DEF LowerAdd32
<1>2. SafeCode(LoadWide(Arg(1), ax, bx)) /\ SafeCode(LoadWide(Arg(2), cx, dx))
  BY <1>1, WideOperands DEF OfOneWidth
<1>3. SafeCode(StoreWide(ResultOffset(I.res), ax, bx))
  BY <1>1, WideResult
<1>4. SafeCode(<<Alu("add", Reg(ax), Reg(cx)), Alu("adc", Reg(bx), Reg(dx))>>)
  BY RegistersSafe, TuplesSafe
<1>5. SafeCode(seq)
  BY <1>2, <1>3, <1>4, ConcatSafe
<1>6. QED
  BY <1>1, <1>5, EmitSafe

\* lowerSub, 32 bits.
LEMMA Sub32Safe ==
  ASSUME Handling, SafeCode(code), LowerSub32
  PROVE  SafeCode(code')
<1> DEFINE seq == LoadPlace(PlaceOf(Arg(1)), ax, bx) \o LoadWide(Arg(2), cx, dx)
                    \o <<Alu("sub", Reg(ax), Reg(cx)), Alu("sbb", Reg(bx), Reg(dx))>>
                    \o StoreWide(ResultOffset(I.res), ax, bx)
<1>1. Lowers("sub", 2) /\ Emit(seq, ResultOffset(I.res))
  BY DEF LowerSub32
<1>2. SafeCode(LoadPlace(PlaceOf(Arg(1)), ax, bx)) /\ SafeCode(LoadWide(Arg(2), cx, dx))
  BY <1>1, WideOperands DEF OfOneWidth
<1>3. SafeCode(StoreWide(ResultOffset(I.res), ax, bx))
  BY <1>1, WideResult
<1>4. SafeCode(<<Alu("sub", Reg(ax), Reg(cx)), Alu("sbb", Reg(bx), Reg(dx))>>)
  BY RegistersSafe, TuplesSafe
<1>5. SafeCode(seq)
  BY <1>2, <1>3, <1>4, ConcatSafe
<1>6. QED
  BY <1>1, <1>5, EmitSafe

\* lowerMul, 32 bits: a call of the runtime.
LEMMA Mul32Safe ==
  ASSUME Handling, SafeCode(code), LowerMul32
  PROVE  SafeCode(code')
<1> DEFINE p == PlaceOf(Arg(1))
           q == PlaceOf(Arg(2))
           to == ResultOffset(I.res)
           seq == SafeMemAddr(p) \o SafeMemAddr(q) \o LoadWords(p, ax, bx)
                    \o LoadWords(q, cx, dx) \o <<Call("MultiplyI32")>> \o StoreWide(to, di, si)
<1>1. Lowers("mul", 2) /\ Emit(seq, to)
  BY DEF LowerMul32
<1>2. /\ SafeCode(SafeMemAddr(p)) /\ SafeCode(LoadWords(p, ax, bx))
      /\ SafeCode(SafeMemAddr(q)) /\ SafeCode(LoadWords(q, cx, dx))
  BY <1>1, WideOperands DEF OfOneWidth
<1>3. SafeCode(StoreWide(to, di, si))
  BY <1>1, WideResult
<1>4. SafeCode(<<Call("MultiplyI32")>>)
  BY OthersSafe, TuplesSafe
<1> HIDE DEF p, q, to
<1>5. SafeCode(seq)
  BY <1>2, <1>3, <1>4, ConcatSafe
<1>6. QED
  BY <1>1, <1>5, EmitSafe

\* lowerDivRem, 32 bits: another.
LEMMA DivRem32Safe ==
  ASSUME Handling, SafeCode(code), LowerDivRem32
  PROVE  SafeCode(code')
<1> DEFINE q == PlaceOf(Arg(2))
           to == ResultOffset(I.res)
           divisor ==
             CASE IsConst(Arg(2)) -> LoadConst(Arg(2).c, cx, dx)
               [] ~IsConst(Arg(2)) /\ IsMem(q) ->
                    <<Mov(Reg(cx), Mem(q)), Mov(Mem(q + 2), Reg(dx))>>
               [] OTHER -> IF q = cx THEN <<>> ELSE <<Mov(Reg(cx), Reg(q)), Mov(Reg(dx), Unknown)>>
           divide == <<Call(IF IsSigned(I.op) THEN "DivideI32" ELSE "DivideU32")>>
           keeping == IF IsRemainder(I.op) THEN StoreWide(to, ax, bx) ELSE StoreWide(to, di, si)
           first == LoadPlace(PlaceOf(Arg(1)), ax, dx)
           seq == first \o <<Mov(Reg(bx), Reg(dx))>> \o divisor \o divide \o keeping
<1>1. PICK op \in Divisions : Lowers(op, 2)
  BY DEF LowerDivRem32
<1>2. Emit(seq, to)
  BY DEF LowerDivRem32
<1>3. SafeCode(first) /\ PlaceFits(q, 2)
  BY <1>1, WideOperands DEF OfOneWidth, Divisions
<1>4. SafeCode(StoreWide(to, ax, bx)) /\ SafeCode(StoreWide(to, di, si))
  BY <1>1, WideResult DEF Divisions
<1>5. SafeCode(keeping)
  BY <1>4
<1>6. SafeCode(<<Mov(Reg(bx), Reg(dx))>>)
  BY RegistersSafe, TuplesSafe
<1>7. SafeCode(divide)
  BY OthersSafe, TuplesSafe
<1>8. SafeCode(divisor)
  <2>1. CASE IsConst(Arg(2))
    BY <2>1, LoadConstSafe
  <2>2. CASE ~IsConst(Arg(2)) /\ IsMem(q)
    <3>1. q \in OwnCells /\ q + 2 \in OwnCells
      BY <1>3, <2>2, RegistersAreNot DEF PlaceFits
    <3> HIDE DEF q
    <3>2. Safe(Mov(Reg(cx), Mem(q))) /\ Safe(Mov(Mem(q + 2), Reg(dx)))
      BY <3>1, OperandsSafe, MovesSafe
    <3>3. QED
      BY <2>2, <3>2, TuplesSafe
  <2>3. CASE ~IsConst(Arg(2)) /\ ~IsMem(q)
    <3> HIDE DEF q
    <3>1. Safe(Mov(Reg(cx), Reg(q))) /\ Safe(Mov(Reg(dx), Unknown))
      BY OperandsSafe, MovesSafe
    <3>2. QED
      BY <2>3, <3>1, TuplesSafe
  <2>4. QED
    BY <2>1, <2>2, <2>3
<1> HIDE DEF first, divisor, divide, keeping, to
<1>9. SafeCode(seq)
  BY <1>3, <1>5, <1>6, <1>7, <1>8, ConcatSafe
<1>10. QED
  BY <1>2, <1>9, EmitSafe

\* lowerAdd, 16 bits.
LEMMA Add16Safe ==
  ASSUME Handling, SafeCode(code), LowerAdd16
  PROVE  SafeCode(code')
<1> DEFINE temp == Op2Temp(Arg(1))
           add == <<Alu("add", Reg(ax), Op2Loc(Arg(2), temp))>>
           seq == LoadOp1(Arg(1)) \o LoadOp2(Arg(2), temp) \o MoveOp1(Arg(1), ax) \o add
<1>1. Lowers("add", 1) /\ Emit(seq, ResultPlace)
  BY DEF LowerAdd16
<1>2. Known(Arg(1)) /\ Known(Arg(2))
  BY <1>1, Operands DEF OperandsOf
<1>3. /\ SafeCode(LoadOp1(Arg(1))) /\ SafeCode(LoadOp2(Arg(2), temp))
      /\ SafeCode(MoveOp1(Arg(1), ax)) /\ SafeOperand(Op2Loc(Arg(2), temp))
  BY <1>2, OperandPieces
<1> HIDE DEF temp
<1>4. SafeCode(add)
  BY <1>3, OperandsSafe, MovesSafe, TuplesSafe
<1> HIDE DEF add
<1>5. SafeCode(seq)
  BY <1>3, <1>4, ConcatSafe
<1>6. QED
  BY <1>1, <1>5, EmitSafe

\* lowerSub, 16 bits.
LEMMA Sub16Safe ==
  ASSUME Handling, SafeCode(code), LowerSub16
  PROVE  SafeCode(code')
<1> DEFINE temp == Op2Temp(Arg(1))
           dest == IF IsMem(ResultPlace) THEN ax ELSE ResultPlace
           sub == Alu("sub", Reg(dest), Op2Loc(Arg(2), temp))
           store == IF IsMem(ResultPlace) THEN <<Mov(Mem(ResultPlace), Reg(ax))>> ELSE <<>>
           seq == LoadOp1(Arg(1)) \o LoadOp2(Arg(2), temp) \o MoveOp1(Arg(1), dest) \o <<sub>>
                    \o store \o <<sub>>
<1>1. Lowers("sub", 1) /\ Emit(seq, ResultPlace)
  BY DEF LowerSub16
<1>2. Known(Arg(1)) /\ Known(Arg(2))
  BY <1>1, Operands DEF OperandsOf
<1>3. /\ SafeCode(LoadOp1(Arg(1))) /\ SafeCode(LoadOp2(Arg(2), temp))
      /\ SafeCode(MoveOp1(Arg(1), dest)) /\ SafeOperand(Op2Loc(Arg(2), temp))
  BY <1>2, OperandPieces
<1>4. SafeCode(store)
  BY <1>1, ResultOf DEF ToMemory
<1> HIDE DEF temp, dest
<1>5. SafeCode(<<sub>>)
  BY <1>3, OperandsSafe, MovesSafe, TuplesSafe
<1> HIDE DEF sub, store
<1>6. SafeCode(seq)
  BY <1>3, <1>4, <1>5, ConcatSafe
<1>7. QED
  BY <1>1, <1>6, EmitSafe

\* imul, div, idiv: one operand, and ax and dx.
LEMMA FixedSafe ==
  ASSUME NEW op, NEW s, SafeOperand(s)
  PROVE  SafeCode(<<OnAxDx(op, s)>>)
  BY OthersSafe, TuplesSafe DEF OnAxDx

\* lowerMul, 16 bits.
LEMMA Mul16Safe ==
  ASSUME Handling, SafeCode(code), LowerMul16
  PROVE  SafeCode(code')
<1> DEFINE Times(o, c) == ToAx(PlaceOf(o)) \o <<Mov(Reg(cx), Imm(c)), OnAxDx("imul", Reg(cx))>>
           product ==
             CASE IsConst(Arg(1)) /\ IsConst(Arg(2)) -> <<Mov(Reg(ax), Imm(Arg(1).c * Arg(2).c))>>
               [] ~IsConst(Arg(1)) /\ IsConst(Arg(2)) -> Times(Arg(1), Arg(2).c)
               [] IsConst(Arg(1)) /\ ~IsConst(Arg(2)) -> Times(Arg(2), Arg(1).c)
               [] OTHER -> ToAx(PlaceOf(Arg(1))) \o <<OnAxDx("imul", Loc(PlaceOf(Arg(2))))>>
           seq == product \o ToMemory(ResultPlace)
<1>1. Lowers("mul", 1) /\ Emit(seq, ResultPlace)
  BY DEF LowerMul16
<1>2. Known(Arg(1)) /\ Known(Arg(2))
  BY <1>1, Operands DEF OperandsOf
<1>3. SafeCode(ToMemory(ResultPlace))
  BY <1>1, ResultOf
<1>4. ASSUME NEW o, Known(o), NEW c PROVE SafeCode(Times(o, c))
  <2>1. SafeCode(ToAx(PlaceOf(o)))
    BY <1>4, OperandPieces
  <2>2. Safe(Mov(Reg(cx), Imm(c))) /\ Safe(OnAxDx("imul", Reg(cx)))
    BY OperandsSafe, MovesSafe, OthersSafe DEF OnAxDx
  <2>3. SafeCode(<<Mov(Reg(cx), Imm(c)), OnAxDx("imul", Reg(cx))>>)
    BY <2>2, TuplesSafe
  <2>4. QED
    BY <2>1, <2>3, ConcatSafe
<1>5. SafeCode(<<Mov(Reg(ax), Imm(Arg(1).c * Arg(2).c))>>)
  BY OperandsSafe, MovesSafe, TuplesSafe
<1>6. SafeCode(ToAx(PlaceOf(Arg(1))) \o <<OnAxDx("imul", Loc(PlaceOf(Arg(2))))>>)
  BY <1>2, OperandPieces, FixedSafe, ConcatSafe
<1> HIDE DEF Times
<1>7. SafeCode(product)
  BY <1>2, <1>4, <1>5, <1>6
<1> HIDE DEF product
<1>8. SafeCode(seq)
  BY <1>3, <1>7, ConcatSafe
<1>9. QED
  BY <1>1, <1>8, EmitSafe

\* lowerDivRem, 16 bits.
LEMMA DivRem16Safe ==
  ASSUME Handling, SafeCode(code), LowerDivRem16
  PROVE  SafeCode(code')
<1> DEFINE q == PlaceOf(Arg(2))
           reg == IF IsRemainder(I.op) THEN dx ELSE ax
           place == IF IsMem(ResultPlace) THEN ResultPlace ELSE reg
           toCx == IF q = cx THEN <<>> ELSE <<Mov(Reg(cx), Loc(q))>>
           divide == IF IsSigned(I.op)
                       THEN <<OnAxDx("cwd", Reg(ax)), OnAxDx("idiv", Reg(cx))>>
                       ELSE <<Alu("xor", Reg(dx), Reg(dx)), OnAxDx("div", Reg(cx))>>
           seq == ToAx(PlaceOf(Arg(1))) \o toCx \o divide
<1>1. PICK op \in Divisions : Lowers(op, 1)
  BY DEF LowerDivRem16
<1>2. Emit(seq, place)
  BY DEF LowerDivRem16
<1>3. Known(Arg(1)) /\ Known(Arg(2))
  BY <1>1, Operands DEF OperandsOf, Divisions
<1>4. SafeCode(ToAx(PlaceOf(Arg(1)))) /\ SafeOperand(Loc(q))
  BY <1>3, OperandPieces
<1> HIDE DEF q
<1>5. SafeCode(toCx)
  BY <1>4, OperandsSafe, MovesSafe, TuplesSafe
<1>6. /\ Safe(OnAxDx("cwd", Reg(ax))) /\ Safe(OnAxDx("idiv", Reg(cx)))
      /\ Safe(Alu("xor", Reg(dx), Reg(dx))) /\ Safe(OnAxDx("div", Reg(cx)))
  BY OperandsSafe, OthersSafe, RegistersSafe DEF OnAxDx
<1>7. SafeCode(divide)
  BY <1>6, TuplesSafe
<1> HIDE DEF toCx, divide, place
<1>8. SafeCode(seq)
  BY <1>4, <1>5, <1>7, ConcatSafe
<1>9. QED
  BY <1>2, <1>8, EmitSafe

\* The first operand is brought to the register that is worked in.
LEMMA LoadWorkSafe ==
  ASSUME Handling, NEW op, NEW w, Lowers(op, w), op # "store", 1 \in OperandsOf(op)
  PROVE  SafeCode(LoadWork)
<1>1. Known(Arg(1))
  BY Operands
<1>2. SafeOperand(Simple(Arg(1)))
  BY <1>1, OperandPieces
<1>3. Safe(Mov(Reg(ax), Simple(Arg(1))))
  BY <1>2, OperandsSafe, MovesSafe
<1>4. QED
  BY <1>3, TuplesSafe DEF LoadWork

\* and, or, xor of 16 bits.
LEMMA BinaryOp16Safe ==
  ASSUME Handling, SafeCode(code), LowerBinaryOp16
  PROVE  SafeCode(code')
<1> DEFINE work == <<Alu(I.op, Reg(WorkReg), Simple(Arg(2)))>>
           seq == LoadWork \o work \o ToMemory(ResultPlace)
<1>1. PICK op \in Logical : Lowers(op, 1)
  BY DEF LowerBinaryOp16
<1>2. Emit(seq, ResultPlace)
  BY DEF LowerBinaryOp16
<1>3. Known(Arg(2))
  BY <1>1, Operands DEF OperandsOf, Logical
<1>4. SafeCode(work)
  BY <1>3, OperandPieces, OperandsSafe, MovesSafe, TuplesSafe
<1>5. SafeCode(LoadWork) /\ SafeCode(ToMemory(ResultPlace))
  BY <1>1, LoadWorkSafe, ResultOf DEF OperandsOf, Logical
<1> HIDE DEF work
<1>6. SafeCode(seq)
  BY <1>4, <1>5, ConcatSafe
<1>7. QED
  BY <1>2, <1>6, EmitSafe

\* and, or, xor of 32 bits.
LEMMA BinaryOp32Safe ==
  ASSUME Handling, SafeCode(code), LowerBinaryOp32
  PROVE  SafeCode(code')
<1> DEFINE low == <<Alu(I.op, Reg(WorkReg), Simple(Arg(2)))>>
           high == IF IsConst(Arg(2)) THEN <<Alu(I.op, Reg(dx), Imm(HighWord(Arg(2).c)))>>
                   ELSE <<>>
           clear == <<Alu("xor", Reg(dx), Reg(dx))>>
           to == ResultOffset(I.res)
           seq == LoadWork \o low \o high \o clear \o StoreWide(to, ax, dx)
<1>1. PICK op \in Logical : Lowers(op, 2)
  BY DEF LowerBinaryOp32
<1>2. Emit(seq, to)
  BY DEF LowerBinaryOp32
<1>3. Known(Arg(2))
  BY <1>1, Operands DEF OperandsOf, Logical
<1>4. SafeCode(low)
  BY <1>3, OperandPieces, OperandsSafe, MovesSafe, TuplesSafe
<1>5. SafeCode(high)
  BY OperandsSafe, MovesSafe, TuplesSafe
<1>6. SafeCode(clear)
  BY RegistersSafe, TuplesSafe
<1>7. SafeCode(LoadWork) /\ SafeCode(StoreWide(to, ax, dx))
  BY <1>1, LoadWorkSafe, WideResult DEF OperandsOf, Logical
<1> HIDE DEF low, high, clear, to
<1>8. SafeCode(seq)
  BY <1>4, <1>5, <1>6, <1>7, ConcatSafe
<1>9. QED
  BY <1>2, <1>8, EmitSafe

\* The shifts.
LEMMA ShiftSafe ==
  ASSUME Handling, SafeCode(code), LowerShift
  PROVE  SafeCode(code')
<1> DEFINE isConst == IsConst(Arg(2))
           n == IF isConst THEN Imm(Arg(2).c) ELSE LowByte(cx)
           load == IF isConst THEN <<>> ELSE LoadCount(PlaceOf(Arg(2)))
           shift == <<Alu(Shifts[I.op], Reg(WorkReg), n)>>
           seq == load \o LoadWork \o shift \o ToMemory(ResultPlace)
<1>1. PICK op \in DOMAIN Shifts, w \in {1, 2} : Lowers(op, w)
  BY DEF LowerShift
<1>2. Emit(seq, ResultPlace)
  BY DEF LowerShift
<1>3. op \in {"shl", "lshr", "ashr"}
  BY DEF Shifts
<1>4. Known(Arg(2))
  BY <1>1, <1>3, Operands DEF OperandsOf
<1>5. SafeCode(load)
  BY <1>4, OperandPieces, TuplesSafe
<1>6. SafeOperand(n)
  BY OperandsSafe
<1>7. SafeCode(shift)
  BY <1>6, OperandsSafe, MovesSafe, TuplesSafe
<1>8. SafeCode(LoadWork) /\ SafeCode(ToMemory(ResultPlace))
  BY <1>1, <1>3, LoadWorkSafe, ResultOf DEF OperandsOf
<1> HIDE DEF load, shift
<1>9. SafeCode(seq)
  BY <1>5, <1>7, <1>8, ConcatSafe
<1>10. QED
  BY <1>2, <1>9, EmitSafe

\* trunc, zext to 16 bits and the first step of one to 32, sext, freeze.
LEMMA ConversionsSafe ==
  ASSUME Handling, SafeCode(code),
         LowerTrunc \/ LowerZExt16 \/ LowerZExt32 \/ LowerSExt \/ LowerFreeze
  PROVE  SafeCode(code')
<1> DEFINE copy == CopyWord(PlaceOf(Arg(1)), ResultPlace)
<1>1. ASSUME NEW op, NEW w, Lowers(op, w), op \in {"trunc", "zext", "sext", "freeze"}
      PROVE  SafeCode(copy) /\ Known(Arg(1))
  BY <1>1, ResultOf, Operands DEF OperandsOf
<1>2. CASE LowerTrunc \/ LowerZExt16
  <2>1. (Lowers("trunc", 1) \/ Lowers("zext", 1)) /\ Emit(copy, ResultPlace)
    BY <1>2 DEF LowerTrunc, LowerZExt16
  <2>2. SafeCode(copy)
    BY <1>1, <2>1
  <2>3. QED
    BY <2>1, <2>2, EmitSafe
<1>3. CASE LowerZExt32
  <2>1. Lowers("zext", 2) /\ code' = code \o copy
    BY <1>3 DEF LowerZExt32
  <2>2. SafeCode(copy)
    BY <1>1, <2>1
  <2>3. QED
    BY <2>1, <2>2, ConcatSafe
<1>4. CASE LowerSExt
  <2> DEFINE spread == <<OnAxDx("cbw", Reg(ax)), OnAxDx("cwd", Reg(ax))>>
             to == ResultOffset(I.res)
             seq == copy \o spread \o StoreWide(to, ax, dx)
  <2>1. Lowers("sext", 2) /\ Emit(seq, to)
    BY <1>4 DEF LowerSExt
  <2>2. SafeCode(copy) /\ SafeCode(StoreWide(to, ax, dx))
    BY <1>1, <2>1, WideResult
  <2>3. Safe(OnAxDx("cbw", Reg(ax))) /\ Safe(OnAxDx("cwd", Reg(ax)))
    BY OperandsSafe, OthersSafe DEF OnAxDx
  <2>4. SafeCode(spread)
    BY <2>3, TuplesSafe
  <2> HIDE DEF copy, spread, to
  <2>5. SafeCode(seq)
    BY <2>2, <2>4, ConcatSafe
  <2>6. QED
    BY <2>1, <2>5, EmitSafe
<1>5. CASE LowerFreeze
  <2>1. Lowers("freeze", 1) /\ Emit(ToAx(PlaceOf(Arg(1))), ResultPlace)
    BY <1>5 DEF LowerFreeze
  <2>2. Known(Arg(1))
    BY <1>1, <2>1
  <2>3. SafeCode(ToAx(PlaceOf(Arg(1))))
    BY <2>2, OperandPieces
  <2>4. QED
    BY <2>1, <2>3, EmitSafe
<1>6. QED
  BY <1>2, <1>3, <1>4, <1>5

\* zext to 32 bits: its second step.
LEMMA WidenSafe ==
  ASSUME Handling, SafeCode(code), WidenZExt
  PROVE  SafeCode(code')
<1> DEFINE to == ResultOffset(I.res)
           clear == <<Alu("xor", Reg(dx), Reg(dx))>>
           done == <<Effect(I, to)>>
<1>1. at.part = "widen" /\ code' = code \o clear \o StoreWide(to, ax, dx) \o done
  BY DEF WidenZExt, Selecting
<1>2. at.pos <= Len(Body) /\ I.op = "zext" /\ I.w = 2
  BY <1>1 DEF Handling, CompilationInv, SelectorInv
<1>3. to \in OwnCells /\ to + 2 \in OwnCells
  BY <1>1, <1>2, InstructionFits
<1>4. SafeCode(StoreWide(to, ax, dx))
  BY <1>3, StoreWideSafe
<1>5. SafeCode(clear) /\ SafeCode(done)
  BY RegistersSafe, OthersSafe, TuplesSafe
<1> HIDE DEF to, clear, done
<1>6. QED
  BY <1>1, <1>4, <1>5, ConcatSafe

\* The longer pieces that handlers write out.
LEMMA LongTuplesSafe ==
  /\ \A a, b, c, d, e, f, g :
       Safe(a) /\ Safe(b) /\ Safe(c) /\ Safe(d) /\ Safe(e) /\ Safe(f) /\ Safe(g) =>
         SafeCode(<<a, b, c, d, e, f, g>>)
  /\ \A a, b, c, d, e, f, g, h :
       Safe(a) /\ Safe(b) /\ Safe(c) /\ Safe(d) /\ Safe(e) /\ Safe(f) /\ Safe(g) /\ Safe(h) =>
         SafeCode(<<a, b, c, d, e, f, g, h>>)
<1>1. ASSUME NEW a, NEW b, NEW c, NEW d, NEW e, NEW f, NEW g,
             Safe(a), Safe(b), Safe(c), Safe(d), Safe(e), Safe(f), Safe(g)
      PROVE  SafeCode(<<a, b, c, d, e, f, g>>)
  <2> DEFINE R == {a, b, c, d, e, f, g}
             s == <<a, b, c, d, e, f, g>>
  <2>1. s \in Seq(R) /\ \A r \in R : Safe(r)
    BY <1>1
  <2> HIDE DEF R, s
  <2>2. SafeCode(s)
    BY <2>1, SafeSequence
  <2>3. QED
    BY <2>2 DEF s
<1>2. ASSUME NEW a, NEW b, NEW c, NEW d, NEW e, NEW f, NEW g, NEW h,
             Safe(a), Safe(b), Safe(c), Safe(d), Safe(e), Safe(f), Safe(g), Safe(h)
      PROVE  SafeCode(<<a, b, c, d, e, f, g, h>>)
  <2> DEFINE R == {a, b, c, d, e, f, g, h}
             s == <<a, b, c, d, e, f, g, h>>
  <2>1. s \in Seq(R) /\ \A r \in R : Safe(r)
    BY <1>2
  <2> HIDE DEF R, s
  <2>2. SafeCode(s)
    BY <2>1, SafeSequence
  <2>3. QED
    BY <2>2 DEF s
<1>3. QED
  BY <1>1, <1>2

\* lowerICmp, 32 bits.
LEMMA ICmp32Safe ==
  ASSUME Handling, SafeCode(code), LowerICmp32
  PROVE  SafeCode(code')
<1> DEFINE yes == LocalLabel("true", I.res)
           no  == LocalLabel("false", I.res)
           low == LocalLabel("low", I.res)
           end == LocalLabel("end", I.res)
           to == ResultOffset(I.res)
           highs == <<Alu("cmp", Reg(bx), Reg(dx)), Jump("je", low)>>
           lows == <<Label(low), Alu("cmp", Reg(ax), Reg(cx))>>
           keeping == <<Label(yes), Mov(Reg(ax), Imm(1)), Jump("jmp", end),
                        Label(no), Mov(Reg(ax), Imm(0)),
                        Label(end), Mov(Mem(to), Reg(ax))>>
           onHigh == JumpOnHigh(I.pred, yes, no)
           onLow == JumpOnLow(I.pred, yes, no)
           seq == LoadWide(Arg(1), ax, bx) \o LoadWide(Arg(2), cx, dx)
                    \o highs \o onHigh \o lows \o onLow \o keeping
<1>1. Lowers("icmp", 2) /\ Emit(seq, to)
  BY DEF LowerICmp32
<1>2. SafeCode(LoadWide(Arg(1), ax, bx)) /\ SafeCode(LoadWide(Arg(2), cx, dx))
  BY <1>1, WideOperands DEF OfOneWidth
<1>3. to \in OwnCells
  BY <1>1, InstructionFits DEF Lowers, I, Selecting
<1> HIDE DEF yes, no, low, end, to
<1>4. \A l : Safe(Label(l)) /\ \A op : Safe(Jump(op, l))
  BY OthersSafe
<1>5. SafeCode(highs) /\ SafeCode(lows)
  BY <1>4, RegistersSafe, TuplesSafe
<1>6. SafeCode(onHigh) /\ SafeCode(onLow)
  BY <1>4, TuplesSafe DEF JumpOnHigh, JumpOnLow
<1>7. Safe(Mov(Reg(ax), Imm(1))) /\ Safe(Mov(Reg(ax), Imm(0))) /\ Safe(Mov(Mem(to), Reg(ax)))
  BY <1>3, OperandsSafe, MovesSafe
<1>8. SafeCode(keeping)
  BY <1>4, <1>7, LongTuplesSafe
<1> HIDE DEF highs, lows, onHigh, onLow, keeping
<1>9. SafeCode(seq)
  BY <1>2, <1>5, <1>6, <1>8, ConcatSafe
<1>10. QED
  BY <1>1, <1>9, EmitSafe

\* lowerICmp, 16 bits.
LEMMA ICmp16Safe ==
  ASSUME Handling, SafeCode(code), LowerICmp16
  PROVE  SafeCode(code')
<1> DEFINE yes == LocalLabel("true", I.res)
           end == LocalLabel("end", I.res)
           to == ResultOffset(I.res)
           load == IF IsConst(Arg(1)) THEN <<>> ELSE LoadOp1(Arg(1)) \o MoveOp1(Arg(1), ax)
           with == Op2Loc(Arg(2), cx)
           compare == <<Alu("cmp", Reg(ax), with), Jump(Conditional[I.pred], yes),
                        Mov(Reg(ax), Imm(0)), Jump("jmp", end),
                        Label(yes), Mov(Reg(ax), Imm(1)),
                        Label(end), Mov(Mem(to), Reg(ax))>>
           seq == load \o LoadOp2(Arg(2), cx) \o compare
<1>1. Lowers("icmp", 1) /\ Emit(seq, to)
  BY DEF LowerICmp16
<1>2. Known(Arg(1)) /\ Known(Arg(2))
  BY <1>1, Operands DEF OperandsOf
<1>3. /\ SafeCode(LoadOp1(Arg(1))) /\ SafeCode(LoadOp2(Arg(2), cx))
      /\ SafeCode(MoveOp1(Arg(1), ax)) /\ SafeOperand(with)
  BY <1>2, OperandPieces
<1>4. to \in OwnCells
  BY <1>1, InstructionFits DEF Lowers, I, Selecting
<1>5. SafeCode(load)
  BY <1>3, ConcatSafe, TuplesSafe
<1> HIDE DEF yes, end, to, load, with
<1>6. \A l : Safe(Label(l)) /\ \A op : Safe(Jump(op, l))
  BY OthersSafe
<1>7. /\ Safe(Alu("cmp", Reg(ax), with))
      /\ Safe(Mov(Reg(ax), Imm(1))) /\ Safe(Mov(Reg(ax), Imm(0))) /\ Safe(Mov(Mem(to), Reg(ax)))
  BY <1>3, <1>4, OperandsSafe, MovesSafe
<1>8. SafeCode(compare)
  BY <1>6, <1>7, LongTuplesSafe
<1> HIDE DEF compare
<1>9. SafeCode(seq)
  BY <1>3, <1>5, <1>8, ConcatSafe
<1>10. QED
  BY <1>1, <1>9, EmitSafe

\* lowerStore.
LEMMA StoresSafe ==
  ASSUME Handling, SafeCode(code), LowerStore32 \/ LowerStore16
  PROVE  SafeCode(code')
<1> DEFINE to == PlaceOf(Arg(2))
<1>1. ASSUME NEW w, Lowers("store", w)
      PROVE  /\ Known(Arg(1)) /\ Wide(Arg(1), w)
             /\ to \in OwnCells /\ (w = 2 => to + 2 \in OwnCells)
  <2>1. I.op = "store" /\ I.w = w /\ at.part = "body" /\ at.pos <= Len(Body)
    BY <1>1 DEF Lowers, I, Selecting
  <2>2. Known(Arg(1)) /\ Wide(Arg(1), w) /\ PointsTo(Arg(2), w)
    BY <2>1, InstructionFits DEF OperandsOf
  <2>3. QED
    BY <2>2, PointerFits DEF Handling
<1>2. CASE LowerStore32
  <2> DEFINE consts == <<Mov(Reg(ax), Imm(Arg(1).c)), Mov(Reg(dx), Imm(0))>>
             value == IF IsConst(Arg(1)) THEN consts
                      ELSE IF ~HasSlot(Arg(1).v) THEN <<>>
                      ELSE LoadPlace(PlaceOf(Arg(1)), ax, dx)
             seq == value \o StoreWide(to, ax, dx)
  <2>1. Lowers("store", 2) /\ Emit(seq, to)
    BY <1>2 DEF LowerStore32
  <2>2. Wide(Arg(1), 2) /\ to \in OwnCells /\ to + 2 \in OwnCells
    BY <1>1, <2>1
  <2>3. SafeCode(consts)
    BY OperandsSafe, MovesSafe, TuplesSafe
  <2>4. SafeCode(LoadPlace(PlaceOf(Arg(1)), ax, dx))
    BY <2>2, OperandFits, LoadPlaceSafe DEF Handling
  <2> HIDE DEF consts
  <2>5. SafeCode(value)
    BY <2>3, <2>4, TuplesSafe
  <2>6. SafeCode(StoreWide(to, ax, dx))
    BY <2>2, StoreWideSafe
  <2> HIDE DEF value, to
  <2>7. SafeCode(seq)
    BY <2>5, <2>6, ConcatSafe
  <2>8. QED
    BY <2>1, <2>7, EmitSafe
<1>3. CASE LowerStore16
  <2> DEFINE value == IF IsConst(Arg(1)) THEN <<Mov(Reg(ax), Imm(Arg(1).c))>>
                      ELSE LoadOp1(Arg(1)) \o MoveOp1(Arg(1), ax)
             store == <<Mov(Mem(to), Reg(ax))>>
             seq == value \o store
  <2>1. Lowers("store", 1) /\ Emit(seq, to)
    BY <1>3 DEF LowerStore16
  <2>2. Known(Arg(1)) /\ to \in OwnCells
    BY <1>1, <2>1
  <2>3. SafeCode(LoadOp1(Arg(1)) \o MoveOp1(Arg(1), ax))
    BY <2>2, OperandPieces, ConcatSafe
  <2>4. SafeCode(<<Mov(Reg(ax), Imm(Arg(1).c))>>)
    BY OperandsSafe, MovesSafe, TuplesSafe
  <2>5. SafeCode(value)
    BY <2>3, <2>4
  <2> HIDE DEF value, to
  <2>6. SafeCode(store)
    BY <2>2, OperandsSafe, MovesSafe, TuplesSafe
  <2> HIDE DEF store
  <2>7. SafeCode(seq)
    BY <2>5, <2>6, ConcatSafe
  <2>8. QED
    BY <2>1, <2>7, EmitSafe
<1>4. QED
  BY <1>2, <1>3

\* lowerLoad.
LEMMA LoadsSafe ==
  ASSUME Handling, SafeCode(code), LowerLoad32 \/ LowerLoad16
  PROVE  SafeCode(code')
<1> DEFINE from == PlaceOf(Arg(1))
<1>1. ASSUME NEW w, Lowers("load", w)
      PROVE  /\ from \in OwnCells /\ (w = 2 => from + 2 \in OwnCells)
             /\ I.op = "load" /\ I.w = w /\ at.part = "body" /\ at.pos <= Len(Body)
  <2>1. I.op = "load" /\ I.w = w /\ at.part = "body" /\ at.pos <= Len(Body)
    BY <1>1 DEF Lowers, I, Selecting
  <2>2. PointsTo(Arg(1), w)
    BY <2>1, InstructionFits
  <2>3. QED
    BY <2>1, <2>2, PointerFits DEF Handling
<1>2. CASE LowerLoad32
  <2> DEFINE to == ResultOffset(I.res)
             seq == <<Mov(Reg(ax), Mem(from)), Mov(Mem(to), Reg(ax)),
                      Mov(Reg(dx), Mem(from + 2)), Mov(Mem(to + 2), Reg(dx))>>
  <2>1. Lowers("load", 2) /\ Emit(seq, to)
    BY <1>2 DEF LowerLoad32
  <2>2. from \in OwnCells /\ from + 2 \in OwnCells
    BY <1>1, <2>1
  <2>3. to \in OwnCells /\ to + 2 \in OwnCells
    <3>1. I.op = "load" /\ I.w = 2 /\ at.part = "body" /\ at.pos <= Len(Body)
      BY <1>1, <2>1
    <3>2. QED
      BY <3>1, InstructionFits
  <2> HIDE DEF from, to
  <2>4. /\ Safe(Mov(Reg(ax), Mem(from))) /\ Safe(Mov(Mem(to), Reg(ax)))
        /\ Safe(Mov(Reg(dx), Mem(from + 2))) /\ Safe(Mov(Mem(to + 2), Reg(dx)))
    BY <2>2, <2>3, OperandsSafe, MovesSafe
  <2>5. SafeCode(seq)
    BY <2>4, TuplesSafe
  <2>6. QED
    BY <2>1, <2>5, EmitSafe
<1>3. CASE LowerLoad16
  <2> DEFINE to == IF HasSlot(I.res) THEN GetPhysReg(I.res) ELSE GetFreeTempReg
             seq == IF IsMem(to) THEN <<Mov(Reg(ax), Mem(from)), Mov(Mem(to), Reg(ax))>>
                    ELSE <<Mov(Reg(to), Mem(from))>>
  <2>1. Lowers("load", 1) /\ Emit(seq, to)
    BY <1>3 DEF LowerLoad16
  <2>2. from \in OwnCells /\ PlaceFits(ResultPlace, 1)
    BY <1>1, <2>1, ResultOf
  <2>3. GetFreeTempReg \in Regs
    BY DEF GetFreeTempReg, Regs, TempRegs
  <2>4. IsMem(to) => to \in OwnCells
    BY <2>2, <2>3, RegistersAreNot DEF ResultPlace, PlaceFits
  <2> HIDE DEF from, to
  <2>5. \A r : Safe(Mov(Reg(r), Mem(from)))
    BY <2>2, OperandsSafe, MovesSafe
  <2>6. IsMem(to) => Safe(Mov(Mem(to), Reg(ax)))
    BY <2>4, OperandsSafe, MovesSafe
  <2>7. SafeCode(seq)
    BY <2>5, <2>6, TuplesSafe
  <2>8. QED
    BY <2>1, <2>7, EmitSafe
<1>4. QED
  BY <1>2, <1>3

\* lowerSelect.
LEMMA SelectSafe ==
  ASSUME Handling, SafeCode(code), LowerSelect
  PROVE  SafeCode(code')
<1> DEFINE yes == LocalLabel("true", I.res)
           end == LocalLabel("end", I.res)
           work == IF IsMem(ResultPlace) THEN ax ELSE ResultPlace
           second == Loc(PlaceOf(Arg(2)))
           third == Loc(PlaceOf(Arg(3)))
           choose == <<Alu("or", Reg(ax), Reg(ax)), Jump("jne", yes),
                       Mov(Reg(work), third), Jump("jmp", end),
                       Label(yes), Mov(Reg(work), second), Label(end)>>
           store == IF IsMem(ResultPlace) THEN <<Mov(Mem(ResultPlace), Reg(work))>> ELSE <<>>
           seq == choose \o store
<1>1. Lowers("select", 1) /\ Emit(seq, ResultPlace)
  BY DEF LowerSelect
<1>2. Known(Arg(2)) /\ Known(Arg(3))
  BY <1>1, Operands DEF OperandsOf
<1>3. SafeOperand(second) /\ SafeOperand(third)
  BY <1>2, OperandPieces
<1>4. SafeCode(store)
  BY <1>1, ResultOf DEF ToMemory
<1> HIDE DEF yes, end, work, second, third
<1>5. /\ Safe(Jump("jne", yes)) /\ Safe(Jump("jmp", end))
      /\ Safe(Label(yes)) /\ Safe(Label(end)) /\ Safe(Alu("or", Reg(ax), Reg(ax)))
  BY OthersSafe, RegistersSafe
<1>6. Safe(Mov(Reg(work), second)) /\ Safe(Mov(Reg(work), third))
  BY <1>3, OperandsSafe, MovesSafe
<1>7. SafeCode(choose)
  BY <1>5, <1>6, LongTuplesSafe
<1> HIDE DEF choose, store
<1>8. SafeCode(seq)
  BY <1>4, <1>7, ConcatSafe
<1>9. QED
  BY <1>1, <1>8, EmitSafe

\* Every handler's code keeps to the frame.
LEMMA InstructionSafe ==
  ASSUME Handling, SafeCode(code), LowerInstruction
  PROVE  SafeCode(code')
<1>1. CASE LowerAlloca
  <2>1. Emit(<<>>, ResultPlace)
    BY <1>1 DEF LowerAlloca
  <2>2. QED
    BY <2>1, TuplesSafe, EmitSafe
<1>2. CASE LowerPhi
  BY <1>2 DEF LowerPhi
<1>3. CASE LowerAdd32 \/ LowerSub32 \/ LowerMul32 \/ LowerDivRem32 \/ LowerBinaryOp32
  BY <1>3, Add32Safe, Sub32Safe, Mul32Safe, DivRem32Safe, BinaryOp32Safe
<1>4. CASE LowerAdd16 \/ LowerSub16 \/ LowerMul16 \/ LowerDivRem16 \/ LowerBinaryOp16 \/ LowerShift
  BY <1>4, Add16Safe, Sub16Safe, Mul16Safe, DivRem16Safe, BinaryOp16Safe, ShiftSafe
<1>5. CASE LowerTrunc \/ LowerZExt16 \/ LowerZExt32 \/ WidenZExt \/ LowerSExt \/ LowerFreeze
  BY <1>5, ConversionsSafe, WidenSafe
<1>6. CASE LowerICmp32 \/ LowerICmp16
  BY <1>6, ICmp32Safe, ICmp16Safe
<1>7. CASE LowerStore32 \/ LowerStore16 \/ LowerLoad32 \/ LowerLoad16 \/ LowerSelect
  BY <1>7, StoresSafe, LoadsSafe, SelectSafe
<1>8. QED
  BY <1>1, <1>2, <1>3, <1>4, <1>5, <1>6, <1>7 DEF LowerInstruction

-----------------------------------------------------------------------------
(* Phis and terminators *)

\* One more instruction.
LEMMA AppendSafe ==
  ASSUME NEW s, NEW e, SafeCode(s), Safe(e)
  PROVE  SafeCode(Append(s, e))
<1> DEFINE R == {s[k] : k \in DOMAIN s} \cup {e}
           longer == Append(s, e)
<1>1. \A r \in R : Safe(r)
  BY DEF SafeCode
<1>2. s \in Seq(R)
  <2>1. s \in Seq({s[k] : k \in DOMAIN s})
    BY DEF SafeCode, IsSequence
  <2>2. QED
    BY <2>1
<1>3. longer \in Seq(R)
  <2>1. e \in R
    OBVIOUS
  <2> HIDE DEF R
  <2>2. QED
    BY <1>2, <2>1
<1> HIDE DEF R, longer
<1>4. SafeCode(longer)
  BY <1>1, <1>3, SafeSequence
<1>5. QED
  BY <1>4 DEF longer

\* lowerBasicBlock: the label.
LEMMA BeginBlockSafe ==
  ASSUME SafeCode(code), BeginBlock
  PROVE  SafeCode(code')
<1> DEFINE label == Label(BlockLabel(AtBlock.label))
<1>1. code' = code \/ code' = Append(code, label)
  BY DEF BeginBlock
<1>2. Safe(label)
  BY OthersSafe
<1> HIDE DEF label
<1>3. QED
  BY <1>1, <1>2, AppendSafe

\* The value a block loads for a phi, from the phi's slot.
LEMMA LoadPhiSafe ==
  ASSUME Handling, SafeCode(code), LoadPhi
  PROVE  SafeCode(code')
<1> DEFINE phis == PhisOf(AtBlock)
           phi == phis[at.pos]
           off == GetPhysReg(phi.res)
           o == [v |-> phi.res]
           load == IF Is32(o) THEN LoadPlace(off, ax, dx) ELSE <<Mov(Reg(ax), Mem(off))>>
<1>1. at.part = "phis" /\ at.pos <= Len(phis) /\ code' = code \o load
  BY DEF LoadPhi, Selecting
<1>2. /\ prog \in Programs /\ at.pos \in Nat \ {0} /\ at.block \in Nat \ {0}
      /\ at.block <= Len(prog.blocks) /\ phase = "lowering"
  BY <1>1 DEF Handling, CompilationInv, SelectorInv
<1>3. phis \in Seq({r \in InstrsOf(prog) : r.op = "phi"})
  <2>1. at.block \in 1 .. Len(prog.blocks)
    BY <1>2, ProgramFields DEF Handling
  <2>2. Body \in Seq(InstrsOf(prog))
    BY <1>2, <2>1, ProgramFields DEF Handling, Body, AtBlock
  <2>3. QED
    BY <2>2, WithOpcodeTyped DEF PhisOf, Body
<1> HIDE DEF phis
<1>4. at.pos \in 1 .. Len(phis)
  BY <1>1, <1>2, <1>3
<1>5. phi \in InstrsOf(prog) /\ phi.op = "phi"
  BY <1>3, <1>4
<1> HIDE DEF phi
<1>6. /\ off \in OwnCells /\ HasSlot(phi.res)
      /\ slots[index[phi.res]].size = 4 => off + 2 \in OwnCells
  BY <1>5, HomeFits DEF Handling
<1>7. SafeCode(load)
  <2>1. CASE Is32(o)
    <3>1. slots[index[phi.res]].size = 4
      BY <2>1 DEF Is32
    <3>2. PlaceFits(off, 2)
      BY <1>6, <3>1 DEF PlaceFits
    <3>3. QED
      BY <2>1, <3>2, LoadPlaceSafe
  <2>2. CASE ~Is32(o)
    <3>1. Safe(Mov(Reg(ax), Mem(off)))
      BY <1>6, OperandsSafe, MovesSafe
    <3>2. SafeCode(<<Mov(Reg(ax), Mem(off))>>)
      BY <3>1, TuplesSafe
    <3>3. QED
      BY <2>2, <3>2
  <2>3. QED
    BY <2>1, <2>2
<1> HIDE DEF load
<1>8. QED
  BY <1>1, <1>7, ConcatSafe

\* The phis' incoming values, and the blocks they come from.
Incoming ==
  UNION {{Edges(i)[k] : k \in DOMAIN i.args} : i \in {j \in InstrsOf(prog) : j.op = "phi"}}

\* The incoming value of an edge is as wide as its phi.
LEMMA IncomingTyped ==
  ASSUME ProgramsTyped, prog \in Programs, NEW e \in Incoming
  PROVE  e.phi \in InstrsOf(prog) /\ e.phi.op = "phi" /\ Wide(e.value, e.phi.w)
<1>1. PICK i \in InstrsOf(prog) : i.op = "phi" /\ \E k \in DOMAIN i.args : e = Edges(i)[k]
  BY DEF Incoming
<1>2. PICK k \in DOMAIN i.args : e = Edges(i)[k]
  BY <1>1
<1>3. e.phi = i /\ e.value = i.args[k]
  BY <1>2 DEF Edges
<1>4. Wide(i.args[k], i.w)
  BY <1>1, InstructionTyped
<1>5. QED
  BY <1>1, <1>3, <1>4

\* phiStoresByPred: every store is of an incoming value.
LEMMA PhiStoresTyped ==
  ASSUME ProgramsFit, ProgramsTyped, prog \in Programs
  PROVE  PhiStores \in Seq(Incoming)
<1> DEFINE phis == OfOpcode("phi")
           seqs == [k \in DOMAIN phis |-> Edges(phis[k])]
<1>1. /\ Len(phis) \in Nat /\ DOMAIN phis = 1 .. Len(phis)
      /\ \A k \in 1 .. Len(phis) : phis[k] \in InstrsOf(prog) /\ phis[k].op = "phi"
  BY OfOpcodeTyped
<1>2. ASSUME NEW k \in 1 .. Len(phis) PROVE Edges(phis[k]) \in Seq(Incoming)
  <2> DEFINE i == phis[k]
             edges == Edges(i)
  <2>1. i \in InstrsOf(prog) /\ i.op = "phi"
    BY <1>1
  <2>2. IsSequence(i.args)
    BY <2>1, InstructionTyped
  <2>3. Len(i.args) \in Nat /\ DOMAIN i.args = 1 .. Len(i.args)
    BY <2>2 DEF IsSequence
  <2> HIDE DEF i
  <2>4. \A n \in 1 .. Len(i.args) : edges[n] \in Incoming
    BY <2>1, <2>3 DEF Incoming
  <2>5. edges = [n \in 1 .. Len(i.args) |-> edges[n]]
    BY <2>3 DEF Edges
  <2> HIDE DEF edges
  <2>6. edges \in Seq(Incoming)
    BY <2>3, <2>4, <2>5, SMTT(30)
  <2>7. QED
    BY <2>6 DEF edges, i
<1>3. seqs \in Seq(Seq(Incoming))
  <2> HIDE DEF phis
  <2>1. QED
    BY <1>1, <1>2
<1>4. AllEdges \in Seq(Incoming)
  <2>1. AllEdges = FlattenSeq(seqs)
    BY DEF AllEdges
  <2> HIDE DEF seqs
  <2>2. FlattenSeq(seqs) \in Seq(Incoming)
    BY <1>3, FlattenSeqTyped
  <2>3. QED
    BY <2>1, <2>2
<1>5. ASSUME NEW keep PROVE Picked(AllEdges, keep) \in Seq(Incoming)
  <2> DEFINE kept == {AllEdges[n] : n \in {m \in 1 .. Len(AllEdges) : m \in keep}}
  <2>1. Picked(AllEdges, keep) \in Seq(kept)
    BY <1>4, PickedMembers
  <2>2. kept \subseteq Incoming
    BY <1>4
  <2> HIDE DEF kept
  <2>3. QED
    BY <2>1, <2>2
<1> DEFINE here == Picked(AllEdges, {n \in DOMAIN AllEdges : AllEdges[n].from = AtBlock.label})
           nowhere == Picked(AllEdges, {n \in DOMAIN AllEdges : AllEdges[n].from \notin Labels})
<1>6. here \in Seq(Incoming) /\ nowhere \in Seq(Incoming)
  BY <1>5
<1>7. PhiStores = here \o (IF at.block = 1 THEN nowhere ELSE <<>>)
  BY DEF PhiStores
<1> HIDE DEF here, nowhere
<1>8. QED
  BY <1>6, <1>7

\* The incoming value is loaded.
LEMMA LoadIncomingSafe ==
  ASSUME Handling, NEW o, NEW wide \in BOOLEAN, Wide(o, IF wide THEN 2 ELSE 1)
  PROVE  SafeCode(LoadIncoming(o, wide))
<1> DEFINE p == PlaceOf(o)
           unknown == <<Mov(Reg(ax), Unknown), Mov(Reg(dx), Unknown)>>
           words == IF IsMem(p) THEN LoadPlace(p, ax, dx) ELSE unknown
           consts == <<Mov(Reg(ax), Imm(o.c)), Mov(Reg(dx), Imm(0))>>
<1>1. PlaceFits(p, 1) /\ (wide => PlaceFits(p, 2))
  BY OperandFits DEF Handling
<1> HIDE DEF p
<1>2. Safe(Mov(Reg(ax), Unknown)) /\ Safe(Mov(Reg(dx), Unknown)) /\ SafeCode(consts)
  BY OperandsSafe, MovesSafe, TuplesSafe
<1>3. SafeCode(unknown) /\ unknown[1] = Mov(Reg(ax), Unknown)
  BY <1>2, TuplesSafe
<1>4. wide => SafeCode(words)
  BY <1>1, <1>3, LoadPlaceSafe
<1>5. SafeCode(<<words[1]>>)
  <2>1. CASE IsMem(p)
    <3>1. p \in OwnCells /\ p \notin TempRegs
      <4>1. TempRegs \subseteq Regs
        BY DEF Regs
      <4>2. QED
        BY <1>1, <2>1, <4>1, RegistersAreNot DEF PlaceFits
    <3>2. LoadPlace(p, ax, dx) = <<>> \o <<Mov(Reg(ax), Mem(p)), Mov(Reg(dx), Mem(p + 2))>>
      BY <2>1, <3>1 DEF LoadPlace, SafeMemAddr, LoadWords
    <3>3. \A x, y : (<<>> \o <<x, y>>)[1] = x
      OBVIOUS
    <3>4. words[1] = Mov(Reg(ax), Mem(p))
      BY <2>1, <3>2, <3>3
    <3>5. Safe(Mov(Reg(ax), Mem(p)))
      BY <3>1, OperandsSafe, MovesSafe
    <3> HIDE DEF words
    <3>6. QED
      BY <3>4, <3>5, TuplesSafe
  <2>2. CASE ~IsMem(p)
    <3>1. words = unknown
      BY <2>2
    <3> HIDE DEF words, unknown
    <3>2. words[1] = Mov(Reg(ax), Unknown)
      BY <1>3, <3>1
    <3>3. QED
      BY <1>2, <3>2, TuplesSafe
  <2>3. QED
    BY <2>1, <2>2
<1>6. CASE IsConst(o)
  <2>1. LoadIncoming(o, wide) = consts
    BY <1>6 DEF LoadIncoming
  <2> HIDE DEF consts
  <2>2. QED
    BY <1>2, <2>1
<1>7. CASE ~IsConst(o) /\ HasSlot(o.v)
  <2>1. LoadIncoming(o, wide) = IF wide THEN words ELSE <<words[1]>>
    BY <1>7 DEF LoadIncoming, p
  <2> HIDE DEF words
  <2>2. QED
    BY <1>4, <1>5, <2>1
<1>8. CASE ~IsConst(o) /\ ~HasSlot(o.v)
  <2>1. LoadIncoming(o, wide) = <<>>
    BY <1>8 DEF LoadIncoming
  <2>2. QED
    BY <2>1, TuplesSafe
<1>9. QED
  BY <1>6, <1>7, <1>8

\* It is stored to the slot of the phi.
LEMMA StorePhiSafe ==
  ASSUME Handling, SafeCode(code), StorePhi
  PROVE  SafeCode(code')
<1> DEFINE e == PhiStores[at.pos]
           to == GetPhysReg(e.phi.res)
           wide == e.phi.w = 2
           load == LoadIncoming(e.value, wide)
           store == IF wide THEN StoreWide(to, ax, dx) ELSE <<Mov(Mem(to), Reg(ax))>>
<1>1. code' = code \o load \o store
  BY DEF StorePhi
<1>2. prog \in Programs /\ at.pos \in Nat \ {0} /\ phase = "lowering"
  BY DEF Handling, CompilationInv, SelectorInv
<1>3. PhiStores \in Seq(Incoming)
  BY <1>2, PhiStoresTyped DEF Handling
<1>4. e \in Incoming
  <2>1. at.pos <= Len(PhiStores)
    BY DEF StorePhi
  <2> HIDE DEF StorePhi
  <2>2. at.pos \in 1 .. Len(PhiStores)
    BY <1>2, <1>3, <2>1
  <2>3. QED
    BY <1>3, <2>2
<1> HIDE DEF e
<1>5. e.phi \in InstrsOf(prog) /\ e.phi.op = "phi" /\ Wide(e.value, e.phi.w)
  BY <1>2, <1>4, IncomingTyped DEF Handling
<1>6. to \in OwnCells /\ (Width[e.phi.res] = 2 => to + 2 \in OwnCells)
  BY <1>5, HomeFits DEF Handling
<1>7. e.phi.w \in {1, 2}
  BY <1>2, <1>5, ProgramFields DEF Handling
<1>8. Width[e.phi.res] = e.phi.w
  BY <1>2, <1>5, InstructionTyped DEF Handling, HasResult
<1> HIDE DEF to
<1>9. SafeCode(load)
  <2>1. Wide(e.value, IF wide THEN 2 ELSE 1) /\ wide \in BOOLEAN
    BY <1>5, <1>7
  <2>2. QED
    BY <2>1, LoadIncomingSafe
<1>10. SafeCode(store)
  <2>1. CASE wide
    <3>1. to \in OwnCells /\ to + 2 \in OwnCells
      BY <1>6, <1>8, <2>1
    <3>2. SafeCode(StoreWide(to, ax, dx))
      BY <3>1, StoreWideSafe
    <3>3. QED
      BY <2>1, <3>2
  <2>2. CASE ~wide
    <3>1. Safe(Mov(Mem(to), Reg(ax)))
      BY <1>6, OperandsSafe, MovesSafe
    <3>2. SafeCode(<<Mov(Mem(to), Reg(ax))>>)
      BY <3>1, TuplesSafe
    <3>3. QED
      BY <2>2, <3>2
  <2>3. QED
    BY <2>1, <2>2
<1> HIDE DEF load, store
<1>11. QED
  BY <1>1, <1>9, <1>10, ConcatSafe

\* What a terminator may rely on.
LEMMA TermFits ==
  ASSUME Handling, NEW op \in {"ret", "condbr", "switch"}, Ends(op)
  PROVE  /\ Known(Term.args[1])
         /\ op = "switch" => IsSequence(Term.cases)
<1>1. Term.op = op /\ at.block <= Len(prog.blocks)
  BY DEF Ends, Selecting
<1>2. at.block \in 1 .. Len(prog.blocks) /\ prog \in Programs
  BY <1>1 DEF Handling, CompilationInv, SelectorInv
<1>3. at.block \in DOMAIN prog.blocks
  BY <1>2, ProgramFields DEF Handling
<1>4. QED
  BY <1>1, <1>2, <1>3, TermTyped DEF Handling, Term, AtBlock

\* A terminator adds its code behind its marker.
LEMMA TerminateSafe ==
  ASSUME SafeCode(code), NEW seq, SafeCode(seq), Terminate(seq)
  PROVE  SafeCode(code')
<1>1. SafeCode(<<Effect(Term, NoReg)>>)
  BY OthersSafe, TuplesSafe
<1>2. code' = code \o <<Effect(Term, NoReg)>> \o seq
  BY DEF Terminate
<1>3. SafeCode(code \o <<Effect(Term, NoReg)>> \o seq)
  BY <1>1, ConcatSafe
<1>4. QED
  BY <1>2, <1>3

\* The slot of a returned value of two words.
LEMMA ReturnFits ==
  ASSUME Handling, NEW o, Known(o), Is32(o), IsMem(PlaceOf(o))
  PROVE  PlaceFits(PlaceOf(o), 2)
<1>1. ~IsConst(o) /\ HasSlot(o.v) /\ slots[index[o.v]].size = 4
  BY DEF Is32
<1>2. index[o.v] \in 1 .. Len(slots)
  BY <1>1 DEF Handling, CompilationInv, IInv, TypeOK, HasSlot
<1> DEFINE i == index[o.v]
<1>3. PlaceOf(o) = IF slots[i].kind = "Param" /\ slots[i].reg # NoReg THEN slots[i].reg
                   ELSE slots[i].off
  BY <1>1 DEF PlaceOf, GetPhysReg
<1>4. slots[i].kind = "Param" => slots[i].reg = NoReg
  <2>1. slots[i] \in Slot
    BY <1>2 DEF Handling, CompilationInv, IInv, TypeOK
  <2>2. slots[i].reg \in ParamRegs \cup {NoReg}
    BY <2>1 DEF Slot
  <2>3. slots[i].reg \in ParamRegs => ~IsMem(slots[i].reg)
    BY RegistersAreNot DEF Regs
  <2>4. QED
    BY <1>3, <2>2, <2>3
<1>5. slots[i].off \in OwnCells /\ slots[i].off + 2 \in OwnCells
  <2>1. IInv /\ EvenInv /\ TempsInv /\ phase = "lowering"
    BY DEF Handling, CompilationInv, SlotsInv
  <2>2. i \in 1 .. Len(slots) /\ slots[i].size = 4
    BY <1>1, <1>2
  <2> HIDE DEF i
  <2>3. slots[i].size >= 2 /\ slots[i].size >= 4
    BY <2>2
  <2>4. QED
    BY <1>4, <2>1, <2>2, <2>3, SlotOwned
<1>6. QED
  BY <1>3, <1>4, <1>5 DEF PlaceFits

\* lowerRetTerm.
LEMMA RetSafe ==
  ASSUME Handling, SafeCode(code), LowerRet
  PROVE  SafeCode(code')
<1> DEFINE o == Term.args[1]
           p == PlaceOf(o)
           const == <<Mov(Reg(ax), Imm(o.c))>>
           word == <<Mov(Reg(ax), Mem(p))>>
           reg == <<Mov(Reg(ax), Reg(p))>>
           value == CASE IsConst(o) -> const
                      [] ~IsConst(o) /\ IsMem(p) -> IF Is32(o) THEN LoadPlace(p, ax, dx) ELSE word
                      [] OTHER -> IF p = ax THEN <<>> ELSE reg
           seq == Append(value, Retf)
<1>1. Ends("ret") /\ Terminate(seq)
  BY DEF LowerRet
<1>2. Known(o)
  BY <1>1, TermFits
<1>3. PlaceFits(p, 1)
  BY <1>2, OperandFits DEF Handling
<1>4. Is32(o) /\ IsMem(p) => SafeCode(LoadPlace(p, ax, dx))
  BY <1>2, ReturnFits, LoadPlaceSafe
<1> HIDE DEF o, p
<1>5. SafeCode(const) /\ SafeCode(reg)
  BY OperandsSafe, MovesSafe, TuplesSafe
<1>6. IsMem(p) => SafeCode(word)
  BY <1>3, PlaceSafe, OperandsSafe, MovesSafe, TuplesSafe
<1> HIDE DEF const, reg, word
<1>7. SafeCode(value)
  BY <1>4, <1>5, <1>6, TuplesSafe
<1> HIDE DEF value
<1>8. SafeCode(seq)
  BY <1>7, OthersSafe, AppendSafe
<1>9. QED
  BY <1>1, <1>8, TerminateSafe

\* lowerBr, lowerCondBrTerm, lowerSwitch.
LEMMA BranchesSafe ==
  ASSUME Handling, SafeCode(code), LowerBr \/ LowerCondBr \/ LowerSwitch
  PROVE  SafeCode(code')
<1> DEFINE p == PlaceOf(Term.args[1])
<1>1. CASE LowerBr
  <2>1. Terminate(<<Jump("jmp", BlockLabel(Term.to[1]))>>)
    BY <1>1 DEF LowerBr
  <2>2. SafeCode(<<Jump("jmp", BlockLabel(Term.to[1]))>>)
    BY OthersSafe, TuplesSafe
  <2>3. QED
    BY <2>1, <2>2, TerminateSafe
<1>2. CASE LowerCondBr
  <2> DEFINE jumps == <<Alu("test", Reg(cx), Reg(cx)),
                        Jump("jne", BlockLabel(Term.to[1])), Jump("jmp", BlockLabel(Term.to[2]))>>
             seq == LoadCond(p) \o jumps
  <2>1. Ends("condbr") /\ Terminate(seq)
    BY <1>2 DEF LowerCondBr
  <2>2. SafeCode(LoadCond(p))
    BY <2>1, TermFits, OperandPieces
  <2>3. SafeCode(jumps)
    BY RegistersSafe, OthersSafe, TuplesSafe
  <2> HIDE DEF p, jumps
  <2>4. SafeCode(seq)
    BY <2>2, <2>3, ConcatSafe
  <2>5. QED
    BY <2>1, <2>4, TerminateSafe
<1>3. CASE LowerSwitch
  <2> DEFINE Case(k) == <<Alu("cmp", Reg(ax), Imm(Term.cases[k])),
                          Jump("je", BlockLabel(Term.to[k + 1]))>>
             load == IF p = ax THEN <<>> ELSE <<Mov(Reg(ax), Loc(p))>>
             seqs == [k \in DOMAIN Term.cases |-> Case(k)]
             default == <<Jump("jmp", BlockLabel(Term.to[1]))>>
             seq == load \o FlattenSeq(seqs) \o default
             R == UNION {{Case(k)[1], Case(k)[2]} : k \in DOMAIN Term.cases}
  <2>1. Ends("switch") /\ Terminate(seq)
    BY <1>3 DEF LowerSwitch
  <2>2. Known(Term.args[1]) /\ IsSequence(Term.cases)
    BY <2>1, TermFits
  <2>3. SafeOperand(Loc(p))
    BY <2>2, OperandPieces
  <2> HIDE DEF p
  <2>4. SafeCode(load) /\ SafeCode(default)
    BY <2>3, OperandsSafe, MovesSafe, OthersSafe, TuplesSafe
  <2>5. SafeCode(FlattenSeq(seqs))
    <3>1. Len(Term.cases) \in Nat /\ DOMAIN Term.cases = 1 .. Len(Term.cases)
      BY <2>2 DEF IsSequence
    <3>2. ASSUME NEW k \in DOMAIN Term.cases
          PROVE  Case(k) \in Seq({Case(k)[1], Case(k)[2]}) /\ Safe(Case(k)[1]) /\ Safe(Case(k)[2])
      <4> DEFINE a == Alu("cmp", Reg(ax), Imm(Term.cases[k]))
                 b == Jump("je", BlockLabel(Term.to[k + 1]))
      <4>1. Safe(a) /\ Safe(b)
        BY OperandsSafe, MovesSafe, OthersSafe
      <4>2. Case(k) = <<a, b>>
        OBVIOUS
      <4> HIDE DEF a, b, Case
      <4>3. Case(k)[1] = a /\ Case(k)[2] = b /\ <<a, b>> \in Seq({a, b})
        BY <4>2
      <4>4. QED
        BY <4>1, <4>2, <4>3
    <3> HIDE DEF Case
    <3>3. \A r \in R : Safe(r)
      BY <3>2
    <3>4. \A k \in DOMAIN Term.cases : Case(k) \in Seq(R)
      <4> SUFFICES ASSUME NEW k \in DOMAIN Term.cases PROVE Case(k) \in Seq(R)
        OBVIOUS
      <4> DEFINE c == Case(k)
                 S == {c[1], c[2]}
      <4>1. S \subseteq R
        OBVIOUS
      <4>2. c \in Seq(S)
        BY <3>2
      <4> HIDE DEF c, R, S
      <4>3. c \in Seq(R)
        BY <4>1, <4>2
      <4>4. QED
        BY <4>3 DEF c
    <3> HIDE DEF R
    <3>5. seqs \in Seq(Seq(R))
      BY <3>1, <3>4
    <3> HIDE DEF seqs
    <3>6. FlattenSeq(seqs) \in Seq(R)
      BY <3>5, FlattenSeqTyped
    <3>7. QED
      BY <3>3, <3>6, SafeSequence
  <2> HIDE DEF load, seqs, default
  <2>6. SafeCode(seq)
    BY <2>4, <2>5, ConcatSafe
  <2>7. QED
    BY <2>1, <2>6, TerminateSafe
<1>4. QED
  BY <1>1, <1>2, <1>3

\* Every step of the selector leaves code that keeps to the frame.
LEMMA SelectionSafe ==
  ASSUME Handling, SafeCode(code), SelectInstructions
  PROVE  SafeCode(code')
<1>1. CASE BeginBlock \/ LoadPhi \/ StorePhi
  BY <1>1, BeginBlockSafe, LoadPhiSafe, StorePhiSafe
<1>2. CASE PhisLoaded \/ BodyDone \/ PhisStored
  BY <1>2 DEF PhisLoaded, BodyDone, PhisStored
<1>3. CASE LowerInstruction
  BY <1>3, InstructionSafe
<1>4. CASE LowerRet \/ LowerBr \/ LowerCondBr \/ LowerSwitch
  BY <1>4, RetSafe, BranchesSafe
<1>5. QED
  BY <1>1, <1>2, <1>3, <1>4 DEF SelectInstructions

-----------------------------------------------------------------------------
(* The frame as the handlers find it is what the analysis, the layout and the *)
(* handlers before them leave.                                                *)

\* computeMaxTempSpace: instructions take whole words.
LEMMA MaxTempSpaceEven ==
  ASSUME ProgramsFit, prog \in Programs
  PROVE  MaxTempSpace(prog) % 2 = 0
<1> DEFINE Even == {x \in Nat : x % 2 = 0}
           spaces == {TempSpace(prog.blocks[n]) : n \in DOMAIN prog.blocks}
           S == {0} \cup spaces
<1>1. ASSUME NEW k \in DOMAIN prog.blocks PROVE TempSpace(prog.blocks[k]) \in Even
  <2> DEFINE b == prog.blocks[k]
             L == Len(b.instrs)
             need == Needed(b)
  <2>1. k \in 1 .. Len(prog.blocks) /\ L \in Nat /\ b.instrs \in Seq(InstrsOf(prog))
    BY ProgramFields
  <2>2. /\ need[0] = 0
        /\ \A n \in 1 .. L : need[n] = need[n - 1] + Estimate(b.instrs[n])
    BY <2>1, NeededFacts
  <2>3. ASSUME NEW n \in 1 .. L PROVE Estimate(b.instrs[n]) \in Even
    <3> DEFINE i == b.instrs[n]
    <3>1. i \in InstrsOf(prog)
      <4> HIDE DEF b
      <4>1. QED
        BY <2>1
    <3>2. i.w \in {1, 2}
      BY <3>1, ProgramFields
    <3> HIDE DEF i
    <3>3. Estimate(i) \in {0, 2, 4, 6, 8}
      BY <3>2 DEF Estimate, Words
    <3>4. Estimate(i) \in Even
      BY <3>3
    <3>5. QED
      BY <3>4 DEF i
  <2>4. \A x, y \in Even : x + y \in Even
    OBVIOUS
  <2> HIDE DEF b, L, need, Even
  <2>5. \A n \in 1 .. L : need[n - 1] \in Even => need[n] \in Even
    BY <2>2, <2>3, <2>4
  <2>6. need[0] \in Even
    BY <2>2 DEF Even
  <2>7. \A n \in 0 .. L : need[n] \in Even
    BY <2>1, <2>5, <2>6, ValuesUpTo
  <2>8. L \in 0 .. L
    BY <2>1
  <2>9. QED
    BY <2>7, <2>8 DEF TempSpace, need, L, b
<1>2. S \subseteq Even
  BY <1>1
<1>3. \E x \in S : \A y \in S : x >= y
  <2> DEFINE L == Len(prog.blocks)
             f == [n \in 1 .. L |-> TempSpace(prog.blocks[n])]
             T == {0} \cup {f[n] : n \in 1 .. L}
  <2>1. L \in Nat /\ DOMAIN prog.blocks = 1 .. L
    BY ProgramFields
  <2>2. S = T
    <3> HIDE DEF L
    <3>1. {f[n] : n \in 1 .. L} = spaces
      BY <2>1
    <3>2. QED
      BY <3>1
  <2>3. \A n \in 1 .. L : f[n] \in Nat
    BY <1>1, <2>1
  <2> HIDE DEF f, L, S
  <2>4. \E x \in T : \A y \in T : x >= y
    BY <2>1, <2>3, GreatestValue
  <2>5. QED
    BY <2>2, <2>4
<1>4. MaxTempSpace(prog) = 16 + Max(S)
  BY DEF MaxTempSpace
<1> HIDE DEF S
<1>5. Max(S) \in S
  BY <1>3 DEF Max
<1>6. Max(S) \in Nat /\ Max(S) % 2 = 0
  BY <1>2, <1>5
<1>7. QED
  BY <1>4, <1>6

\* What is counted in a function stays, since the function does.
LEMMA SameProgram ==
  ASSUME UNCHANGED prog
  PROVE  /\ UNCHANGED <<Width, ParamCount, AllocaCount, SpillCount, PhiCount>>
         /\ \A op : OfOpcode(op)' = OfOpcode(op)
<1>1. UNCHANGED Width
  BY DEF Width
<1>2. \A op : OfOpcode(op)' = OfOpcode(op)
  BY DEF OfOpcode, Instructions
<1>3. UNCHANGED <<ParamCount, AllocaCount, PhiCount>>
  BY <1>2 DEF ParamCount, AllocaCount, PhiCount
<1>4. UNCHANGED SpillCount
  BY <1>2 DEF SpillCount, Spills, CrossBlock, Allocas
<1>5. QED
  BY <1>1, <1>2, <1>3, <1>4

Evens == {x \in Int : x % 2 = 0}
WideEnough(size, v) == 2 * Width[v] <= size

\* addSlot: a slot that is wide enough for its vreg, at an even offset.
LEMMA SlotAddedFits ==
  ASSUME ProgramsFit, TypeOK, SizedInv, UNCHANGED prog, NEW v \in Vregs, NEW size \in {2, 4},
         WideEnough(size, v), NEW kind \in Kinds, NEW reg \in ParamRegs \cup {NoReg},
         NEW off \in Evens, AddSlot(v, size, kind, reg, off),
         \A i \in 1 .. Len(slots) : slots[i].off % 2 = 0 /\ slots[i].size % 2 = 0
  PROVE  /\ SizedInv' /\ DOMAIN index' = DOMAIN index \cup {v}
         /\ \A i \in 1 .. Len(slots') : slots'[i].off % 2 = 0 /\ slots'[i].size % 2 = 0
         /\ Len(slots') = Len(slots) + 1
         /\ \A i \in 1 .. Len(slots) : slots'[i] = slots[i]
         /\ LET s == slots'[Len(slots) + 1]
            IN s.size = size /\ s.off = off /\ s.kind = kind
<1>1. v \in Names /\ size \in Sizes /\ off \in Int /\ off % 2 = 0
  BY DEF Names, ProgramsFit, Evens
<1>2. /\ slots' \in Seq(Slot) /\ Len(slots') = Len(slots) + 1
      /\ \A i \in 1 .. Len(slots) : slots'[i] = slots[i]
      /\ slots'[Len(slots) + 1].size = size /\ slots'[Len(slots) + 1].off = off
      /\ slots'[Len(slots) + 1].kind = kind
      /\ DOMAIN index' = DOMAIN index \cup {v}
      /\ \A n \in DOMAIN index \ {v} : index'[n] = index[n]
      /\ index'[v] = Len(slots) + 1
  BY <1>1, SlotAdded
<1>3. UNCHANGED Width
  BY SameProgram
<1>4. SizedInv'
  <2> SUFFICES ASSUME NEW n \in DOMAIN index'
               PROVE  /\ n \in Vregs
                      /\ slots'[index'[n]].size \in {2, 4}
                      /\ slots'[index'[n]].size >= 2 * Width[n]
    BY <1>3 DEF SizedInv
  <2> HIDE DEF Width
  <2>1. CASE n = v
    <3>1. slots'[index'[n]].size = size
      BY <1>2, <2>1
    <3>2. size >= 2 * Width[n] /\ 2 * Width[n] <= size
      BY <2>1 DEF WideEnough
    <3>3. QED
      BY <2>1, <3>1, <3>2
  <2>2. CASE n # v
    <3>1. n \in DOMAIN index /\ index'[n] = index[n] /\ index[n] \in 1 .. Len(slots)
      BY <1>2, <2>2 DEF TypeOK
    <3>2. QED
      BY <1>2, <3>1 DEF SizedInv
  <2>3. QED
    BY <2>1, <2>2
<1>5. \A i \in 1 .. Len(slots') : slots'[i].off % 2 = 0 /\ slots'[i].size % 2 = 0
  <2>1. Len(slots) \in Nat
    BY DEF TypeOK
  <2>2. \A i \in 1 .. Len(slots') : i \in 1 .. Len(slots) \/ i = Len(slots) + 1
    BY <1>2, <2>1
  <2>3. slots'[Len(slots) + 1].off % 2 = 0 /\ slots'[Len(slots) + 1].size % 2 = 0
    <3>1. size % 2 = 0
      OBVIOUS
    <3>2. QED
      BY <1>1, <1>2, <3>1
  <2>4. QED
    BY <1>2, <2>2, <2>3
<1>6. QED
  BY <1>2, <1>4, <1>5

\* One registration more.
LEMMA RegistrationKept ==
  ASSUME RegisteredInv, phase = "analysis", TypeOK, UNCHANGED prog,
         todo \in Nat, todo' = todo + 1,
         DOMAIN index \subseteq DOMAIN index',
         \A k \in 1 .. AllocaCount :
           todo = ParamCount + k => OfOpcode("alloca")[k].res \in DOMAIN index',
         \A k \in 1 .. PhiCount :
           todo = ParamCount + AllocaCount + SpillCount + k =>
             OfOpcode("phi")[k].res \in DOMAIN index',
         ParamCount \in Nat, AllocaCount \in Nat, SpillCount \in Nat, PhiCount \in Nat
  PROVE  phase' = "analysis" => RegisteredInv'
<1>1. /\ UNCHANGED <<ParamCount, AllocaCount, SpillCount, PhiCount>>
      /\ \A op : OfOpcode(op)' = OfOpcode(op)
  BY SameProgram
<1>2. ASSUME NEW k \in 1 .. AllocaCount, todo' > ParamCount + k
      PROVE  OfOpcode("alloca")[k].res \in DOMAIN index'
  <2>1. todo = ParamCount + k \/ todo > ParamCount + k
    BY <1>2
  <2>2. todo > ParamCount + k => HasSlot(OfOpcode("alloca")[k].res)
    BY DEF RegisteredInv
  <2>3. QED
    BY <2>1, <2>2 DEF HasSlot
<1>3. ASSUME NEW k \in 1 .. PhiCount, todo' > ParamCount + AllocaCount + SpillCount + k
      PROVE  OfOpcode("phi")[k].res \in DOMAIN index'
  <2> DEFINE before == ParamCount + AllocaCount + SpillCount
  <2>1. todo = before + k \/ todo > before + k
    BY <1>3
  <2>2. todo > before + k => HasSlot(OfOpcode("phi")[k].res)
    BY DEF RegisteredInv
  <2>3. QED
    BY <2>1, <2>2 DEF HasSlot
<1>4. QED
  BY <1>1, <1>2, <1>3 DEF RegisteredInv, HasSlot

\* How many of each the analysis registers.
LEMMA CountsTyped ==
  ASSUME ProgramsFit, prog \in Programs
  PROVE  /\ ParamCount \in Nat /\ AllocaCount \in Nat /\ SpillCount \in Nat /\ PhiCount \in Nat
         /\ \A k \in 1 .. SpillCount : Spills[k] \in Vregs
<1>1. ParamCount \in Nat
  BY ProgramFields DEF ParamCount
<1>2. AllocaCount \in Nat /\ PhiCount \in Nat
  BY OfOpcodeTyped DEF AllocaCount, PhiCount
<1>3. SpillCount \in Nat /\ \A k \in 1 .. SpillCount : Spills[k] \in Vregs
  BY SpillsTyped
<1>4. QED
  BY <1>1, <1>2, <1>3

\* FunctionAnalysis: what it registers is as wide as the vreg, or wider.
LEMMA AnalysisKeepsSlots ==
  ASSUME ProgramsFit, ProgramsTyped, CompilationInv, SlotsInv, Analyze
  PROVE  SlotsInv'
<1>1. /\ phase = "analysis" /\ prog \in Programs /\ todo \in Nat \ {0} /\ TypeOK
      /\ SizedInv /\ EvenInv /\ TempsInv /\ RegisteredInv
  BY DEF Analyze, CompilationInv, SelectorInv, IInv, SlotsInv
<1>2. /\ ParamCount \in Nat /\ AllocaCount \in Nat /\ SpillCount \in Nat /\ PhiCount \in Nat
      /\ \A k \in 1 .. SpillCount : Spills[k] \in Vregs
  BY <1>1, CountsTyped
<1>3. \A v \in Vregs : Width[v] \in {1, 2}
  BY <1>1, TypingOf
\* A slot more.
<1>4. ASSUME NEW v \in Vregs, NEW size \in {2, 4}, WideEnough(size, v),
             NEW kind \in {"Param", "Alloca", "Spill"}, NEW reg \in ParamRegs \cup {NoReg},
             AddSlot(v, size, kind, reg, 0), Registered,
             UNCHANGED <<layoutVars, tempVars>>,
             \A k \in 1 .. AllocaCount : todo = ParamCount + k => v = OfOpcode("alloca")[k].res,
             \A k \in 1 .. PhiCount :
               todo = ParamCount + AllocaCount + SpillCount + k => v = OfOpcode("phi")[k].res
      PROVE  SlotsInv'
  <2>1. /\ UNCHANGED prog /\ todo' = todo + 1 /\ kind \in Kinds /\ phase' = "analysis"
        /\ 0 \in Evens
    BY <1>1, <1>4 DEF Registered, Kinds, layoutVars, Evens
  <2> HIDE DEF Width
  <2>2. \A i \in 1 .. Len(slots) : slots[i].off % 2 = 0 /\ slots[i].size % 2 = 0
    BY <1>1 DEF EvenInv
  <2>3. /\ SizedInv' /\ DOMAIN index' = DOMAIN index \cup {v}
        /\ \A i \in 1 .. Len(slots') : slots'[i].off % 2 = 0 /\ slots'[i].size % 2 = 0
        /\ Len(slots') = Len(slots) + 1
        /\ \A i \in 1 .. Len(slots) : slots'[i] = slots[i]
        /\ slots'[Len(slots) + 1].kind = kind
    <3> DEFINE off == 0
    <3>1. /\ TypeOK /\ SizedInv /\ UNCHANGED prog /\ kind \in Kinds /\ off \in Evens
          /\ WideEnough(size, v) /\ AddSlot(v, size, kind, reg, off)
      BY <1>1, <1>4, <2>1
    <3> HIDE DEF off
    <3>2. QED
      BY <2>2, <3>1, SlotAddedFits, ZenonT(40)
  <2>4. EvenInv'
    BY <1>1, <1>4, <2>3 DEF EvenInv, layoutVars, tempVars
  <2>5. TempsInv'
    <3> SUFFICES ASSUME NEW i \in 1 .. Len(slots'), slots'[i].kind = "Temp" PROVE FALSE
      BY DEF TempsInv
    <3>1. i \in 1 .. Len(slots) \/ i = Len(slots) + 1
      BY <1>1, <2>3 DEF TypeOK
    <3>2. QED
      BY <1>1, <1>4, <2>3, <3>1 DEF TempsInv
  <2>6. RegisteredInv'
    BY <1>1, <1>2, <1>4, <2>1, <2>3, RegistrationKept
  <2>7. QED
    BY <2>3, <2>4, <2>5, <2>6 DEF SlotsInv
<1>5. CASE AnalyzeParam
  <2> DEFINE v == prog.params[todo].v
             w == prog.params[todo].w
             reg == ParamReg(todo)
  <2>1. todo \in 1 .. Len(prog.params) /\ DOMAIN prog.params = 1 .. Len(prog.params)
    BY <1>1, <1>5, ProgramFields DEF AnalyzeParam, ParamCount
  <2>2. v \in Vregs /\ w \in {1, 2}
    BY <1>1, <2>1, ProgramFields
  <2>3. Width[v] = w
    <3>1. TypedBy(prog, Width)
      BY <1>1, TypingOf
    <3> HIDE DEF Width
    <3>2. QED
      BY <2>1, <3>1 DEF TypedBy
  <2>4. reg \in ParamRegs \cup {NoReg}
    <3>1. CASE todo <= 3 /\ w = 1
      <4>1. todo = 1 \/ todo = 2 \/ todo = 3
        BY <2>1, <3>1
      <4>2. QED
        BY <3>1, <4>1 DEF ParamReg, ParamRegs
    <3>2. QED
      BY <3>1 DEF ParamReg
  <2>5. AddParam(v, 2 * w, reg) /\ Registered
    BY <1>5 DEF AnalyzeParam
  <2>6. todo <= ParamCount
    BY <1>5 DEF AnalyzeParam
  <2>7. /\ \A k \in 1 .. AllocaCount : todo # ParamCount + k
        /\ \A k \in 1 .. PhiCount : todo # ParamCount + AllocaCount + SpillCount + k
    BY <1>1, <1>2, <2>6
  <2> HIDE DEF v, w, reg, Width
  <2>8. AddSlot(v, 2 * w, "Param", reg, 0) /\ UNCHANGED <<layoutVars, tempVars>>
    BY <2>5 DEF AddParam
  <2>9. 2 * w \in {2, 4} /\ WideEnough(2 * w, v)
    BY <2>2, <2>3 DEF WideEnough
  <2>10. QED
    BY <1>4, <2>2, <2>4, <2>5, <2>7, <2>8, <2>9
\* Allocas and phis.
<1>6. ASSUME NEW op \in {"alloca", "phi"}, NEW k \in 1 .. Len(OfOpcode(op))
      PROVE  LET i == OfOpcode(op)[k] IN
             i.res \in Vregs /\ Words(i) \in {2, 4} /\ WideEnough(Words(i), i.res)
  <2> DEFINE i == OfOpcode(op)[k]
  <2>1. i \in InstrsOf(prog) /\ i.w \in {1, 2} /\ i.res \in Vregs /\ i.op = op
    BY <1>1, OfOpcodeTyped
  <2> HIDE DEF i
  <2>2. Width[i.res] = i.w
    BY <1>1, <2>1, InstructionTyped DEF HasResult
  <2> HIDE DEF Width
  <2>3. i.res \in Vregs /\ Words(i) \in {2, 4} /\ WideEnough(Words(i), i.res)
    BY <2>1, <2>2 DEF Words, WideEnough
  <2>4. QED
    BY <2>3 DEF i
<1>7. CASE AnalyzeAlloca
  <2> DEFINE k == todo - ParamCount
             i == OfOpcode("alloca")[k]
  <2>1. k \in 1 .. Len(OfOpcode("alloca")) /\ AddAllocaSlot(i.res, Words(i)) /\ Registered
    BY <1>7 DEF AnalyzeAlloca, AllocaCount
  <2>2. i.res \in Vregs /\ Words(i) \in {2, 4} /\ WideEnough(Words(i), i.res)
    BY <1>6, <2>1
  <2>3. /\ \A n \in 1 .. AllocaCount : todo = ParamCount + n => n = k
        /\ \A n \in 1 .. PhiCount : todo # ParamCount + AllocaCount + SpillCount + n
    BY <1>1, <1>2, <2>1 DEF AllocaCount
  <2>4. \A n \in 1 .. AllocaCount : todo = ParamCount + n => i.res = OfOpcode("alloca")[n].res
    BY <2>3
  <2> HIDE DEF i, k, Width
  <2>5. AddSlot(i.res, Words(i), "Alloca", NoReg, 0) /\ UNCHANGED <<layoutVars, tempVars>>
    BY <2>1 DEF AddAllocaSlot
  <2>6. QED
    BY <1>4, <2>1, <2>2, <2>3, <2>4, <2>5
<1>8. CASE SpillCrossBlock
  <2> DEFINE k == todo - ParamCount - AllocaCount
             v == Spills[k]
  <2>1. k \in 1 .. SpillCount /\ AddSpillSlot(v, 4) /\ Registered
    BY <1>8 DEF SpillCrossBlock
  <2>2. v \in Vregs
    BY <1>2, <2>1
  <2>3. /\ \A n \in 1 .. AllocaCount : todo # ParamCount + n
        /\ \A n \in 1 .. PhiCount : todo # ParamCount + AllocaCount + SpillCount + n
    BY <1>1, <1>2, <2>1
  <2> HIDE DEF v, k, Width
  <2>4. AddSlot(v, 4, "Spill", NoReg, 0) /\ UNCHANGED <<layoutVars, tempVars>>
    BY <2>1 DEF AddSpillSlot
  <2>5. WideEnough(4, v)
    BY <1>3, <2>2 DEF WideEnough
  <2>6. QED
    BY <1>4, <2>1, <2>2, <2>3, <2>4, <2>5
<1>9. CASE SpillPhi
  <2> DEFINE k == todo - ParamCount - AllocaCount - SpillCount
             i == OfOpcode("phi")[k]
  <2>1. /\ k \in 1 .. Len(OfOpcode("phi")) /\ Registered
        /\ IF HasSlot(i.res) THEN UNCHANGED vars ELSE AddSpillSlot(i.res, Words(i))
    BY <1>9 DEF SpillPhi, PhiCount
  <2>2. i.res \in Vregs /\ Words(i) \in {2, 4} /\ WideEnough(Words(i), i.res)
    BY <1>6, <2>1
  <2>3. /\ \A n \in 1 .. PhiCount : todo = ParamCount + AllocaCount + SpillCount + n => n = k
        /\ \A n \in 1 .. AllocaCount : todo # ParamCount + n
    BY <1>1, <1>2, <2>1 DEF PhiCount
  <2>4. \A n \in 1 .. PhiCount :
          todo = ParamCount + AllocaCount + SpillCount + n => i.res = OfOpcode("phi")[n].res
    BY <2>3
  <2> HIDE DEF i, k, Width
  <2>5. CASE ~HasSlot(i.res)
    <3>1. AddSlot(i.res, Words(i), "Spill", NoReg, 0) /\ UNCHANGED <<layoutVars, tempVars>>
      BY <2>1, <2>5 DEF AddSpillSlot
    <3>2. QED
      BY <1>4, <2>1, <2>2, <2>3, <2>4, <3>1
  <2>6. CASE HasSlot(i.res)
    <3>1. /\ UNCHANGED <<slots, index, phase, paramOffset, nextLocalOffset, tempSize, tempBase,
                         tempCurrent, prog>>
          /\ todo' = todo + 1
      BY <2>1, <2>6 DEF vars, layoutVars, tempVars, Registered
    <3>2. UNCHANGED Width
      BY <3>1, SameProgram
    <3>3. SizedInv' /\ EvenInv' /\ TempsInv'
      BY <1>1, <3>1, <3>2 DEF SizedInv, EvenInv, TempsInv
    <3>4. RegisteredInv'
      BY <1>1, <1>2, <2>3, <2>4, <2>6, <3>1, RegistrationKept DEF HasSlot
    <3>5. QED
      BY <3>3, <3>4 DEF SlotsInv
  <2>7. QED
    BY <2>5, <2>6
<1>10. CASE FinishAnalysis
  <2>1. /\ todo > ParamCount + AllocaCount + SpillCount + PhiCount
        /\ UNCHANGED <<slots, index, paramOffset, nextLocalOffset, tempBase, tempCurrent, prog>>
        /\ tempSize' = MaxTempSpace(prog) /\ phase' = "params"
    BY <1>10 DEF FinishAnalysis, SetMaxTempSpace, anaVars
  <2>2. /\ UNCHANGED <<Width, ParamCount, AllocaCount, SpillCount, PhiCount>>
        /\ \A op : OfOpcode(op)' = OfOpcode(op)
    BY <2>1, SameProgram
  <2>3. SizedInv'
    BY <1>1, <2>1, <2>2 DEF SizedInv
  <2>4. EvenInv' /\ TempsInv'
    BY <1>1, <2>1, MaxTempSpaceEven DEF EvenInv, TempsInv
  <2>5. RegisteredInv'
    <3>1. \A k \in 1 .. AllocaCount : HasSlot(OfOpcode("alloca")[k].res)
      <4>1. \A k \in 1 .. AllocaCount : todo > ParamCount + k
        BY <1>1, <1>2, <2>1
      <4>2. QED
        BY <1>1, <4>1 DEF RegisteredInv
    <3>2. \A k \in 1 .. PhiCount : HasSlot(OfOpcode("phi")[k].res)
      <4>1. \A k \in 1 .. PhiCount : todo > ParamCount + AllocaCount + SpillCount + k
        BY <1>1, <1>2, <2>1
      <4>2. QED
        BY <1>1, <4>1 DEF RegisteredInv
    <3>3. QED
      BY <2>1, <2>2, <3>1, <3>2 DEF RegisteredInv, HasSlot
  <2>6. QED
    BY <2>3, <2>4, <2>5 DEF SlotsInv
<1>11. QED
  BY <1>5, <1>7, <1>8, <1>9, <1>10 DEF Analyze

\* computeLayout: offsets are sums of sizes.
LEMMA LayoutKeepsSlots ==
  ASSUME CompilationInv, SlotsInv, Layout
  PROVE  SlotsInv'
<1>1. /\ TypeOK /\ slots \in Seq(Slot) /\ SizedInv /\ EvenInv /\ TempsInv /\ RegisteredInv
  BY DEF CompilationInv, IInv, SlotsInv, TypeOK
<1>2. /\ phase \in {"params", "locals"} /\ phase' # "analysis"
      /\ UNCHANGED <<index, prog, tempSize>>
  BY DEF Layout, ComputeLayout, PlaceParam, ParamsPlaced, PlaceLocal, PlaceTempArea,
     anaVars, tempVars
<1>3. \A i \in 1 .. Len(slots) : slots[i].kind # "Temp"
  BY <1>1, <1>2 DEF TempsInv
\* The slots as they were, but for an offset.
<1>4. ASSUME Len(slots') = Len(slots),
             \A i \in 1 .. Len(slots) :
               /\ slots'[i].size = slots[i].size /\ slots'[i].kind = slots[i].kind
               /\ slots'[i].off % 2 = 0,
             paramOffset' % 2 = 0, nextLocalOffset' % 2 = 0, tempBase' % 2 = 0,
             tempCurrent' % 2 = 0
      PROVE  SlotsInv'
  <2>1. EvenInv'
    BY <1>1, <1>2, <1>4 DEF EvenInv
  <2>2. TempsInv'
    BY <1>3, <1>4 DEF TempsInv
  <2>3. UNCHANGED Width
    BY <1>2, SameProgram
  <2>4. SizedInv'
    <3> HIDE DEF Width
    <3>1. \A v \in DOMAIN index : index[v] \in 1 .. Len(slots)
      BY <1>1 DEF TypeOK
    <3>2. QED
      BY <1>1, <1>2, <1>4, <2>3, <3>1 DEF SizedInv
  <2>5. RegisteredInv'
    BY <1>1, <1>2, SameProgram DEF RegisteredInv, HasSlot
  <2>6. QED
    BY <2>1, <2>2, <2>4, <2>5 DEF SlotsInv
<1>5. ASSUME NEW o \in Int, o % 2 = 0, cursor \in 1 .. Len(slots),
             slots' = [slots EXCEPT ![cursor].off = o]
      PROVE  /\ Len(slots') = Len(slots)
             /\ \A i \in 1 .. Len(slots) :
                  /\ slots'[i].size = slots[i].size /\ slots'[i].kind = slots[i].kind
                  /\ slots'[i].off % 2 = 0
  <2>1. /\ Len(slots') = Len(slots)
        /\ \A i \in 1 .. Len(slots) :
             LET t == slots'[i]
             IN t.kind = slots[i].kind /\ t.reg = slots[i].reg /\ t.size = slots[i].size
                /\ t.off = IF i = cursor THEN o ELSE slots[i].off
    BY <1>1, <1>5, SlotMoved
  <2>2. \A i \in 1 .. Len(slots) : slots[i].off % 2 = 0
    BY <1>1 DEF EvenInv
  <2>3. QED
    BY <1>5, <2>1, <2>2
<1>6. /\ paramOffset \in Int /\ nextLocalOffset \in Int /\ tempSize \in Int
      /\ paramOffset % 2 = 0 /\ nextLocalOffset % 2 = 0 /\ tempSize % 2 = 0
      /\ tempBase % 2 = 0 /\ tempCurrent % 2 = 0
      /\ \A i \in 1 .. Len(slots) : slots[i].off % 2 = 0 /\ slots[i].size % 2 = 0
  BY <1>1 DEF EvenInv, TypeOK
<1>7. ASSUME UNCHANGED slots
      PROVE  /\ Len(slots') = Len(slots)
             /\ \A i \in 1 .. Len(slots) :
                  /\ slots'[i].size = slots[i].size /\ slots'[i].kind = slots[i].kind
                  /\ slots'[i].off % 2 = 0
  BY <1>6, <1>7
<1>8. CASE PlaceParam
  <2>1. cursor \in 1 .. Len(slots) /\ UNCHANGED <<nextLocalOffset, tempBase, tempCurrent>>
    BY <1>1, <1>8 DEF PlaceParam, TypeOK, tempVars
  <2>2. CASE IsStackParam(slots[cursor])
    <3>1. /\ slots' = [slots EXCEPT ![cursor].off = paramOffset]
          /\ paramOffset' = paramOffset + slots[cursor].size
      BY <1>8, <2>2 DEF PlaceParam
    <3>2. paramOffset' % 2 = 0
      <4>1. slots[cursor].size \in Int
        BY <1>1, <2>1, SlotFields
      <4>2. QED
        BY <1>6, <2>1, <3>1, <4>1, EvenArithmetic
    <3>3. QED
      BY <1>4, <1>5, <1>6, <2>1, <3>1, <3>2
  <2>3. CASE ~IsStackParam(slots[cursor])
    <3>1. UNCHANGED <<slots, paramOffset>>
      BY <1>8, <2>3 DEF PlaceParam
    <3>2. QED
      BY <1>4, <1>6, <1>7, <2>1, <3>1
  <2>4. QED
    BY <2>2, <2>3
<1>9. CASE ParamsPlaced
  <2>1. UNCHANGED <<slots, paramOffset, tempBase, tempCurrent>> /\ nextLocalOffset' = -6
    BY <1>9 DEF ParamsPlaced, tempVars, SavedRegs
  <2>2. nextLocalOffset' % 2 = 0
    BY <2>1
  <2>3. QED
    BY <1>4, <1>6, <1>7, <2>1, <2>2
<1>10. CASE PlaceLocal
  <2>1. cursor \in 1 .. Len(slots) /\ UNCHANGED <<paramOffset, tempBase, tempCurrent>>
    BY <1>1, <1>10 DEF PlaceLocal, TypeOK, tempVars
  <2>2. CASE IsLocal(slots[cursor])
    <3>1. /\ nextLocalOffset' = nextLocalOffset - slots[cursor].size
          /\ slots' = [slots EXCEPT ![cursor].off = nextLocalOffset']
      BY <1>10, <2>2 DEF PlaceLocal
    <3>2. nextLocalOffset' % 2 = 0 /\ nextLocalOffset' \in Int
      <4>1. slots[cursor].size \in Int
        BY <1>1, <2>1, SlotFields
      <4>2. slots[cursor].size % 2 = 0
        BY <1>6, <2>1
      <4>3. (nextLocalOffset - slots[cursor].size) % 2 = 0
        BY <1>6, <4>1, <4>2, EvenArithmetic
      <4>4. QED
        BY <1>6, <3>1, <4>1, <4>3
    <3>3. QED
      BY <1>4, <1>5, <1>6, <2>1, <3>1, <3>2
  <2>3. CASE ~IsLocal(slots[cursor])
    <3>1. UNCHANGED <<slots, nextLocalOffset>>
      BY <1>10, <2>3 DEF PlaceLocal
    <3>2. QED
      BY <1>4, <1>6, <1>7, <2>1, <3>1
  <2>4. QED
    BY <2>2, <2>3
<1>11. CASE PlaceTempArea
  <2>1. /\ UNCHANGED <<slots, paramOffset, nextLocalOffset>>
        /\ tempBase' = nextLocalOffset - tempSize /\ tempCurrent' = tempBase'
    BY <1>11 DEF PlaceTempArea
  <2>2. tempBase' % 2 = 0
    BY <1>6, <2>1, EvenArithmetic
  <2>3. QED
    BY <1>4, <1>6, <1>7, <2>1, <2>2
<1>12. QED
  BY <1>8, <1>9, <1>10, <1>11 DEF Layout, ComputeLayout

\* A handler that takes a slot, takes one that is wide enough.
LEMMA KeepingKeepsSlots ==
  ASSUME ProgramsFit, ProgramsTyped, CompilationInv, SlotsInv, Keeps, UNCHANGED anaVars,
         at.part \in {"body", "widen"}, at.pos <= Len(Body), I.op # "store"
  PROVE  SlotsInv' /\ UNCHANGED <<tempBase, paramOffset, phase>>
<1> DEFINE v == I.res
<1>1. PICK size \in {2, 4} :
        size <= Estimate(I) /\ (size = 4 \/ I.op = "icmp") /\ KeepResult(v, size)
  BY DEF Keeps
<1>2. /\ I \in InstrsOf(prog) /\ v \in Vregs /\ prog \in Programs /\ prog' = prog /\ todo' = todo
      /\ I.w \in {1, 2}
  BY InstructionAt DEF CompilationInv, SelectorInv, anaVars
<1>3. WideEnough(size, v)
  <2>1. Width[v] = IF I.op = "icmp" THEN 1 ELSE I.w
    BY <1>2, InstructionTyped DEF HasResult
  <2> HIDE DEF Width, v
  <2>2. QED
    BY <1>1, <1>2, <2>1 DEF WideEnough
<1> HIDE DEF v
<1>4. phase = "lowering" /\ ResultSlot(v, size)
  BY <1>1 DEF KeepResult, MayHoldResult
<1>5. /\ TypeOK /\ IInv /\ SizedInv /\ EvenInv /\ TempsInv /\ RegisteredInv
  BY DEF CompilationInv, IInv, SlotsInv
<1>6. CASE HasSpillSlot(v)
  <2>1. UNCHANGED <<slots, index, phase, paramOffset, nextLocalOffset, tempSize, tempBase,
                    tempCurrent>>
    BY <1>4, <1>6 DEF ResultSlot, layoutVars, tempVars
  <2>2. UNCHANGED Width
    BY <1>2, SameProgram
  <2>3. SizedInv' /\ EvenInv' /\ TempsInv'
    BY <1>5, <2>1, <2>2 DEF SizedInv, EvenInv, TempsInv
  <2>4. RegisteredInv'
    BY <1>2, <1>5, <2>1, SameProgram DEF RegisteredInv, HasSlot
  <2>5. QED
    BY <2>1, <2>3, <2>4 DEF SlotsInv
<1>7. CASE ~HasSpillSlot(v)
  <2>1. NewTempSlot(v, size) /\ UNCHANGED layoutVars
    BY <1>4, <1>7 DEF ResultSlot, NewTempSlot
  <2>2. tempCurrent + size <= nextLocalOffset
    <3>1. /\ tempBase + Needed(AtBlock)[at.pos] <= nextLocalOffset
          /\ tempCurrent + Estimate(I) <= tempBase + Needed(AtBlock)[at.pos]
          /\ Estimate(I) \in Nat /\ Needed(AtBlock)[at.pos] \in Int
      BY <1>4, EstimateLeaves
    <3>2. tempCurrent \in Int /\ tempBase \in Int /\ nextLocalOffset \in Int
      BY <1>5 DEF TypeOK
    <3>3. QED
      BY <1>1, <3>1, <3>2
  <2>3. /\ UNCHANGED <<tempBase, tempSize, nextLocalOffset, phase>>
        /\ tempCurrent' = tempCurrent + size
    BY <1>4, <1>5, <2>1, <2>2, TempFits
  <2>4. UNCHANGED paramOffset
    BY <2>1 DEF layoutVars
  <2>5. /\ tempCurrent \in Int /\ tempBase \in Int /\ tempCurrent % 2 = 0
        /\ tempBase <= tempCurrent
    BY <1>4, <1>5 DEF TypeOK, EvenInv, IInv, OrderInv, TempOrder
  <2>6. /\ AddSlot(v, size, "Temp", NoReg, tempCurrent) /\ tempCurrent \in Evens
        /\ "Temp" \in Kinds /\ NoReg \in ParamRegs \cup {NoReg} /\ UNCHANGED prog
        /\ \A i \in 1 .. Len(slots) : slots[i].off % 2 = 0 /\ slots[i].size % 2 = 0
    BY <1>2, <1>5, <2>1, <2>5 DEF NewTempSlot, Kinds, EvenInv, Evens
  <2>7. /\ SizedInv' /\ DOMAIN index' = DOMAIN index \cup {v}
        /\ \A i \in 1 .. Len(slots') : slots'[i].off % 2 = 0 /\ slots'[i].size % 2 = 0
        /\ Len(slots') = Len(slots) + 1
        /\ \A i \in 1 .. Len(slots) : slots'[i] = slots[i]
        /\ LET s == slots'[Len(slots) + 1]
           IN s.size = size /\ s.off = tempCurrent /\ s.kind = "Temp"
    BY <1>2, <1>3, <1>5, <2>6, SlotAddedFits, ZenonT(40)
  <2>8. EvenInv'
    <3>1. tempCurrent' % 2 = 0
      BY <2>3, <2>5
    <3>2. QED
      BY <1>5, <2>3, <2>4, <2>7, <3>1 DEF EvenInv
  <2>9. TempsInv'
    <3> SUFFICES ASSUME NEW i \in 1 .. Len(slots'), slots'[i].kind = "Temp"
                 PROVE  tempBase <= slots'[i].off /\ End(slots'[i]) <= nextLocalOffset
      BY <1>4, <2>3 DEF TempsInv
    <3>1. CASE i \in 1 .. Len(slots)
      BY <1>5, <2>7, <3>1 DEF TempsInv
    <3>2. CASE i = Len(slots) + 1
      BY <2>2, <2>5, <2>7, <3>2 DEF End
    <3>3. QED
      BY <1>5, <2>7, <3>1, <3>2 DEF TypeOK
  <2>10. RegisteredInv'
    BY <1>2, <1>4, <1>5, <2>3, <2>7, SameProgram DEF RegisteredInv, HasSlot
  <2>11. QED
    BY <2>3, <2>4, <2>7, <2>8, <2>9, <2>10 DEF SlotsInv
<1>8. QED
  BY <1>6, <1>7

\* The selector waits for the layout.
LEMMA SelectionBegun ==
  ASSUME SelectInstructions
  PROVE  phase = "lowering"
<1>1. ASSUME NEW op, NEW w, Lowers(op, w) PROVE phase = "lowering"
  BY <1>1 DEF Lowers, Selecting
<1>2. CASE LowerInstruction
  <2>1. CASE \/ LowerAdd32 \/ LowerAdd16 \/ LowerSub32 \/ LowerSub16 \/ LowerMul32 \/ LowerMul16
             \/ LowerDivRem32 \/ LowerDivRem16 \/ LowerBinaryOp16 \/ LowerBinaryOp32 \/ LowerShift
    BY <1>1, <2>1 DEF LowerAdd32, LowerAdd16, LowerSub32, LowerSub16, LowerMul32, LowerMul16,
       LowerDivRem32, LowerDivRem16, LowerBinaryOp16, LowerBinaryOp32, LowerShift
  <2>2. CASE \/ LowerTrunc \/ LowerZExt16 \/ LowerZExt32 \/ LowerSExt \/ LowerFreeze
             \/ LowerICmp32 \/ LowerICmp16 \/ LowerAlloca \/ LowerStore32 \/ LowerStore16
             \/ LowerLoad32 \/ LowerLoad16 \/ LowerSelect \/ LowerPhi
    BY <1>1, <2>2 DEF LowerTrunc, LowerZExt16, LowerZExt32, LowerSExt, LowerFreeze, LowerICmp32,
       LowerICmp16, LowerAlloca, LowerStore32, LowerStore16, LowerLoad32, LowerLoad16,
       LowerSelect, LowerPhi
  <2>3. CASE WidenZExt
    BY <2>3 DEF WidenZExt, Selecting
  <2>4. QED
    BY <1>2, <2>1, <2>2, <2>3 DEF LowerInstruction
<1>3. CASE ~LowerInstruction
  BY <1>3 DEF SelectInstructions, Selecting, BeginBlock, LoadPhi, PhisLoaded, BodyDone, StorePhi,
     PhisStored, LowerRet, LowerBr, LowerCondBr, LowerSwitch, Ends
<1>4. QED
  BY <1>2, <1>3

\* The selector keeps what the analysis and the layout left.
LEMMA SelectionKeepsSlots ==
  ASSUME Handling, SelectInstructions
  PROVE  SlotsInv' /\ UNCHANGED <<tempBase, paramOffset, phase>>
<1>1. SlotsInv /\ CompilationInv /\ phase = "lowering"
  BY DEF Handling
<1>2. ASSUME UNCHANGED <<slots, index, layoutVars, tempSize, tempBase>>, UNCHANGED <<prog, todo>>,
             tempCurrent' \in {tempCurrent, tempBase}
      PROVE  SlotsInv' /\ UNCHANGED <<tempBase, paramOffset, phase>>
  <2>1. /\ UNCHANGED <<phase, paramOffset, nextLocalOffset, tempSize, tempBase, slots, index>>
    BY <1>2 DEF layoutVars
  <2>2. UNCHANGED <<Width, ParamCount, AllocaCount, SpillCount, PhiCount>>
        /\ \A op : OfOpcode(op)' = OfOpcode(op)
    BY <1>2, SameProgram
  <2>3. SizedInv' /\ EvenInv' /\ TempsInv'
    BY <1>1, <1>2, <2>1, <2>2 DEF SlotsInv, SizedInv, EvenInv, TempsInv, End
  <2>4. RegisteredInv'
    BY <1>1, <1>2, <2>1, <2>2 DEF SlotsInv, RegisteredInv, HasSlot
  <2>5. QED
    BY <2>1, <2>3, <2>4 DEF SlotsInv
<1>3. ASSUME Keeps, UNCHANGED anaVars, at.part \in {"body", "widen"}, at.pos <= Len(Body),
             I.op # "store"
      PROVE  SlotsInv' /\ UNCHANGED <<tempBase, paramOffset, phase>>
  BY <1>1, <1>3, KeepingKeepsSlots DEF Handling
<1>4. ASSUME Registers \/ Rests, UNCHANGED anaVars
      PROVE  SlotsInv' /\ UNCHANGED <<tempBase, paramOffset, phase>>
  <2>1. UNCHANGED <<slots, index, layoutVars, tempSize, tempBase, tempCurrent, prog, todo>>
    BY <1>4 DEF Registers, Rests, SetPhysReg, vars, tempVars, anaVars
  <2>2. QED
    BY <1>2, <2>1
<1>5. CASE BeginBlock
  <2>1. UNCHANGED <<slots, index, layoutVars, tempSize, tempBase, prog, todo>> /\ tempCurrent' = tempBase
    BY <1>5 DEF BeginBlock, ResetTemp, anaVars
  <2>2. QED
    BY <1>2, <2>1
<1>6. CASE LoadPhi
  <2>1. UNCHANGED <<slots, index, layoutVars, tempSize, tempBase, tempCurrent, prog, todo>>
    BY <1>6 DEF LoadPhi, SetPhysReg, tempVars, anaVars
  <2>2. QED
    BY <1>2, <2>1
<1>7. CASE \/ PhisLoaded \/ BodyDone \/ StorePhi \/ PhisStored
           \/ LowerRet \/ LowerBr \/ LowerCondBr \/ LowerSwitch
  <2>1. UNCHANGED <<vars, anaVars>>
    BY <1>7 DEF PhisLoaded, BodyDone, StorePhi, PhisStored, LowerRet, LowerBr, LowerCondBr,
                LowerSwitch, Terminate
  <2>2. QED
    BY <1>4, <2>1 DEF Rests
<1>8. CASE LowerInstruction
  <2>1. CASE \/ LowerAdd32 \/ LowerSub32 \/ LowerMul32 \/ LowerDivRem32 \/ LowerBinaryOp32
             \/ LowerSExt \/ LowerICmp32 \/ LowerICmp16 \/ LowerLoad32
    <3>1. Keeps /\ I.op # "store" /\ Advances /\ UNCHANGED anaVars
      BY <2>1, HandlerKeeps
    <3>2. at.part = "body" /\ at.pos <= Len(Body)
      BY <3>1 DEF Advances, Selecting
    <3>3. QED
      BY <1>3, <3>1, <3>2
  <2>2. CASE \/ LowerAdd16 \/ LowerSub16 \/ LowerMul16 \/ LowerDivRem16 \/ LowerBinaryOp16
             \/ LowerShift \/ LowerTrunc \/ LowerZExt16 \/ LowerFreeze \/ LowerAlloca
             \/ LowerLoad16 \/ LowerSelect
    <3>1. Registers /\ UNCHANGED anaVars
      BY <2>2, HandlerRegisters DEF Handling
    <3>2. QED
      BY <1>4, <3>1
  <2>3. CASE LowerStore32 \/ LowerStore16 \/ LowerPhi
    <3>1. Rests /\ UNCHANGED anaVars
      BY <2>3, HandlerRests
    <3>2. QED
      BY <1>4, <3>1
  <2>4. CASE LowerZExt32
    <3>1. Registers /\ UNCHANGED anaVars
      BY <2>4, ZExtRegisters DEF Handling
    <3>2. QED
      BY <1>4, <3>1
  <2>5. CASE WidenZExt
    <3>1. /\ Keeps /\ UNCHANGED anaVars /\ at.part = "widen" /\ at.pos <= Len(Body)
          /\ I.op # "store"
      BY <2>5, ZExtKeeps DEF Handling
    <3>2. QED
      BY <1>3, <3>1
  <2>6. QED
    BY <1>8, <2>1, <2>2, <2>3, <2>4, <2>5 DEF LowerInstruction
<1>9. QED
  BY <1>5, <1>6, <1>7, <1>8 DEF SelectInstructions

-----------------------------------------------------------------------------
(* The invariant of the emitted code *)

\* Nothing is emitted before the layout is known, and then only what keeps to
\* the function's own cells.
CodeInv == IF phase = "lowering" THEN SafeCode(code) ELSE code = <<>>

OwnInv == CompilationInv /\ SlotsInv /\ CodeInv

\* It holds when the analysis begins.
LEMMA OwnInit ==
  ASSUME ProgramsFit, CInit
  PROVE  OwnInv
<1>1. CompilationInv /\ Init /\ todo = 1 /\ code = <<>> /\ prog \in Programs
  BY CompilationInit DEF CInit, SelectionInit, AnalysisInit
<1>2. /\ slots = <<>> /\ index = EmptyMap /\ phase = "analysis"
      /\ paramOffset = 6 /\ nextLocalOffset = -6
      /\ tempSize = 0 /\ tempBase = 0 /\ tempCurrent = 0
  BY <1>1 DEF Init, FirstParam, SavedRegs
<1>3. /\ ParamCount \in Nat /\ AllocaCount \in Nat /\ SpillCount \in Nat /\ PhiCount \in Nat
  BY <1>1, CountsTyped
<1>4. SizedInv /\ EvenInv /\ TempsInv
  BY <1>2 DEF SizedInv, EvenInv, TempsInv, EmptyMap
<1>5. RegisteredInv
  BY <1>1, <1>2, <1>3 DEF RegisteredInv
<1>6. CodeInv
  BY <1>1, <1>2 DEF CodeInv
<1>7. QED
  BY <1>1, <1>4, <1>5, <1>6 DEF OwnInv, SlotsInv

\* Whatever leaves the compiler's variables alone, leaves the invariant alone.
LEMMA OwnKept ==
  ASSUME OwnInv, UNCHANGED compileVars
  PROVE  (SlotsInv /\ CodeInv)'
<1>1. /\ UNCHANGED <<slots, index, phase, paramOffset, nextLocalOffset, tempSize, tempBase,
                     tempCurrent>>
      /\ UNCHANGED <<prog, todo, at, code>>
  BY DEF compileVars, vars, anaVars, lowVars, layoutVars, tempVars
<1>2. UNCHANGED <<Width, ParamCount, AllocaCount, SpillCount, PhiCount>>
      /\ \A op : OfOpcode(op)' = OfOpcode(op)
  BY <1>1, SameProgram
<1>3. SizedInv' /\ EvenInv' /\ TempsInv'
  BY <1>1, <1>2 DEF OwnInv, SlotsInv, SizedInv, EvenInv, TempsInv
<1>4. RegisteredInv'
  BY <1>1, <1>2 DEF OwnInv, SlotsInv, RegisteredInv, HasSlot
<1>5. SafeCode(code)' = SafeCode(code)
  BY <1>1 DEF SafeCode, Safe, SafeOperand, OwnCells, FrameCells
<1>6. CodeInv'
  BY <1>1, <1>5 DEF OwnInv, CodeInv
<1>7. QED
  BY <1>3, <1>4, <1>6 DEF SlotsInv

\* Every step keeps it.
LEMMA OwnStep ==
  ASSUME ProgramsFit, ProgramsTyped, OwnInv, [CNext]_allVars
  PROVE  OwnInv'
<1>1. CompilationInv /\ SlotsInv /\ CodeInv
  BY DEF OwnInv
<1>2. CompilationInv'
  BY <1>1, CompilationStep
<1>3. CASE Prepare
  <2>1. UNCHANGED code /\ phase # "lowering"
    BY <1>3 DEF Prepare, lowVars, Analyze, Layout, ComputeLayout, PlaceParam, ParamsPlaced,
                PlaceLocal, PlaceTempArea
  <2>2. SlotsInv'
    BY <1>1, <1>3, AnalysisKeepsSlots, LayoutKeepsSlots DEF Prepare
  <2>3. code' = <<>>
    BY <1>1, <2>1 DEF CodeInv
  <2>4. SafeCode(<<>>)'
    BY TuplesSafe DEF SafeCode
  <2>5. CodeInv'
    BY <2>3, <2>4 DEF CodeInv
  <2>6. QED
    BY <1>2, <2>2, <2>5 DEF OwnInv
<1>4. CASE SelectInstructions
  <2>1. phase = "lowering"
    BY <1>4, SelectionBegun
  <2>2. Handling /\ SafeCode(code)
    BY <1>1, <2>1 DEF Handling, CodeInv
  <2>3. SafeCode(code')
    BY <1>4, <2>2, SelectionSafe
  <2>4. SlotsInv' /\ UNCHANGED <<tempBase, paramOffset, phase>>
    BY <1>4, <2>2, SelectionKeepsSlots
  <2>5. SafeCode(code)'
    BY <2>3, <2>4 DEF SafeCode, Safe, SafeOperand, OwnCells, FrameCells
  <2>6. QED
    BY <1>2, <2>1, <2>4, <2>5 DEF OwnInv, CodeInv
<1>5. CASE UNCHANGED compileVars
  BY <1>2, <1>5, OwnKept DEF OwnInv
<1>6. Compile \/ UNCHANGED compileVars
  BY DEF CNext, BeginCall, PassArgument, Enter, Executes, Compute1, ComputeFixed, Jump1,
     PassLabel, PassMarker, CallRuntime, RunRuntime, ReturnFromRuntime, Return, Halted, allVars
<1>7. QED
  BY <1>3, <1>4, <1>5, <1>6 DEF Compile

\* Instruction selection: whatever well-typed function is compiled, its code
\* reads and writes its own cells alone, never the saved registers, the caller's
\* bp or the return address.
THEOREM CodeAlwaysStaysInFrame ==
  ASSUME ProgramsFit, ProgramsTyped
  PROVE  CSpec => []CodeStaysInFrame
<1>1. CInit => OwnInv
  BY OwnInit
<1>2. OwnInv /\ [CNext]_allVars => OwnInv'
  BY OwnStep
<1>3. OwnInv => CodeStaysInFrame
  BY DEF OwnInv, CodeInv, CodeStaysInFrame, Compiled, SafeCode, Safe, SafeOperand, OwnCells
<1>4. QED
  BY <1>1, <1>2, <1>3, PTL DEF CSpec
=============================================================================
