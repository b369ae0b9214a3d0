-------------------------- MODULE FunctionAnalysis --------------------------
(***************************************************************************)
(* The pre-pass over an IR function (class FunctionAnalysis): which vregs  *)
(* get a slot before any code is generated, and how much temp space the    *)
(* blocks are estimated to need.  It drives the frame of StackFrame, one   *)
(* registration per step, in the order of the code.                        *)
(*                                                                         *)
(* A program is a record                                                   *)
(*   [params |-> <<[v, w], ...>>, blocks |-> <<block, ...>>]               *)
(* with blocks [label, instrs, term]; w counts words, 1 for i16 (and i1),  *)
(* 2 for i32.  An operand is [v |-> vreg] or [c |-> constant].             *)
(***************************************************************************)
EXTENDS StackFrame, SequencesExt


CONSTANTS Programs      \* the functions that may be compiled

VARIABLES prog, todo    \* the function; the next registration

anaVars == <<prog, todo>>

IsConst(o) == "c" \in DOMAIN o
VregsOf(args) == {args[i].v : i \in {j \in DOMAIN args : ~IsConst(args[j])}}

HasResult(i) == i.op \notin {"store"}
Words(i) == 2 * i.w          \* bytes of the instruction's resultType

\* analyzeBlocks: what a block defines and uses.  The incoming values of a phi
\* are not operands of the instruction and are not counted as used.
Defined(b) == {b.instrs[i].res : i \in {j \in DOMAIN b.instrs : HasResult(b.instrs[j])}}
Used(b) ==
  UNION {VregsOf(b.instrs[i].args) : i \in {j \in DOMAIN b.instrs : b.instrs[j].op # "phi"}}
    \cup VregsOf(b.term.args)

Estimate(i) ==
  IF i.op = "alloca" \/ ~HasResult(i) THEN 0
  ELSE Words(i) + (IF i.op = "load" THEN 4 ELSE 0)

\* What the first n instructions of a block need.
Needed(b) ==
  LET need[n \in 0 .. Len(b.instrs)] ==
        IF n = 0 THEN 0 ELSE need[n - 1] + Estimate(b.instrs[n])
  IN need

TempSpace(b) == Needed(b)[Len(b.instrs)]

\* Seeded fault: only the margin is reserved.
MarginOnly(p) == 16

\* computeMaxTempSpace: the neediest block, and a margin.
MaxTempSpace(p) == 16 + Max({0} \cup {TempSpace(p.blocks[k]) : k \in DOMAIN p.blocks})

\* computeLiveness: used in a block other than the one that defines it.
CrossBlock ==
  {v \in Vregs : \E i, j \in DOMAIN prog.blocks :
      i # j /\ v \in Defined(prog.blocks[i]) /\ v \in Used(prog.blocks[j])}

Instructions == FlattenSeq([k \in DOMAIN prog.blocks |-> prog.blocks[k].instrs])
\* Those with an opcode, in their order.
WithOpcode(seq, op) ==
  LET kept[n \in 0 .. Len(seq)] ==
        IF n = 0 THEN <<>>
        ELSE IF seq[n].op = op THEN Append(kept[n - 1], seq[n]) ELSE kept[n - 1]
  IN kept[Len(seq)]
OfOpcode(op) == WithOpcode(Instructions, op)
Allocas == {OfOpcode("alloca")[k].res : k \in DOMAIN OfOpcode("alloca")}

ParamReg(k) == IF k <= 3 /\ prog.params[k].w = 1 THEN <<bx, si, di>>[k] ELSE NoReg

Spills == SetToSeq(CrossBlock \ Allocas)

ParamCount == Len(prog.params)
AllocaCount == Len(OfOpcode("alloca"))
SpillCount == Len(Spills)
PhiCount == Len(OfOpcode("phi"))

-----------------------------------------------------------------------------
AnalysisInit ==
  /\ Init
  /\ prog \in Programs
  /\ todo = 1

Registered == todo' = todo + 1 /\ UNCHANGED prog

AnalyzeParam ==
  /\ todo <= ParamCount
  /\ AddParam(prog.params[todo].v, 2 * prog.params[todo].w, ParamReg(todo))
  /\ Registered

AnalyzeAlloca ==
  LET k == todo - ParamCount IN
  /\ k \in 1 .. AllocaCount
  /\ AddAllocaSlot(OfOpcode("alloca")[k].res, Words(OfOpcode("alloca")[k]))
  /\ Registered

\* Seeded fault: a spilled vreg is taken to be one word.
SpillAsWord ==
  LET k == todo - ParamCount - AllocaCount IN
  /\ k \in 1 .. SpillCount
  /\ AddSpillSlot(Spills[k], 2)
  /\ Registered

\* A spilled vreg is taken to be 32 bits wide whatever its type.
SpillCrossBlock ==
  LET k == todo - ParamCount - AllocaCount IN
  /\ k \in 1 .. SpillCount
  /\ AddSpillSlot(Spills[k], 4)
  /\ Registered

\* Every phi gets a slot that is not spilled already.
SpillPhi ==
  LET k == todo - ParamCount - AllocaCount - SpillCount
      phi == OfOpcode("phi")[k]
  IN /\ k \in 1 .. PhiCount
     /\ IF HasSlot(phi.res) THEN UNCHANGED vars ELSE AddSpillSlot(phi.res, Words(phi))
     /\ Registered

FinishAnalysis ==
  /\ todo > ParamCount + AllocaCount + SpillCount + PhiCount
  /\ SetMaxTempSpace(MaxTempSpace(prog))
  /\ UNCHANGED anaVars

Analyze ==
  phase = "analysis" /\
    (AnalyzeParam \/ AnalyzeAlloca \/ SpillCrossBlock \/ SpillPhi \/ FinishAnalysis)

Layout == ComputeLayout /\ UNCHANGED anaVars
-----------------------------------------------------------------------------
(* The functions that may be compiled, and what the frame must allow for them *)

IsSequence(seq) == seq \in Seq({seq[k] : k \in DOMAIN seq})
ParamNames(p) == {p.params[k].v : k \in DOMAIN p.params}

InstrsOf(p) ==
  UNION {{p.blocks[k].instrs[j] : j \in DOMAIN p.blocks[k].instrs} : k \in DOMAIN p.blocks}

\* What LLVM's verifier guarantees: operands and results have a width, and no
\* instruction assigns to a parameter.
WellFormed(p) ==
  /\ IsSequence(p.params) /\ IsSequence(p.blocks)
  /\ \A k \in DOMAIN p.params : p.params[k].v \in Vregs /\ p.params[k].w \in {1, 2}
  /\ \A k \in DOMAIN p.blocks :
       /\ IsSequence(p.blocks[k].instrs)
       /\ \A j \in DOMAIN p.blocks[k].instrs :
            LET i == p.blocks[k].instrs[j] IN
            i.w \in {1, 2} /\ (HasResult(i) => i.res \in Vregs \ ParamNames(p))

\* StackFrame allows for slots of one and two words, for the estimate of every
\* function, and for results in the registers that handlers leave them in.
ProgramsFit ==
  /\ {2, 4} \subseteq Sizes /\ TempRegs \subseteq ResultRegs
  /\ IsFiniteSet(Vregs)
  /\ \A p \in Programs : WellFormed(p) /\ MaxTempSpace(p) \in TempSpaces

\* The first operands, by their opcode, that the handlers always look at.
OperandsOf(op) ==
  CASE op \in {"alloca", "phi"} -> {}
    [] op \in {"trunc", "zext", "sext", "freeze", "load"} -> {1}
    [] op = "select" -> {1, 2, 3}
    [] OTHER -> {1, 2}

OfOneWidth == {"add", "sub", "mul", "sdiv", "udiv", "srem", "urem", "icmp"}

\* What LLVM's verifier guarantees of types, given how many words every vreg has:
\* operands are of the width their instruction takes.  A pointer is an alloca, and
\* counted with the words it points to.
TypedBy(p, width) ==
  LET Is(o, w) == IsConst(o) \/ (o.v \in Vregs /\ width[o.v] = w)
      Known(o) == IsConst(o) \/ o.v \in Vregs
      PointsTo(o, w) ==
        /\ ~IsConst(o) /\ Is(o, w)
        /\ \E i \in InstrsOf(p) : i.op = "alloca" /\ i.res = o.v
  IN /\ \A k \in DOMAIN p.params : width[p.params[k].v] = p.params[k].w
     /\ \A i \in InstrsOf(p) :
          /\ HasResult(i) => width[i.res] = IF i.op = "icmp" THEN 1 ELSE i.w
          /\ \A k \in OperandsOf(i.op) : Known(i.args[k])
          /\ i.op \in OfOneWidth => Is(i.args[1], i.w) /\ Is(i.args[2], i.w)
          /\ i.op = "store" => Is(i.args[1], i.w) /\ PointsTo(i.args[2], i.w)
          /\ i.op = "load" => PointsTo(i.args[1], i.w)
          /\ i.op = "phi" => IsSequence(i.args) /\ \A k \in DOMAIN i.args : Is(i.args[k], i.w)
     /\ \A k \in DOMAIN p.blocks :
          LET t == p.blocks[k].term IN
          /\ t.op \in {"ret", "condbr", "switch"} => Known(t.args[1])
          /\ t.op = "switch" => IsSequence(t.cases)

ProgramsTyped == \A p \in Programs : \E width \in [Vregs -> {1, 2}] : TypedBy(p, width)
=============================================================================
