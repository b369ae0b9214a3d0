------------------------------ MODULE Lowering ------------------------------
(***************************************************************************)
(* Instruction selection (class InstructionSelector and the handlers):     *)
(* after the analysis and the layout, a function of Programs is compiled   *)
(* block by block, one handler per step.                                   *)
(*                                                                         *)
(* The code carries markers, [op |-> "ir", ...], at the end of what each   *)
(* IR instruction was lowered to.  A marker is no machine instruction: it  *)
(* says where the module Execution compares machine and IR.                *)
(***************************************************************************)
EXTENDS FunctionAnalysis, Machine


VARIABLES
  at,       \* where the selector is: block, part of it, position in the part
  code      \* the instructions emitted so far

lowVars == <<at, code>>

NoBlock == ""
AtBlock == prog.blocks[at.block]
Body == AtBlock.instrs
PhisOf(b) == WithOpcode(b.instrs, "phi")
BlockLabel(l) == <<"bb", l>>
LocalLabel(kind, v) == <<kind, v>>

-----------------------------------------------------------------------------
(* Where operands are, and how they are loaded *)

Is32(o) == ~IsConst(o) /\ HasSlot(o.v) /\ slots[index[o.v]].size = 4

IsMem(p) == p \in Int
Loc(p) == IF IsMem(p) THEN Mem(p) ELSE Reg(p)

\* getPhysReg of a name that is no vreg falls back to ax.
PlaceOf(o) == IF IsConst(o) THEN ax ELSE GetPhysReg(o.v)

\* In 16-bit mode a register that holds an "address" must be bx, si or di.
SafeMemAddr(p) ==
  IF p \in TempRegs THEN <<Mov(Reg(bx), Reg(p))>> ELSE <<>>

\* The two words at a place.  A place that is a register is taken for the
\* address of the value: what is loaded is then whatever memory holds there.
LoadWords(p, lo, hi) ==
  IF IsMem(p) THEN <<Mov(Reg(lo), Mem(p)), Mov(Reg(hi), Mem(p + 2))>>
              ELSE <<Mov(Reg(lo), Unknown), Mov(Reg(hi), Unknown)>>
LoadPlace(p, lo, hi) == SafeMemAddr(p) \o LoadWords(p, lo, hi)

LoadConst(n, lo, hi) == <<Mov(Reg(lo), Imm(LowWord(n))), Mov(Reg(hi), Imm(HighWord(n)))>>

LoadWide(o, lo, hi) ==
  IF IsConst(o) THEN LoadConst(o.c, lo, hi) ELSE LoadPlace(PlaceOf(o), lo, hi)

\* Seeded fault: the second move has its operands swapped.
StoreWideHalf(off, lo, hi) == <<Mov(Mem(off), Reg(lo)), Mov(Reg(hi), Mem(off + 2))>>

StoreWide(off, lo, hi) == <<Mov(Mem(off), Reg(lo)), Mov(Mem(off + 2), Reg(hi))>>

\* The operands of the 16-bit handlers: op1 in ax, or left in its register, and
\* op2 in a register that is not op1's, or left as a constant.
Op1Reg(o) == IF IsMem(PlaceOf(o)) THEN ax ELSE PlaceOf(o)
Op2Temp(o) == IF Op1Reg(o) = cx THEN dx ELSE cx
LoadOp1(o) ==
  IF ~IsConst(o) /\ IsMem(PlaceOf(o)) THEN <<Mov(Reg(ax), Mem(PlaceOf(o)))>> ELSE <<>>
LoadOp2(o, temp) ==
  IF ~IsConst(o) /\ IsMem(PlaceOf(o)) THEN <<Mov(Reg(temp), Mem(PlaceOf(o)))>> ELSE <<>>
Op2Loc(o, temp) ==
  CASE IsConst(o) -> Imm(o.c)
    [] ~IsConst(o) /\ IsMem(PlaceOf(o)) -> Reg(temp)
    [] OTHER -> Reg(PlaceOf(o))

\* op1 ends up in dest: a constant always, a register when it is another one.
MoveOp1(o, dest) ==
  IF IsConst(o) THEN <<Mov(Reg(dest), Imm(o.c))>>
  ELSE IF Op1Reg(o) # dest THEN <<Mov(Reg(dest), Reg(Op1Reg(o)))>>
  ELSE <<>>

-----------------------------------------------------------------------------
(* Compilation: the analysis and the layout, then one block after another *)

Start == [block |-> 1, part |-> "label", pos |-> 1]

SelectionInit ==
  /\ AnalysisInit
  /\ at = Start
  /\ code = <<>>

Prepare == (Analyze \/ Layout) /\ UNCHANGED lowVars

Selecting(part) ==
  /\ phase = "lowering"
  /\ at.block <= Len(prog.blocks) /\ at.part = part

\* lowerFunction's loop: the temp area is reused by every block.
BeginBlock ==
  /\ Selecting("label")
  /\ ResetTemp
  /\ code' = IF AtBlock.label = NoBlock THEN code
             ELSE Append(code, Label(BlockLabel(AtBlock.label)))
  /\ at' = [at EXCEPT !.part = "phis"]
  /\ UNCHANGED anaVars

\* A phi's result is loaded from its slot at the start of its block.
LoadPhi ==
  LET phi == PhisOf(AtBlock)[at.pos]
      off == GetPhysReg(phi.res)
  IN /\ Selecting("phis")
     /\ at.pos <= Len(PhisOf(AtBlock))
     /\ code' = code \o (IF Is32([v |-> phi.res]) THEN LoadPlace(off, ax, dx)
                         ELSE <<Mov(Reg(ax), Mem(off))>>)
     /\ SetPhysReg(phi.res, ax)
     /\ at' = [at EXCEPT !.pos = @ + 1]
     /\ UNCHANGED anaVars

PhisLoaded ==
  /\ Selecting("phis")
  /\ at.pos > Len(PhisOf(AtBlock))
  /\ at' = [at EXCEPT !.part = "body", !.pos = 1]
  /\ UNCHANGED <<vars, anaVars, code>>

-----------------------------------------------------------------------------
(* The instruction handlers *)

\* The instruction to lower, if it has this opcode and width.
Lowers(op, w) ==
  /\ Selecting("body")
  /\ at.pos <= Len(Body)
  /\ Body[at.pos].op = op /\ Body[at.pos].w = w

I == Body[at.pos]
Arg(k) == I.args[k]

\* A marker: the IR instruction is done, its result is found at this place.
Effect(i, place) == [op |-> "ir", instr |-> i, place |-> place]

Emit(seq, place) ==
  /\ code' = code \o seq \o <<Effect(I, place)>>
  /\ at' = [at EXCEPT !.pos = @ + 1]
  /\ UNCHANGED anaVars

ResultPlace == GetPhysReg(I.res)

\* Seeded fault: the high words are added without the carry.
LowerAdd32NoCarry ==
  /\ Lowers("add", 2)
  /\ KeepResult(I.res, 4)
  /\ Emit(LoadWide(Arg(1), ax, bx) \o LoadWide(Arg(2), cx, dx)
            \o <<Alu("add", Reg(ax), Reg(cx)), Alu("add", Reg(bx), Reg(dx))>>
            \o StoreWide(ResultOffset(I.res), ax, bx), ResultOffset(I.res))

LowerAdd32 ==
  /\ Lowers("add", 2)
  /\ KeepResult(I.res, 4)
  /\ Emit(LoadWide(Arg(1), ax, bx) \o LoadWide(Arg(2), cx, dx)
            \o <<Alu("add", Reg(ax), Reg(cx)), Alu("adc", Reg(bx), Reg(dx))>>
            \o StoreWide(ResultOffset(I.res), ax, bx), ResultOffset(I.res))

\* The result stays in ax, even if the analysis gave it a slot.
LowerAdd16 ==
  LET temp == Op2Temp(Arg(1)) IN
  /\ Lowers("add", 1)
  /\ SetPhysReg(I.res, ax)
  /\ Emit(LoadOp1(Arg(1)) \o LoadOp2(Arg(2), temp) \o MoveOp1(Arg(1), ax)
            \o <<Alu("add", Reg(ax), Op2Loc(Arg(2), temp))>>, ResultPlace)

\* A constant first operand is not recognised: its place is the fallback, ax.
LowerSub32 ==
  /\ Lowers("sub", 2)
  /\ KeepResult(I.res, 4)
  /\ Emit(LoadPlace(PlaceOf(Arg(1)), ax, bx) \o LoadWide(Arg(2), cx, dx)
            \o <<Alu("sub", Reg(ax), Reg(cx)), Alu("sbb", Reg(bx), Reg(dx))>>
            \o StoreWide(ResultOffset(I.res), ax, bx), ResultOffset(I.res))

\* Seeded fault: the first operand's register becomes the result's.
LowerSub16InPlace ==
  LET temp == Op2Temp(Arg(1)) IN
  /\ Lowers("sub", 1)
  /\ SetPhysReg(I.res, Op1Reg(Arg(1)))
  /\ Emit(LoadOp1(Arg(1)) \o LoadOp2(Arg(2), temp)
            \o <<Alu("sub", Reg(Op1Reg(Arg(1))), Op2Loc(Arg(2), temp))>>, ResultPlace)

\* The subtraction is emitted twice: before and after the result is stored.
LowerSub16 ==
  LET temp == Op2Temp(Arg(1))
      dest == IF IsMem(ResultPlace) THEN ax ELSE ResultPlace
      sub == Alu("sub", Reg(dest), Op2Loc(Arg(2), temp))
  IN /\ Lowers("sub", 1)
     /\ SetPhysReg(I.res, ResultPlace)
     /\ Emit(LoadOp1(Arg(1)) \o LoadOp2(Arg(2), temp) \o MoveOp1(Arg(1), dest) \o <<sub>>
               \o (IF IsMem(ResultPlace) THEN <<Mov(Mem(ResultPlace), Reg(ax))>> ELSE <<>>)
               \o <<sub>>, ResultPlace)

-----------------------------------------------------------------------------
(* lowerMul and lowerDivRem *)

ToAx(p) == IF p = ax THEN <<>> ELSE <<Mov(Reg(ax), Loc(p))>>
ToMemory(p) == IF IsMem(p) THEN <<Mov(Mem(p), Reg(ax))>> ELSE <<>>
OnAxDx(op, src) == Fixed(op, src, Reg(ax), Reg(dx))

\* Constants are not recognised: their place is the fallback, ax.
LowerMul32 ==
  LET p == PlaceOf(Arg(1))
      q == PlaceOf(Arg(2))
      to == ResultOffset(I.res)
  IN /\ Lowers("mul", 2)
     /\ KeepResult(I.res, 4)
     /\ Emit(SafeMemAddr(p) \o SafeMemAddr(q) \o LoadWords(p, ax, bx) \o LoadWords(q, cx, dx)
               \o <<Call("MultiplyI32")>> \o StoreWide(to, di, si), to)

LowerMul16 ==
  LET Times(o, c) ==
        ToAx(PlaceOf(o)) \o <<Mov(Reg(cx), Imm(c)), OnAxDx("imul", Reg(cx))>>
      product ==
        CASE IsConst(Arg(1)) /\ IsConst(Arg(2)) -> <<Mov(Reg(ax), Imm(Arg(1).c * Arg(2).c))>>
          [] ~IsConst(Arg(1)) /\ IsConst(Arg(2)) -> Times(Arg(1), Arg(2).c)
          [] IsConst(Arg(1)) /\ ~IsConst(Arg(2)) -> Times(Arg(2), Arg(1).c)
          [] OTHER -> ToAx(PlaceOf(Arg(1))) \o <<OnAxDx("imul", Loc(PlaceOf(Arg(2))))>>
  IN /\ Lowers("mul", 1)
     /\ SetPhysReg(I.res, IF IsMem(ResultPlace) THEN ResultPlace ELSE ax)
     /\ Emit(product \o ToMemory(ResultPlace), ResultPlace)

Divisions == {"sdiv", "udiv", "srem", "urem"}
IsSigned(op) == op \in {"sdiv", "srem"}
IsRemainder(op) == op \in {"srem", "urem"}

\* A divisor in memory: its high word is not loaded into dx, but overwritten by
\* what dx holds, the high word of the dividend.
LowerDivRem32 ==
  LET q == PlaceOf(Arg(2))
      to == ResultOffset(I.res)
      divisor ==
        CASE IsConst(Arg(2)) -> LoadConst(Arg(2).c, cx, dx)
          [] ~IsConst(Arg(2)) /\ IsMem(q) -> <<Mov(Reg(cx), Mem(q)), Mov(Mem(q + 2), Reg(dx))>>
          [] OTHER -> IF q = cx THEN <<>> ELSE <<Mov(Reg(cx), Reg(q)), Mov(Reg(dx), Unknown)>>
  IN /\ \E op \in Divisions : Lowers(op, 2)
     /\ KeepResult(I.res, 4)
     /\ Emit(LoadPlace(PlaceOf(Arg(1)), ax, dx) \o <<Mov(Reg(bx), Reg(dx))>> \o divisor
               \o <<Call(IF IsSigned(I.op) THEN "DivideI32" ELSE "DivideU32")>>
               \o (IF IsRemainder(I.op) THEN StoreWide(to, ax, bx) ELSE StoreWide(to, di, si)),
             to)

\* The result stays in ax or dx, even if the analysis gave it a slot.
LowerDivRem16 ==
  LET q == PlaceOf(Arg(2))
      reg == IF IsRemainder(I.op) THEN dx ELSE ax
      divide == IF IsSigned(I.op)
                  THEN <<OnAxDx("cwd", Reg(ax)), OnAxDx("idiv", Reg(cx))>>
                  ELSE <<Alu("xor", Reg(dx), Reg(dx)), OnAxDx("div", Reg(cx))>>
  IN /\ \E op \in Divisions : Lowers(op, 1)
     /\ SetPhysReg(I.res, reg)
     /\ Emit(ToAx(PlaceOf(Arg(1))) \o (IF q = cx THEN <<>> ELSE <<Mov(Reg(cx), Loc(q))>>)
               \o divide, IF IsMem(ResultPlace) THEN ResultPlace ELSE reg)

-----------------------------------------------------------------------------
(* Bitwise operations and shifts.  The first operand is only brought to ax *)
(* if it or the result is in memory; else the result's register is taken   *)
(* to hold it already.                                                     *)

Simple(o) == IF IsConst(o) THEN Imm(o.c) ELSE Loc(PlaceOf(o))
InMemory(o) == ~IsConst(o) /\ IsMem(PlaceOf(o))
WorkReg == IF InMemory(Arg(1)) \/ IsMem(ResultPlace) THEN ax ELSE ResultPlace
LoadWork ==
  IF InMemory(Arg(1)) \/ (IsMem(ResultPlace) /\ Simple(Arg(1)) # Reg(ax))
    THEN <<Mov(Reg(ax), Simple(Arg(1)))>> ELSE <<>>

Logical == {"and", "or", "xor"}

LowerBinaryOp16 ==
  /\ \E op \in Logical : Lowers(op, 1)
  /\ SetPhysReg(I.res, IF IsMem(ResultPlace) THEN ResultPlace ELSE WorkReg)
  /\ Emit(LoadWork \o <<Alu(I.op, Reg(WorkReg), Simple(Arg(2)))>> \o ToMemory(ResultPlace),
          ResultPlace)

\* Only the low word is computed; the high word of the result is cleared.
LowerBinaryOp32 ==
  LET low == <<Alu(I.op, Reg(WorkReg), Simple(Arg(2)))>>
      high == IF IsConst(Arg(2)) THEN <<Alu(I.op, Reg(dx), Imm(HighWord(Arg(2).c)))>> ELSE <<>>
      to == ResultOffset(I.res)
  IN /\ \E op \in Logical : Lowers(op, 2)
     /\ KeepResult(I.res, 4)
     /\ Emit(LoadWork \o low \o high \o <<Alu("xor", Reg(dx), Reg(dx))>>
               \o StoreWide(to, ax, dx), to)

\* Through si or di, the count goes by way of ax.
LoadCount(p) ==
  CASE p = cx -> <<>>
    [] p \in {si, di} -> <<Mov(Reg(ax), Reg(p)), Mov(LowByte(cx), LowByte(ax))>>
    [] OTHER -> <<Mov(LowByte(cx), IF IsMem(p) THEN Mem(p) ELSE LowByte(p))>>

Shifts == [shl |-> "shl", lshr |-> "shr", ashr |-> "sar"]

\* 32-bit shifts take this path too: they shift the low word.
LowerShift ==
  LET isConst == IsConst(Arg(2))
      count == IF isConst THEN Imm(Arg(2).c) ELSE LowByte(cx)
  IN /\ \E op \in DOMAIN Shifts, w \in {1, 2} : Lowers(op, w)
     /\ SetPhysReg(I.res, IF IsMem(ResultPlace) THEN ResultPlace ELSE WorkReg)
     /\ Emit((IF isConst THEN <<>> ELSE LoadCount(PlaceOf(Arg(2)))) \o LoadWork
               \o <<Alu(Shifts[I.op], Reg(WorkReg), count)>> \o ToMemory(ResultPlace),
             ResultPlace)

-----------------------------------------------------------------------------
(* Conversions *)

\* One word, through ax if both places are in memory.
CopyWord(from, to) ==
  CASE from = to -> <<>>
    [] IsMem(from) /\ IsMem(to) -> <<Mov(Reg(ax), Mem(from)), Mov(Mem(to), Reg(ax))>>
    [] OTHER -> <<Mov(Loc(to), Loc(from))>>

LowerTrunc ==
  /\ Lowers("trunc", 1)
  /\ SetPhysReg(I.res, ResultPlace)
  /\ Emit(CopyWord(PlaceOf(Arg(1)), ResultPlace), ResultPlace)

LowerZExt16 ==
  /\ Lowers("zext", 1)
  /\ SetPhysReg(I.res, ResultPlace)
  /\ Emit(CopyWord(PlaceOf(Arg(1)), ResultPlace), ResultPlace)

\* To 32 bits: the register map is updated twice, for the word that was copied
\* and, in WidenZExt, for the slot of both words.
LowerZExt32 ==
  /\ Lowers("zext", 2)
  /\ SetPhysReg(I.res, ResultPlace)
  /\ code' = code \o CopyWord(PlaceOf(Arg(1)), ResultPlace)
  /\ at' = [at EXCEPT !.part = "widen"]
  /\ UNCHANGED anaVars

WidenZExt ==
  LET to == ResultOffset(I.res) IN
  /\ Selecting("widen")
  /\ KeepResult(I.res, 4)
  /\ code' = code \o <<Alu("xor", Reg(dx), Reg(dx))>> \o StoreWide(to, ax, dx)
                  \o <<Effect(I, to)>>
  /\ at' = [at EXCEPT !.part = "body", !.pos = @ + 1]
  /\ UNCHANGED anaVars

\* The sign is always spread from al, also if the operand is a word.
LowerSExt ==
  LET to == ResultOffset(I.res) IN
  /\ Lowers("sext", 2)
  /\ KeepResult(I.res, 4)
  /\ Emit(CopyWord(PlaceOf(Arg(1)), ResultPlace)
            \o <<OnAxDx("cbw", Reg(ax)), OnAxDx("cwd", Reg(ax))>> \o StoreWide(to, ax, dx), to)

\* bitcast and freeze: one word, in ax.
LowerFreeze ==
  /\ Lowers("freeze", 1)
  /\ SetPhysReg(I.res, ax)
  /\ Emit(ToAx(PlaceOf(Arg(1))), ResultPlace)

-----------------------------------------------------------------------------
(* lowerICmp *)

Signed == {"slt", "sle", "sgt", "sge"}
Conditional ==
  [eq |-> "je", ne |-> "jne", slt |-> "jl", sle |-> "jle", sgt |-> "jg", sge |-> "jge",
   ult |-> "jb", ule |-> "jbe", ugt |-> "ja", uge |-> "jae"]
Unsigned(pred) ==
  CASE pred = "slt" -> "ult" [] pred = "sle" -> "ule"
    [] pred = "sgt" -> "ugt" [] pred = "sge" -> "uge" [] OTHER -> pred

\* The high words differ: the predicate is decided by them.
\* Seeded fault: they are compared as unsigned words.
JumpOnHighUnsigned(pred, yes, no) ==
  CASE pred = "eq" -> <<Jump("jmp", no)>>
    [] pred = "ne" -> <<Jump("jmp", yes)>>
    [] OTHER -> <<Jump(Conditional[Unsigned(pred)], yes), Jump("jmp", no)>>

JumpOnHigh(pred, yes, no) ==
  CASE pred = "eq" -> <<Jump("jmp", no)>>
    [] pred = "ne" -> <<Jump("jmp", yes)>>
    [] OTHER -> <<Jump(Conditional[pred], yes), Jump("jmp", no)>>

\* The high words are equal: the low words are compared as unsigned.
JumpOnLow(pred, yes, no) == <<Jump(Conditional[Unsigned(pred)], yes), Jump("jmp", no)>>

LowerICmp32 ==
  LET yes == LocalLabel("true", I.res)
      no  == LocalLabel("false", I.res)
      low == LocalLabel("low", I.res)
      end == LocalLabel("end", I.res)
  IN /\ Lowers("icmp", 2)
     /\ KeepResult(I.res, 2)
     /\ Emit(LoadWide(Arg(1), ax, bx) \o LoadWide(Arg(2), cx, dx)
               \o <<Alu("cmp", Reg(bx), Reg(dx)), Jump("je", low)>>
               \o JumpOnHigh(I.pred, yes, no)
               \o <<Label(low), Alu("cmp", Reg(ax), Reg(cx))>>
               \o JumpOnLow(I.pred, yes, no)
               \o <<Label(yes), Mov(Reg(ax), Imm(1)), Jump("jmp", end),
                    Label(no), Mov(Reg(ax), Imm(0)),
                    Label(end), Mov(Mem(ResultOffset(I.res)), Reg(ax))>>,
             ResultOffset(I.res))

\* A constant first operand is never loaded: whatever ax holds is compared.
LowerICmp16 ==
  LET yes == LocalLabel("true", I.res)
      end == LocalLabel("end", I.res)
      load == IF IsConst(Arg(1)) THEN <<>> ELSE LoadOp1(Arg(1)) \o MoveOp1(Arg(1), ax)
  IN /\ Lowers("icmp", 1)
     /\ KeepResult(I.res, 2)
     /\ Emit(load \o LoadOp2(Arg(2), cx)
               \o <<Alu("cmp", Reg(ax), Op2Loc(Arg(2), cx)), Jump(Conditional[I.pred], yes),
                    Mov(Reg(ax), Imm(0)), Jump("jmp", end),
                    Label(yes), Mov(Reg(ax), Imm(1)),
                    Label(end), Mov(Mem(ResultOffset(I.res)), Reg(ax))>>,
             ResultOffset(I.res))

-----------------------------------------------------------------------------
(* Memory, through pointers that are allocas *)

LowerAlloca ==
  /\ \E w \in {1, 2} : Lowers("alloca", w)
  /\ SetPhysReg(I.res, ResultPlace)
  /\ Emit(<<>>, ResultPlace)

\* store value, alloca.  The high word of a constant is taken to be zero.
LowerStore32 ==
  LET value == IF IsConst(Arg(1)) THEN <<Mov(Reg(ax), Imm(Arg(1).c)), Mov(Reg(dx), Imm(0))>>
               ELSE IF ~HasSlot(Arg(1).v) THEN <<>>
               ELSE LoadPlace(PlaceOf(Arg(1)), ax, dx)
  IN /\ Lowers("store", 2)
     /\ UNCHANGED vars
     /\ Emit(value \o StoreWide(PlaceOf(Arg(2)), ax, dx), PlaceOf(Arg(2)))

LowerStore16 ==
  LET value == IF IsConst(Arg(1)) THEN <<Mov(Reg(ax), Imm(Arg(1).c))>>
               ELSE LoadOp1(Arg(1)) \o MoveOp1(Arg(1), ax)
  IN /\ Lowers("store", 1)
     /\ UNCHANGED vars
     /\ Emit(value \o <<Mov(Mem(PlaceOf(Arg(2))), Reg(ax))>>, PlaceOf(Arg(2)))

LowerLoad32 ==
  LET from == PlaceOf(Arg(1))
      to == ResultOffset(I.res)
  IN /\ Lowers("load", 2)
     /\ KeepResult(I.res, 4)
     /\ Emit(<<Mov(Reg(ax), Mem(from)), Mov(Mem(to), Reg(ax)),
               Mov(Reg(dx), Mem(from + 2)), Mov(Mem(to + 2), Reg(dx))>>, to)

\* Into the result's slot if it has one, else into a free temp register.
LowerLoad16 ==
  LET from == Mem(PlaceOf(Arg(1)))
      to == IF HasSlot(I.res) THEN GetPhysReg(I.res) ELSE GetFreeTempReg
  IN /\ Lowers("load", 1)
     /\ SetPhysReg(I.res, GetFreeTempReg)
     /\ Emit(IF IsMem(to) THEN <<Mov(Reg(ax), from), Mov(Mem(to), Reg(ax))>>
                          ELSE <<Mov(Reg(to), from)>>, to)

-----------------------------------------------------------------------------
(* Select and phi *)

\* The condition is not loaded: ax is tested, whatever it holds.
LowerSelect ==
  LET yes == LocalLabel("true", I.res)
      end == LocalLabel("end", I.res)
      work == IF IsMem(ResultPlace) THEN ax ELSE ResultPlace
  IN /\ Lowers("select", 1)
     /\ SetPhysReg(I.res, ResultPlace)
     /\ Emit(<<Alu("or", Reg(ax), Reg(ax)), Jump("jne", yes),
               Mov(Reg(work), Loc(PlaceOf(Arg(3)))), Jump("jmp", end),
               Label(yes), Mov(Reg(work), Loc(PlaceOf(Arg(2)))), Label(end)>>
               \o (IF IsMem(ResultPlace) THEN <<Mov(Mem(ResultPlace), Reg(work))>> ELSE <<>>),
             ResultPlace)

\* lowerPhi does nothing: the block loaded the result already.
LowerPhi ==
  /\ \E w \in {1, 2} : Lowers("phi", w)
  /\ UNCHANGED <<vars, anaVars, code>>
  /\ at' = [at EXCEPT !.pos = @ + 1]

LowerInstruction ==
  \/ LowerAdd32 \/ LowerAdd16 \/ LowerSub32 \/ LowerSub16
  \/ LowerMul32 \/ LowerMul16 \/ LowerDivRem32 \/ LowerDivRem16
  \/ LowerBinaryOp16 \/ LowerBinaryOp32 \/ LowerShift
  \/ LowerTrunc \/ LowerZExt16 \/ LowerZExt32 \/ WidenZExt \/ LowerSExt \/ LowerFreeze
  \/ LowerICmp32 \/ LowerICmp16
  \/ LowerAlloca \/ LowerStore32 \/ LowerStore16 \/ LowerLoad32 \/ LowerLoad16
  \/ LowerSelect \/ LowerPhi

BodyDone ==
  /\ Selecting("body")
  /\ at.pos > Len(Body)
  /\ at' = [at EXCEPT !.part = "stores", !.pos = 1]
  /\ UNCHANGED <<vars, anaVars, code>>

-----------------------------------------------------------------------------
(* Phi elimination: a block stores the incoming values of its successors'  *)
(* phis into their slots, one after the other, before its terminator.      *)

Labels == {prog.blocks[k].label : k \in DOMAIN prog.blocks} \ {NoBlock}
Edges(phi) == [k \in DOMAIN phi.args |->
                 [phi |-> phi, value |-> phi.args[k], from |-> phi.from[k]]]
AllEdges == FlattenSeq([k \in DOMAIN OfOpcode("phi") |-> Edges(OfOpcode("phi")[k])])

\* The members of a sequence at the positions in keep, in their order.
Picked(seq, keep) ==
  LET kept[n \in 0 .. Len(seq)] ==
        IF n = 0 THEN <<>>
        ELSE IF n \in keep THEN Append(kept[n - 1], seq[n]) ELSE kept[n - 1]
  IN kept[Len(seq)]

\* phiStoresByPred: a label that names no block stands for the entry block.
PhiStores ==
  LET edges == AllEdges IN
  Picked(edges, {n \in DOMAIN edges : edges[n].from = AtBlock.label})
    \o (IF at.block = 1
          THEN Picked(edges, {n \in DOMAIN edges : edges[n].from \notin Labels})
          ELSE <<>>)

\* The incoming value in ax (and dx).  The high word of a constant is taken to
\* be zero; a vreg without a slot is taken to be in the registers already.
LoadIncoming(o, wide) ==
  LET p == PlaceOf(o)
      words == IF IsMem(p) THEN LoadPlace(p, ax, dx)
               ELSE <<Mov(Reg(ax), Unknown), Mov(Reg(dx), Unknown)>>
  IN CASE IsConst(o) -> <<Mov(Reg(ax), Imm(o.c)), Mov(Reg(dx), Imm(0))>>
       [] ~IsConst(o) /\ HasSlot(o.v) -> IF wide THEN words ELSE <<words[1]>>
       [] OTHER -> <<>>

\* Seeded fault: the high word of the incoming value stays behind.
StorePhiLow ==
  LET e == PhiStores[at.pos] IN
  /\ Selecting("stores")
  /\ at.pos <= Len(PhiStores)
  /\ code' = code \o LoadIncoming(e.value, FALSE)
                  \o <<Mov(Mem(GetPhysReg(e.phi.res)), Reg(ax))>>
  /\ at' = [at EXCEPT !.pos = @ + 1]
  /\ UNCHANGED <<vars, anaVars>>

\* Seeded fault: no block feeds the phis of its own header.
StorePhiForward ==
  LET e == PhiStores[at.pos] IN
  /\ Selecting("stores")
  /\ at.pos <= Len(PhiStores)
  /\ code' = IF e.phi \in {Body[k] : k \in DOMAIN Body} THEN code
             ELSE code \o LoadIncoming(e.value, TRUE)
                       \o StoreWide(GetPhysReg(e.phi.res), ax, dx)
  /\ at' = [at EXCEPT !.pos = @ + 1]
  /\ UNCHANGED <<vars, anaVars>>

StorePhi ==
  LET e == PhiStores[at.pos]
      to == GetPhysReg(e.phi.res)
      wide == e.phi.w = 2
  IN /\ Selecting("stores")
     /\ at.pos <= Len(PhiStores)
     /\ code' = code \o LoadIncoming(e.value, wide)
                     \o (IF wide THEN StoreWide(to, ax, dx) ELSE <<Mov(Mem(to), Reg(ax))>>)
     /\ at' = [at EXCEPT !.pos = @ + 1]
     /\ UNCHANGED <<vars, anaVars>>

PhisStored ==
  /\ Selecting("stores")
  /\ at.pos > Len(PhiStores)
  /\ at' = [at EXCEPT !.part = "term"]
  /\ UNCHANGED <<vars, anaVars, code>>

-----------------------------------------------------------------------------
(* The terminators.  Their marker comes first: it takes the IR function to *)
(* the next block, where the jumps that follow should lead.                *)

Term == AtBlock.term
Ends(op) == Selecting("term") /\ Term.op = op
Terminate(seq) ==
  /\ code' = code \o <<Effect(Term, NoReg)>> \o seq
  /\ at' = [Start EXCEPT !.block = at.block + 1]
  /\ UNCHANGED <<vars, anaVars>>

\* Seeded fault: the high word of the result is forgotten.
LowerRetLow ==
  /\ Ends("ret")
  /\ Terminate(Append(IF IsConst(Term.args[1]) THEN <<Mov(Reg(ax), Imm(Term.args[1].c))>>
                      ELSE <<Mov(Reg(ax), Loc(PlaceOf(Term.args[1])))>>, Retf))

\* Seeded fault: the result is loaded, and the code goes on behind the function.
LowerRetRunsOn ==
  /\ Ends("ret")
  /\ Terminate(<<Mov(Reg(ax), IF IsConst(Term.args[1]) THEN Imm(Term.args[1].c)
                              ELSE Loc(PlaceOf(Term.args[1])))>>)

\* The width of a returned constant is not known: dx is left alone.
LowerRet ==
  LET o == Term.args[1]
      p == PlaceOf(o)
      value == CASE IsConst(o) -> <<Mov(Reg(ax), Imm(o.c))>>
                 [] ~IsConst(o) /\ IsMem(p) ->
                      IF Is32(o) THEN LoadPlace(p, ax, dx) ELSE <<Mov(Reg(ax), Mem(p))>>
                 [] OTHER -> IF p = ax THEN <<>> ELSE <<Mov(Reg(ax), Reg(p))>>
  IN /\ Ends("ret")
     /\ Terminate(Append(value, Retf))

LowerBr == Ends("br") /\ Terminate(<<Jump("jmp", BlockLabel(Term.to[1]))>>)

\* The condition is tested in cx, so that ax survives the branch.
LoadCond(p) == IF p = cx THEN <<>> ELSE <<Mov(Reg(cx), Loc(p))>>

\* Seeded fault: the targets are swapped.
LowerCondBrSwapped ==
  /\ Ends("condbr")
  /\ Terminate(LoadCond(PlaceOf(Term.args[1]))
                 \o <<Alu("test", Reg(cx), Reg(cx)),
                      Jump("jne", BlockLabel(Term.to[2])), Jump("jmp", BlockLabel(Term.to[1]))>>)

\* The code also emits a second jump to the first target, behind a label that
\* nothing jumps to.
LowerCondBr ==
  /\ Ends("condbr")
  /\ Terminate(LoadCond(PlaceOf(Term.args[1]))
                 \o <<Alu("test", Reg(cx), Reg(cx)),
                      Jump("jne", BlockLabel(Term.to[1])), Jump("jmp", BlockLabel(Term.to[2]))>>)

\* Only the low word of the condition is compared.
LowerSwitch ==
  LET p == PlaceOf(Term.args[1])
      Case(k) == <<Alu("cmp", Reg(ax), Imm(Term.cases[k])),
                   Jump("je", BlockLabel(Term.to[k + 1]))>>
  IN /\ Ends("switch")
     /\ Terminate((IF p = ax THEN <<>> ELSE <<Mov(Reg(ax), Loc(p))>>)
                    \o FlattenSeq([k \in DOMAIN Term.cases |-> Case(k)])
                    \o <<Jump("jmp", BlockLabel(Term.to[1]))>>)

SelectInstructions ==
  \/ BeginBlock \/ LoadPhi \/ PhisLoaded
  \/ LowerInstruction \/ BodyDone
  \/ StorePhi \/ PhisStored
  \/ LowerRet \/ LowerBr \/ LowerCondBr \/ LowerSwitch

Compile == Prepare \/ SelectInstructions
Compiled == phase = "lowering" /\ at.block > Len(prog.blocks)
=============================================================================
