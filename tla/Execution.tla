----------------------------- MODULE Execution -----------------------------
(***************************************************************************)
(* What comes out of instruction selection.  A behaviour compiles one      *)
(* function (module Lowering) and then runs the code on some arguments;    *)
(* far calls of it run the routines of module Runtime.                     *)
(*                                                                         *)
(* When the code passes a marker, `ir`, the state of the IR function, takes *)
(* the step of the IR instruction whose code ends there, and so says what  *)
(* the machine should have computed by then.                               *)
(***************************************************************************)
EXTENDS Lowering, Runtime


CONSTANTS
  Inputs,       (* words that arguments are made of                         *)
  Junks         (* words found where the function has stored nothing yet    *)

VARIABLES
  stage,    \* "compile", "call", "run", "halt", or "lost": no caller to return to
  cpu,      \* the machine, once the code runs
  ir        \* what the IR function computed: env, cells of allocas, block

runVars == <<stage, cpu, ir>>
compileVars == <<vars, anaVars, lowVars>>
allVars == <<compileVars, runtimeVars, runVars>>

-----------------------------------------------------------------------------
(* What the IR function computes *)

IrValue(o, w) == IF IsConst(o) THEN o.c % Range2(w) ELSE ir.env[o.v]

Sign(x, w) == IF x >= Range2(w) \div 2 THEN x - Range2(w) ELSE x

Holds(pred, x, y, w) ==
  CASE pred = "eq" -> x = y
    [] pred = "ne" -> x # y
    [] pred = "ult" -> x < y
    [] pred = "ule" -> x <= y
    [] pred = "ugt" -> x > y
    [] pred = "uge" -> x >= y
    [] pred = "slt" -> Sign(x, w) < Sign(y, w)
    [] pred = "sle" -> Sign(x, w) <= Sign(y, w)
    [] pred = "sgt" -> Sign(x, w) > Sign(y, w)
    [] pred = "sge" -> Sign(x, w) >= Sign(y, w)

IrResult(i) ==
  LET Val(k) == IrValue(i.args[k], i.w)
  IN CASE i.op = "add" -> (Val(1) + Val(2)) % Range2(i.w)
       [] i.op = "sub" -> (Val(1) - Val(2)) % Range2(i.w)
       [] i.op = "mul" -> (Val(1) * Val(2)) % Range2(i.w)
       [] i.op = "udiv" -> Val(1) \div Val(2)
       [] i.op = "urem" -> Val(1) % Val(2)
       [] i.op = "sdiv" -> Quotient(Sign(Val(1), i.w), Sign(Val(2), i.w)) % Range2(i.w)
       [] i.op = "srem" -> Remainder(Sign(Val(1), i.w), Sign(Val(2), i.w)) % Range2(i.w)
       [] i.op \in Logical ->
            Bitwise2(i.op, LowWord(Val(1)), LowWord(Val(2))).val
              + Base * Bitwise2(i.op, HighWord(Val(1)), HighWord(Val(2))).val
       [] i.op = "shl" -> (Val(1) * 2 ^ Val(2)) % Range2(i.w)
       [] i.op = "lshr" -> Val(1) \div 2 ^ Val(2)
       [] i.op = "ashr" -> (Sign(Val(1), i.w) \div 2 ^ Val(2)) % Range2(i.w)
       [] i.op = "trunc" -> LowWord(IrValue(i.args[1], 2))
       [] i.op \in {"zext", "freeze"} -> Val(1)
       [] i.op = "sext" -> Sign(IrValue(i.args[1], 1), 1) % Range2(i.w)
       [] i.op = "icmp" -> IF Holds(i.pred, Val(1), Val(2), i.w) THEN 1 ELSE 0
       [] i.op = "select" -> IF IrValue(i.args[1], 1) # 0 THEN Val(2) ELSE Val(3)
       [] i.op = "load" -> ir.cells[i.args[1].v]

Successor(t) ==
  CASE t.op = "br" -> t.to[1]
    [] t.op = "condbr" -> IF IrValue(t.args[1], 1) # 0 THEN t.to[1] ELSE t.to[2]
    [] t.op = "switch" ->
         LET hits == {k \in DOMAIN t.cases : t.cases[k] % Range2(t.w) = IrValue(t.args[1], t.w)}
         IN IF hits = {} THEN t.to[1] ELSE t.to[1 + CHOOSE k \in hits : TRUE]

BlockNamed(l) == CHOOSE b \in {prog.blocks[k] : k \in DOMAIN prog.blocks} : b.label = l

\* The phis of a block take their values together, from the block left.
Joined(l) ==
  LET phis == PhisOf(BlockNamed(l))
      From(phi) == CHOOSE k \in DOMAIN phi.from :
                     phi.from[k] = ir.cur \/ (ir.cur = NoBlock /\ phi.from[k] \notin Labels)
      PhiOf(v) == {k \in DOMAIN phis : phis[k].res = v}
  IN [v \in Vregs |->
        IF PhiOf(v) = {} THEN ir.env[v]
        ELSE LET phi == phis[CHOOSE k \in PhiOf(v) : TRUE]
             IN IrValue(phi.args[From(phi)], phi.w)]

IrStep(i) ==
  CASE i.op = "alloca" -> ir
    [] i.op = "store" -> [ir EXCEPT !.cells[i.args[2].v] = IrValue(i.args[1], i.w)]
    [] i.op = "ret" -> [ir EXCEPT !.ret = [w |-> i.w, value |-> IrValue(i.args[1], i.w)]]
    [] i.op \in {"br", "condbr", "switch"} ->
         [ir EXCEPT !.env = Joined(Successor(i)), !.cur = Successor(i)]
    [] OTHER -> [ir EXCEPT !.env[i.res] = IrResult(i)]

-----------------------------------------------------------------------------
(* Running the generated code *)

FrameCells == {off \in tempBase .. paramOffset - 1 : off % 2 = 0}

\* Before the call every register and every cell holds junk.
BeginCall ==
  /\ stage = "compile" /\ Compiled
  /\ \E junk \in Junks :
       cpu' = [regs |-> [reg \in Regs |-> junk], mem |-> [off \in FrameCells |-> junk],
               flags |-> [z |-> FALSE, s |-> FALSE, c |-> FALSE, o |-> FALSE],
               pc |-> 1, junk |-> junk, framed |-> TRUE]
  /\ ir' = [env |-> [v \in Vregs |-> 0], cells |-> [v \in Allocas |-> 0],
            cur |-> prog.blocks[1].label, ret |-> [w |-> 0, value |-> 0], passed |-> 0]
  /\ stage' = "call"
  /\ UNCHANGED <<compileVars, runtimeVars>>

\* The callee finds its register parameters in bx, si and di, the others where
\* its frame lays out the stack above the return address.
PassArgument ==
  LET v == prog.params[ir.passed + 1].v
      slot == slots[index[v]]
      Pass(lo, hi) ==
        CASE slot.reg # NoReg -> [cpu EXCEPT !.regs[slot.reg] = lo]
          [] slot.reg = NoReg /\ slot.size = 2 -> [cpu EXCEPT !.mem[slot.off] = lo]
          [] OTHER -> [cpu EXCEPT !.mem[slot.off] = lo, !.mem[slot.off + 2] = hi]
  IN /\ stage = "call" /\ ir.passed < ParamCount
     /\ \E lo \in Inputs, hi \in IF slot.size = 4 THEN Inputs ELSE {0} :
          /\ cpu' = Pass(lo, hi)
          /\ ir' = [ir EXCEPT !.env[v] = lo + Base * hi, !.passed = @ + 1]
     /\ UNCHANGED <<compileVars, runtimeVars, stage>>

Enter ==
  /\ stage = "call" /\ ir.passed = ParamCount
  /\ stage' = "run"
  /\ UNCHANGED <<compileVars, runtimeVars, cpu, ir>>

Now == code[cpu.pc]
Executes(ops) ==
  stage = "run" /\ Now.op \in ops /\ UNCHANGED <<compileVars, runtimeVars>>

Compute1 ==
  /\ Executes({"mov", "add", "adc", "sub", "sbb", "cmp", "test",
              "and", "or", "xor", "shl", "shr", "sar"})
  /\ cpu' = Execute(cpu, Now)
  /\ UNCHANGED <<stage, ir>>

\* A divide error would stop the machine here.
ComputeFixed ==
  /\ Executes({"cbw", "cwd", "imul", "div", "idiv"})
  /\ Now.op \in {"div", "idiv"} => QuotientFits(cpu, Now)
  /\ cpu' = ExecuteFixed(cpu, Now)
  /\ UNCHANGED <<stage, ir>>

\* A far call to a routine of the runtime, with its numbers in registers.
CallRuntime ==
  /\ stage = "run" /\ Now.op = "call"
  /\ Begin(Now.routine, [lo |-> cpu.regs[ax], hi |-> cpu.regs[bx]],
                        [lo |-> cpu.regs[cx], hi |-> cpu.regs[dx]])
  /\ UNCHANGED <<compileVars, runVars>>

RunRuntime == stage = "run" /\ Serve /\ UNCHANGED <<compileVars, runVars>>

\* The routine has used every register.  If it did not restore bp, the cells the
\* function takes for its frame are others from now on.
ReturnFromRuntime ==
  LET regs == (ax :> num1.lo) @@ (bx :> num1.hi) @@ (cx :> num2.lo) @@ (dx :> num2.hi)
                @@ (di :> result.lo) @@ (si :> result.hi)
  IN /\ stage = "run" /\ Finish
     /\ cpu' = [cpu EXCEPT !.regs = regs, !.pc = @ + 1, !.framed = @ /\ bp = "caller",
                           !.mem = IF bp = "caller" THEN @ ELSE [off \in FrameCells |-> cpu.junk]]
     /\ UNCHANGED <<compileVars, stage, ir>>

Jump1 ==
  /\ Executes(Jumps)
  /\ cpu' = Branch(cpu, code, Now)
  /\ UNCHANGED <<stage, ir>>

PassLabel ==
  /\ Executes({"label"})
  /\ cpu' = [cpu EXCEPT !.pc = @ + 1]
  /\ UNCHANGED <<stage, ir>>

PassMarker ==
  /\ Executes({"ir"})
  /\ cpu' = [cpu EXCEPT !.pc = @ + 1]
  /\ ir' = IrStep(Now.instr)
  /\ UNCHANGED stage

\* The epilogue finds the caller's registers and the return address through bp.
Return ==
  /\ Executes({"retf"})
  /\ stage' = IF cpu.framed THEN "halt" ELSE "lost"
  /\ UNCHANGED <<cpu, ir>>

Halted == stage \in {"halt", "lost"} /\ UNCHANGED allVars

CInit ==
  /\ SelectionInit
  /\ IdleInit
  /\ stage = "compile"
  /\ cpu = EmptyMap
  /\ ir = EmptyMap

CNext ==
  \/ stage = "compile" /\ Compile /\ UNCHANGED <<runtimeVars, runVars>>
  \/ BeginCall \/ PassArgument \/ Enter
  \/ Compute1 \/ ComputeFixed \/ Jump1 \/ PassLabel \/ PassMarker
  \/ CallRuntime \/ RunRuntime \/ ReturnFromRuntime
  \/ Return \/ Halted

CSpec == CInit /\ [][CNext]_allVars
\* The compiler is one sequential program, and so is what it compiles.
FairSpec == CSpec /\ WF_allVars(CNext)
-----------------------------------------------------------------------------
(* Properties *)

Machine1 ==
  [regs : [Regs -> Word], mem : [FrameCells -> Word],
   flags : [z : BOOLEAN, s : BOOLEAN, c : BOOLEAN, o : BOOLEAN],
   pc : 1 .. Len(code), junk : Word, framed : BOOLEAN]

\* The compiler's state and the machine's have their types: the code of a function
\* keeps to words, and control never runs off its end.
LoweringTypeOK ==
  /\ TypeOK
  /\ at.block \in 1 .. Len(prog.blocks) + 1
  /\ stage \in {"compile", "call", "run", "halt", "lost"}
  /\ stage # "compile" => cpu \in Machine1

\* What was just executed, if it is the marker of a result or of a store.
JustDone(ops) ==
  stage = "run" /\ cpu.pc > 1 /\ code[cpu.pc - 1].op = "ir"
    /\ code[cpu.pc - 1].instr.op \in ops
Done == code[cpu.pc - 1]

Value1(place, w) ==
  Read(cpu, Loc(place)) + (IF w = 2 THEN Base * Read(cpu, Mem(place + 2)) ELSE 0)

Computing ==
  {"add", "sub", "mul", "icmp", "select", "load", "trunc", "zext", "sext", "freeze"}
    \cup Divisions \cup Logical \cup DOMAIN Shifts

\* lowerInstruction: after the code of an IR instruction has run, on any
\* arguments and whatever was in the registers, the place that later handlers
\* take for its result holds the value the IR instruction computes from values
\* computed earlier, possibly many blocks ago.
ResultsMatch ==
  JustDone(Computing) =>
    Value1(Done.place, IF Done.instr.op = "icmp" THEN 1 ELSE Done.instr.w)
      = ir.env[Done.instr.res]

\* lowerStore: a local variable holds what the program last stored to it.
StoresMatch ==
  JustDone({"store"}) => Value1(Done.place, Done.instr.w) = ir.cells[Done.instr.args[2].v]

AtLabel(l) == stage = "run" /\ Now = Label(BlockLabel(l))

\* lowerCondBrTerm, lowerSwitch: control only reaches the block the IR branches to.
BranchesMatch == \A l \in Labels : AtLabel(l) => ir.cur = l

\* lowerBasicBlock: when a block is entered, the slot of each of its phis holds
\* the value of the edge taken, whichever values the phis had before.
PhisMatch ==
  \A l \in Labels : AtLabel(l) /\ ir.cur = l =>
    LET phis == PhisOf(BlockNamed(l))
    IN \A k \in DOMAIN phis :
         Value1(slots[index[phis[k].res]].off, phis[k].w) = ir.env[phis[k].res]

\* lowerRetTerm: the caller finds the returned value in ax, or in dx:ax.
ReturnMatches ==
  stage = "halt" =>
    cpu.regs[ax] + (IF ir.ret.w = 2 THEN Base * cpu.regs[dx] ELSE 0) = ir.ret.value

\* The code only touches the locals, the temp area and the arguments: never the
\* registers saved above the locals, the caller's bp or the return address.
CodeStaysInFrame ==
  Compiled /\ stage = "compile" =>
    \A k \in DOMAIN code :
      \A o \in {code[k][field] : field \in DOMAIN code[k] \cap {"dst", "src"}} :
        "mem" \in DOMAIN o => o.mem \in FrameCells \ (-SavedRegs .. FirstParam - 1)

\* FunctionAnalysis estimates enough temp space for what the handlers of a block
\* take: no temp ever reaches the locals above the area.
EstimateSuffices == phase = "lowering" => tempCurrent <= nextLocalOffset

\* The frame is used as its class means it to be: analysis, layout and handlers
\* only take the steps of StackFrame.
FrameUse == Spec

\* Every function of a program whose loops end is compiled, runs and returns.
Terminates == <>(stage = "halt")
=============================================================================
