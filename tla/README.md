# llvm-i286: a verification project

llvm-i286 translates LLVM IR to 16-bit 80286 assembly for OS/2 1.x.  It is a
sequential program that persists nothing, so there are no interleavings and no
crashes to model.  What makes it hard is state that is kept while code is
emitted and read many instructions later (frame slots, register maps, the temp
area of a block), emitted code that must compute, on words and few registers, what the
IR means, and conventions that parts compiled apart must share: where arguments
are, how big a type is, which segment a pointer means, who takes what off the
stack.

## Inventory

| Component | State | Operations | What makes it correct |
|---|---|---|---|
| `StackFrame` | slots, index by vreg, register maps, temp area, frame size | addParam/Alloca/SpillSlot, setMaxTempSpace, computeLayout, allocTemp, allocResultSlot, resetTemp, setPhysReg, getPhysReg, getFreeTempReg | slots never overlap nor move, the frame covers them, a vreg keeps its home, the maps are inverse |
| `FunctionAnalysis` | defined and used vregs per block | analyze | whatever is read in another block has a slot; the temp estimate suffices |
| `InstructionSelect` | phi stores by predecessor, the code so far | lowerFunction, lowerBasicBlock, dispatch | phis get the value of the edge taken |
| Handlers (`ArithmeticOps`, `ControlFlowOps`, `MemoryOps`, `BitwiseOps`, `ConversionOps`, `FpuOps`) | none of their own: they read and change the frame | one per IR opcode | the emitted code computes the IR value and leaves it where the frame says |
| `CallOps`, `CallingConv`, prologue and epilogue (`Emitter`, `lowerRetTerm`) | sizes pushed, temps for arguments | lowerCall, va_start | stack balanced, arguments where the callee looks |
| Runtime (`runtime/*.asm`) | registers | `_DivideI32`, `_DivideU32`, `_MultiplyI32`, itoa | quotient, remainder and product of two words, for every input, in finitely many steps |
| System calls (`os2_syscall.asm`, `printnum.asm`) | scratch words in the data segment | dispatch, write, read, writev, close, exit, printnum | arguments and results of the OS/2 calls; the caller's registers and stack |
| Pointers (`MemoryOps`, the constant expressions of `CallOps`, the sizes in `CodeGen` and `IrVisitor`) | `ssDerivedPtrVregs` | lowerLoad, lowerStore, lowerGetElementPtr, computeGEPByteOffset | five computations of the size of a type agree; loads and stores go through the segment of the pointer |
| `IrVisitor`, `CodeGen`, `NasmSafe`, otherwise | the parsed module, text | parse, emit | input and output; not modelled |
| `RegisterAlloc`, `Addressing`, `x86_286` | | stubs nothing uses | not modelled |

`CodeGen::generate` calls `lowerFunction` once per function, which resets the
frame, runs the analysis (slots), `computeLayout` (offsets), then lowers block
after block, instruction after instruction.  The handlers call the frame for
the place of each operand and of the result.  The frame size is read last, for
the prologue.  Generated code calls the runtime, which calls OS/2.

## Modules

| Module | Models | State and actions |
|---|---|---|
| `StackFrame` | the class `StackFrame` | its members as variables (`slots`, `index`, `vregToPhys`, `tempBase`, ...); one action per method; `computeLayout` one slot per step.  `phase` says which of the three passes is running, as the call sequence of `lowerFunction` fixes it |
| `MCStackFrame` | | small instances, symmetric in the vregs |
| `StackFrameProofs` | | theorems about `StackFrame` for every value of its constants, the last one that it implements `FrameContract` |
| `FrameContract` | what `StackFrame` promises | an abstract specification: areas for the whole function, areas of a block, the bottom of the frame; LayOut, Take, Release |
| `FrameContractProofs` | | theorem: the contract is enough |
| `FunctionAnalysis` | the class `FunctionAnalysis` | extends `StackFrame`; `prog` is the function, `todo` the next registration; one action per kind of slot, each one calling the action of `StackFrame` it stands for |
| `Machine` | the 80286, as far as generated code uses it (external) | operators on a machine record: word registers, frame, flags, pc |
| `Lowering` | instruction selection and its handlers | extends `FunctionAnalysis` and `Machine`; `at` and `code`; one action per handler and width, one per step of a block |
| `Runtime` | `_DivideU32`, `_DivideI32`, `_MultiplyI32`, itoa | extends `Machine`; the register pairs of a routine (`num1` is ax:bx, `num2` cx:dx, `result` di:si), its stack cells, whose frame `bp` is; one action per pass of a loop and per stretch between labels |
| `Execution` | compiling a function and running what was emitted | composes `Lowering` and `Runtime`; `cpu` and `ir`; one action per kind of machine instruction, and the far calls of the runtime |
| `CallFrame` | `lowerCall`, prologue, epilogue, `..start` | the stack as memory, `sp`, `bp`, registers; `acts` records the active functions and what each should find; one action per argument pushed, call, return, cleanup, result kept |
| `SystemCalls` | `__os2_syscall0` to `6`, their handlers, `printnum` | the stack as a sequence, registers, the cells of the layer; one action per stretch between two calls of OS/2, one per answer OS/2 may give (external) |
| `SystemCallsProofs`, `CallFrameProofs`, `RuntimeProofs` | | theorems about these three modules for every value of their constants |
| `CompilationProofs` | | theorems about the compiler in `Execution` and the code it emits, for every set of functions |
| `NaturalSets` | | induction over the natural numbers, stated for sets of them; functions defined from one number to the next |
| `Pointers`, `PointersProofs` | far pointers, GEPs, sizes of types, segments | bytes written (`mem`), the words in the slot of each vreg (`held`), `ssDerived`; beside them the program's own values and objects; one action per IR instruction; theorems for every program whose types the sizes are right for |
| `MCLowering`, `MCRuntime`, `MCCallFrame`, `MCSystemCalls`, `MCPointers` | | the functions that are compiled and run and the calls that are made, one family per question |

A behaviour of `Execution` compiles one function and then runs it.  The code
carries *markers* where the code of an IR instruction ends: passing one moves
`ir`, an interpreter of the IR.  Correctness is that machine and interpreter
agree at the markers, at block labels and at the return.  The interpreter takes
all phis of a block at once; the code stores them one after another.  Registers
and cells a function did not set hold an arbitrary junk word.

A `call far` of the code starts a routine of `Runtime` with the words in ax to
dx and stops the code until the routine has returned; then all registers are
the routine's.  If the routine did not restore bp, the function's frame is gone:
its cells hold junk, and its epilogue finds no caller.

A behaviour of `Runtime` on its own (`RSpec`) is one call, and is compared with
the division, multiplication and decimal digits of integers.

`CallFrame` leaves out what functions compute: between two calls a function
fills its frame and its registers with words of its own (`Work`), so that what
is overwritten is noticed.  A word says what it stands for and is never looked
into, except where the code does.  Caller and callee meet only in the sizes and
registers each derives from the types.  `SystemCalls` keeps words in the same
way and calculates with counts only, modulo `W`; OS/2 accepts any part of a
write or fails, and keeps all registers but ax, as the layer assumes of it.
`Pointers` executes what the handlers emit for each instruction beside what the
instruction means; a segment has `W` bytes (65536 in the code), and the allocas end
at `FrameTop`.

A seeded fault is an operator that says so in its comment; it stands before the
definition it is a fault of, and serves to see that a property notices it.

## Runs

Every property is explained at its definition.

| Run | Question | Bounds |
|---|---|---|
| `frame` | can any order of registrations, layout, temps and results make slots overlap, move, lose their vreg or leave the frame? does the manager keep `FrameContract`? | 3 vregs, 4 slots, sizes 2 and 4, estimates 0 and 4: enough for two locals beside two temps, one extension of the area within a block and one across a `resetTemp` |
| `lowering` | does the code of everyday functions compute what the IR does, within its frame, and return? do the register maps stay inverse? | words of 2 bits and bytes of one (`Base` = 4, `ByteBase` = 2): every carry, borrow, sign and overflow of a word occurs, and all 256 arguments of two 32-bit parameters are tried; 46 functions with one to four blocks cover every handler of the module, all ten predicates at both widths, a labelled and an unlabelled entry, register and stack parameters, a phi join, three loops, locals, a switch |
| `runtime` | do the runtime routines divide, multiply and print, and return? | words of 4 bits (`Base` = 16), `Radix` = 10; all divisions of a word by a word, signed divisions of a word by any number but 0 and the smallest, products of one word with a multiplier below half a word, all numbers to print, in a buffer (`BufferLength` = 4) that the longest text fills, as 11 characters hold "-2147483648" |
| `frame_extension` | do temps stay clear of the locals when the temp area is extended? (no) | as `frame` |
| `calls` | do caller and callee, compiled apart, agree on the stack? are parameters found, frames intact, the stack balanced, registers kept, and does control come back? | three functions deep, three calls in a run: a call while two frames are below, and a call after another; every kind of argument (constant, global, address of a local, pointer, slot, result in ax) beside another, calls by name, through pointers, of memcpy, with variable arguments |
| `syscalls` | is OS/2 asked for what the program wants, are bytes and the buffers left counted right, does the caller find its stack and registers again, is every call answered? | two calls in a row, the second with what the first left in the cells; up to three buffers of up to 100 bytes with `W` = 128, so that the count overflows a word; OS/2 accepts 0, 1, 11 or 100 bytes or fails |
| `pointers` | are addresses, segments and bytes those of the program? | three instructions: enough to store through one name and load through another, or to make, store and reload a pointer; globals: an array of words, one of pointers, a long, a structure; locals: a pointer, a long, an array of bytes; the caller's arrays of words and longs; indices 0 and 1, constant and variable; segments of `W` = 64 bytes, which hold all of this, and `Types` exactly the types that occur |
| `exchange`, `wide_division`, `misplaced_argument`, `third_entry`, `far_word` | one disagreement each between the code and what the repository says of it | one function or family of calls each; see the findings in PROJECT.json |

`MaxSlots` (the slots one behaviour creates), `TempSpaces` (the estimates) and
`Inputs`, `Junks` (words of arguments, and of uninitialised places) are the
other bounds.  `MaxSlots` is large enough in the runs of `Lowering` that no
function meets it: a compiler that got stuck would be reported as a deadlock,
and deadlock is checked in every run.  The frame runs end when `MaxSlots` is
used up, but `resetTemp` always remains possible.

What the passing runs do *not* claim: 16-bit sums live in `ax` until the next
instruction overwrites it, so the 16-bit functions of `lowering` use each result
at once or in a slot that the handler writes.  Multipliers are -1, 0 and 1, sign
extensions are of 0 and -1, shifts are by less than the width, 16-bit divisors
do not trap: branches of the functions see to that.  32-bit divisions are only
compiled, in a block that is never entered.  The violation runs show what
happens otherwise.  More counterexamples have a configuration beside the runs,
to be given to TLC by hand: `MCSubTest` (a 16-bit difference is subtracted
twice, `ArithmeticOps.cpp:482`, against `tests/output/test_sub.ll`),
`MCLateSelect` (select tests whatever is in ax), `MCDistantIncoming` (a value
only a later phi uses loses its temp), and, with MCRuntime, `MCLongDivision`
(the divisor is shifted for ever, `div32.asm:58`), `MCSignedRemainder` (the
remainder is saved behind a jump, `div32.asm:100`) and `MCLongProduct` (carries
go from the high word to the low, `mul32.asm:66`).  Others have none:

- `lowerAdd`, `lowerDivRem`: a 16-bit sum or quotient for another block stays in
  ax (dx), and is read from its slot, which nobody wrote;
- `lowerRetTerm`: the high word of a returned constant is whatever dx holds;
- `lowerStore`, phi stores: the high word of a negative constant is stored as 0;
- `lowerSwitch`: only the low word of an i32 is compared;
- `lowerDivRem`: a divisor in memory gets dx stored over its high word
  (`ArithmeticOps.cpp:795`), where a load of dx is meant;
- `lowerBinaryOp`, shifts: only the low word of an i32 is computed; a first
  operand in a register is not moved to the result's register;
- `lowerSExt`: `cbw` cuts a word to its low byte before it is spread;
- `div32u.asm` says that di is the high word of the quotient; it is the low one.

The calls of the run `calls` are those in which both sides mean the same.  Not
among them, because they go wrong:

- a 16-bit parameter among the first three (`misplaced_argument`);
- a floating-point constant in a variable argument list: two bytes of zeros are
  pushed, four taken off (`MCUnbalanced.cfg`: the next call starts two bytes
  inside the caller's frame, as the epilogue alone resets sp); a
  floating-point constant for a declared parameter arrives as zeros;
- a value still in ax in front of one that goes through ax: it is overwritten;
- an indirect call whose widths do not follow its result type, which is all it
  knows; it also takes bx, where a register parameter of the caller may be;
- the address of a global for a 16-bit parameter: two bytes pushed, four off;
- `llvm.va_start`, which pops its two pointers in the wrong order and stores
  through the selector of the stack (`MCVaStart.cfg`);
- unnamed parameters, which get no slot (`FunctionAnalysis.cpp:56`).

In `syscalls` the numbers fit in words (the code ignores the high words of
handles and counts), and ds is the segment of the iovecs, through which they are
read though their selector is loaded.  `ResultsRight` is claimed of calls OS/2
accepted: one that it refuses returns the count of an earlier one
(`MCRefusedWrite.cfg`, against the comment "return bytes written"), and a read
always does.  If OS/2 takes a part of a buffer, writev goes on with the next.
musl's own wrappers call getpid and close through entries that do not know them.
`..start` gives DOSEXIT its code and action in the opposite order to
`syscall_exit`.

In `pointers`, left out because they go wrong:

- a word through a pointer from elsewhere (`far_word`), and a byte or word of a
  global by its name, which ends in al or bx and never in its slot;
- a negative index, whose carry goes into the selector; a GEP into a structure,
  whose index is taken for an offset in bytes; a first index other than zero
  into an array type, which is scaled by an element; arrays of arrays;
- a structure or an array with values, whose size is 2, or whose fields are 4
  bytes each: the structure of the run has no value and nothing behind it;
- an alloca of a structure or of pointers, which gets 4 bytes or 1 per pointer;
- a load from a constant expression, which goes through whatever ax and dx hold;
  the address of an alloca as the value of a store, which stores its content;
  an index in ax, which the base overwrites; 32-bit constants, whose high word
  is stored as zero; floating-point constants, which are not stored at all;
- a pointer loaded through a pointer into the stack, which counts as one itself.

Fairness: `FairSpec` adds weak fairness of the whole next-state relation.  The
compiler and the compiled function are sequential programs: some step is always
possible until the function has returned, and nothing else competes for it.
`RSpec` does the same for a routine of the runtime, which nothing interrupts, and
the `FairSpec`s of `CallFrame` and `SystemCalls` for a program that runs: the
processor executes the next instruction, and OS/2 answers its calls.

## Proofs

`StackFrameProofs` proves, for any set of vregs, any slot sizes and estimates
and any number of slots, every property of the run `frame` but the contract,
that the register maps are inverse, that temps of one block are disjoint, that
temps which fit the estimate stay clear of locals, and that the frame never
shrinks.  Assumed are the ASSUMEs of `StackFrame`: sizes are positive,
registers, vregs and offsets are distinct, and the registers that handlers use
are registers.  The inductive invariant is

    IInv == TypeOK /\ RegMapsInverse /\ AnalysisInv /\ OrderInv

`AnalysisInv` describes the frame before the layout (no temps yet, all counters
at their start).  `OrderInv` is why slots are disjoint: computeLayout gives
offsets in the order of the slots vector, so the proofs keep the slots placed so
far *ordered* (each ends where a later one may begin) and bounded by
`nextLocalOffset` and `paramOffset`; temps are ordered by `tempCurrent` within a
block.  Disjointness itself is not inductive: it says nothing of where the next
slot goes.

The last theorem of the module is `Spec => KeepsContract`, that `StackFrame`
implements `FrameContract` under the mapping that is written at
`StackFrame!Contract`: locals become homes and the temps of the current block
temps once the layout is done, `nextLocalOffset` the roof, and the end of the
frame the bottom.  It needs `IInv` before and after a step: the last step of the
layout must map to `LayOut` with all homes apart, an allocation to `Take` with
the new temp apart from the others.  `FrameContractProofs` proves once, for
every implementation, that the contract is enough: nothing is handed out twice,
and nothing below the bottom, with the contract's own property as the inductive
invariant strengthened by the type of areas.  What the contract does not promise
is that temps stay below the roof; `frame_extension` shows why it cannot.

`RuntimeProofs` proves that the four routines compute what they should for every
even `Base` from 4 on, the real 65536 included, every `Radix` and every length of
the buffer: quotient and remainder, product, decimal digits, and that itoa stays
in its buffer.  The theorems assume `CallsSuit` and `BufferSuffices`: the operands
are those the routines are right for (`Suits`, the operands of the run, for which
`MCRuntime` evaluates both), and the buffer holds the digits of every number and a
sign.  What `Suits` leaves out goes wrong, as `MCLongDivision` and `MCLongProduct`
show.  The inductive invariant says of each loop

- *align*: `num2` is the divisor times a power of two, and `original` the divisor;
- *divide*: `num1 + result * (2 * num2)` is the dividend and `num1 < 2 * num2`
  (`PartialQuotients`), which at the last pass is the definition of the quotient;
- *multiply*: `result + num1 * num2` is the product of the magnitudes, as long as
  `num1` has not left its pair of words;
- *digits*: the text behind `position`, read as a number, and what is left times
  its weight make up the number, which bounds the number of passes by the buffer;

and the lemmas above it say what shifting, negating, adding with carry,
subtracting with borrow and comparing two words means for the number they stand
for.

`CallFrameProofs` proves every property of the run `calls` but liveness, for any
stack, depth and set of calls, under `CallsAgree` (what the caller pushes is what
the callee looks for, the condition under which the two sides mean the same) and
`StackSuffices` (there is room for `MaxDepth` frames); `MCCallFrame` evaluates
both for the calls of the run.  Its invariant keeps the active functions' frames
in order, each with its saved words, its arguments and its cells in place and
ending where the next one begins: that a frame is intact follows only if `sp` is
known never to rise above the bottom of the running function.

`SystemCallsProofs` proves the type, what OS/2 is asked for, what is returned and
that the caller finds its own, for every word size, program and answer of OS/2.
The invariant says at every step of every handler where the caller's words and
the arguments are on the stack, and for writev that the two scratch words count,
with carry, what OS/2 accepted so far, and how many buffers are left, which
`SyscallTypeOK` bounds by their number; it is inductive because a handler pushes
and pops by name.

`CompilationProofs` proves, for every set of well-formed functions, that the
compiler implements `StackFrame` (`CSpec => FrameUse`): analysis, layout and all
handlers use the frame only as its class means it to be used.  What is proved of
`StackFrame` for any user therefore holds of every function that is compiled,
the contract included (`CompilerKeepsContract`).
Beyond it, the estimate suffices (`EstimateSuffices`): the temps of no block
outgrow the space that was estimated before a line was generated, so that temps
stay clear of the locals (`TempsAvoidLocals`), which `frame_extension` refutes of
the class alone.
Assumed is `ProgramsFit`: what LLVM's verifier guarantees (operands have a width,
no instruction assigns to a parameter), 16 and 32 bits, and that the constants of
`StackFrame` cover the functions; `MCLowering` evaluates it for the functions of
the run (`EverydayFits`).  The inductive invariant is

    CompilationInv == IInv /\ SelectorInv /\ PlacesInv /\ ParamsInv /\ EstimateInv

- `SelectorInv`: the selector stays within the function, and waits for the layout;
- `PlacesInv`: a vreg without a slot is in one of the registers temps may use;
- `ParamsInv`: only parameters have a parameter's slot, so no result goes there;
- `EstimateInv`: the temp area has at least the estimated size, is empty when a
  block begins, and holds no more than what `analyzeBlocks` counts for the
  instructions lowered so far.

The last is what the estimate comes down to: each handler takes at most the bytes
that the analysis, which knows nothing of registers, counts for its opcode.

The second half of the module proves `CodeStaysInFrame` for every function: no
instruction that is emitted names a cell outside the function's own, the saved
registers, bp of the caller and the return address among them.  A handler that takes
a vreg of one word for two would touch the cell behind its slot, so this needs types:
`ProgramsTyped` says that vregs can be given widths such that operands have the width
their instruction takes, as LLVM's verifier demands, and that loads and stores go
through allocas, the only pointers of `Lowering`.  `MCLowering` evaluates it too.  The
inductive invariant is `OwnInv == CompilationInv /\ SlotsInv /\ CodeInv`:

- `RegisteredInv`: every alloca and every phi has a slot before code is emitted, so
  that no handler takes the fallback of `getPhysReg`, a register, for an address;
- `SizedInv`: the slot of a vreg is at least as wide as the vreg.  It holds because a
  vreg that is spilled gets 4 bytes whatever its type, and `icmp` alone takes 2;
- `EvenInv`, `TempsInv`: words are at even offsets; the temps of all blocks, not only
  of the current one, are between the bottom and the locals;
- `CodeInv`: what has been emitted keeps to the function's own cells, which stay the
  same once the layout is done.

Under it every operand of an instruction is in a register or in as many cells of the
function as it has words (`OperandFits`), and every handler has a lemma: its pieces of
code, put together, name such places only.  `OwnInv` was checked by TLC on the
functions of the run before it was proved.

`PointersProofs` proves all four properties of the run `pointers`, for every list
of globals and allocas, every type, every index and every number of instructions.
The hypothesis is `ProgramSuits`, which `MCPointers` evaluates for the run, and
which says where the five computations of a size agree: a type nests no deeper than
a scalar in an array or a structure, a structure is the last global, allocas are
scalars or arrays of integers, and the objects are within their segments.  What it
excludes goes wrong (see Runs).  `LoadsRight` needs also that no word is loaded
through a far pointer, which `far_word` refutes.  The argument has three parts:

- sizes: `TypeSizeBytes`, `ElemSize` and the shift of an index equal the size in the
  IR; the bytes of globals and allocas are at least that size;
- layout: sums of sizes ascend, so objects do not overlap (`ObjectsApart`), and
  neither do two scalars in one object (`ElementsApart`);
- steps: `PInv == ValuesInv /\ SlotsInv /\ SelectorsInv /\ ObjectsInv /\ StoredInv`.

The properties are not inductive by themselves.  `ValuesInv` adds that a pointer is
to an *element* of its object, which keeps offsets within the segment (no carry) and
stores from cutting an element; `StoredInv` that a pointer in an object is there with
all its four bytes, so that a load of it finds the words of the pointer.  The
invariant was checked by TLC on the instance of the run before it was proved.

Induction over data is done through sets: `NaturalSets` proves, from the order of
the natural numbers, that a set with 0 and with the successor of each member has
them all, and the proofs about sums of sizes, powers and shifts use it on the set of
numbers for which the lemma holds.  (The induction theorems of the library take
operators.)

What stays with TLC: liveness (`Terminates`, `CallsReturn`, `Finishes`,
`SyscallsAnswered`), which is out of the provers' reach; the properties of
`Execution` that compare compiled code with the IR (`ResultsMatch`, `StoresMatch`,
`BranchesMatch`, `PhisMatch`, `ReturnMatches`) and the type of the running machine
(`LoweringTypeOK`), which would need the correctness of every handler on every
program, on the machine.  Sizes of types are recursive functions
over the set `Types`; that the recursion has a solution is proved for types as flat as
`ProgramSuits` says (`IrSizesDefined`), not for types nested to any depth.

## Left out of the modelled parts

- `StackFrame`: `freeReg`, `allocStack`, `emitStore32` (never called),
  `maxTempReached`, `savedRegsSize` and the SS-derived flag (written, and read
  only by far-pointer code); `is32bit` is derived as "the slot has 4 bytes".
- `FunctionAnalysis`: calls, GEPs, i8 and i64 values.
- `Lowering`: calls, globals, GEPs and far pointers (which have modules of their
  own), FPU operations, struct values, pointer conversions, i8 and i64.  Constant conditions of branches.  The second
  jump to the first target that `lowerCondBrTerm` emits behind an unused label.
  The epilogue is part of `Retf`.
- `Runtime`: where itoa finds its arguments on the stack and stores the start
  and the length of the text; a digit stands for its character.

- `CallFrame`: memset (like memcpy), aliases, inline assembly, and the places of
  results beyond one temp; a global is reached through its label.
- `SystemCalls`: the stubs of `llvm_stubs.asm`, which return constants or jump on.
- `Pointers`: which register holds a 16-bit result, and how long (`Lowering` has
  that); the names of globals; values of globals.
- `FpuOps`: arithmetic of the 80287.  `NasmSafe`, `CodeGen` and `IrVisitor` beyond
  sizes and types: text.  `antlr/` is generated and by far the larger part of the
  source lines (the parser alone has 34,000); nothing there is this program's own.

## Plan

1. Core: `StackFrame`, `FunctionAnalysis`, `Machine`, `Lowering`, `Execution` and
   the proofs about `StackFrame` (done).
2. `Runtime` on its own and under `Execution` (done).
3. `FrameContract` and the proof that `StackFrame` implements it (done).
4. `CallFrame`, `SystemCalls`, `Pointers` (done).
5. 64-bit shifts, pointer conversions and struct values in `Lowering`.
6. Parallel assignment of phis, and sequential copies as its implementation when
   no phi feeds another of its block.
7. Proofs: `CallFrame`, `SystemCalls`, `Runtime` with its word arithmetic and loop
   invariants, that the compiler implements `StackFrame` for every program, and
   `Pointers`, `CodeStaysInFrame` (done); the phi copies.
