----------------------------- MODULE CallFrame -----------------------------
(***************************************************************************)
(* Calls between generated functions: lowerCall pushes the arguments,      *)
(* calls, cleans the stack up and keeps the result; the prologue and the   *)
(* epilogue build and drop the frame; the callee looks for its parameters  *)
(* where FunctionAnalysis and computeLayout say.  Caller and callee are    *)
(* compiled apart and agree on nothing but types, so the sizes pushed, the *)
(* sizes cleaned up and the sizes expected are computed three times.       *)
(*                                                                         *)
(* A behaviour is one run of a program that makes some of the Calls, with  *)
(* the stack as memory.  A word is a value no code looks into: what it     *)
(* stands for, and two numbers.                                            *)
(***************************************************************************)
EXTENDS Integers, Sequences

CONSTANTS
  Calls,      (* the calls a function may contain, see Call below           *)
  Top,        (* the first address above the stack                          *)
  MaxDepth,   (* bound on the functions active at once                      *)
  MaxCalls    (* bound on the calls of a run                                *)

Widths == {0, 8, 16, 32}   \* of a parameter; a floating-point type has none
\* Where the value of an argument is; a pointer is in a slot, like other values.
Sources == {"const", "float", "global", "alloca", "pointer", "slot", "ax"}

\* params are the widths of the callee's own parameters, res that of its result
\* (0: void), by how the callee is named in the call.
Call == [params : Seq(Widths), args : Seq(Sources), res : {0, 8, 16, 32},
         by : {"name", "pointer", "memcpy"}]

ASSUME CallsAssumption == Calls \subseteq Call
ASSUME BoundsAssumption == Top \in Nat /\ MaxDepth \in Nat /\ MaxCalls \in Nat

\* The sums of the first n sizes.
Sums(sizes) ==
  LET sum[n \in 0 .. Len(sizes)] == IF n = 0 THEN 0 ELSE sum[n - 1] + sizes[n] IN sum

-----------------------------------------------------------------------------
(* What the caller assumes *)

IsPointer(arg) == arg \in {"global", "alloca", "pointer"}

\* is32 of lowerCall; an argument without a declared parameter goes by the result.
Is32(call, i) ==
  \/ call.by = "memcpy"
  \/ call.by = "name" /\ i <= Len(call.params) /\ call.params[i] = 32
  \/ call.by = "name" /\ i > Len(call.params) /\ call.res \in {0, 32}
  \/ call.by = "pointer" /\ call.res = 32

BytesPushed(call, i) ==
  IF \/ Is32(call, i) /\ call.args[i] # "float"
     \/ call.args[i] \in {"alloca", "pointer"}
    THEN 4 ELSE 2

BytesCleaned(call, i) == IF IsPointer(call.args[i]) \/ Is32(call, i) THEN 4 ELSE 2

StackBytes(call) ==
  Sums([i \in 1 .. Len(call.args) |-> BytesCleaned(call, i)])[Len(call.args)]

-----------------------------------------------------------------------------
(* What the callee assumes *)

FirstParam == 6     \* above the saved bp, IP and CS

NoReg == "none"
ParamReg(params, k) ==
  IF k <= 3 /\ k <= Len(params) /\ params[k] = 16 THEN <<"bx", "si", "di">>[k] ELSE NoReg

\* The rest of a variable argument list consists of 32-bit values.
ParamBytes(params, k) == IF k > Len(params) \/ params[k] = 32 THEN 4 ELSE 2

\* What is in a register takes no place.
ParamOffset(params, k) ==
  FirstParam + Sums([j \in 1 .. k - 1 |-> IF ParamReg(params, j) = NoReg
                                            THEN ParamBytes(params, j) ELSE 0])[k - 1]

-----------------------------------------------------------------------------
(* The stack *)

VARIABLES
  mem,        \* the words of the stack, by their even addresses
  sp, bp,
  reg,        \* the other registers
  step,       \* what the innermost function does next
  acts,       \* auxiliary: the active functions, innermost last
  made,       \* auxiliary: the calls made so far
  returned    \* auxiliary: the two words the last function returned

vars == <<mem, sp, bp, reg, step, acts, made, returned>>

SavedRegs == 6
\* Seeded faults: a local of one byte is not rounded up; the prologue is emitted
\* before the frame is laid out.
FrameSizePacked == 7
FrameSizeEarly == 0
FrameSize == 8
Local == -10        \* of every function: a local of two words at bp-10,
Temp == -14         \* and two words of temps at bp-14
FrameOffsets == {Local, Local + 2, Temp, Temp + 2}
Addresses == {a \in 0 .. Top - 2 : a % 2 = 0}

Regs == {"ax", "bx", "cx", "dx", "si", "di"}
Kinds == Regs \cup {"const", "float", "label", "address", "own", "result", "target",
                    "ip", "cs", "ds", "ss"}
Words == Kinds \X Int \X Int
Word(what, m, n) == <<what, m, n>>
Address(a) == Word("address", a, 0)
Number(w) == w[2]
Segment(s) == Word(s, 0, 0)
Zero == Word("const", 0, 0)

Depth == Len(acts)
Base(i) == acts[i].entry - 2          \* the bp of an active function
Now == acts[Depth].now                \* the call it is making

\* Seeded fault: the high word is pushed last.
PushPairSwapped(lo, hi) ==
  /\ mem' = [mem EXCEPT ![sp - 2] = lo, ![sp - 4] = hi]
  /\ sp' = sp - 4

PushPair(lo, hi) ==
  /\ mem' = [mem EXCEPT ![sp - 2] = hi, ![sp - 4] = lo]
  /\ sp' = sp - 4

PushWord(w) ==
  /\ mem' = [mem EXCEPT ![sp - 2] = w]
  /\ sp' = sp - 2

\* The words the code takes for an argument when its local holds these.
WordsOf(arg, i, local) ==
  CASE arg = "const"  -> <<Word("const", i, 0), Word("const", i, 1)>>
    [] arg = "float"  -> <<Zero, Zero>>
    [] arg = "global" -> <<Word("label", i, 0), Segment("ds")>>
    [] arg = "alloca" -> <<Address(bp + Local), Segment("ss")>>
    [] arg \in {"slot", "pointer"} -> local
    [] arg = "ax"     -> <<reg["ax"], reg["dx"]>>

\* The words it stands for in the program, before anything is pushed.
Meaning(arg, i) ==
  IF arg = "float" THEN <<Word("float", i, 0), Word("float", i, 1)>>
  ELSE WordsOf(arg, i, <<acts[Depth].cells[Local], acts[Depth].cells[Local + 2]>>)

\* ..start has called main.
Main == [params |-> <<>>, args |-> <<>>, res |-> 32, by |-> "name"]

NoCall == [call |-> Main, next |-> 0, ip |-> 0, args |-> <<>>]

\* A function that starts: where its return address is, what it finds, the call
\* it is making, what it has put into its frame.
Active(call, args, entry, found) ==
  [call |-> call, args |-> args, entry |-> entry, found |-> found, now |-> NoCall,
   cells |-> [o \in {} |-> Zero]]

Init ==
  /\ mem = [a \in Addresses |->
              CASE a = Top - 2 -> Word("cs", 0, 0)
                [] a = Top - 4 -> Word("ip", 0, 0)
                [] OTHER       -> Zero]
  /\ sp = Top - 4 /\ bp = Top
  /\ reg = [r \in Regs |-> Word(r, 0, 0)]
  /\ step = "enter"
  /\ acts = <<Active(Main, <<>>, Top - 4, [reg |-> reg, bp |-> bp])>>
  /\ made = 0
  /\ returned = <<Zero, Zero>>

-----------------------------------------------------------------------------
(* The actions *)

\* Seeded fault: si is saved twice, and di is not.
PrologueWithoutDi ==
  /\ step = "enter"
  /\ mem' = [mem EXCEPT ![sp - 2] = Address(bp), ![sp - 4] = reg["bx"],
                        ![sp - 6] = reg["si"], ![sp - 8] = reg["si"]]
  /\ bp' = sp - 2
  /\ sp' = bp' - SavedRegs - FrameSize
  /\ step' = "work"
  /\ UNCHANGED <<reg, acts, made, returned>>

Prologue ==
  /\ step = "enter"
  /\ mem' = [mem EXCEPT ![sp - 2] = Address(bp), ![sp - 4] = reg["bx"],
                        ![sp - 6] = reg["si"], ![sp - 8] = reg["di"]]
  /\ bp' = sp - 2
  /\ sp' = bp' - SavedRegs - FrameSize
  /\ step' = "work"
  /\ UNCHANGED <<reg, acts, made, returned>>

\* The code of the other handlers: it leaves values in the frame and in registers.
Work ==
  /\ step = "work"
  /\ mem' = [a \in DOMAIN mem |->
               IF a - bp \in FrameOffsets THEN Word("own", made, a - bp) ELSE mem[a]]
  /\ acts' = [acts EXCEPT ![Depth].cells = [o \in FrameOffsets |-> Word("own", made, o)]]
  /\ reg' = [r \in Regs |-> Word(r, made, 0)]
  /\ step' = "body"
  /\ UNCHANGED <<sp, bp, made, returned>>

BeginCall(call) ==
  /\ step = "body"
  /\ Depth < MaxDepth /\ made < MaxCalls
  /\ made' = made + 1
  /\ acts' = [acts EXCEPT ![Depth].now =
                [call |-> call, next |-> Len(call.args),
                 ip |-> 0, args |-> [i \in DOMAIN call.args |-> Meaning(call.args[i], i)]]]
  /\ step' = "push"
  /\ UNCHANGED <<mem, sp, bp, reg, returned>>

\* The next argument, from right to left.  What is neither in memory nor in a
\* register goes through ax, and so does a word from memory.
GoesThroughAx(arg, wide) ==
  \/ arg \in {"const", "alloca"}
  \/ arg = "global" /\ wide
  \/ arg = "slot" /\ ~wide

PushArgument ==
  LET arg == Now.call.args[Now.next]
      words == WordsOf(arg, Now.next, <<mem[bp + Local], mem[bp + Local + 2]>>)
      wide == BytesPushed(Now.call, Now.next) = 4
  IN /\ step = "push" /\ Now.next > 0
     /\ IF wide THEN PushPair(words[1], words[2]) ELSE PushWord(words[1])
     /\ reg' = IF GoesThroughAx(arg, wide) THEN [reg EXCEPT !["ax"] = words[1]] ELSE reg
     /\ acts' = [acts EXCEPT ![Depth].now.next = @ - 1]
     /\ UNCHANGED <<bp, step, made, returned>>

\* The return address tells the calls of a run apart.
ReturnAddress == <<Word("ip", made, 0), Word("cs", 0, 0)>>

\* `call far` pushes the return address for itself, a call through a pointer with
\* the help of a trampoline, for which it takes bx, ax and dx.
CallByName ==
  /\ step = "push" /\ Now.next = 0 /\ Now.call.by # "pointer"
  /\ PushPair(ReturnAddress[1], ReturnAddress[2])
  /\ acts' = Append([acts EXCEPT ![Depth].now.ip = made],
                    Active(Now.call, Now.args, sp - 4, [reg |-> reg, bp |-> bp]))
  /\ step' = "enter"
  /\ UNCHANGED <<bp, reg, made, returned>>

CallByPointer ==
  LET target == <<Word("target", 0, 0), Word("cs", 1, 0)>>
      loaded == [reg EXCEPT !["bx"] = Address(bp + Local), !["ax"] = target[1],
                            !["dx"] = target[2]]
  IN /\ step = "push" /\ Now.next = 0 /\ Now.call.by = "pointer"
     /\ mem' = [mem EXCEPT ![sp - 2] = ReturnAddress[2], ![sp - 4] = ReturnAddress[1],
                           ![sp - 6] = target[2], ![sp - 8] = target[1]]
     /\ sp' = sp - 4
     /\ reg' = loaded
     /\ acts' = Append([acts EXCEPT ![Depth].now.ip = made],
                       Active(Now.call, Now.args, sp - 4, [reg |-> loaded, bp |-> bp]))
     /\ step' = "enter"
     /\ UNCHANGED <<bp, made, returned>>

\* Seeded fault: the epilogue forgets that three registers are saved.
EpilogueTopLow == bp - FrameSize

\* `lea sp, [bp-6]`: up to the saved registers, wherever sp is.
EpilogueTop == bp - SavedRegs

\* lowerRetTerm: the result, the epilogue and retf.  Control goes where the stack
\* says: on in the caller, if that is its return address.
Return ==
  LET top == EpilogueTop
      value == <<Word("result", made, 0), Word("result", made, 1)>>
      res == acts[Depth].call.res
  IN /\ step = "body"
     /\ bp' = Number(mem[top + 6])
     /\ sp' = top + 12
     /\ reg' = [reg EXCEPT !["di"] = mem[top], !["si"] = mem[top + 2], !["bx"] = mem[top + 4],
                           !["ax"] = IF res = 0 THEN @ ELSE value[1],
                           !["dx"] = IF res = 32 THEN value[2] ELSE @]
     /\ returned' = value
     /\ acts' = SubSeq(acts, 1, Depth - 1)
     /\ step' = CASE Depth = 1 /\ mem[top + 8] = Word("ip", 0, 0) -> "exit"
                  [] Depth > 1 /\ mem[top + 8] = Word("ip", acts[Depth - 1].now.ip, 0) -> "clean"
                  [] OTHER -> "astray"
     /\ UNCHANGED <<mem, made>>

\* Seeded fault: only a call without a result is cleaned up behind.
CleanUpUnlessKept ==
  /\ step = "clean"
  /\ sp' = IF Now.call.res = 0 THEN sp + StackBytes(Now.call) ELSE sp
  /\ step' = IF Now.call.res = 0 THEN "body" ELSE "keep"
  /\ UNCHANGED <<mem, bp, reg, acts, made, returned>>

CleanUp ==
  /\ step = "clean"
  /\ sp' = sp + StackBytes(Now.call)
  /\ step' = IF Now.call.res = 0 THEN "body" ELSE "keep"
  /\ UNCHANGED <<mem, bp, reg, acts, made, returned>>

KeepResult ==
  /\ step = "keep"
  /\ mem' = IF Now.call.res = 32
              THEN [mem EXCEPT ![bp + Temp] = reg["ax"], ![bp + Temp + 2] = reg["dx"]]
              ELSE [mem EXCEPT ![bp + Temp] = reg["ax"]]
  /\ acts' = IF Now.call.res = 32
               THEN [acts EXCEPT ![Depth].cells[Temp] = returned[1],
                                 ![Depth].cells[Temp + 2] = returned[2]]
               ELSE [acts EXCEPT ![Depth].cells[Temp] = returned[1]]
  /\ step' = "body"
  /\ UNCHANGED <<sp, bp, reg, made, returned>>

\* ..start passes the result of main to DOSEXIT, which does not return.
Exit ==
  /\ step = "exit"
  /\ PushPair(Zero, reg["ax"])
  /\ step' = "exited"
  /\ UNCHANGED <<bp, reg, acts, made, returned>>

\* The process has ended, or runs code that is none of its own.
Stopped == step \in {"exited", "astray"} /\ UNCHANGED vars

Next ==
  \/ Prologue \/ Work
  \/ \E call \in Calls : BeginCall(call)
  \/ PushArgument \/ CallByName \/ CallByPointer
  \/ Return \/ CleanUp \/ KeepResult
  \/ Exit \/ Stopped

Spec == Init /\ [][Next]_vars
FairSpec == Spec /\ WF_vars(Next)

\* llvm.va_start on the local, inline: its far pointer and that of bp+6 are pushed
\* as arguments and popped, the latter first, as if it had been pushed last.  The
\* store goes to whatever cell has the number of the stack's selector as address.
VaStart ==
  LET list == Address(bp + Local)
      first == acts[Depth].entry + 4
      params == acts[Depth].call.params
      fixed == Sums([k \in 1 .. Len(params) |-> ParamBytes(params, k)])[Len(params)]
      pushed == [mem EXCEPT ![sp - 2] = Segment("ss"), ![sp - 4] = Address(bp + FirstParam),
                            ![sp - 6] = Segment("ss"), ![sp - 8] = list]
      sum == Word("ss", 4, 0)
  IN /\ step = "body"
     /\ reg' = [reg EXCEPT !["dx"] = pushed[sp - 8], !["ax"] = sum,
                           !["cx"] = pushed[sp - 4], !["bx"] = pushed[sp - 2]]
     /\ \E a \in DOMAIN mem \ {Top - 2} :
          mem' = [pushed EXCEPT ![a] = sum, ![a + 2] = Segment("ss")]
     /\ acts' = [acts EXCEPT ![Depth].cells[Local] = Address(first + fixed),
                             ![Depth].cells[Local + 2] = Segment("ss")]
     /\ UNCHANGED <<sp, bp, step, made, returned>>

VaSpec == Init /\ [][Next \/ VaStart]_vars

-----------------------------------------------------------------------------
(* The programs and the stacks for which the code is right *)

\* Caller and callee mean the same sizes; no parameter is looked for in a register;
\* and no argument is in ax when another is pushed by way of it.
Agreed(call) ==
  /\ \A i \in 1 .. Len(call.args) :
       /\ BytesPushed(call, i) = BytesCleaned(call, i)
       /\ BytesPushed(call, i) = ParamBytes(call.params, i)
       /\ ParamReg(call.params, i) = NoReg
  /\ \A i, j \in 1 .. Len(call.args) : i < j /\ call.args[i] = "ax" =>
       ~GoesThroughAx(call.args[j], BytesPushed(call, j) = 4)
CallsAgree == \A call \in Calls : Agreed(call)

\* A stack with room for a frame and a call at every depth.
Suffices(room) ==
  /\ room >= 24 /\ 4 + MaxDepth * room <= Top
  /\ \A call \in Calls : StackBytes(call) + 24 <= room
StackSuffices == Top % 2 = 0 /\ MaxDepth >= 1 /\ \E room \in 0 .. Top : Suffices(room)

-----------------------------------------------------------------------------
(* Properties *)

Steps == {"enter", "work", "body", "push", "clean", "keep", "exit", "exited", "astray"}

\* A call being made, and an active function.
Made == [call : Calls \cup {Main}, next : Nat, ip : Nat, args : Seq(Words \X Words)]
Activations ==
  [call : Calls \cup {Main}, args : Seq(Words \X Words), entry : Addresses,
   found : [reg : [Regs -> Words], bp : Addresses \cup {Top}], now : Made,
   cells : [{} -> Words] \cup [FrameOffsets -> Words]]

\* The registers and the memory hold words, and sp and bp are even addresses of the
\* stack segment or its top, whatever callers and callees push and take off.
CallTypeOK ==
  /\ mem \in [Addresses -> Words]
  /\ sp \in Addresses \cup {Top} /\ bp \in Addresses \cup {Top}
  /\ reg \in [Regs -> Words]
  /\ step \in Steps
  /\ acts \in Seq(Activations) /\ Depth <= MaxDepth
  /\ made \in 0 .. MaxCalls
  /\ returned \in Words \X Words

\* lowerCall, analyzeParams, computeLayout: every active function finds the words
\* of each of its arguments where it looks for that parameter, as long as it runs,
\* whatever was called with in between; a floating-point constant is not passed.
ParamsFound ==
  \A i \in 1 .. Depth :
    LET call == acts[i].call IN
    \A k \in {k \in DOMAIN call.args : call.args[k] # "float"} :
      IF ParamReg(call.params, k) = NoReg
        THEN LET a == Base(i) + ParamOffset(call.params, k) IN
             /\ mem[a] = acts[i].args[k][1]
             /\ ParamBytes(call.params, k) = 4 => mem[a + 2] = acts[i].args[k][2]
        ELSE i = Depth /\ step = "enter" =>
               reg[ParamReg(call.params, k)] = acts[i].args[k][1]

\* No push, call or return ever writes into the frame of an active function: its
\* locals and the results it kept are still there when it goes on.
FrameIntact ==
  \A i \in 1 .. Depth : \A o \in DOMAIN acts[i].cells :
    mem[Base(i) + o] = acts[i].cells[o]

\* "Caller cleans up stack": between two calls sp is at the bottom of the frame,
\* so that the next call neither overwrites the frame nor leaves a gap.
Balanced ==
  step = "body" => bp = Base(Depth) /\ sp = bp - SavedRegs - FrameSize

\* A function returns with bx, si, di and bp as it found them, and with nothing
\* of its own on the stack, whatever it and the functions it called did to them.
RegistersKept ==
  [][Depth' < Depth =>
       LET found == acts[Depth].found IN
       /\ bp' = found.bp /\ sp' = acts[Depth].entry + 4
       /\ \A r \in {"bx", "si", "di"} : reg'[r] = found.reg[r]]_vars

\* Every return address is found again, in the end that of ..start.
Finishes == <>(step = "exited")
=============================================================================
