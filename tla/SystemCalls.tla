---------------------------- MODULE SystemCalls ----------------------------
(***************************************************************************)
(* The system call layer: __os2_syscall0 to __os2_syscall6 look at the     *)
(* number and jump to a handler, which translates the C arguments on the   *)
(* stack into a call of OS/2 and its answer into a 32-bit result; printnum *)
(* does the same for a number printed by itoa.                             *)
(*                                                                         *)
(* C arguments are pushed right to left, high word first, and the caller   *)
(* takes them off.  OS/2 wants its arguments left to right, a pointer      *)
(* selector first, takes them off itself, and reports in two ways: an      *)
(* error in ax, a number of bytes through a pointer.                       *)
(*                                                                         *)
(* The stack is a sequence, its top last.  A word is a kind and a number;  *)
(* only counts are calculated with, modulo W.                              *)
(***************************************************************************)
EXTENDS Integers, Sequences

CONSTANTS
  W,          (* the number of values of a word                              *)
  Counts,     (* the numbers of bytes a call may ask for or OS/2 accept      *)
  Names,      (* what words of the program stand for that are not numbers    *)
  Calls,      (* the calls a program may make, see SystemCall below          *)
  MaxCalls    (* bound on the calls of a run                                 *)

ASSUME WordAssumption == W \in Nat /\ W % 2 = 0 /\ W >= 76   \* -38 is a number
ASSUME CountsAssumption == Counts \subseteq 0 .. W - 1
ASSUME MaxCallsAssumption == MaxCalls \in Nat

Regs == {"ax", "bx", "cx", "dx", "si", "di"}
Cells == {"wlen", "totalHi", "start", "len", "pnWlen"}

Word(kind, n) == <<kind, n>>
Kinds == Names \cup {"number", "error", "itoa", "nr", "cs", "ip", "bp", "ds"} \cup Regs \cup Cells
Words == {w \in Kinds \X Int : w[1] = "number" => w[2] \in 0 .. W - 1}
Number(n) == Word("number", n % W)
Value(w) == w[2]
Zero == Number(0)
Ds == Word("ds", 0)

\* entry is n of __os2_syscalln, or -1 for printnum; nr the system call; args the
\* longs, low word first; list the iovecs at the address args[2] in the data segment.
Iovecs == [off : Words, sel : Words, len : {"number"} \X (0 .. W - 1)]
CallRecords == [entry : -1 .. 6, nr : Nat, args : Seq(Words \X Words), list : Seq(Iovecs)]

\* A program passes what the entry takes, an exit code to exit, and to writev the
\* address of its iovecs, which are in one segment, and their number.
SystemCall(c) ==
  /\ c \in CallRecords
  /\ Len(c.args) = IF c.entry = -1 THEN 3 ELSE c.entry
  /\ c.nr = 6 => c.entry # 0
  /\ c.nr = 999 /\ c.entry >= 3 =>
       /\ 8 * Len(c.list) <= W
       /\ Value(c.args[2][1]) = 0
       /\ c.args[3][1] = Number(Len(c.list))
ASSUME CallsAssumption == \A c \in Calls : SystemCall(c)

VARIABLES
  stack, bp, reg,  \* bp is an index of the stack
  cell,            \* the words of the data segment the layer keeps
  step, handler,   \* where control is, and for which system call
  call,            \* auxiliary: the call being made
  found,           \* auxiliary: the registers and the stack the call found
  served,          \* auxiliary: the answers of OS/2 to it, the bytes it accepted
                   \* and whether it failed
  made             \* auxiliary: the calls made

vars == <<stack, bp, reg, cell, step, handler, call, found, served, made>>

Top(k) == stack[Len(stack) - k]              \* the k-th word below the top
Popped(n) == SubSeq(stack, 1, Len(stack) - n)
Low(k) == stack[bp - 3 - 2 * k]              \* [bp+6+4k], argument k; 0 is the number
High(k) == stack[bp - 4 - 2 * k]             \* [bp+8+4k]

Unserved == [answers |-> 0, bytes |-> 0, failed |-> FALSE]
NoCall == [entry |-> 0, nr |-> 0, args |-> <<>>, list |-> <<>>]

Init ==
  /\ stack = <<>> /\ bp = 0
  /\ reg = [r \in Regs |-> Word(r, 0)]
  /\ cell = [c \in Cells |-> Zero]
  /\ step = "user" /\ handler = "none"
  /\ call = NoCall
  /\ found = [reg |-> reg, bp |-> bp, stack |-> stack]
  /\ served = Unserved /\ made = 0

-----------------------------------------------------------------------------
(* The call and the dispatch *)

\* Longs as they are pushed: the last one first, and its high word first.
Pushed(longs) ==
  [i \in 1 .. 2 * Len(longs) |->
     longs[Len(longs) - (i - 1) \div 2][IF i % 2 = 1 THEN 2 ELSE 1]]

\* A system call has its number in front of its arguments.
Passed(c) ==
  Pushed(IF c.entry = -1 THEN c.args ELSE <<<<Word("nr", c.nr), Zero>>>> \o c.args)

\* The return address: far, but near for printnum.
ReturnAddress(c) ==
  IF c.entry = -1 THEN <<Word("ip", 0)>> ELSE <<Word("cs", 0), Word("ip", 0)>>

Call(c) ==
  /\ step = "user" /\ made < MaxCalls
  /\ stack' = stack \o Passed(c) \o ReturnAddress(c)
  /\ step' = "enter"
  /\ call' = c /\ made' = made + 1
  /\ found' = [reg |-> reg, bp |-> bp, stack |-> stack]
  /\ served' = Unserved
  /\ UNCHANGED <<bp, reg, cell, handler>>

HandlerOf(nr) ==
  CASE nr = 1   -> "read"
    [] nr = 2   -> "write"
    [] nr = 4   -> "close"
    [] nr = 6   -> "exit"
    [] nr = 7   -> "getpid"
    [] nr = 24  -> "ioctl"
    [] nr = 999 -> "writev"
    [] OTHER    -> "none"

\* The system calls each entry compares its number with.
Dispatched(entry) ==
  CASE entry \in {0, 1} -> {"exit"}
    [] entry = 2        -> {"exit", "close", "getpid"}
    [] entry = 3        -> {"write", "read", "ioctl", "writev"}
    [] OTHER            -> {"write", "read", "ioctl", "writev", "exit", "close", "getpid"}

\* push bp; mov bp, sp; and the jump to the handler.
Dispatch ==
  /\ step = "enter"
  /\ stack' = Append(stack, Word("bp", bp))
  /\ bp' = Len(stack')
  /\ handler' = IF call.entry = -1 THEN "printnum"
                ELSE IF HandlerOf(call.nr) \in Dispatched(call.entry) THEN HandlerOf(call.nr)
                ELSE "none"
  /\ step' = "handle"
  /\ UNCHANGED <<reg, cell, call, found, served, made>>

\* cwd
SignOf(w) == IF Value(w) >= W \div 2 THEN Number(-1) ELSE Zero

\* The registers saved are popped, then bp; and the return.
LeaveWith(saved, lo, hi) ==
  /\ reg' = [r \in Regs |->
               IF \E i \in DOMAIN saved : saved[i] = r
                 THEN Top((CHOOSE i \in DOMAIN saved : saved[i] = r) - 1)
               ELSE IF r = "ax" THEN lo ELSE IF r = "dx" THEN hi ELSE reg[r]]
  /\ bp' = Value(Top(Len(saved)))
  /\ stack' = Popped(Len(saved) + IF handler = "printnum" THEN 2 ELSE 3)
  /\ step' = "return"
  /\ UNCHANGED <<cell, handler, call, found, served, made>>

\* -ENOSYS for a number that the entry does not know; stubs that return 0.
Answer ==
  /\ step = "handle" /\ handler \in {"none", "ioctl", "getpid"}
  /\ LET ax == IF handler = "none" THEN Number(-38) ELSE Zero
     IN LeaveWith(<<>>, ax, SignOf(ax))

\* add sp: the caller takes its arguments off.
Resume ==
  /\ step = "return"
  /\ stack' = Popped(2 * Len(call.args) + IF call.entry = -1 THEN 0 ELSE 2)
  /\ step' = "user"
  /\ UNCHANGED <<bp, reg, cell, handler, call, found, served, made>>

-----------------------------------------------------------------------------
(* OS/2 *)

CallDos(pushed, regs) ==
  /\ stack' = stack \o pushed
  /\ reg' = regs
  /\ step' = "dos"
  /\ UNCHANGED <<bp, cell, handler, call, found, served, made>>

\* OS/2 keeps all registers but ax, and takes n words off the stack.
DosReturns(n, answer) ==
  /\ stack' = Popped(n)
  /\ reg' = [reg EXCEPT !["ax"] = answer]
  /\ step' = "back"
  /\ UNCHANGED <<bp, handler, call, found, made>>

\* The answers beyond the last buffer are not recorded.
Record(bytes, failed) ==
  served' = IF served.answers > Len(call.list) THEN served
            ELSE [answers |-> served.answers + 1, bytes |-> served.bytes + bytes,
                  failed |-> served.failed \/ failed]

Places == [c \in {"wlen", "pnWlen"} |-> <<Ds, Word(c, 0)>>]
Error == Word("error", 0)

\* It accepts some of the bytes and says how many, or it fails and says nothing.
DosWrite ==
  /\ step = "dos" /\ handler \in {"write", "writev", "printnum"}
  /\ \/ \E n \in {n \in Counts : n <= Value(Top(2))}, c \in DOMAIN Places :
          /\ <<Top(1), Top(0)>> = Places[c]
          /\ cell' = [cell EXCEPT ![c] = Number(n)]
          /\ Record(n, FALSE)
          /\ DosReturns(6, Zero)
     \/ /\ Record(0, TRUE)
        /\ DosReturns(6, Error)
        /\ UNCHANGED cell

\* What it is asked to read into is no address, and it refuses.
DosRead ==
  /\ step = "dos" /\ handler = "read"
  /\ <<Top(1), Top(0)>> \notin {Places[c] : c \in DOMAIN Places}
  /\ Record(0, TRUE)
  /\ DosReturns(6, Error)
  /\ UNCHANGED cell

DosClose ==
  /\ step = "dos" /\ handler = "close"
  /\ \E answer \in {Zero, Number(6)} : DosReturns(1, answer)
  /\ UNCHANGED <<cell, served>>

DosExit ==
  /\ step = "dos" /\ handler = "exit"
  /\ step' = "ended"
  /\ UNCHANGED <<stack, bp, reg, cell, handler, call, found, served, made>>

-----------------------------------------------------------------------------
(* The handlers *)

\* Seeded fault: the selector and the offset of the buffer change places.
WriteArgsSwapped(hf, sel, off, count, place) == <<hf, off, sel, count>> \o place

\* hf, the far pointer to the buffer, the count, the far pointer to the count written.
WriteArgs(hf, sel, off, count, place) == <<hf, sel, off, count>> \o place

\* Seeded fault: what was pushed last is not popped first.
TransferReturnsInOrder ==
  /\ step = "back" /\ handler \in {"write", "read"}
  /\ LeaveWith(<<"si", "di">>, cell["wlen"], Zero)

\* syscall_write and syscall_read differ in the order of what they push.
Transfer ==
  LET hf == Low(1)  off == Low(2)  sel == High(2)  count == Low(3)
      loaded == [reg EXCEPT !["ax"] = hf, !["si"] = off, !["di"] = sel, !["cx"] = count]
  IN /\ step = "handle" /\ handler \in {"write", "read"}
     /\ CallDos(<<reg["si"], reg["di"]>> \o
                  (IF handler = "write" THEN WriteArgs(hf, sel, off, count, Places["wlen"])
                                        ELSE <<Zero, Ds, count, sel, off, hf>>), loaded)

TransferReturns ==
  /\ step = "back" /\ handler \in {"write", "read"}
  /\ LeaveWith(<<"di", "si">>, cell["wlen"], Zero)

BeginWritev ==
  /\ step = "handle" /\ handler = "writev"
  /\ stack' = stack \o <<reg["si"], reg["di"], reg["bx"], reg["cx"]>>
  /\ reg' = [reg EXCEPT !["bx"] = Low(1), !["si"] = Low(2), !["di"] = High(2),
                        !["cx"] = Low(3), !["dx"] = Zero]
  /\ cell' = [cell EXCEPT !["totalHi"] = Zero]
  /\ step' = "loop"
  /\ UNCHANGED <<bp, handler, call, found, served, made>>

\* The iovec at si in the data segment; what is behind the last one is empty.
Iovec ==
  LET i == Value(reg["si"]) \div 8 + 1
  IN IF i <= Len(call.list) THEN call.list[i] ELSE [off |-> Zero, sel |-> Zero, len |-> Zero]

WritevLoop ==
  /\ step = "loop" /\ Value(reg["cx"]) # 0
  /\ CallDos(<<reg["dx"], reg["cx"], reg["si"]>> \o
               WriteArgs(reg["bx"], Iovec.sel, Iovec.off, Iovec.len, Places["wlen"]),
             [reg EXCEPT !["ax"] = Iovec.off, !["dx"] = Iovec.sel, !["cx"] = Iovec.len])

\* Seeded fault: the carry out of the low word is lost.
WritevAddNoCarry ==
  LET sum == Value(Top(2)) + Value(cell["wlen"])
  IN /\ step = "back" /\ handler = "writev"
     /\ stack' = Popped(3)
     /\ reg' = [reg EXCEPT !["ax"] = cell["wlen"],
                           !["si"] = Word(Top(0)[1], (Value(Top(0)) + 8) % W),
                           !["cx"] = Number(Value(Top(1)) - 1),
                           !["dx"] = Number(sum)]
     /\ step' = "loop"
     /\ UNCHANGED <<bp, cell, handler, call, found, served, made>>

\* Seeded fault: the jump back stands before the step to the next buffer.
WritevAddAgain ==
  LET sum == Value(Top(2)) + Value(cell["wlen"])
      carry == IF sum >= W THEN 1 ELSE 0
  IN /\ step = "back" /\ handler = "writev"
     /\ stack' = Popped(3)
     /\ reg' = [reg EXCEPT !["ax"] = cell["wlen"],
                           !["si"] = Top(0),
                           !["cx"] = Top(1),
                           !["dx"] = Number(sum)]
     /\ cell' = [cell EXCEPT !["totalHi"] = Number(Value(@) + carry)]
     /\ step' = "loop"
     /\ UNCHANGED <<bp, handler, call, found, served, made>>

\* Seeded fault: cx and si are popped in the order in which they were pushed.
WritevAddPopsInOrder ==
  /\ step = "back" /\ handler = "writev"
  /\ stack' = Popped(3)
  /\ reg' = [reg EXCEPT !["ax"] = cell["wlen"],
                        !["si"] = Word(Top(1)[1], (Value(Top(1)) + 8) % W),
                        !["cx"] = Word(Top(0)[1], (Value(Top(0)) - 1) % W),
                        !["dx"] = Number(Value(Top(2)) + Value(cell["wlen"]))]
  /\ step' = "loop"
  /\ UNCHANGED <<bp, cell, handler, call, found, served, made>>

\* The bytes written are added to dx and the carry to _writev_total_hi.
WritevAdd ==
  LET sum == Value(Top(2)) + Value(cell["wlen"])
      carry == IF sum >= W THEN 1 ELSE 0
  IN /\ step = "back" /\ handler = "writev"
     /\ stack' = Popped(3)
     /\ reg' = [reg EXCEPT !["ax"] = cell["wlen"],
                           !["si"] = Word(Top(0)[1], (Value(Top(0)) + 8) % W),
                           !["cx"] = Number(Value(Top(1)) - 1),
                           !["dx"] = Number(sum)]
     /\ cell' = [cell EXCEPT !["totalHi"] = Number(Value(@) + carry)]
     /\ step' = "loop"
     /\ UNCHANGED <<bp, handler, call, found, served, made>>

WritevDone ==
  /\ step = "loop" /\ Value(reg["cx"]) = 0
  /\ LeaveWith(<<"cx", "bx", "di", "si">>, reg["dx"], cell["totalHi"])

\* syscall_close and syscall_exit: hf; the action 1, end the process, and the code.
Close ==
  /\ step = "handle" /\ handler = "close"
  /\ CallDos(<<Low(1)>>, [reg EXCEPT !["ax"] = Low(1)])

CloseReturns ==
  /\ step = "back" /\ handler = "close"
  /\ LeaveWith(<<>>, reg["ax"], SignOf(reg["ax"]))

ExitProcess ==
  /\ step = "handle" /\ handler = "exit"
  /\ CallDos(<<Number(1), Low(1)>>, [reg EXCEPT !["ax"] = Low(1)])

\* printnum: itoa writes where the digits start and how many they are, and takes
\* bp and the working registers; the digits go to the standard output.
PrintNum ==
  /\ step = "handle" /\ handler = "printnum"
  /\ \E n \in {n \in Counts : 0 < n /\ n < 12} :
       LET off == stack[bp - 2]
           start == Word(off[1], 11 - n)
       IN
       /\ stack' = stack \o <<reg["bx"], reg["si"], reg["di"]>> \o
                     WriteArgs(Number(1), Ds, start, Number(n), Places["pnWlen"])
       /\ reg' = [r \in Regs |-> IF r = "ax" THEN Number(n) ELSE Word("itoa", 0)]
       /\ bp' = Len(stack) + 13
       /\ cell' = [cell EXCEPT !["start"] = start, !["len"] = Number(n)]
       /\ step' = "dos"
       /\ UNCHANGED <<handler, call, found, served, made>>

PrintNumReturns ==
  /\ step = "back" /\ handler = "printnum"
  /\ LeaveWith(<<"di", "si", "bx">>, reg["ax"], reg["dx"])

Stopped == (step = "ended" \/ (step = "user" /\ made = MaxCalls)) /\ UNCHANGED vars

Next ==
  \/ \E c \in Calls : Call(c)
  \/ Dispatch \/ Answer \/ Resume
  \/ DosWrite \/ DosRead \/ DosClose \/ DosExit
  \/ Transfer \/ TransferReturns
  \/ BeginWritev \/ WritevLoop \/ WritevAdd \/ WritevDone
  \/ Close \/ CloseReturns \/ ExitProcess
  \/ PrintNum \/ PrintNumReturns
  \/ Stopped

Spec == Init /\ [][Next]_vars
FairSpec == Spec /\ WF_vars(Next)

-----------------------------------------------------------------------------
(* Properties *)

Steps == {"user", "enter", "handle", "loop", "dos", "back", "return", "ended"}

\* The stack, the registers and the cells hold words, what is calculated with holds
\* numbers of a word, and the loop of writev counts from the number of its buffers
\* down to zero, whatever is pushed and popped around the calls of OS/2.
SyscallTypeOK ==
  /\ stack \in Seq(Words) /\ bp \in Nat
  /\ reg \in [Regs -> Words]
  /\ step = "loop" => /\ reg["dx"] \in {"number"} \X (0 .. W - 1)
                      /\ reg["cx"] \in {"number"} \X (0 .. Len(call.list))
  /\ cell \in [Cells -> Words]
  /\ \A c \in {"wlen", "totalHi"} : cell[c] \in {"number"} \X (0 .. W - 1)
  /\ step \in Steps
  /\ call \in Calls \cup {NoCall}
  /\ served \in [answers : Nat, bytes : Nat, failed : BOOLEAN]
  /\ made \in 0 .. MaxCalls

\* What OS/2 should be asked for, in its order, whatever the entry.
Request ==
  LET hf == call.args[1][1]
      len == Places[IF handler = "printnum" THEN "pnWlen" ELSE "wlen"]
      iovec == call.list[served.answers + 1]
  IN CASE handler \in {"write", "read"} ->
            <<hf, call.args[2][2], call.args[2][1], call.args[3][1]>> \o len
       [] handler = "writev" -> <<hf, iovec.sel, iovec.off, iovec.len>> \o len
       [] handler = "printnum" -> <<Number(1), Ds, cell["start"], cell["len"]>> \o len
       [] handler = "close" -> <<hf>>
       [] handler = "exit" -> <<Number(1), hf>>

Asked(n) == SubSeq(stack, Len(stack) - n + 1, Len(stack))

\* OS/2 is asked for what the program asked for: through every entry, whatever the
\* number of longs, and for each buffer of a writev, after the calls for the others.
DosGetsRequest ==
  step = "dos" /\ handler # "read" => Asked(Len(Request)) = Request

Result == Value(reg["ax"]) + W * Value(reg["dx"])

\* write and writev return the bytes OS/2 accepted, even if there are more than a
\* word can count or an earlier call failed, provided that no part of this one did;
\* and writev goes on to its last buffer in any case.
ResultsRight ==
  step = "return" /\ handler \in {"write", "writev"} =>
    /\ ~served.failed => Result = served.bytes
    /\ served.answers = IF handler = "write" THEN 1 ELSE Len(call.list)

\* The caller goes on with its stack, its frame and its registers as they were,
\* whoever took which arguments off, and though itoa keeps none of them.
CallerKept ==
  [][step = "return" /\ step' = "user" =>
       /\ stack' = found.stack /\ bp' = found.bp
       /\ \A r \in {"bx", "si", "di"} : reg'[r] = found.reg[r]]_vars

\* Every system call is answered, or ends the process.
SyscallsAnswered == step = "enter" ~> step \in {"user", "ended"}

\* "Working: __os2_syscall3 dispatch for read/write/exit syscalls": exit does not
\* come back, and OS/2 is asked to read what the program wants read.
ThirdEntryWorks ==
  call.entry = 3 =>
    /\ call.nr = 6 => step # "return"
    /\ step = "dos" => Asked(Len(Request)) = Request

\* "return bytes written": a write that OS/2 refused has written none.
RefusedWritesNothing ==
  step = "return" /\ handler = "write" /\ served.failed => Result = 0
=============================================================================
