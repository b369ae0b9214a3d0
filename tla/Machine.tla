------------------------------ MODULE Machine ------------------------------
(***************************************************************************)
(* The part of the 80286 the generated code uses: word registers, the      *)
(* stack frame addressed through bp, the four condition flags and the      *)
(* conditional jumps.  The processor is not part of the repository; it is  *)
(* modelled from the mnemonics the code generator emits.                   *)
(***************************************************************************)
EXTENDS Integers, Sequences, FiniteSetsExt

CONSTANTS
  Base,        (* number of values of a word: 2^16 on the 80286             *)
  ByteBase     (* number of values of a byte: 2^8                           *)

ASSUME BaseAssumption == Base \in Nat /\ \E n \in 1 .. Base : Base = 2 ^ n
ASSUME ByteAssumption == ByteBase \in Nat /\ ByteBase * ByteBase = Base
\* What the proofs use of the two.
ASSUME HalvesAssumption == Base \in Nat /\ Base >= 4 /\ Base % 2 = 0

Word == 0 .. Base - 1
WordBits == CHOOSE n \in 1 .. Base : 2 ^ n = Base
Range2(w) == IF w = 1 THEN Base ELSE Base * Base
LowWord(n) == n % Base
HighWord(n) == (n \div Base) % Base

\* Operands: a register or its low byte, a cell of the frame, an immediate, or a
\* word at an address that is not a frame offset the compiler knows.
Reg(r) == [reg |-> r]
LowByte(r) == [low |-> r]
Mem(off) == [mem |-> off]
Imm(n) == [imm |-> n % Base]
Unknown == [unknown |-> TRUE]

Mov(d, s) == [op |-> "mov", dst |-> d, src |-> s]
Alu(op, d, s) == [op |-> op, dst |-> d, src |-> s]
Jump(op, to) == [op |-> op, to |-> to]
\* Instructions that have fixed registers, ax for lo and dx for hi.
Fixed(op, src, lo, hi) == [op |-> op, src |-> src, lo |-> lo, hi |-> hi]
Call(routine) == [op |-> "call", routine |-> routine]
Label(l) == [op |-> "label", at |-> l]
Retf == [op |-> "retf"]

Jumps == {"jmp", "je", "jne", "jl", "jle", "jg", "jge", "jb", "jbe", "ja", "jae"}

-----------------------------------------------------------------------------
Negative(x) == x >= Base \div 2
SignedWord(x) == IF Negative(x) THEN x - Base ELSE x

Outcome(result, carry, overflow) ==
  [val |-> result, flags |-> [z |-> result = 0, s |-> Negative(result),
                              c |-> carry, o |-> overflow]]

AddWords(x, y, c) ==
  LET r == (x + y + c) % Base
  IN Outcome(r, x + y + c >= Base,
             Negative(x) = Negative(y) /\ Negative(r) # Negative(x))

SubWords(x, y, c) ==
  LET r == (x - y - c) % Base
  IN Outcome(r, x < y + c, Negative(x) # Negative(y) /\ Negative(r) # Negative(x))

Bit(x, k) == (x \div 2 ^ k) % 2
Bitwise2(op, x, y) ==
  LET Bits(k) == CASE op \in {"and", "test"} -> Bit(x, k) * Bit(y, k)
                   [] op = "or" -> IF Bit(x, k) + Bit(y, k) > 0 THEN 1 ELSE 0
                   [] op = "xor" -> (Bit(x, k) + Bit(y, k)) % 2
  IN Outcome(MapThenSumSet(LAMBDA k : Bits(k) * 2 ^ k, 0 .. WordBits - 1), FALSE, FALSE)

\* The processor takes the count modulo twice the bits of a word.
Shift(op, x, count) ==
  LET p == 2 ^ (count % (2 * WordBits))
  IN Outcome((CASE op = "shl" -> x * p
                [] op = "shr" -> x \div p
                [] op = "sar" -> SignedWord(x) \div p) % Base, FALSE, FALSE)

Compute(op, x, y, carry) ==
  CASE op = "add" -> AddWords(x, y, 0)
    [] op = "adc" -> AddWords(x, y, carry)
    [] op \in {"sub", "cmp"} -> SubWords(x, y, 0)
    [] op = "sbb" -> SubWords(x, y, carry)
    [] op \in {"and", "or", "xor", "test"} -> Bitwise2(op, x, y)
    [] op \in {"shl", "shr", "sar"} -> Shift(op, x, y)

Taken(j, f) ==
  CASE j = "jmp" -> TRUE
    [] j = "je"  -> f.z
    [] j = "jne" -> ~f.z
    [] j = "jl"  -> f.s # f.o
    [] j = "jle" -> f.z \/ f.s # f.o
    [] j = "jg"  -> ~f.z /\ f.s = f.o
    [] j = "jge" -> f.s = f.o
    [] j = "jb"  -> f.c
    [] j = "jbe" -> f.c \/ f.z
    [] j = "ja"  -> ~f.c /\ ~f.z
    [] j = "jae" -> ~f.c

\* A machine state: regs, mem (the frame), flags, pc, and the word `junk` that
\* stands for everything the function did not initialise.
Read(m, o) ==
  CASE "reg" \in DOMAIN o -> m.regs[o.reg]
    [] "low" \in DOMAIN o -> m.regs[o.low] % ByteBase
    [] "mem" \in DOMAIN o -> m.mem[o.mem]
    [] "imm" \in DOMAIN o -> o.imm
    [] OTHER -> m.junk

Write(m, o, x) ==
  CASE "reg" \in DOMAIN o -> [m EXCEPT !.regs[o.reg] = x]
    [] "low" \in DOMAIN o -> [m EXCEPT !.regs[o.low] = (@ - (@ % ByteBase)) + (x % ByteBase)]
    [] "mem" \in DOMAIN o -> [m EXCEPT !.mem[o.mem] = x]
    [] OTHER -> m

\* One mov or arithmetic instruction.
Execute(m, i) ==
  IF i.op = "mov"
    THEN [Write(m, i.dst, Read(m, i.src)) EXCEPT !.pc = m.pc + 1]
    ELSE LET out == Compute(i.op, Read(m, i.dst), Read(m, i.src),
                            IF m.flags.c THEN 1 ELSE 0)
             n == IF i.op \in {"cmp", "test"} THEN m ELSE Write(m, i.dst, out.val)
         IN [n EXCEPT !.flags = out.flags, !.pc = m.pc + 1]

\* Division of integers that cuts towards zero.
Abs(n) == IF n < 0 THEN -n ELSE n
Quotient(a, b) ==
  IF (a < 0) = (b < 0) THEN Abs(a) \div Abs(b) ELSE -(Abs(a) \div Abs(b))
Remainder(a, b) == a - b * Quotient(a, b)

\* What div and idiv divide: dx:ax, and by what.
Dividend(m, i) ==
  (IF i.op = "idiv" THEN SignedWord(Read(m, i.hi)) ELSE Read(m, i.hi)) * Base + Read(m, i.lo)
Divisor(m, i) == IF i.op = "idiv" THEN SignedWord(Read(m, i.src)) ELSE Read(m, i.src)

\* Otherwise the processor traps.
QuotientFits(m, i) ==
  /\ Divisor(m, i) # 0
  /\ Quotient(Dividend(m, i), Divisor(m, i)) \in
       IF i.op = "idiv" THEN -(Base \div 2) .. Base \div 2 - 1 ELSE Word

SignedByte(x) ==
  LET low == x % ByteBase IN IF low >= ByteBase \div 2 THEN low - ByteBase ELSE low

\* cbw and cwd spread the sign of al and ax; imul, div and idiv work on dx:ax.
ExecuteFixed(m, i) ==
  LET lo == Read(m, i.lo)
      Both(l, h) == [Write(Write(m, i.lo, l % Base), i.hi, h % Base) EXCEPT !.pc = m.pc + 1]
      product == SignedWord(lo) * SignedWord(Read(m, i.src))
  IN CASE i.op = "cbw" -> Both(SignedByte(lo), Read(m, i.hi))
       [] i.op = "cwd" -> Both(lo, IF Negative(lo) THEN -1 ELSE 0)
       [] i.op = "imul" -> Both(product, product \div Base)
       [] OTHER -> Both(Quotient(Dividend(m, i), Divisor(m, i)),
                        Remainder(Dividend(m, i), Divisor(m, i)))

Target(code, l) == CHOOSE k \in 1 .. Len(code) : code[k] = Label(l)

\* One jump.
Branch(m, code, i) ==
  [m EXCEPT !.pc = IF Taken(i.op, m.flags) THEN Target(code, i.to) ELSE m.pc + 1]
=============================================================================
