------------------------------ MODULE Runtime ------------------------------
(***************************************************************************)
(* The assembly routines generated code calls for what the processor has   *)
(* no instruction for: _DivideU32, _DivideI32, _MultiplyI32 and itoa.  A   *)
(* behaviour is one call of one of them; a step is one pass through a loop *)
(* or one stretch of code between two labels.                              *)
(*                                                                         *)
(* A 32-bit number is in two words.  num1 is ax:bx (low:high), num2 is     *)
(* cx:dx, result is di:si; the original divisor and the sign are on the    *)
(* stack.                                                                  *)
(***************************************************************************)
EXTENDS Machine

CONSTANTS
  Calls,          (* the calls that may be made: [routine, num1, num2]      *)
  Radix,          (* 10: itoa's divisor                                     *)
  BufferLength    (* 11: the characters of itoa's buffer before its end     *)

ASSUME CallsAssumption ==
  \A c \in Calls : /\ c.routine \in {"DivideU32", "DivideI32", "MultiplyI32", "itoa"}
                   /\ c.num1 \in Int /\ c.num2 \in Int
ASSUME RadixAssumption == Radix \in 2 .. Base - 1
ASSUME BufferAssumption == BufferLength \in Nat \ {0}

VARIABLES
  call,       \* the call being served
  step,       \* where its routine is
  num1, num2, original, result,
  negative,   \* is the answer negative?
  bp,         \* whose frame bp points to
  buffer,     \* itoa's characters: a digit, Blank or Minus
  position    \* itoa's place in it (di)

numVars == <<num1, num2, original, result, negative, bp>>
textVars == <<buffer, position>>
runtimeVars == <<call, step, numVars, textVars>>

Pairs == [lo : Word, hi : Word]
Pair(n) == [lo |-> LowWord(n), hi |-> HighWord(n)]
ValueOf(p) == p.lo + Base * p.hi
Zero == Pair(0)
Borrow(out) == IF out.flags.c THEN 1 ELSE 0

Blank == Radix
Minus == Radix + 1

-----------------------------------------------------------------------------
(* The arithmetic of two words, as the instructions do it *)

\* neg hi; neg lo; sbb hi, 0
Negated(p) ==
  LET lo == SubWords(0, p.lo, 0)
      hi == SubWords(0, p.hi, 0)
  IN [lo |-> lo.val, hi |-> SubWords(hi.val, 0, Borrow(lo)).val]

Magnitude(p) == IF Negative(p.hi) THEN Negated(p) ELSE p

\* shl lo, 1; rcl hi, 1
ShiftedLeft(p) == Pair(2 * ValueOf(p))

\* sar hi, 1; rcr lo, 1
ShiftedRight(p) ==
  [hi |-> (p.hi \div 2) + (IF Negative(p.hi) THEN Base \div 2 ELSE 0),
   lo |-> (p.lo \div 2) + (p.hi % 2) * (Base \div 2)]

\* The high words are compared as signed (jg, jl), the low ones as unsigned.
Reaches(p, q) ==
  \/ SignedWord(p.hi) > SignedWord(q.hi)
  \/ p.hi = q.hi /\ p.lo >= q.lo

\* sub hi, hi; sbb lo, lo: the borrow goes from the high word to the low one.
Subtracted(p, q) ==
  LET hi == SubWords(p.hi, q.hi, 0)
  IN [hi |-> hi.val, lo |-> SubWords(p.lo, q.lo, Borrow(hi)).val]

\* add hi, hi; adc lo, lo: and so does the carry.
Added(p, q) ==
  LET hi == AddWords(p.hi, q.hi, 0)
  IN [hi |-> hi.val, lo |-> AddWords(p.lo, q.lo, Borrow(hi)).val]

Swapped(p) == [lo |-> p.hi, hi |-> p.lo]

-----------------------------------------------------------------------------
Unstarted ==
  /\ original = Zero /\ result = Zero
  /\ negative = FALSE
  /\ bp = "caller"
  /\ buffer = [k \in 1 .. BufferLength |-> Blank]
  /\ position = BufferLength

\* One call, on its own.
RInit ==
  /\ \E c \in Calls : /\ num1 = Pair(c.num1) /\ num2 = Pair(c.num2)
                     /\ call = [routine |-> c.routine,
                                num1 |-> ValueOf(num1), num2 |-> ValueOf(num2)]
  /\ step = "call"
  /\ Unstarted

\* Nothing called yet, where the routines serve generated code.
IdleInit ==
  /\ call = [routine |-> "none", num1 |-> 0, num2 |-> 0]
  /\ step = "idle"
  /\ num1 = Zero /\ num2 = Zero
  /\ Unstarted

\* A caller loads the numbers and calls a routine, which clears the result (or
\* blanks the buffer) and has no sign yet.
Begin(routine, p, q) ==
  /\ step = "idle"
  /\ step' = "call"
  /\ call' = [routine |-> routine, num1 |-> ValueOf(p), num2 |-> ValueOf(q)]
  /\ num1' = p /\ num2' = q
  /\ original' = Zero /\ result' = Zero
  /\ negative' = FALSE
  /\ bp' = "caller"
  /\ UNCHANGED textVars

Goes(from, to) == step = from /\ step' = to /\ UNCHANGED call

\* Every routine begins by making bp its own frame pointer.
EnterUnsigned ==
  /\ call.routine = "DivideU32"
  /\ Goes("call", "align")
  /\ bp' = "routine"
  /\ original' = num2
  /\ UNCHANGED <<num1, num2, result, negative, textVars>>

\* Seeded fault: only the sign of the first number is taken off.
EnterSignedFirst ==
  /\ call.routine \in {"DivideI32", "MultiplyI32"}
  /\ Goes("call", IF call.routine = "DivideI32" THEN "align" ELSE "multiply")
  /\ bp' = "routine"
  /\ negative' = (Negative(num1.hi) # Negative(num2.hi))
  /\ num1' = Magnitude(num1)
  /\ original' = num2
  /\ UNCHANGED <<num2, result, textVars>>

EnterSigned ==
  /\ call.routine \in {"DivideI32", "MultiplyI32"}
  /\ Goes("call", IF call.routine = "DivideI32" THEN "align" ELSE "multiply")
  /\ bp' = "routine"
  /\ negative' = (Negative(num1.hi) # Negative(num2.hi))
  /\ num1' = Magnitude(num1)
  /\ num2' = Magnitude(num2)
  /\ original' = IF call.routine = "DivideI32" THEN num2' ELSE original
  /\ UNCHANGED <<result, textVars>>

-----------------------------------------------------------------------------
(* Division: the divisor is shifted up to the dividend, and down again *)

Align ==
  /\ ~Reaches(num2, num1)
  /\ Goes("align", "align")
  /\ num2' = ShiftedLeft(num2)
  /\ UNCHANGED <<num1, original, result, negative, bp, textVars>>

\* Seeded fault: the loop stops one position early.
AlignedEarly ==
  /\ Reaches(ShiftedLeft(num2), num1)
  /\ Goes("align", "divide")
  /\ UNCHANGED <<numVars, textVars>>

Aligned ==
  /\ Reaches(num2, num1)
  /\ Goes("align", "divide")
  /\ UNCHANGED <<numVars, textVars>>

\* Seeded fault: an equal divisor is not subtracted.
DivideStrictly ==
  LET fits == ~Reaches(num2, num1) IN
  /\ Reaches(num2, original)
  /\ Goes("divide", "divide")
  /\ result' = Pair(2 * ValueOf(result) + (IF fits THEN 1 ELSE 0))
  /\ num1' = IF fits THEN Subtracted(num1, num2) ELSE num1
  /\ num2' = ShiftedRight(num2)
  /\ UNCHANGED <<original, negative, bp, textVars>>

Divide ==
  LET fits == Reaches(num1, num2) IN
  /\ Reaches(num2, original)
  /\ Goes("divide", "divide")
  /\ result' = Pair(2 * ValueOf(result) + (IF fits THEN 1 ELSE 0))
  /\ num1' = IF fits THEN Subtracted(num1, num2) ELSE num1
  /\ num2' = ShiftedRight(num2)
  /\ UNCHANGED <<original, negative, bp, textVars>>

\* The remainder is left in num1 and num2; bp is not restored.
\* Seeded fault: it is not copied, as in the signed routine.
ReturnUnsignedDivisor ==
  /\ call.routine = "DivideU32"
  /\ ~Reaches(num2, original)
  /\ Goes("divide", "returned")
  /\ num1' = num2
  /\ UNCHANGED <<num2, original, result, negative, bp, textVars>>

ReturnUnsigned ==
  /\ call.routine = "DivideU32"
  /\ ~Reaches(num2, original)
  /\ Goes("divide", "returned")
  /\ num2' = num1
  /\ UNCHANGED <<num1, original, result, negative, bp, textVars>>

\* The instructions that copy the remainder to num2 are jumped over: what is
\* moved to num1 as the remainder is the shifted divisor.
ReturnSigned ==
  /\ call.routine = "DivideI32"
  /\ ~Reaches(num2, original)
  /\ Goes("divide", "returned")
  /\ result' = IF negative THEN Negated(result) ELSE result
  /\ num1' = num2
  /\ UNCHANGED <<num2, original, negative, bp, textVars>>

-----------------------------------------------------------------------------
(* Multiplication: num2 is shifted right as if cx were its high word *)

Multiply ==
  /\ num2 # Zero
  /\ Goes("multiply", "multiply")
  /\ result' = IF num2.lo % 2 = 1 THEN Added(result, num1) ELSE result
  /\ num1' = ShiftedLeft(num1)
  /\ num2' = Swapped(ShiftedRight(Swapped(num2)))
  /\ UNCHANGED <<original, negative, bp, textVars>>

\* Seeded fault: the sign is forgotten.
ReturnMagnitude ==
  /\ num2 = Zero
  /\ Goes("multiply", "returned")
  /\ bp' = "caller"
  /\ UNCHANGED <<num1, num2, original, result, negative, textVars>>

\* The sign is fetched into ax.
ReturnProduct ==
  /\ num2 = Zero
  /\ Goes("multiply", "returned")
  /\ result' = IF negative THEN Negated(result) ELSE result
  /\ num1' = [num1 EXCEPT !.lo = IF negative THEN 1 ELSE 0]
  /\ bp' = "caller"
  /\ UNCHANGED <<num2, original, negative, textVars>>

-----------------------------------------------------------------------------
(* itoa: the digits are written backwards from the end of a blank buffer *)

\* not ax; not dx; add ax, 1; adc dx, 0
Complemented(p) ==
  LET lo == AddWords(Base - 1 - p.lo, 1, 0)
  IN [lo |-> lo.val, hi |-> AddWords(Base - 1 - p.hi, 0, Borrow(lo)).val]

EnterItoa ==
  /\ call.routine = "itoa"
  /\ Goes("call", "digits")
  /\ bp' = "routine"
  /\ negative' = Negative(num1.hi)
  /\ num1' = IF Negative(num1.hi) THEN Complemented(num1) ELSE num1
  /\ UNCHANGED <<num2, original, result, textVars>>

\* Seeded fault: the number is tested before its last division.
WriteDigitLate ==
  LET low == (num1.hi % Radix) * Base + num1.lo
      rest == [hi |-> num1.hi \div Radix, lo |-> low \div Radix]
  IN /\ Goes("digits", IF num1 = Zero THEN "sign" ELSE "digits")
     /\ buffer' = [buffer EXCEPT ![position] = low % Radix]
     /\ position' = position - 1
     /\ num1' = rest
     /\ UNCHANGED <<num2, original, result, negative, bp>>

\* The high word is divided first; its remainder goes into the low division.
WriteDigit ==
  LET low == (num1.hi % Radix) * Base + num1.lo
      rest == [hi |-> num1.hi \div Radix, lo |-> low \div Radix]
  IN /\ Goes("digits", IF rest = Zero THEN "sign" ELSE "digits")
     /\ buffer' = [buffer EXCEPT ![position] = low % Radix]
     /\ position' = position - 1
     /\ num1' = rest
     /\ UNCHANGED <<num2, original, result, negative, bp>>

WriteSign ==
  /\ Goes("sign", "returned")
  /\ IF negative THEN buffer' = [buffer EXCEPT ![position] = Minus] /\ position' = position - 1
                 ELSE UNCHANGED textVars
  /\ UNCHANGED numVars

\* The caller has taken the result.
Finish == step = "returned" /\ step' = "idle" /\ UNCHANGED <<call, numVars, textVars>>

Serve ==
  \/ EnterUnsigned \/ EnterSigned \/ EnterItoa
  \/ Align \/ Aligned \/ Divide \/ ReturnUnsigned \/ ReturnSigned
  \/ Multiply \/ ReturnProduct
  \/ WriteDigit \/ WriteSign

Returned == step = "returned" /\ UNCHANGED runtimeVars

RNext == Serve \/ Returned

\* Assembly code runs on until it returns.
RSpec == RInit /\ [][RNext]_runtimeVars /\ WF_runtimeVars(RNext)
-----------------------------------------------------------------------------
(* Properties *)

\* What a routine works with are words, and itoa never writes in front of its buffer.
RuntimeTypeOK ==
  /\ step \in {"idle", "call", "align", "divide", "multiply", "digits", "sign", "returned"}
  /\ {num1, num2, original, result} \subseteq Pairs
  /\ negative \in BOOLEAN
  /\ bp \in {"caller", "routine"}
  /\ buffer \in [1 .. BufferLength -> 0 .. Minus]
  /\ position \in 0 .. BufferLength

\* The numbers of the call, as the routine means them.
Given(n) ==
  IF n >= (Base * Base) \div 2 /\ call.routine # "DivideU32" THEN n - Base * Base ELSE n
First == Given(call.num1)
Second == Given(call.num2)
IsDivision == call.routine \in {"DivideU32", "DivideI32"}

Returns(n, p) == p = Pair(n % (Base * Base))

\* r ^ n, as a recursion.
Power(r, n) ==
  LET p[k \in 0 .. n] == IF k = 0 THEN 1 ELSE r * p[k - 1] IN p[n]

\* The operands the routines are right for: dividends of one word (with a sign,
\* if the division is signed), products of one word with a multiplier that does
\* not reach the top bit of its word, and every number to print.
SignedWide == -((Base * Base) \div 2) .. (Base * Base) \div 2 - 1
WordSized == -(Base - 1) .. Base - 1
HalfSized == -(Base \div 2 - 1) .. Base \div 2 - 1

Suits(c) ==
  \/ c.routine = "DivideU32" /\ c.num1 \in Word /\ c.num2 \in Word \ {0}
  \/ /\ c.routine = "DivideI32"
     /\ c.num1 \in WordSized
     /\ c.num2 \in SignedWide \ {0, -((Base * Base) \div 2)}
  \/ /\ c.routine = "MultiplyI32"
     /\ c.num1 \in SignedWide /\ c.num2 \in HalfSized
     /\ c.num1 * c.num2 \in WordSized
  \/ c.routine = "itoa" /\ c.num1 \in SignedWide /\ c.num2 \in Int

CallsSuit == \A c \in Calls : Suits(c)

\* And the buffer has room for the digits of every number, and a sign.
BufferSuffices == Power(Radix, BufferLength - 1) > (Base * Base) \div 2

\* _DivideU32, _DivideI32: the caller finds the quotient in di and si.
QuotientsRight ==
  step = "returned" /\ IsDivision => Returns(Quotient(First, Second), result)

\* _DivideU32: and the remainder in ax and bx.
UnsignedRemaindersRight ==
  step = "returned" /\ call.routine = "DivideU32" =>
    Returns(Remainder(First, Second), num1)

\* _DivideI32: "Restore remainder in ax:bx", for the signed remainder.
SignedRemaindersRight ==
  step = "returned" /\ call.routine = "DivideI32" =>
    Returns(Remainder(First, Second), num1)

\* The loop of both divisions: what was subtracted from the dividend so far is
\* the quotient so far, at the weight of the bit that was last decided; and what
\* is left is less than that weight, so that the next bit is a bit.
PartialQuotients ==
  step = "divide" /\ Reaches(num2, original) =>
    LET weight == 2 * ValueOf(num2)
    IN /\ ValueOf(num1) + ValueOf(result) * weight = Abs(First)
       /\ ValueOf(num1) < weight

\* _MultiplyI32: the caller finds the product in di and si.
ProductsRight ==
  step = "returned" /\ call.routine = "MultiplyI32" =>
    Returns(First * Second, result)

\* itoa: from the start it reports to the end of the buffer, the text is the
\* number: its sign, then its digits, with none to spare at the front.
DigitsRight ==
  step = "returned" /\ call.routine = "itoa" =>
    LET first == position + (IF First < 0 THEN 2 ELSE 1)
    IN /\ First < 0 => buffer[position + 1] = Minus
       /\ \A k \in first .. BufferLength :
            buffer[k] = (Abs(First) \div Power(Radix, BufferLength - k)) % Radix
       /\ Abs(First) < Power(Radix, BufferLength + 1 - first)
       /\ first < BufferLength => buffer[first] # 0

\* Every call returns.
CallsReturn == <>(step = "returned")
=============================================================================
