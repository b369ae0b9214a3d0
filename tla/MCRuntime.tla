----------------------------- MODULE MCRuntime -----------------------------
(***************************************************************************)
(* Calls of the runtime routines, with words of a few bits.                *)
(***************************************************************************)
EXTENDS Runtime

CallOf(routine, a, b) == [routine |-> routine, num1 |-> a, num2 |-> b]

\* Every call with operands the routines are right for.
EverydayCalls ==
  {CallOf("DivideU32", a, b) : a \in Word, b \in Word \ {0}}
    \cup {CallOf("DivideI32", a, b) : a \in WordSized,
                                    b \in SignedWide \ {0, -((Base * Base) \div 2)}}
    \cup {c \in {CallOf("MultiplyI32", a, b) : a \in SignedWide, b \in HalfSized} :
            c.num1 * c.num2 \in WordSized}
    \cup {CallOf("itoa", a, 0) : a \in SignedWide}

\* They are what the theorems about the routines assume.
ASSUME EverydaySuits == Calls = EverydayCalls => CallsSuit
ASSUME EverydayFits == Calls = EverydayCalls => BufferSuffices

\* Signed division of any numbers, by any but 0.
SignedDivisions == {CallOf("DivideI32", a, b) : a \in SignedWide, b \in SignedWide \ {0}}

\* Small numbers, so that only what is wrong with small numbers shows.
SmallDivisions == {CallOf("DivideI32", a, b) : a \in HalfSized, b \in HalfSized \ {0}}

\* Products that fit in 32 bits.
Products ==
  {c \in {CallOf("MultiplyI32", a, b) : a, b \in SignedWide} : c.num1 * c.num2 \in SignedWide}
=============================================================================
