---------------------------- MODULE MCCallFrame ----------------------------
(***************************************************************************)
(* The calls a program is made of: each family is the value of Calls in a  *)
(* run.                                                                    *)
(***************************************************************************)
EXTENDS CallFrame

ByName(params, args, res) ==
  [params |-> params, args |-> args, res |-> res, by |-> "name"]
ByPointer(params, args, res) ==
  [params |-> params, args |-> args, res |-> res, by |-> "pointer"]

Wide == {"const", "global", "alloca", "pointer", "slot"}   \* for a parameter of 32 bits
Narrow == {"const", "slot"}                                \* for one of 8 bits

\* Calls in which caller and callee mean the same sizes.  What is in a register
\* comes last, because other arguments go through ax.
Matched ==
  {ByName(<<32, 8>>, <<a, b>>, 32) : a \in Wide, b \in Narrow \cup {"ax"}} \cup
  {ByName(<<8, 32>>, <<a, b>>, 0) : a \in Narrow, b \in {"ax", "slot", "alloca"}} \cup
  {ByName(<<>>, <<>>, 16),
   ByName(<<32, 8, 32, 16>>, <<"slot", "const", "global", "slot">>, 16),
   ByName(<<8, 0>>, <<"slot", "float">>, 8),
   ByName(<<32>>, <<"global", "slot", "const">>, 32),
   ByName(<<8>>, <<"slot", "pointer">>, 0),
   ByPointer(<<32, 32>>, <<"pointer", "const">>, 32),
   ByPointer(<<32, 8>>, <<"alloca", "ax">>, 0),
   [params |-> <<32, 32, 32>>, args |-> <<"pointer", "alloca", "const">>, res |-> 32,
    by |-> "memcpy"]}

\* What the theorems about calls assume of a program and its stack holds of these.
ASSUME MatchedAgree == \A call \in Matched : Agreed(call)
ASSUME MatchedFit == Calls = Matched => StackSuffices

\* A first parameter of 16 bits.
Registers == {ByName(<<16>>, <<"slot">>, 16)}

\* A floating-point constant in a variable argument list.
VariableFloat == {ByName(<<32>>, <<"global", "float">>, 32), ByName(<<>>, <<>>, 0)}
=============================================================================
