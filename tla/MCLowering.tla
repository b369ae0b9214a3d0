----------------------------- MODULE MCLowering -----------------------------
(***************************************************************************)
(* Functions for the compiler to be checked on: each family is the value   *)
(* of Programs in one or more runs.                                        *)
(***************************************************************************)
EXTENDS Execution

CONSTANTS t1, t2, t3, t4, t5, t6, p1, p2, p3

MCVregs == {t1, t2, t3, t4, t5, t6, p1, p2, p3}
MCTempSpaces == 16 .. 60

V(v) == [v |-> v]
C(n) == [c |-> n]
Ins(op, w, res, args) == [op |-> op, w |-> w, res |-> res, args |-> args]
Store(w, value, to) == [op |-> "store", w |-> w, args |-> <<value, V(to)>>]
Cmp(pred, w, res, x, y) ==
  [op |-> "icmp", pred |-> pred, w |-> w, res |-> res, args |-> <<x, y>>]
Phi(w, res, x, fromX, y, fromY) ==
  [op |-> "phi", w |-> w, res |-> res, args |-> <<x, y>>, from |-> <<fromX, fromY>>]
Ret(w, x) == [op |-> "ret", w |-> w, args |-> <<x>>]
Br(l) == [op |-> "br", args |-> <<>>, to |-> <<l>>]
CondBr(x, yes, no) == [op |-> "condbr", args |-> <<x>>, to |-> <<yes, no>>]
Switch(w, x, cases, to) ==
  [op |-> "switch", w |-> w, args |-> <<x>>, cases |-> cases, to |-> to]
Block(l, instrs, term) == [label |-> l, instrs |-> instrs, term |-> term]
Param(v, w) == [v |-> v, w |-> w]
Fun(params, blocks) == [params |-> params, blocks |-> blocks]

Preds == {"eq", "ne", "slt", "sle", "sgt", "sge", "ult", "ule", "ugt", "uge"}

\* Chains of 32-bit additions and subtractions, across two blocks.
Arith32 ==
  Fun(<<Param(p1, 2), Param(p2, 2)>>,
      <<Block("entry",
              <<Ins("add", 2, t1, <<V(p1), V(p2)>>), Ins("sub", 2, t2, <<V(t1), V(p2)>>),
                Ins("add", 2, t3, <<V(t2), C(5)>>), Ins("sub", 2, t4, <<V(t3), V(t1)>>),
                Ins("add", 2, t5, <<C(-1), V(t4)>>), Ins("add", 2, t6, <<V(t5), V(t2)>>)>>,
              Br("next")),
        Block("next", <<Ins("sub", 2, p3, <<V(t1), V(p2)>>)>>, Ret(2, V(p3)))>>)

\* A diamond on a 32-bit comparison, joined by a phi; its entry has no label.
Diamond32(pred) ==
  Fun(<<Param(p1, 2), Param(p2, 2)>>,
      <<Block("", <<Cmp(pred, 2, t1, V(p1), V(p2))>>, CondBr(V(t1), "yes", "no")),
        Block("yes", <<Ins("add", 2, t2, <<V(p1), V(p2)>>)>>, Br("join")),
        Block("no", <<>>, Br("join")),
        Block("join", <<Phi(2, t4, V(t2), "yes", V(p1), "no")>>, Ret(2, V(t4)))>>)

\* A phi in the second block of a function whose entry is only known by number.
Numbered ==
  Fun(<<Param(p1, 2), Param(p2, 2)>>,
      <<Block("", <<Cmp("ult", 2, t1, V(p1), V(p2))>>, CondBr(V(t1), "swap", "join")),
        Block("swap", <<>>, Br("join")),
        Block("join", <<Phi(2, t2, V(p1), "0", V(p2), "swap"),
                        Phi(2, t3, V(p2), "0", V(p1), "swap"),
                        Ins("sub", 2, t4, <<V(t2), V(t3)>>)>>, Ret(2, V(t4)))>>)

\* 16-bit operations on register and stack parameters.
Compare16(pred) ==
  Fun(<<Param(p1, 1), Param(p2, 1)>>,
      <<Block("entry", <<Cmp(pred, 1, t1, V(p1), V(p2)),
                         Ins("select", 1, t2, <<V(t1), V(p1), V(p2)>>)>>, Ret(1, V(t2)))>>)
Add16 ==
  Fun(<<Param(p1, 1), Param(p2, 1), Param(p3, 1)>>,
      <<Block("entry", <<Ins("add", 1, t1, <<V(p1), V(p2)>>)>>, Ret(1, V(t1)))>>)
Sub16 ==
  Fun(<<Param(p1, 1), Param(p3, 2), Param(p2, 1)>>,
      <<Block("entry", <<Ins("sub", 1, t1, <<V(p2), V(p1)>>)>>, Br("next")),
        Block("next", <<>>, Ret(1, V(t1)))>>)

\* Local variables written in one block and read in another.
Locals ==
  Fun(<<Param(p1, 2), Param(p2, 1)>>,
      <<Block("entry",
              <<Ins("alloca", 2, t1, <<>>), Ins("alloca", 1, t2, <<>>),
                Store(2, V(p1), t1), Store(1, V(p2), t2), Ins("load", 1, t3, <<V(t2)>>)>>,
              Switch(1, V(t3), <<0, 3>>, <<"same", "zero", "more">>)),
        Block("zero", <<Store(2, C(2), t1)>>, Br("same")),
        Block("more", <<Ins("load", 2, t4, <<V(t1)>>), Ins("add", 2, t5, <<V(t4), V(t4)>>),
                        Store(2, V(t5), t1), Store(1, C(1), t2)>>, Br("same")),
        Block("same", <<Ins("load", 2, t6, <<V(t1)>>)>>, Ret(2, V(t6)))>>)

\* A loop that counts p1 down and adds p2 up.
Loop(pred) ==
  Fun(<<Param(p1, 2), Param(p2, 2)>>,
      <<Block("entry", <<>>, Br("loop")),
        Block("loop",
              <<Phi(2, t1, V(p1), "entry", V(t3), "loop"), Phi(2, t2, C(0), "entry", V(t4), "loop"),
                Ins("sub", 2, t3, <<V(t1), C(1)>>), Ins("add", 2, t4, <<V(t2), V(p2)>>),
                Cmp(pred, 2, t5, V(t3), C(0))>>, CondBr(V(t5), "loop", "exit")),
        Block("exit", <<>>, Ret(2, V(t4)))>>)
Loops == {Loop("ne"), Loop("sgt"), Loop("slt")}

\* Operations that are only right for some operands, behind the comparisons that
\* let just these through; else the parameter p1 is returned.
Guarded(params, first, test1, test2, instrs, w, res) ==
  Fun(params,
      <<Block("entry", Append(first, test1), CondBr(V(test1.res), "more", "out")),
        Block("more", <<test2>>, CondBr(V(test2.res), "work", "out")),
        Block("work", instrs, Ret(w, V(res))),
        Block("out", <<>>, Ret(params[1].w, V(p1)))>>)

\* Copies of two register parameters, in memory once another block uses them.
Pair16 == <<Param(p1, 1), Param(p2, 1)>>
InSlots == <<Ins("zext", 1, t5, <<V(p1)>>), Ins("zext", 1, t6, <<V(p2)>>)>>

\* The runtime multiplies by -1, 0 and 1.
Mul32 ==
  Guarded(<<Param(p1, 2), Param(p2, 2)>>, <<>>,
          Cmp("slt", 2, t1, V(p1), C(2)), Cmp("sgt", 2, t2, V(p1), C(-2)),
          <<Ins("mul", 2, t3, <<V(p2), V(p1)>>), Ins("add", 2, t4, <<V(t3), V(p2)>>)>>, 2, t4)

\* Divisors that do not trap.
DivRem16(op) ==
  Guarded(Pair16, <<>>, Cmp("ne", 1, t1, V(p2), C(0)), Cmp("ne", 1, t2, V(p2), C(-1)),
          <<Ins(op, 1, t3, <<V(p1), V(p2)>>)>>, 1, t3)

\* Shifts by less than the width.
Shift16(op) ==
  Guarded(Pair16, InSlots, Cmp("ult", 1, t1, V(p2), C(2)), Cmp("ult", 1, t2, V(p2), C(2)),
          <<Ins(op, 1, t3, <<V(t5), C(1)>>), Ins(op, 1, t4, <<V(t5), V(t6)>>)>>, 1, t4)

\* sext of 0 and -1.
SExt ==
  Guarded(Pair16, InSlots, Cmp("sle", 1, t1, V(p1), C(0)), Cmp("sge", 1, t2, V(p1), C(-1)),
          <<Ins("sext", 2, t3, <<V(t5)>>), Ins("add", 2, t4, <<V(t3), V(t3)>>)>>, 2, t4)

\* A 32-bit division that is compiled and never executed.
DeadDivision(op) ==
  Guarded(<<Param(p1, 2)>>, <<>>, Cmp("eq", 2, t1, V(p1), C(0)), Cmp("ne", 2, t2, V(p1), C(0)),
          <<Ins(op, 2, t3, <<V(p1), V(p1)>>)>>, 2, t3)

\* Multiplications of every kind of operands, the last for the next block.
Mul16 ==
  Fun(Pair16,
      <<Block("entry", InSlots, Br("next")),
        Block("next", <<Ins("mul", 1, p3, <<C(3), C(3)>>), Ins("mul", 1, t1, <<V(p1), C(3)>>),
                        Ins("mul", 1, t2, <<C(2), V(t6)>>), Ins("mul", 1, t3, <<V(t5), V(p2)>>),
                        Ins("mul", 1, t4, <<V(p1), V(t6)>>)>>, Br("last")),
        Block("last", <<>>, Ret(1, V(t4)))>>)

\* and, or and xor of words in memory; a 32-bit mask of one word.
Bitwise16(op) ==
  Fun(Pair16,
      <<Block("entry", InSlots, Br("next")),
        Block("next", <<Ins("zext", 2, t1, <<V(t6)>>), Ins("and", 2, t2, <<V(t1), C(2)>>),
                        Ins(op, 1, t3, <<V(t5), C(2)>>), Ins(op, 1, t4, <<V(t5), V(t6)>>)>>, Br("last")),
        Block("last", <<Ins("add", 2, p3, <<V(t2), V(t2)>>)>>, Ret(1, V(t4)))>>)

\* A word cut from two, and widened again.
Convert ==
  Fun(<<Param(p1, 2)>>,
      <<Block("entry", <<Ins("trunc", 1, t1, <<V(p1)>>), Ins("trunc", 1, t2, <<V(p1)>>),
                         Ins("freeze", 1, t3, <<V(t2)>>)>>, Br("next")),
        Block("next", <<Ins("zext", 2, t4, <<V(t1)>>), Ins("add", 2, t5, <<V(t4), V(p1)>>)>>, Ret(2, V(t5)))>>)
-----------------------------------------------------------------------------
(* Functions the code generator is known to get wrong, one per finding *)

\* The function of tests/output/test_sub.ll.
SubTest ==
  {Fun(<<Param(p1, 1), Param(p2, 1)>>,
       <<Block("entry", <<Ins("sub", 1, t1, <<V(p1), V(p2)>>)>>, Ret(1, V(t1)))>>)}

\* A condition that is used after another value went through ax.
LateSelect ==
  {Fun(<<Param(p1, 1), Param(p2, 1)>>,
       <<Block("entry",
               <<Cmp("ult", 1, t1, V(p1), V(p2)), Ins("add", 1, t2, <<V(p1), V(p2)>>),
                 Ins("select", 1, t3, <<V(t1), V(p1), V(p2)>>)>>, Ret(1, V(t3)))>>)}

\* A value that only a phi uses, two blocks after the one that defines it.
DistantIncoming ==
  {Fun(<<Param(p1, 2), Param(p2, 2)>>,
       <<Block("entry", <<Ins("add", 2, t1, <<V(p1), V(p2)>>), Cmp("eq", 2, t2, V(p1), C(0))>>,
               CondBr(V(t2), "left", "right")),
         Block("left", <<Ins("add", 2, t3, <<V(p2), C(1)>>)>>, Br("join")),
         Block("right", <<Ins("sub", 2, t4, <<V(p2), V(p1)>>)>>, Br("join")),
         Block("join", <<Phi(2, t5, V(t3), "left", V(t1), "right")>>, Ret(2, V(t5)))>>)}

\* Two phis that exchange their values on every iteration.
Exchange ==
  {Fun(<<Param(p1, 2), Param(p2, 2)>>,
       <<Block("entry", <<>>, Br("loop")),
         Block("loop", <<Phi(2, t1, V(p1), "entry", V(t2), "loop"),
                         Phi(2, t2, V(p2), "entry", V(t1), "loop"),
                         Cmp("ult", 2, t3, V(t1), V(t2))>>, CondBr(V(t3), "loop", "exit")),
         Block("exit", <<>>, Ret(2, V(t1)))>>)}

\* A 32-bit quotient, added to the dividend.
WideDivision ==
  {Fun(<<Param(p1, 2)>>,
       <<Block("entry", <<Ins("udiv", 2, t1, <<V(p1), C(1)>>), Ins("add", 2, t2, <<V(t1), V(p1)>>)>>,
               Ret(2, V(t2)))>>)}

-----------------------------------------------------------------------------

Everyday ==
  {Diamond32(pred) : pred \in Preds} \cup {Compare16(pred) : pred \in Preds}
    \cup {Arith32, Numbered, Add16, Sub16, Locals} \cup Loops
    \cup {Mul32, Mul16, SExt, Convert}
    \cup {DivRem16(op) : op \in Divisions} \cup {DeadDivision(op) : op \in Divisions}
    \cup {Bitwise16(op) : op \in Logical} \cup {Shift16(op) : op \in DOMAIN Shifts}

\* What the theorems about compiled functions assume holds of these.
ASSUME EverydayFits == Programs = Everyday => ProgramsFit /\ ProgramsTyped
=============================================================================
