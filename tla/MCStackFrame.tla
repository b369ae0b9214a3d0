--------------------------- MODULE MCStackFrame ---------------------------
(***************************************************************************)
(* Small instances of StackFrame. The vregs are interchangeable.           *)
(***************************************************************************)
EXTENDS StackFrame, TLC

Symmetry == Permutations(Vregs)
=============================================================================
