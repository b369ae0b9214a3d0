----------------------------- MODULE MCPointers -----------------------------
(***************************************************************************)
(* Instances of Pointers: one object of every shape whose size the code    *)
(* gets right, and the structure at the end of the bss segment.            *)
(***************************************************************************)
EXTENDS Pointers

Everything == <<Array(3, Int16), Array(2, Ptr), Int32, Struct(<<Int32, Ptr>>)>>
Allocas == <<Ptr, Int32, Array(2, Int8)>>

\* What passes between two functions.
Words16 == <<Array(2, Int16)>>
OneLocal == <<Array(2, Int16)>>

\* The types of all of these, and of the objects of the caller.
AllTypes ==
  {Int8, Int16, Int32, Ptr} \cup {Everything[k] : k \in DOMAIN Everything}
    \cup {Array(2, t) : t \in {Int8, Int16, Int32}}

\* The hypothesis of the theorems in PointersProofs.
ASSUME TypesSuit == ProgramSuits
=============================================================================
