--------------------------- MODULE FrameContract ---------------------------
(***************************************************************************)
(* What a stack frame promises to those who place values in it, however it *)
(* finds the room: areas that are theirs for the whole function (homes),   *)
(* areas that are theirs until the block ends (temps), and a bottom, where *)
(* the stack pointer will be, below which nothing is ever handed out.      *)
(*                                                                         *)
(* Module StackFrame implements this contract.                             *)
(***************************************************************************)
EXTENDS Integers

CONSTANT Ceiling    (* no home reaches above this offset *)

VARIABLES
  stage,      \* "collecting" until the offsets of homes are known, then "serving"
  homes,      \* areas of the whole function, by an identity of their own
  temps,      \* areas of the current block, by an identity of their own
  roof,       \* all homes are above; temps below it cannot touch them
  bottom      \* the lowest byte of the frame

contractVars == <<stage, homes, temps, roof, bottom>>

NoAreas == [i \in {} |-> i]

\* An area is a record with the fields off and size, and perhaps others.
IsArea(a) == a.off \in Int /\ a.size \in Nat
Above(a, offset) == a.off >= offset
Below(a, offset) == a.off + a.size <= offset
Apart(a, b) == Below(a, b.off) \/ Below(b, a.off)
AllApart(areas) == \A i, j \in DOMAIN areas : i # j => Apart(areas[i], areas[j])

Init ==
  /\ stage = "collecting"
  /\ homes = NoAreas /\ temps = NoAreas

LayOut ==
  /\ stage = "collecting" /\ stage' = "serving"
  /\ AllApart(homes')
  /\ \A i \in DOMAIN homes' : /\ IsArea(homes'[i])
                              /\ Above(homes'[i], roof') /\ Below(homes'[i], Ceiling)
  /\ roof' \in Int /\ bottom' \in Int /\ bottom' <= roof'
  /\ temps' = NoAreas

\* One more temp.  The bottom may go down to make room; nothing else moves.
Take ==
  /\ stage = "serving" /\ stage' = "serving"
  /\ \E i \in DOMAIN temps' \ DOMAIN temps :
       /\ DOMAIN temps' = DOMAIN temps \cup {i}
       /\ IsArea(temps'[i]) /\ Above(temps'[i], bottom')
       /\ \A j \in DOMAIN temps : temps'[j] = temps[j] /\ Apart(temps'[i], temps[j])
  /\ bottom' \in Int /\ bottom' <= bottom
  /\ UNCHANGED <<homes, roof>>

\* The block ends, and so do its temps.
Release ==
  /\ stage = "serving" /\ stage' = "serving"
  /\ temps' = NoAreas
  /\ UNCHANGED <<homes, roof, bottom>>

Next == LayOut \/ Take \/ Release

Spec == Init /\ [][Next]_contractVars
-----------------------------------------------------------------------------
(* Properties *)

\* Whoever keeps the contract never hands out a byte twice: homes are apart,
\* temps are apart, and a temp that stays under the roof is apart from homes;
\* and nothing handed out is below the stack pointer.
NothingShared ==
  stage = "serving" =>
    /\ AllApart(homes) /\ AllApart(temps)
    /\ \A i \in DOMAIN homes : Above(homes[i], roof)
    /\ \A i \in DOMAIN temps : Above(temps[i], bottom)
    /\ bottom <= roof
=============================================================================
