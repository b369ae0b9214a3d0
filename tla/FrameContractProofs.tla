------------------------ MODULE FrameContractProofs ------------------------
(***************************************************************************)
(* What the frame contract is worth: no byte is handed out twice.          *)
(***************************************************************************)
EXTENDS FrameContract, TLAPS

\* NothingShared, and that the numbers compared are numbers.
SharedInv ==
  /\ stage \in {"collecting", "serving"}
  /\ stage = "collecting" => homes = NoAreas /\ temps = NoAreas
  /\ stage = "serving" =>
       /\ roof \in Int /\ bottom \in Int
       /\ \A i \in DOMAIN homes : IsArea(homes[i])
       /\ \A i \in DOMAIN temps : IsArea(temps[i])
  /\ NothingShared

\* Whoever keeps the contract shares nothing: homes, temps and the stack below.
THEOREM NothingIsEverShared == Spec => []NothingShared
<1>1. Init => SharedInv
  BY DEF Init, SharedInv, NothingShared
<1>2. SharedInv /\ [Next]_contractVars => SharedInv'
  <2> SUFFICES ASSUME SharedInv, [Next]_contractVars PROVE SharedInv'
    OBVIOUS
  <2>1. CASE LayOut
    <3>1. DOMAIN temps' = {}
      BY <2>1 DEF LayOut, NoAreas
    <3>2. QED
      BY <2>1, <3>1 DEF LayOut, SharedInv, NothingShared, AllApart
  <2>2. CASE Take
    <3>1. PICK i \in DOMAIN temps' \ DOMAIN temps :
            /\ DOMAIN temps' = DOMAIN temps \cup {i}
            /\ IsArea(temps'[i]) /\ Above(temps'[i], bottom')
            /\ \A j \in DOMAIN temps :
                 temps'[j] = temps[j] /\ Apart(temps'[i], temps[j])
      BY <2>2 DEF Take
    <3>2. /\ stage = "serving" /\ stage' = "serving" /\ UNCHANGED <<homes, roof>>
          /\ roof \in Int /\ bottom \in Int /\ bottom' \in Int
          /\ bottom' <= bottom /\ bottom <= roof
      BY <2>2 DEF Take, SharedInv, NothingShared
    <3>3. \A j \in DOMAIN temps' : IsArea(temps'[j])
      BY <3>1, <3>2 DEF SharedInv
    <3>4. \A j \in DOMAIN temps' : Above(temps'[j], bottom')
      BY <3>1, <3>2 DEF SharedInv, NothingShared, Above, IsArea
    <3>5. AllApart(temps')
      BY <3>1, <3>2 DEF SharedInv, NothingShared, AllApart, Apart
    <3>6. QED
      BY <3>2, <3>3, <3>4, <3>5 DEF SharedInv, NothingShared
  <2>3. CASE Release
    <3>1. DOMAIN temps' = {}
      BY <2>3 DEF Release, NoAreas
    <3>2. QED
      BY <2>3, <3>1 DEF Release, SharedInv, NothingShared, AllApart
  <2>4. CASE UNCHANGED contractVars
    BY <2>4 DEF contractVars, SharedInv, NothingShared
  <2>5. QED
    BY <2>1, <2>2, <2>3, <2>4 DEF Next
<1>3. SharedInv => NothingShared
  BY DEF SharedInv
<1>4. QED
  BY <1>1, <1>2, <1>3, PTL DEF Spec
=============================================================================
