-------------------------- MODULE StackFrameProofs --------------------------
(***************************************************************************)
(* Machine-checked proofs about StackFrame, for every set of vregs, every  *)
(* slot size and every temp estimate.  All of them rest on one inductive   *)
(* invariant, IInv: the types, the register maps and the order of offsets. *)
(***************************************************************************)
EXTENDS StackFrame, TLAPS

PlacedParams ==
  {i \in 1 .. Len(slots) : /\ IsStackParam(slots[i])
                           /\ phase = "params" => i < cursor
                           /\ phase # "analysis"}
PlacedLocals ==
  {i \in 1 .. Len(slots) : /\ IsLocal(slots[i])
                           /\ phase = "locals" => i < cursor
                           /\ phase \in {"locals", "lowering"}}

\* Parameters are placed upward from FirstParam, in slot order.
ParamOrder ==
  /\ paramOffset >= FirstParam
  /\ \A i \in PlacedParams : FirstParam <= slots[i].off /\ End(slots[i]) <= paramOffset
  /\ \A i, j \in PlacedParams : i < j => End(slots[i]) <= slots[j].off

\* Locals are placed downward from the saved registers, in slot order.
LocalOrder ==
  /\ phase \in {"locals", "lowering"} => nextLocalOffset + localsSize = -SavedRegs
  /\ nextLocalOffset <= -SavedRegs
  /\ \A i \in PlacedLocals :
       nextLocalOffset <= slots[i].off /\ End(slots[i]) <= -SavedRegs
  /\ \A i, j \in PlacedLocals : i < j => End(slots[j]) <= slots[i].off

\* The temps of the block are placed upward from the bottom of the frame.
TempOrder ==
  phase = "lowering" =>
    /\ totalFrameSize = localsSize + tempSize
    /\ tempBase + tempSize = nextLocalOffset
    /\ tempBase <= tempCurrent
    /\ \A i \in BlockTemps : tempBase <= slots[i].off /\ End(slots[i]) <= tempCurrent
    /\ \A i, j \in BlockTemps : i < j => End(slots[i]) <= slots[j].off

\* While slots are registered, only parameters are tracked and nothing is placed.
AnalysisInv ==
  phase = "analysis" => cursor = 1 /\ DOMAIN vregToPhys \subseteq DOMAIN index

OrderInv == ParamOrder /\ LocalOrder /\ TempOrder

IInv == TypeOK /\ RegMapsInverse /\ AnalysisInv /\ OrderInv

-----------------------------------------------------------------------------
(* Lemmas about the operators *)

\* What the fields of a slot of a vector of slots can be (struct SlotInfo).
LEMMA SlotFields ==
  ASSUME NEW s \in Seq(Slot), NEW i \in 1 .. Len(s)
  PROVE  /\ s[i] \in Slot
         /\ s[i].size \in Int /\ s[i].size > 0
         /\ s[i].off \in Int
         /\ s[i].kind \in Kinds
<1>1. s[i] \in Slot
  OBVIOUS
<1>2. QED
  BY <1>1 DEF Slot

\* push_back: appending a slot leaves the earlier ones as they are.
LEMMA SlotAppended ==
  ASSUME NEW s \in Seq(Slot), NEW e \in Slot
  PROVE  /\ Append(s, e) \in Seq(Slot)
         /\ Len(Append(s, e)) = Len(s) + 1
         /\ \A i \in 1 .. Len(s) : Append(s, e)[i] = s[i]
         /\ Append(s, e)[Len(s) + 1] = e
  OBVIOUS

\* computeLayout assigns the offset of one slot and touches nothing else.
LEMMA SlotMoved ==
  ASSUME NEW s \in Seq(Slot), NEW c \in 1 .. Len(s), NEW o \in Int
  PROVE  /\ [s EXCEPT ![c].off = o] \in Seq(Slot)
         /\ Len([s EXCEPT ![c].off = o]) = Len(s)
         /\ \A i \in 1 .. Len(s) :
              LET t == [s EXCEPT ![c].off = o][i]
              IN t.kind = s[i].kind /\ t.reg = s[i].reg /\ t.size = s[i].size
                 /\ t.off = IF i = c THEN o ELSE s[i].off
<1> DEFINE r == [s[c] EXCEPT !.off = o]
           t == [s EXCEPT ![c] = r]
<1>1. s[c] \in Slot
  OBVIOUS
<1>2. /\ r \in Slot /\ r.off = o
      /\ r.kind = s[c].kind /\ r.reg = s[c].reg /\ r.size = s[c].size
  BY <1>1 DEF Slot
<1> HIDE DEF r
<1>3. /\ t \in Seq(Slot) /\ Len(t) = Len(s)
      /\ \A i \in 1 .. Len(s) : t[i] = IF i = c THEN r ELSE s[i]
  BY <1>2
<1>4. [s EXCEPT ![c].off = o] = t
  BY DEF r
<1> HIDE DEF t
<1>5. \A i \in 1 .. Len(s) :
        /\ t[i].kind = s[i].kind /\ t[i].reg = s[i].reg /\ t[i].size = s[i].size
        /\ t[i].off = IF i = c THEN o ELSE s[i].off
  BY <1>2, <1>3
<1>6. QED
  BY <1>3, <1>4, <1>5, Zenon

\* addSlot and its callers: a new slot is last, indexed under its name, and no
\* other name or slot changes.
LEMMA SlotAdded ==
  ASSUME TypeOK, NEW name \in Names, NEW size \in Sizes, NEW kind \in Kinds,
         NEW reg \in ParamRegs \cup {NoReg}, NEW off \in Int,
         AddSlot(name, size, kind, reg, off)
  PROVE  /\ slots' \in Seq(Slot)
         /\ Len(slots') = Len(slots) + 1
         /\ \A i \in 1 .. Len(slots) : slots'[i] = slots[i]
         /\ LET s == slots'[Len(slots) + 1]
            IN s.name = name /\ s.size = size /\ s.kind = kind /\ s.reg = reg /\ s.off = off
         /\ DOMAIN index' = DOMAIN index \cup {name}
         /\ \A n \in DOMAIN index \ {name} : index'[n] = index[n]
         /\ index'[name] = Len(slots) + 1
         /\ DOMAIN index' \subseteq Names
         /\ \A n \in DOMAIN index' : index'[n] \in 1 .. Len(slots')
<1> DEFINE e == [name |-> name, size |-> size, off |-> off, kind |-> kind, reg |-> reg]
<1>1. e \in Slot
  BY SizesAssumption DEF Slot
<1>2. /\ e.name = name /\ e.size = size /\ e.kind = kind /\ e.reg = reg /\ e.off = off
  OBVIOUS
<1>3. slots' = Append(slots, e) /\ slots \in Seq(Slot)
  BY DEF AddSlot, TypeOK
<1> HIDE DEF e
<1>4. /\ slots' \in Seq(Slot)
      /\ Len(slots') = Len(slots) + 1
      /\ \A i \in 1 .. Len(slots) : slots'[i] = slots[i]
      /\ slots'[Len(slots) + 1] = e
  BY <1>1, <1>3, SlotAppended
<1>5. /\ DOMAIN index' = DOMAIN index \cup {name}
      /\ \A n \in DOMAIN index \ {name} : index'[n] = index[n]
      /\ index'[name] = Len(slots) + 1
  BY DEF AddSlot, Put
<1>6. /\ DOMAIN index' \subseteq Names
      /\ \A n \in DOMAIN index' : index'[n] \in 1 .. Len(slots')
  BY <1>4, <1>5 DEF TypeOK
<1>7. QED
  BY <1>2, <1>4, <1>5, <1>6, Zenon

\* What allocTemp and allocResultSlot do to the temp area, extension included.
LEMMA TempAreaExtended ==
  ASSUME TypeOK, NEW size \in Sizes, ExtendTempArea(size),
         tempCurrent' = tempCurrent + size
  PROVE  /\ tempBase' \in Int /\ tempSize' \in Nat /\ totalFrameSize' \in Int
         /\ tempCurrent' \in Int
         /\ tempBase' <= tempBase
         /\ tempBase' + tempSize' = tempBase + tempSize
         /\ totalFrameSize' = totalFrameSize \/ totalFrameSize' = localsSize + tempSize'
         /\ totalFrameSize = localsSize + tempSize =>
              totalFrameSize' = localsSize + tempSize'
  BY SizesAssumption DEF ExtendTempArea, TypeOK

-----------------------------------------------------------------------------
(* Type correctness *)

RegTypes ==
  /\ DOMAIN vregToPhys \subseteq Vregs
  /\ \A w \in DOMAIN vregToPhys : vregToPhys[w] \in Places
  /\ DOMAIN physToVreg \subseteq Places
  /\ \A q \in DOMAIN physToVreg : physToVreg[q] \in Vregs

\* setPhysReg records vregs in places, whichever it evicts.
LEMMA RegMapsTyped ==
  ASSUME TypeOK, NEW v \in Vregs, NEW p \in Places, MapReg(v, p)
  PROVE  RegTypes'
  BY DEF MapReg, Put, Drop, TypeOK, RegTypes

\* allocTemp and allocResultSlot add a well-formed slot.
LEMMA NewTempSlotTyped ==
  ASSUME TypeOK, NEW name \in Names, NEW size \in Sizes, NewTempSlot(name, size),
         RegTypes'
  PROVE  TypeOK'
<1>1. /\ AddSlot(name, size, "Temp", NoReg, tempCurrent)
      /\ tempCurrent \in Int /\ "Temp" \in Kinds /\ NoReg \in ParamRegs \cup {NoReg}
      /\ ExtendTempArea(size) /\ tempCurrent' = tempCurrent + size
      /\ UNCHANGED <<layoutVars, blockStart>>
  BY DEF NewTempSlot, TypeOK, Kinds
<1>2. /\ slots' \in Seq(Slot) /\ DOMAIN index' \subseteq Names
      /\ \A n \in DOMAIN index' : index'[n] \in 1 .. Len(slots')
  BY <1>1, SlotAdded
<1>3. /\ tempBase' \in Int /\ tempSize' \in Nat /\ totalFrameSize' \in Int
      /\ tempCurrent' \in Int
  BY <1>1, TempAreaExtended
<1>4. QED
  BY <1>1, <1>2, <1>3 DEF TypeOK, RegTypes, layoutVars

\* The slot allocResultSlot returns, new or not, is at a known offset.
LEMMA ResultSlotTyped ==
  ASSUME TypeOK, NEW v \in Vregs, NEW size \in Sizes, ResultSlot(v, size), RegTypes'
  PROVE  TypeOK'
<1>1. CASE HasSpillSlot(v)
  BY <1>1 DEF ResultSlot, TypeOK, RegTypes, layoutVars, tempVars
<1>2. CASE ~HasSpillSlot(v)
  BY <1>2, NewTempSlotTyped DEF ResultSlot, Names
<1>3. QED
  BY <1>1, <1>2

\* allocResultSlot returns a bp offset.
LEMMA ResultOffsetTyped ==
  ASSUME TypeOK, NEW v \in Vregs
  PROVE  ResultOffset(v) \in Places
<1>1. CASE HasSpillSlot(v)
  <2>1. index[v] \in 1 .. Len(slots) /\ slots \in Seq(Slot)
    BY <1>1 DEF HasSpillSlot, HasSlot, TypeOK
  <2>2. slots[index[v]].off \in Int
    BY <2>1, SlotFields
  <2>3. QED
    BY <1>1, <2>2 DEF ResultOffset, Places
<1>2. CASE ~HasSpillSlot(v)
  BY <1>2 DEF ResultOffset, Places, TypeOK
<1>3. QED
  BY <1>1, <1>2

\* A new StackFrame object is type correct.
LEMMA TypeInit == Init => TypeOK
  BY DEF Init, TypeOK, EmptyMap, FirstParam, SavedRegs

\* Every operation of the frame manager keeps the types.
LEMMA TypeStep == TypeOK /\ [Next]_vars => TypeOK'
<1> SUFFICES ASSUME TypeOK, [Next]_vars PROVE TypeOK'
  OBVIOUS
<1>1. ASSUME NEW v \in Vregs, NEW size \in Sizes \cap {2, 4},
             NEW reg \in ParamRegs \cup {NoReg}, AddParam(v, size, reg)
      PROVE  TypeOK'
  <2>1. AddSlot(v, size, "Param", reg, 0) /\ v \in Names /\ "Param" \in Kinds
    BY <1>1 DEF AddParam, Names, Kinds
  <2>2. /\ DOMAIN vregToPhys' \subseteq Vregs
        /\ \A w \in DOMAIN vregToPhys' : vregToPhys'[w] \in Places
        /\ DOMAIN physToVreg' \subseteq Places
        /\ \A p \in DOMAIN physToVreg' : physToVreg'[p] \in Vregs
    BY <1>1 DEF AddParam, Put, TypeOK, Places, Regs
  <2>3. size \in Sizes /\ 0 \in Int
    OBVIOUS
  <2>4. /\ slots' \in Seq(Slot) /\ Len(slots') = Len(slots) + 1
        /\ DOMAIN index' \subseteq Names
        /\ \A n \in DOMAIN index' : index'[n] \in 1 .. Len(slots')
    BY <2>1, <2>3, SlotAdded
  <2>5. QED
    BY <1>1, <2>2, <2>4 DEF AddParam, TypeOK, layoutVars, tempVars
<1>2. ASSUME NEW v \in Vregs, NEW size \in Sizes, AddAllocaSlot(v, size)
      PROVE  TypeOK'
  <2>1. AddSlot(v, size, "Alloca", NoReg, 0) /\ v \in Names /\ "Alloca" \in Kinds
    BY <1>2 DEF AddAllocaSlot, Names, Kinds
  <2>2. size \in Sizes /\ 0 \in Int /\ NoReg \in ParamRegs \cup {NoReg}
    OBVIOUS
  <2>3. /\ slots' \in Seq(Slot) /\ Len(slots') = Len(slots) + 1
        /\ DOMAIN index' \subseteq Names
        /\ \A n \in DOMAIN index' : index'[n] \in 1 .. Len(slots')
    BY <2>1, <2>2, SlotAdded
  <2>4. QED
    BY <1>2, <2>3 DEF AddAllocaSlot, TypeOK, layoutVars, tempVars, regVars
<1>3. ASSUME NEW v \in Vregs, NEW size \in Sizes \cap {2, 4}, AddSpillSlot(v, size)
      PROVE  TypeOK'
  <2>1. AddSlot(v, size, "Spill", NoReg, 0) /\ v \in Names /\ "Spill" \in Kinds
    BY <1>3 DEF AddSpillSlot, Names, Kinds
  <2>2. size \in Sizes /\ 0 \in Int /\ NoReg \in ParamRegs \cup {NoReg}
    OBVIOUS
  <2>3. /\ slots' \in Seq(Slot) /\ Len(slots') = Len(slots) + 1
        /\ DOMAIN index' \subseteq Names
        /\ \A n \in DOMAIN index' : index'[n] \in 1 .. Len(slots')
    BY <2>1, <2>2, SlotAdded
  <2>4. QED
    BY <1>3, <2>3 DEF AddSpillSlot, TypeOK, layoutVars, tempVars, regVars
<1>4. ASSUME NEW bytes \in TempSpaces, SetMaxTempSpace(bytes)
      PROVE  TypeOK'
  BY <1>4, TempSpacesAssumption DEF SetMaxTempSpace, TypeOK, regVars
<1>5. CASE PlaceParam
  <2>1. slots \in Seq(Slot) /\ cursor \in 1 .. Len(slots) /\ paramOffset \in Int
    BY <1>5 DEF PlaceParam, TypeOK
  <2>2. slots[cursor].size \in Int
    BY <2>1, SlotFields
  <2>3. paramOffset' \in Int
    BY <1>5, <2>1, <2>2 DEF PlaceParam
  <2>4. slots' \in Seq(Slot) /\ Len(slots') = Len(slots)
    BY <1>5, <2>1, SlotMoved DEF PlaceParam
  <2>5. QED
    BY <1>5, <2>3, <2>4 DEF PlaceParam, TypeOK, regVars, tempVars
<1>6. CASE ParamsPlaced
  BY <1>6 DEF ParamsPlaced, TypeOK, SavedRegs, regVars, tempVars
<1>7. CASE PlaceLocal
  <2>1. slots \in Seq(Slot) /\ cursor \in 1 .. Len(slots) /\ nextLocalOffset \in Int
        /\ localsSize \in Int
    BY <1>7 DEF PlaceLocal, TypeOK
  <2>2. slots[cursor].size \in Int
    BY <2>1, SlotFields
  <2>3. nextLocalOffset' \in Int /\ localsSize' \in Int
    BY <1>7, <2>1, <2>2 DEF PlaceLocal
  <2>4. slots' \in Seq(Slot) /\ Len(slots') = Len(slots)
    BY <1>7, <2>1, <2>3, SlotMoved, SMTT(30) DEF PlaceLocal
  <2>5. QED
    BY <1>7, <2>3, <2>4 DEF PlaceLocal, TypeOK, regVars, tempVars
<1>8. CASE PlaceTempArea
  BY <1>8 DEF PlaceTempArea, TypeOK, regVars
<1>9. ASSUME NEW size \in Sizes, AllocTemp(size)
      PROVE  TypeOK'
  <2>1. NewTempSlot(tempCurrent, size) /\ tempCurrent \in Names
    BY <1>9 DEF AllocTemp, TempName, Names, TypeOK
  <2>2. RegTypes'
    BY <1>9 DEF AllocTemp, TypeOK, RegTypes, regVars
  <2>3. QED
    BY <2>1, <2>2, NewTempSlotTyped
<1>10. ASSUME NEW v \in Vregs, NEW size \in Sizes,
              AllocResultSlot(v, size) \/ KeepResult(v, size)
       PROVE  TypeOK'
  <2>1. ResultSlot(v, size)
    BY <1>10 DEF AllocResultSlot, KeepResult
  <2>2. CASE AllocResultSlot(v, size)
    BY <2>1, <2>2, ResultSlotTyped DEF AllocResultSlot, TypeOK, RegTypes, regVars
  <2>3. CASE KeepResult(v, size)
    BY <2>1, <2>3, ResultSlotTyped, ResultOffsetTyped, RegMapsTyped DEF KeepResult
  <2>4. QED
    BY <1>10, <2>2, <2>3
<1>11. CASE ResetTemp
  BY <1>11 DEF ResetTemp, TypeOK, layoutVars, regVars
<1>12. ASSUME NEW v \in Vregs, NEW p \in ResultPlaces(v), SetPhysReg(v, p)
       PROVE  TypeOK'
  <2>1. \A i \in 1 .. Len(slots) : slots[i].off \in Int
    BY SlotFields DEF TypeOK
  <2>2. p \in Places
    BY <1>12, <2>1, RegsAssumption DEF ResultPlaces, Places
  <2>3. RegTypes'
    BY <1>12, <2>2, RegMapsTyped DEF SetPhysReg
  <2>4. QED
    BY <1>12, <2>3 DEF SetPhysReg, TypeOK, RegTypes, layoutVars, tempVars
<1>13. CASE UNCHANGED vars
  BY <1>13 DEF TypeOK, vars, layoutVars, tempVars, regVars
<1>14. QED
  BY <1>1, <1>2, <1>3, <1>4, <1>5, <1>6, <1>7, <1>8, <1>9, <1>10, <1>11, <1>12,
     <1>13 DEF Next, Analysis, ComputeLayout, Lowering

\* Type correctness of the frame manager.
THEOREM TypeCorrect == Spec => []TypeOK
  BY TypeInit, TypeStep, PTL DEF Spec

-----------------------------------------------------------------------------
(* The register maps *)

\* setPhysReg evicts the old holder of the place and frees the old place, so the
\* maps stay inverse of each other.
LEMMA MapRegKeepsInverse ==
  ASSUME RegMapsInverse, NEW v, NEW p, MapReg(v, p)
  PROVE  RegMapsInverse'
<1>1. CASE v \in DOMAIN vregToPhys
  <2>1. physToVreg' = Put(Drop(physToVreg, {vregToPhys[v]}), p, v)
    BY <1>1 DEF MapReg
  <2>2. CASE Evicted(v, p) = {}
    <3>1. vregToPhys' = Put(Drop(vregToPhys, {}), v, p)
      BY <2>2 DEF MapReg
    <3>2. ~Occupied(p) \/ vregToPhys[v] = p
      BY <1>1, <2>2 DEF Evicted
    <3>3. QED
      BY <1>1, <2>1, <3>1, <3>2 DEF RegMapsInverse, Put, Drop, Occupied
  <2>3. CASE Occupied(p) /\ vregToPhys[v] # p /\ Evicted(v, p) = {physToVreg[p]}
    <3>1. vregToPhys' = Put(Drop(vregToPhys, {physToVreg[p]}), v, p)
      BY <2>3 DEF MapReg
    <3>2. QED
      BY <1>1, <2>1, <2>3, <3>1 DEF RegMapsInverse, Put, Drop, Occupied
  <2>4. QED
    BY <1>1, <2>2, <2>3 DEF Evicted
<1>2. CASE v \notin DOMAIN vregToPhys
  <2>1. physToVreg' = Put(physToVreg, p, v)
    BY <1>2 DEF MapReg
  <2>2. CASE ~Occupied(p)
    <3>1. vregToPhys' = Put(Drop(vregToPhys, {}), v, p)
      BY <2>2 DEF MapReg, Evicted
    <3>2. QED
      BY <1>2, <2>1, <2>2, <3>1 DEF RegMapsInverse, Put, Drop, Occupied
  <2>3. CASE Occupied(p)
    <3>1. vregToPhys' = Put(Drop(vregToPhys, {physToVreg[p]}), v, p)
      BY <1>2, <2>3 DEF MapReg, Evicted
    <3>2. QED
      BY <1>2, <2>1, <2>3, <3>1 DEF RegMapsInverse, Put, Drop, Occupied
  <2>4. QED
    BY <2>2, <2>3
<1>3. QED
  BY <1>1, <1>2

\* No operation makes the two register maps disagree; setPhysReg's eviction of
\* the old holder and of the old register is what the proof turns on.
LEMMA RegMapsStep ==
  ASSUME TypeOK, RegMapsInverse, AnalysisInv, [Next]_vars
  PROVE  RegMapsInverse'
<1>1. ASSUME NEW v \in Vregs, NEW size \in Sizes \cap {2, 4},
             NEW reg \in ParamRegs \cup {NoReg}, AddParam(v, size, reg)
      PROVE  RegMapsInverse'
  <2>1. CASE reg = NoReg
    BY <1>1, <2>1 DEF AddParam, RegMapsInverse
  <2>2. CASE reg # NoReg
    <3>1. v \notin DOMAIN vregToPhys /\ reg \notin DOMAIN physToVreg
      BY <1>1, <2>2 DEF AddParam, AnalysisInv, HasSlot, Occupied
    <3>2. vregToPhys' = Put(vregToPhys, v, reg) /\ physToVreg' = Put(physToVreg, reg, v)
      BY <1>1, <2>2 DEF AddParam
    <3>3. QED
      BY <3>1, <3>2 DEF RegMapsInverse, Put
  <2>3. QED
    BY <2>1, <2>2
<1>2. ASSUME NEW v \in Vregs, NEW p, MapReg(v, p)
      PROVE  RegMapsInverse'
  BY <1>2, MapRegKeepsInverse
<1>3. ASSUME UNCHANGED regVars
      PROVE  RegMapsInverse'
  BY <1>3 DEF RegMapsInverse, regVars
<1>4. QED
  BY <1>1, <1>2, <1>3
  DEF Next, Analysis, ComputeLayout, Lowering, AddAllocaSlot, AddSpillSlot,
      SetMaxTempSpace, PlaceParam, ParamsPlaced, PlaceLocal, PlaceTempArea,
      AllocTemp, AllocResultSlot, KeepResult, SetPhysReg, ResetTemp, vars

\* While slots are registered only parameters are in the register maps.
LEMMA AnalysisStep ==
  ASSUME TypeOK, AnalysisInv, [Next]_vars
  PROVE  AnalysisInv'
<1>1. ASSUME NEW v \in Vregs, NEW size \in Sizes \cap {2, 4},
             NEW reg \in ParamRegs \cup {NoReg}, AddParam(v, size, reg)
      PROVE  AnalysisInv'
  BY <1>1 DEF AddParam, AddSlot, AnalysisInv, Put, layoutVars
<1>2. ASSUME NEW v \in Vregs, NEW size \in Sizes,
             AddAllocaSlot(v, size) \/ AddSpillSlot(v, size)
      PROVE  AnalysisInv'
  BY <1>2 DEF AddAllocaSlot, AddSpillSlot, AddSlot, AnalysisInv, Put, layoutVars, regVars
<1>3. CASE UNCHANGED vars
  BY <1>3 DEF AnalysisInv, vars, layoutVars, regVars
<1>4. ASSUME phase' # "analysis"
      PROVE  AnalysisInv'
  BY <1>4 DEF AnalysisInv
<1>5. QED
  BY <1>1, <1>2, <1>3, <1>4
  DEF Next, Analysis, ComputeLayout, Lowering,
      SetMaxTempSpace, PlaceParam, ParamsPlaced, PlaceLocal, PlaceTempArea,
      AllocTemp, AllocResultSlot, KeepResult, ResetTemp, SetPhysReg,
      MayHoldResult, ResultSlot, NewTempSlot, layoutVars

-----------------------------------------------------------------------------
(* The order of the offsets *)

\* A handler only ever appends temps: what computeLayout placed stays placed.
LEMMA LoweringKeepsPlaced ==
  ASSUME TypeOK, OrderInv, phase = "lowering", phase' = "lowering",
         UNCHANGED <<paramOffset, nextLocalOffset, localsSize>>,
         slots' \in Seq(Slot), Len(slots') >= Len(slots),
         \A i \in 1 .. Len(slots) : slots'[i] = slots[i],
         \A i \in 1 .. Len(slots') : i > Len(slots) => slots'[i].kind = "Temp"
  PROVE  ParamOrder' /\ LocalOrder'
<1>0. Len(slots) \in Nat /\ Len(slots') \in Nat
  BY DEF TypeOK
<1>1. PlacedParams' = PlacedParams
  BY <1>0 DEF PlacedParams, IsStackParam
<1>2. PlacedLocals' = PlacedLocals
  BY <1>0 DEF PlacedLocals, IsLocal
<1>3. \A i \in PlacedParams \cup PlacedLocals : slots'[i] = slots[i]
  BY DEF PlacedParams, PlacedLocals
<1>4. ParamOrder'
  BY <1>1, <1>3 DEF OrderInv, ParamOrder, End
<1>5. LocalOrder'
  BY <1>2, <1>3 DEF OrderInv, LocalOrder, End
<1>6. QED
  BY <1>4, <1>5

\* allocTemp and allocResultSlot put the new temp above all temps of the block,
\* whether or not the area had to be extended.
LEMMA NewTempSlotKeepsOrder ==
  ASSUME TypeOK, OrderInv, phase = "lowering",
         NEW name \in Names, NEW size \in Sizes, NewTempSlot(name, size)
  PROVE  OrderInv'
<1>1. /\ AddSlot(name, size, "Temp", NoReg, tempCurrent)
      /\ ExtendTempArea(size) /\ tempCurrent' = tempCurrent + size
      /\ UNCHANGED <<phase, paramOffset, nextLocalOffset, localsSize, blockStart>>
      /\ tempCurrent \in Int /\ "Temp" \in Kinds /\ NoReg \in ParamRegs \cup {NoReg}
  BY DEF NewTempSlot, layoutVars, TypeOK, Kinds
<1> DEFINE n == Len(slots) + 1
<1>2. /\ slots' \in Seq(Slot) /\ Len(slots') = n
      /\ \A i \in 1 .. Len(slots) : slots'[i] = slots[i]
      /\ slots'[n].kind = "Temp" /\ slots'[n].size = size /\ slots'[n].off = tempCurrent
  BY <1>1, SlotAdded
<1>3. Len(slots) \in Nat
  BY DEF TypeOK
<1>4. ParamOrder' /\ LocalOrder'
  BY <1>1, <1>2, <1>3, LoweringKeepsPlaced
<1>5. BlockTemps' \subseteq BlockTemps \cup {n}
  BY <1>1, <1>2, <1>3 DEF BlockTemps
<1>6. /\ tempBase' \in Int /\ tempSize' \in Nat /\ totalFrameSize' = localsSize + tempSize'
      /\ tempBase' <= tempBase /\ tempBase' + tempSize' = tempBase + tempSize
  BY <1>1, TempAreaExtended DEF OrderInv, TempOrder
<1>7. \A i \in BlockTemps : i < n /\ i \in 1 .. Len(slots) /\ slots'[i] = slots[i]
  BY <1>2, <1>3 DEF BlockTemps
<1>8. size \in Int /\ size > 0
  BY SizesAssumption
<1>9. \A i \in BlockTemps : slots[i].off \in Int /\ slots[i].size \in Int
  BY SlotFields DEF BlockTemps, TypeOK
<1> HIDE DEF n
<1>10. /\ \A i \in BlockTemps : /\ tempBase' <= slots'[i].off
                                /\ End(slots'[i]) <= tempCurrent
                                /\ End(slots'[i]) <= tempCurrent'
       /\ tempBase' <= tempCurrent /\ tempBase' <= tempCurrent'
  <2>1. \A i \in BlockTemps : tempBase <= slots[i].off /\ End(slots[i]) <= tempCurrent
    BY DEF OrderInv, TempOrder
  <2>2. tempBase \in Int /\ tempCurrent \in Int /\ tempBase <= tempCurrent
    BY DEF OrderInv, TempOrder, TypeOK
  <2>3. tempCurrent' \in Int /\ tempCurrent <= tempCurrent' /\ tempBase' <= tempBase
    BY <1>1, <1>6, <1>8, <2>2
  <2>4. \A i \in BlockTemps : End(slots[i]) \in Int
    BY <1>9 DEF End
  <2>5. QED
    BY <1>6, <1>7, <1>9, <2>1, <2>2, <2>3, <2>4
<1>11. \A i \in BlockTemps' : tempBase' <= slots'[i].off /\ End(slots'[i]) <= tempCurrent'
  BY <1>1, <1>2, <1>5, <1>8, <1>10 DEF End
<1>12. ASSUME NEW i \in BlockTemps', NEW j \in BlockTemps', i < j
       PROVE  End(slots'[i]) <= slots'[j].off
  <2>1. CASE j = n
    BY <1>2, <1>5, <1>10, <1>12, <2>1
  <2>2. CASE j # n
    <3>1. j \in BlockTemps /\ i \in BlockTemps
      BY <1>3, <1>5, <1>7, <1>12, <2>2 DEF n, BlockTemps
    <3>2. QED
      BY <1>7, <1>12, <3>1 DEF OrderInv, TempOrder
  <2>3. QED
    BY <2>1, <2>2
<1>13. TempOrder'
  <2>1. tempBase + tempSize = nextLocalOffset
    BY DEF OrderInv, TempOrder
  <2>2. nextLocalOffset' = nextLocalOffset /\ localsSize' = localsSize
    BY <1>1
  <2>3. tempBase' + tempSize' = nextLocalOffset'
    BY <1>6, <2>1, <2>2
  <2>4. QED
    BY <1>6, <1>10, <1>11, <1>12, <2>2, <2>3 DEF TempOrder
<1>14. QED
  BY <1>4, <1>13 DEF OrderInv

\* One step of computeLayout's first loop puts a parameter above the earlier ones.
LEMMA PlaceParamKeepsOrder ==
  ASSUME TypeOK, OrderInv, PlaceParam
  PROVE  OrderInv'
<1>1. /\ phase = "params" /\ phase' = "params" /\ cursor' = cursor + 1
      /\ UNCHANGED <<nextLocalOffset, localsSize>>
      /\ slots \in Seq(Slot) /\ cursor \in 1 .. Len(slots) /\ paramOffset \in Int
  BY DEF PlaceParam, TypeOK
<1>2. LocalOrder' /\ TempOrder'
  BY <1>1 DEF LocalOrder, TempOrder, PlacedLocals, OrderInv
<1>3. \A i \in 1 .. Len(slots) : slots[i].off \in Int /\ slots[i].size \in Int /\ slots[i].size > 0
  BY <1>1, SlotFields
<1>4. CASE IsStackParam(slots[cursor])
  <2>1. /\ slots' = [slots EXCEPT ![cursor].off = paramOffset]
        /\ paramOffset' = paramOffset + slots[cursor].size
    BY <1>4 DEF PlaceParam
  <2>2. /\ Len(slots') = Len(slots)
        /\ \A i \in 1 .. Len(slots) :
             /\ slots'[i].kind = slots[i].kind /\ slots'[i].reg = slots[i].reg
             /\ slots'[i].size = slots[i].size
             /\ slots'[i].off = IF i = cursor THEN paramOffset ELSE slots[i].off
    BY <1>1, <2>1, SlotMoved
  <2>3. PlacedParams' = PlacedParams \cup {cursor} /\ cursor \notin PlacedParams
    BY <1>1, <1>4, <2>2 DEF PlacedParams, IsStackParam
  <2>4. \A i \in PlacedParams : i < cursor /\ i \in 1 .. Len(slots)
    BY <1>1 DEF PlacedParams
  <2>5. /\ paramOffset >= FirstParam
        /\ \A i \in PlacedParams : FirstParam <= slots[i].off /\ End(slots[i]) <= paramOffset
        /\ \A i, j \in PlacedParams : i < j => End(slots[i]) <= slots[j].off
    BY DEF OrderInv, ParamOrder
  <2>6. paramOffset' \in Int /\ paramOffset <= paramOffset' /\ paramOffset' >= FirstParam
    BY <1>1, <1>3, <2>1, <2>5 DEF FirstParam
  <2>7. /\ \A i \in PlacedParams : End(slots'[i]) = End(slots[i]) /\ slots'[i].off = slots[i].off
        /\ slots'[cursor].off = paramOffset /\ End(slots'[cursor]) = paramOffset'
        /\ \A i \in PlacedParams : End(slots[i]) \in Int
    BY <1>1, <1>3, <2>1, <2>2, <2>4 DEF End
  <2>8. \A i \in PlacedParams' : FirstParam <= slots'[i].off /\ End(slots'[i]) <= paramOffset'
    BY <1>1, <2>3, <2>5, <2>6, <2>7 DEF FirstParam
  <2>9. \A i, j \in PlacedParams' : i < j => End(slots'[i]) <= slots'[j].off
    BY <1>1, <2>3, <2>4, <2>5, <2>7
  <2>10. QED
    BY <1>2, <2>6, <2>8, <2>9 DEF OrderInv, ParamOrder
<1>5. CASE ~IsStackParam(slots[cursor])
  <2>1. UNCHANGED <<slots, paramOffset>>
    BY <1>5 DEF PlaceParam
  <2>2. PlacedParams' = PlacedParams
    BY <1>1, <1>5, <2>1 DEF PlacedParams
  <2>3. QED
    BY <1>2, <2>1, <2>2 DEF OrderInv, ParamOrder
<1>6. QED
  BY <1>4, <1>5

\* One step of computeLayout's second loop puts a local below the earlier ones.
LEMMA PlaceLocalKeepsOrder ==
  ASSUME TypeOK, OrderInv, PlaceLocal
  PROVE  OrderInv'
<1>1. /\ phase = "locals" /\ phase' = "locals" /\ cursor' = cursor + 1
      /\ paramOffset' = paramOffset
      /\ slots \in Seq(Slot) /\ cursor \in 1 .. Len(slots)
      /\ nextLocalOffset \in Int /\ localsSize \in Int
  BY DEF PlaceLocal, TypeOK
<1>2. TempOrder'
  BY <1>1 DEF TempOrder
<1>3. \A i \in 1 .. Len(slots) : slots[i].off \in Int /\ slots[i].size \in Int /\ slots[i].size > 0
  BY <1>1, SlotFields
<1>4. CASE IsLocal(slots[cursor])
  <2>1. /\ nextLocalOffset' = nextLocalOffset - slots[cursor].size
        /\ localsSize' = localsSize + slots[cursor].size
        /\ slots' = [slots EXCEPT ![cursor].off = nextLocalOffset']
    BY <1>4 DEF PlaceLocal
  <2>2. nextLocalOffset' \in Int /\ nextLocalOffset' < nextLocalOffset
    BY <1>1, <1>3, <2>1
  <2>3. /\ Len(slots') = Len(slots)
        /\ \A i \in 1 .. Len(slots) :
             /\ slots'[i].kind = slots[i].kind /\ slots'[i].reg = slots[i].reg
             /\ slots'[i].size = slots[i].size
             /\ slots'[i].off = IF i = cursor THEN nextLocalOffset' ELSE slots[i].off
    BY <1>1, <2>1, <2>2, SlotMoved
  <2>4. PlacedLocals' = PlacedLocals \cup {cursor}
    BY <1>1, <1>4, <2>3 DEF PlacedLocals, IsLocal
  <2>5. PlacedParams' = PlacedParams
    BY <1>1, <2>3 DEF PlacedParams, IsStackParam
  <2>6. \A i \in PlacedLocals : i < cursor /\ i \in 1 .. Len(slots)
    BY <1>1 DEF PlacedLocals
  <2>7. \A i \in PlacedParams : i \in 1 .. Len(slots) /\ i # cursor
    BY <1>4 DEF PlacedParams, IsStackParam, IsLocal
  <2>8. /\ nextLocalOffset + localsSize = -SavedRegs /\ nextLocalOffset <= -SavedRegs
        /\ \A i \in PlacedLocals :
             nextLocalOffset <= slots[i].off /\ End(slots[i]) <= -SavedRegs
        /\ \A i, j \in PlacedLocals : i < j => End(slots[j]) <= slots[i].off
    BY <1>1 DEF OrderInv, LocalOrder
  <2>9. nextLocalOffset' + localsSize' = -SavedRegs
    BY <1>1, <1>3, <2>1, <2>8 DEF SavedRegs
  <2>10. /\ \A i \in PlacedLocals \cup PlacedParams :
              End(slots'[i]) = End(slots[i]) /\ slots'[i].off = slots[i].off
         /\ slots'[cursor].off = nextLocalOffset' /\ End(slots'[cursor]) = nextLocalOffset
         /\ \A i \in PlacedLocals : End(slots[i]) \in Int /\ slots[i].off \in Int
    BY <1>1, <1>3, <2>1, <2>3, <2>6, <2>7 DEF End
  <2>11. \A i \in PlacedLocals' :
           nextLocalOffset' <= slots'[i].off /\ End(slots'[i]) <= -SavedRegs
    BY <1>1, <2>2, <2>4, <2>8, <2>10 DEF SavedRegs
  <2>12. \A i, j \in PlacedLocals' : i < j => End(slots'[j]) <= slots'[i].off
    BY <1>1, <2>4, <2>6, <2>8, <2>10
  <2>13. nextLocalOffset' <= -SavedRegs
    BY <1>1, <2>2, <2>8 DEF SavedRegs
  <2>14. LocalOrder'
    BY <2>9, <2>11, <2>12, <2>13 DEF LocalOrder
  <2>15. ParamOrder'
    BY <1>1, <2>5, <2>10 DEF OrderInv, ParamOrder
  <2>16. QED
    BY <1>2, <2>14, <2>15 DEF OrderInv
<1>5. CASE ~IsLocal(slots[cursor])
  <2>1. UNCHANGED <<slots, nextLocalOffset, localsSize>>
    BY <1>5 DEF PlaceLocal
  <2>2. PlacedParams' = PlacedParams /\ PlacedLocals' = PlacedLocals
    BY <1>1, <1>5, <2>1 DEF PlacedParams, PlacedLocals
  <2>3. ParamOrder' /\ LocalOrder'
    BY <1>1, <2>1, <2>2 DEF OrderInv, ParamOrder, LocalOrder
  <2>4. QED
    BY <1>2, <2>3 DEF OrderInv
<1>6. QED
  BY <1>4, <1>5

\* The steps between and after computeLayout's loops keep the order of offsets.
LEMMA LoopEndsKeepOrder ==
  ASSUME TypeOK, OrderInv, ParamsPlaced \/ PlaceTempArea
  PROVE  OrderInv'
<1>1. slots \in Seq(Slot) /\ Len(slots) \in Nat /\ cursor \in Nat
  BY DEF TypeOK
<1>2. CASE ParamsPlaced
  <2>1. /\ phase = "params" /\ phase' = "locals" /\ cursor > Len(slots) /\ cursor' = 1
        /\ nextLocalOffset' = -SavedRegs /\ localsSize' = 0
        /\ UNCHANGED <<slots, paramOffset>>
    BY <1>2 DEF ParamsPlaced
  <2>2. PlacedParams' = PlacedParams
    BY <1>1, <2>1 DEF PlacedParams
  <2>3. PlacedLocals' = {}
    BY <1>1, <2>1 DEF PlacedLocals
  <2>4. QED
    BY <2>1, <2>2, <2>3 DEF OrderInv, ParamOrder, LocalOrder, TempOrder, SavedRegs
<1>3. CASE PlaceTempArea
  <2>1. /\ phase = "locals" /\ phase' = "lowering" /\ cursor > Len(slots)
        /\ tempBase' = nextLocalOffset - tempSize /\ tempCurrent' = tempBase'
        /\ totalFrameSize' = localsSize + tempSize /\ blockStart' = Len(slots)
        /\ UNCHANGED <<slots, paramOffset, nextLocalOffset, localsSize, tempSize>>
    BY <1>3 DEF PlaceTempArea
  <2>2. PlacedParams' = PlacedParams /\ PlacedLocals' = PlacedLocals
    BY <1>1, <2>1 DEF PlacedParams, PlacedLocals
  <2>3. BlockTemps' = {}
    BY <1>1, <2>1 DEF BlockTemps
  <2>4. tempBase' + tempSize' = nextLocalOffset' /\ tempBase' <= tempCurrent'
    BY <2>1 DEF TypeOK
  <2>5. TempOrder'
    BY <2>1, <2>3, <2>4 DEF TempOrder
  <2>6. ParamOrder' /\ LocalOrder'
    BY <2>1, <2>2 DEF OrderInv, ParamOrder, LocalOrder
  <2>7. QED
    BY <2>5, <2>6 DEF OrderInv
<1>4. QED
  BY <1>2, <1>3

\* No slot exists when a StackFrame object is made.
LEMMA OrderInit == Init => OrderInv
<1> SUFFICES ASSUME Init PROVE OrderInv
  OBVIOUS
<1>1. PlacedParams = {} /\ PlacedLocals = {} /\ phase = "analysis"
  BY DEF Init, PlacedParams, PlacedLocals
<1>2. QED
  BY <1>1 DEF Init, OrderInv, ParamOrder, LocalOrder, TempOrder, FirstParam, SavedRegs

\* Every operation keeps the order of parameters, locals and temps.
LEMMA OrderStep ==
  ASSUME TypeOK, OrderInv, AnalysisInv, [Next]_vars
  PROVE  OrderInv'
\* While slots are registered nothing is placed.
<1>1. ASSUME phase' = "analysis", phase = "analysis",
             UNCHANGED <<paramOffset, nextLocalOffset, localsSize>>
      PROVE  OrderInv'
  <2>1. PlacedParams' = {} /\ PlacedLocals' = {}
    BY <1>1 DEF PlacedParams, PlacedLocals
  <2>2. QED
    BY <1>1, <2>1 DEF OrderInv, ParamOrder, LocalOrder, TempOrder
<1>2. ASSUME NEW bytes \in TempSpaces, SetMaxTempSpace(bytes)
      PROVE  OrderInv'
  <2>1. /\ phase' = "params" /\ cursor' = 1
        /\ UNCHANGED <<paramOffset, nextLocalOffset, localsSize>>
    BY <1>2 DEF SetMaxTempSpace, AnalysisInv
  <2>2. PlacedParams' = {} /\ PlacedLocals' = {}
    BY <2>1 DEF PlacedParams, PlacedLocals
  <2>3. QED
    BY <2>1, <2>2 DEF OrderInv, ParamOrder, LocalOrder, TempOrder
<1>3. CASE PlaceParam
  BY <1>3, PlaceParamKeepsOrder
<1>4. CASE PlaceLocal
  BY <1>4, PlaceLocalKeepsOrder
<1>5. CASE ParamsPlaced \/ PlaceTempArea
  BY <1>5, LoopEndsKeepOrder
<1>6. ASSUME NEW size \in Sizes, AllocTemp(size)
      PROVE  OrderInv'
  BY <1>6, NewTempSlotKeepsOrder DEF AllocTemp, TempName, Names, TypeOK
<1>7. ASSUME NEW v \in Vregs, NEW size \in Sizes,
             AllocResultSlot(v, size) \/ KeepResult(v, size), ~HasSpillSlot(v)
      PROVE  OrderInv'
  BY <1>7, NewTempSlotKeepsOrder
  DEF AllocResultSlot, KeepResult, MayHoldResult, ResultSlot, Names
<1>8. CASE ResetTemp
  <2>1. /\ phase = "lowering" /\ phase' = "lowering"
        /\ UNCHANGED <<paramOffset, nextLocalOffset, localsSize, slots>>
        /\ UNCHANGED <<tempSize, totalFrameSize, tempBase>>
        /\ tempCurrent' = tempBase /\ blockStart' = Len(slots)
        /\ slots \in Seq(Slot) /\ Len(slots) \in Nat /\ tempBase \in Int
    BY <1>8 DEF ResetTemp, layoutVars, TypeOK
  <2>2. ParamOrder' /\ LocalOrder'
    BY <2>1, LoweringKeepsPlaced
  <2>3. BlockTemps' = {}
    BY <2>1 DEF BlockTemps
  <2>4. TempOrder'
    BY <2>1, <2>3 DEF TempOrder, OrderInv
  <2>5. QED
    BY <2>2, <2>4 DEF OrderInv
<1>9. ASSUME UNCHANGED <<layoutVars, slots, tempVars>>
      PROVE  OrderInv'
  <2>1. PlacedParams' = PlacedParams /\ PlacedLocals' = PlacedLocals /\ BlockTemps' = BlockTemps
    BY <1>9 DEF PlacedParams, PlacedLocals, BlockTemps, layoutVars, tempVars
  <2>2. QED
    BY <1>9, <2>1 DEF OrderInv, ParamOrder, LocalOrder, TempOrder, layoutVars, tempVars
<1>10. QED
  BY <1>1, <1>2, <1>3, <1>4, <1>5, <1>6, <1>7, <1>8, <1>9
  DEF Next, Analysis, ComputeLayout, Lowering, AddParam, AddAllocaSlot, AddSpillSlot,
      AllocResultSlot, KeepResult, ResultSlot, SetPhysReg, layoutVars, tempVars, vars

-----------------------------------------------------------------------------
(* The theorems *)

\* The inductive invariant holds in every reachable state.
LEMMA Invariance == Spec => []IInv
<1>1. Init => IInv
  BY TypeInit, OrderInit
  DEF Init, IInv, RegMapsInverse, AnalysisInv, EmptyMap
<1>2. IInv /\ [Next]_vars => IInv'
  BY TypeStep, RegMapsStep, AnalysisStep, OrderStep DEF IInv
<1>3. QED
  BY <1>1, <1>2, PTL DEF Spec

\* setPhysReg: no register is ever recorded as holding two vregs.
THEOREM RegMapsInverseAlways == Spec => []RegMapsInverse
  BY Invariance, PTL DEF IInv

\* computeLayout: allocas and spill slots are disjoint and below the saved
\* registers, for every list of slots and every size.
THEOREM LocalsAlwaysDisjoint == Spec => []LocalsDisjoint
<1>1. IInv => LocalsDisjoint
  <2> SUFFICES ASSUME IInv, phase = "lowering" PROVE LocalsDisjoint
    BY DEF LocalsDisjoint
  <2>1. PlacedLocals = LocalIndices
    BY DEF PlacedLocals, LocalIndices
  <2>2. \A i, j \in LocalIndices : i # j => i < j \/ j < i
    BY DEF LocalIndices, IInv, TypeOK
  <2>3. QED
    BY <2>1, <2>2 DEF IInv, OrderInv, LocalOrder, LocalsDisjoint, Disjoint
<1>2. QED
  BY <1>1, Invariance, PTL

\* computeLayout: stack parameters are disjoint and above the return address.
THEOREM ParamsAlwaysDisjoint == Spec => []ParamsDisjoint
<1>1. IInv => ParamsDisjoint
  <2> SUFFICES ASSUME IInv, phase = "lowering" PROVE ParamsDisjoint
    BY DEF ParamsDisjoint
  <2> DEFINE stacked == {i \in 1 .. Len(slots) : IsStackParam(slots[i])}
  <2>1. PlacedParams = stacked
    BY DEF PlacedParams
  <2>2. \A i, j \in stacked : i # j => i < j \/ j < i
    BY DEF IInv, TypeOK
  <2>3. \A i \in stacked : slots[i].off \in Int
    BY SlotFields DEF IInv, TypeOK
  <2> HIDE DEF stacked
  <2>4. /\ \A i, j \in stacked : i # j => Disjoint(slots[i], slots[j])
        /\ \A i \in stacked : slots[i].off >= FirstParam
    BY <2>1, <2>2, <2>3 DEF IInv, OrderInv, ParamOrder, Disjoint, FirstParam
  <2>5. QED
    BY <2>4 DEF ParamsDisjoint, stacked
<1>2. QED
  BY <1>1, Invariance, PTL

\* extendTempArea: the frame the prologue reserves covers every local and every
\* temp of the block, however far the area was extended.
THEOREM FrameAlwaysCoversSlots == Spec => []FrameCoversSlots
<1>1. IInv => FrameCoversSlots
  <2> SUFFICES ASSUME IInv, phase = "lowering" PROVE FrameCoversSlots
    BY DEF FrameCoversSlots
  <2>1. PlacedLocals = LocalIndices
    BY DEF PlacedLocals, LocalIndices
  <2>2. /\ tempBase \in Int /\ tempSize \in Nat /\ nextLocalOffset \in Int
        /\ localsSize \in Int /\ totalFrameSize = localsSize + tempSize
        /\ tempBase + tempSize = nextLocalOffset
        /\ nextLocalOffset + localsSize = -SavedRegs
    BY DEF IInv, TypeOK, OrderInv, TempOrder, LocalOrder
  <2>3. tempBase + totalFrameSize = -SavedRegs /\ tempBase <= nextLocalOffset
    BY <2>2 DEF SavedRegs
  <2>4. tempBase = -SavedRegs - totalFrameSize
    BY <2>2, <2>3 DEF SavedRegs
  <2>5. \A i \in LocalIndices : slots[i].off \in Int /\ nextLocalOffset <= slots[i].off
    BY <2>1, SlotFields DEF LocalIndices, IInv, TypeOK, OrderInv, LocalOrder
  <2>6. \A i \in LocalIndices : slots[i].off >= tempBase
    BY <2>2, <2>3, <2>5
  <2>7. \A i \in BlockTemps : slots[i].off \in Int /\ slots[i].off >= tempBase
    BY <2>2, SlotFields DEF BlockTemps, IInv, TypeOK, OrderInv, TempOrder
  <2>8. QED
    BY <2>4, <2>6, <2>7 DEF FrameCoversSlots
<1>2. QED
  BY <1>1, Invariance, PTL

\* allocTemp, allocResultSlot: the temps of one block never overlap.
THEOREM BlockTempsAlwaysDisjoint == Spec => []BlockTempsDisjoint
<1>1. IInv => BlockTempsDisjoint
  <2> SUFFICES ASSUME IInv, phase = "lowering" PROVE BlockTempsDisjoint
    BY DEF BlockTempsDisjoint
  <2>1. \A i, j \in BlockTemps : i # j => i < j \/ j < i
    BY DEF BlockTemps, IInv, TypeOK
  <2>2. QED
    BY <2>1 DEF IInv, OrderInv, TempOrder, BlockTempsDisjoint, Disjoint
<1>2. QED
  BY <1>1, Invariance, PTL

\* The estimate of the analysis is what keeps temps and locals apart: as long as
\* a block stays within it, its temps touch no alloca and no spilled vreg.
THEOREM TempsThatFitAlwaysAvoidLocals == Spec => []TempsThatFitAvoidLocals
<1>1. IInv => TempsThatFitAvoidLocals
  <2> SUFFICES ASSUME IInv, phase = "lowering", tempCurrent <= nextLocalOffset,
                      NEW i \in BlockTemps, NEW j \in LocalIndices
               PROVE  Disjoint(slots[i], slots[j])
    BY DEF TempsThatFitAvoidLocals
  <2>1. j \in PlacedLocals
    BY DEF PlacedLocals, LocalIndices
  <2>2. End(slots[i]) <= tempCurrent /\ nextLocalOffset <= slots[j].off
    BY <2>1 DEF IInv, OrderInv, TempOrder, LocalOrder
  <2>3. /\ slots[i].off \in Int /\ slots[i].size \in Int /\ slots[j].off \in Int
        /\ tempCurrent \in Int /\ nextLocalOffset \in Int
    BY SlotFields DEF BlockTemps, LocalIndices, IInv, TypeOK
  <2>4. QED
    BY <2>2, <2>3 DEF Disjoint, End
<1>2. QED
  BY <1>1, Invariance, PTL

\* What every lowering step leaves alone: the handlers only append slots, under
\* names that had no home, and only ever deepen the frame.
LEMMA LoweringStep ==
  ASSUME IInv, [Next]_vars, phase = "lowering"
  PROVE  /\ Len(slots') >= Len(slots)
         /\ \A i \in 1 .. Len(slots) : slots'[i] = slots[i]
         /\ \A v \in Vregs : HasSlot(v) => HasSlot(v)' /\ index'[v] = index[v]
         /\ totalFrameSize' >= totalFrameSize
<1>0. /\ TypeOK /\ Len(slots) \in Nat /\ totalFrameSize \in Int
      /\ tempSize \in Nat /\ localsSize \in Int /\ totalFrameSize = localsSize + tempSize
  BY DEF IInv, TypeOK, OrderInv, TempOrder
<1> DEFINE Kept == /\ Len(slots') >= Len(slots)
                   /\ \A i \in 1 .. Len(slots) : slots'[i] = slots[i]
                   /\ \A v \in Vregs : HasSlot(v) => HasSlot(v)' /\ index'[v] = index[v]
                   /\ totalFrameSize' >= totalFrameSize
<1>1. ASSUME NEW name \in Names, NEW size \in Sizes, NewTempSlot(name, size),
             name \in Vregs => ~HasSlot(name)
      PROVE  Kept
  <2>1. /\ AddSlot(name, size, "Temp", NoReg, tempCurrent) /\ ExtendTempArea(size)
        /\ tempCurrent \in Int /\ "Temp" \in Kinds /\ NoReg \in ParamRegs \cup {NoReg}
    BY <1>0, <1>1 DEF NewTempSlot, Kinds, TypeOK
  <2>2. /\ Len(slots') = Len(slots) + 1
        /\ \A i \in 1 .. Len(slots) : slots'[i] = slots[i]
        /\ DOMAIN index' = DOMAIN index \cup {name}
        /\ \A n \in DOMAIN index \ {name} : index'[n] = index[n]
    BY <1>0, <2>1, SlotAdded
  <2>3. totalFrameSize' >= totalFrameSize
    BY <1>0, <2>1, SizesAssumption DEF ExtendTempArea, TypeOK
  <2>4. \A v \in Vregs : HasSlot(v) => HasSlot(v)' /\ index'[v] = index[v]
    BY <1>1, <2>2 DEF HasSlot
  <2>5. QED
    BY <1>0, <2>2, <2>3, <2>4
<1>2. ASSUME NEW size \in Sizes, AllocTemp(size)
      PROVE  Kept
  <2>1. tempCurrent \in Names /\ tempCurrent \notin Vregs
    BY <1>0, VregsAssumption DEF Names, TypeOK
  <2>2. NewTempSlot(tempCurrent, size)
    BY <1>2 DEF AllocTemp, TempName
  <2>3. QED
    BY <1>1, <2>1, <2>2
<1>3. ASSUME NEW v \in Vregs, NEW size \in Sizes,
             AllocResultSlot(v, size) \/ KeepResult(v, size), ~HasSpillSlot(v)
      PROVE  Kept
  <2>1. NewTempSlot(v, size) /\ ~HasSlot(v) /\ v \in Names
    BY <1>3 DEF AllocResultSlot, KeepResult, MayHoldResult, ResultSlot, HasSpillSlot, Names
  <2>2. QED
    BY <1>1, <2>1
<1>4. ASSUME UNCHANGED <<slots, index, totalFrameSize>>
      PROVE  Kept
  BY <1>0, <1>4 DEF HasSlot
<1>5. UNCHANGED <<slots, index, totalFrameSize>>
      \/ (\E size \in Sizes : AllocTemp(size))
      \/ (\E v \in Vregs, size \in Sizes :
            (AllocResultSlot(v, size) \/ KeepResult(v, size)) /\ ~HasSpillSlot(v))
  BY DEF Next, Analysis, ComputeLayout, Lowering, AddParam, AddAllocaSlot, AddSpillSlot,
         SetMaxTempSpace, PlaceParam, ParamsPlaced, PlaceLocal, PlaceTempArea,
         AllocResultSlot, KeepResult, ResultSlot, ResetTemp, SetPhysReg, tempVars, vars
<1> HIDE DEF Kept
<1>6. Kept
  BY <1>2, <1>3, <1>4, <1>5
<1>7. QED
  BY <1>6 DEF Kept

\* "Fixed offsets for all vregs": no operation moves or resizes a slot that was
\* laid out, so code already emitted keeps addressing the right bytes.
THEOREM SlotsAreNeverMoved == Spec => SlotsNeverMove
<1>1. IInv /\ [Next]_vars =>
        [phase = "lowering" =>
           /\ Len(slots') >= Len(slots)
           /\ \A i \in 1 .. Len(slots) : slots'[i] = slots[i]]_vars
  BY LoweringStep
<1>2. QED
  BY <1>1, Invariance, PTL DEF Spec, SlotsNeverMove

\* allocResultSlot: parameters, allocas and spilled vregs keep their home.
THEOREM HomesAreAlwaysKept == Spec => HomesAreKept
<1>1. IInv /\ [Next]_vars =>
        [phase = "lowering" =>
           \A v \in Vregs : HasSlot(v) => HasSlot(v)' /\ index'[v] = index[v]]_vars
  BY LoweringStep
<1>2. QED
  BY <1>1, Invariance, PTL DEF Spec, HomesAreKept

\* getFrameSize: the size read after lowering covers every earlier block.
THEOREM FrameOnlyGrows == Spec => FrameNeverShrinks
<1>1. IInv /\ [Next]_vars =>
        [phase = "lowering" => totalFrameSize' >= totalFrameSize]_vars
  BY LoweringStep
<1>2. QED
  BY <1>1, Invariance, PTL DEF Spec, FrameNeverShrinks


-----------------------------------------------------------------------------
(* The class keeps the contract of module FrameContract *)


\* A block begins with the slots that exist.
BlockBegan == blockStart <= Len(slots)

\* The temp area starts at the bottom of the frame, where the prologue leaves sp.
BaseIsBottom ==
  phase = "lowering" =>
    /\ tempBase = -SavedRegs - totalFrameSize
    /\ -SavedRegs - totalFrameSize \in Int
    /\ -SavedRegs - totalFrameSize <= nextLocalOffset

LEMMA BaseAtBottom == IInv => BaseIsBottom
<1> SUFFICES ASSUME IInv, phase = "lowering" PROVE BaseIsBottom
  BY DEF BaseIsBottom
<1>1. /\ totalFrameSize = localsSize + tempSize /\ tempBase + tempSize = nextLocalOffset
      /\ nextLocalOffset + localsSize = -SavedRegs
  BY DEF IInv, OrderInv, LocalOrder, TempOrder
<1>2. /\ localsSize \in Int /\ tempSize \in Nat /\ nextLocalOffset \in Int
      /\ tempBase \in Int /\ totalFrameSize \in Int
  BY DEF IInv, TypeOK
<1>3. tempBase + totalFrameSize = -SavedRegs /\ tempBase <= nextLocalOffset
  BY <1>1, <1>2 DEF SavedRegs
<1>4. QED
  BY <1>2, <1>3 DEF BaseIsBottom, SavedRegs

\* A larger frame has a lower bottom.
LEMMA BottomFalls ==
  ASSUME NEW f \in Int, NEW g \in Int, g >= f
  PROVE  -SavedRegs - g \in Int /\ -SavedRegs - g <= -SavedRegs - f
  BY DEF SavedRegs

\* Before the layout is known nothing is promised.
LEMMA CollectingIsSilent ==
  ASSUME phase # "lowering", phase' # "lowering"
  PROVE  UNCHANGED Contract!contractVars
<1>1. ~LaidOut /\ ~LaidOut'
  BY DEF LaidOut
<1>2. SlotsAt({})' = SlotsAt({})
  BY DEF SlotsAt
<1>3. QED
  BY <1>1, <1>2 DEF Contract!contractVars

\* The last step of computeLayout is the contract's LayOut.
LEMMA LayOutStep ==
  ASSUME IInv', BaseIsBottom', PlaceTempArea
  PROVE  Contract!LayOut
<1>1. /\ phase # "lowering" /\ phase' = "lowering" /\ blockStart' = Len(slots')
      /\ Len(slots') \in Nat
  BY DEF PlaceTempArea, IInv, TypeOK
<1>2. ~LaidOut /\ LaidOut' /\ BlockTemps' = {}
  BY <1>1 DEF LaidOut, BlockTemps
<1>3. (LocalIndices = PlacedLocals)'
  BY <1>1 DEF LocalIndices, PlacedLocals
<1>4. /\ \A i \in LocalIndices' : slots'[i].off \in Int /\ slots'[i].size \in Nat
      /\ (nextLocalOffset \in Int /\ totalFrameSize \in Int)'
  <2>1. \A i \in LocalIndices' : slots'[i] \in Slot
    BY <1>1, SMTT(30) DEF LocalIndices, IInv, TypeOK
  <2>2. QED
    BY <2>1 DEF Slot, IInv, TypeOK
<1>5. \A i \in LocalIndices' :
        slots'[i].off >= nextLocalOffset' /\ slots'[i].off + slots'[i].size <= -SavedRegs
  BY <1>3, <1>4 DEF IInv, OrderInv, LocalOrder, End
<1>6. \A i, j \in LocalIndices' : i # j => \/ End(slots'[i]) <= slots'[j].off
                                           \/ End(slots'[j]) <= slots'[i].off
  <2>1. \A i, j \in LocalIndices' : i # j => i < j \/ j < i
    BY <1>1 DEF LocalIndices
  <2>2. QED
    BY <1>3, <2>1 DEF IInv, OrderInv, LocalOrder, End
<1>7. -SavedRegs - totalFrameSize' <= nextLocalOffset' /\ -SavedRegs - totalFrameSize' \in Int
  BY <1>1 DEF BaseIsBottom
<1>8. /\ DOMAIN SlotsAt(LocalIndices)' = LocalIndices'
      /\ \A i \in LocalIndices' : SlotsAt(LocalIndices)'[i] = slots'[i]
  BY DEF SlotsAt
<1>9. SlotsAt(BlockTemps)' = Contract!NoAreas
  BY <1>2 DEF SlotsAt, Contract!NoAreas
<1>10. QED
  BY <1>2, <1>4, <1>5, <1>6, <1>7, <1>8, <1>9
  DEF Contract!LayOut, Contract!AllApart, Contract!Apart, Contract!Above, Contract!Below,
      Contract!IsArea, End

\* allocTemp and allocResultSlot, when it makes a slot, are the contract's Take.
LEMMA TakeStep ==
  ASSUME IInv, IInv', BaseIsBottom', BlockBegan, phase = "lowering",
         NEW name \in Names, NEW size \in Sizes, NewTempSlot(name, size)
  PROVE  Contract!Take
<1> DEFINE n == Len(slots) + 1
<1>1. /\ AddSlot(name, size, "Temp", NoReg, tempCurrent) /\ ExtendTempArea(size)
      /\ UNCHANGED <<phase, nextLocalOffset, localsSize, blockStart>>
      /\ tempCurrent' = tempCurrent + size
      /\ tempCurrent \in Int /\ "Temp" \in Kinds /\ NoReg \in ParamRegs \cup {NoReg}
      /\ Len(slots) \in Nat
  BY DEF NewTempSlot, layoutVars, IInv, TypeOK, Kinds
<1>2. /\ Len(slots') = n
      /\ \A i \in 1 .. Len(slots) : slots'[i] = slots[i]
      /\ slots'[n].kind = "Temp" /\ slots'[n].off = tempCurrent /\ slots'[n].size = size
      /\ slots' \in Seq(Slot)
  BY <1>1, SlotAdded DEF IInv
<1>3. LocalIndices' = LocalIndices /\ n \notin LocalIndices
  BY <1>1, <1>2 DEF LocalIndices, IsLocal
<1>4. \A i \in LocalIndices \cup BlockTemps : slots'[i] = slots[i]
  BY <1>2 DEF LocalIndices, BlockTemps
<1>5. BlockTemps' = BlockTemps \cup {n} /\ n \notin BlockTemps
  <2>1. blockStart < n /\ n \in Nat /\ 1 .. n = (1 .. Len(slots)) \cup {n} /\ n \notin 1 .. Len(slots)
    BY <1>1 DEF BlockBegan, IInv, TypeOK
  <2>2. BlockTemps' = {i \in 1 .. n : i > blockStart /\ slots'[i].kind = "Temp"}
    BY <1>1, <1>2 DEF BlockTemps
  <2>3. QED
    BY <1>2, <2>1, <2>2 DEF BlockTemps
<1>6. /\ slots'[n].size \in Nat /\ slots'[n].off \in Int
      /\ \A i \in BlockTemps : slots[i].off \in Int /\ End(slots[i]) <= tempCurrent
  BY <1>1, <1>2, SizesAssumption, SlotFields
  DEF BlockTemps, IInv, TypeOK, OrderInv, TempOrder
<1>7. slots'[n].off >= -SavedRegs - totalFrameSize'
  <2>1. n \in BlockTemps' /\ tempBase' <= slots'[n].off
    BY <1>1, <1>5 DEF IInv, OrderInv, TempOrder
  <2>2. tempBase' = -SavedRegs - totalFrameSize' /\ tempBase' \in Int
    BY <1>1 DEF BaseIsBottom, IInv, TypeOK
  <2>3. QED
    BY <1>6, <2>1, <2>2
<1>8. totalFrameSize' >= totalFrameSize /\ totalFrameSize \in Int /\ totalFrameSize' \in Int
  <2>1. /\ totalFrameSize = localsSize + tempSize
        /\ localsSize \in Int /\ tempSize \in Int /\ tempBase \in Int
        /\ tempCurrent \in Int /\ totalFrameSize \in Int /\ size \in Int
    BY SizesAssumption DEF IInv, TypeOK, OrderInv, TempOrder
  <2>2. totalFrameSize' \in Int
    BY DEF IInv, TypeOK
  <2>3. ExtendTempArea(size)
    BY <1>1
  <2>4. totalFrameSize' >= totalFrameSize
    BY ONLY <2>1, <2>2, <2>3 DEF ExtendTempArea
  <2>5. QED
    BY <2>1, <2>2, <2>4
<1> HIDE DEF n
<1>9. /\ LaidOut /\ LaidOut' /\ nextLocalOffset' = nextLocalOffset
      /\ SlotsAt(LocalIndices)' = SlotsAt(LocalIndices)
      /\ DOMAIN SlotsAt(BlockTemps) = BlockTemps
      /\ DOMAIN SlotsAt(BlockTemps)' = BlockTemps \cup {n}
      /\ \A i \in BlockTemps : /\ SlotsAt(BlockTemps)[i] = slots[i]
                               /\ SlotsAt(BlockTemps)'[i] = slots[i]
      /\ SlotsAt(BlockTemps)'[n] = slots'[n]
  BY <1>1, <1>3, <1>4, <1>5 DEF LaidOut, SlotsAt
<1>10. \A i \in BlockTemps : slots[i].off + slots[i].size <= slots'[n].off
  BY <1>2, <1>6 DEF End
<1>11. -SavedRegs - totalFrameSize' \in Int
       /\ -SavedRegs - totalFrameSize' <= -SavedRegs - totalFrameSize
  BY <1>8, BottomFalls
<1>12. n \notin BlockTemps
  BY <1>5
<1>13. /\ \A i \in BlockTemps : Contract!Apart(slots'[n], slots[i])
       /\ Contract!IsArea(slots'[n])
       /\ Contract!Above(slots'[n], -SavedRegs - totalFrameSize')
  BY <1>6, <1>7, <1>10 DEF Contract!IsArea, Contract!Above, Contract!Below, Contract!Apart
<1>14. QED
  BY <1>9, <1>11, <1>12, <1>13 DEF Contract!Take

\* resetTemp is the contract's Release.
LEMMA ReleaseStep ==
  ASSUME IInv, ResetTemp
  PROVE  Contract!Release
<1>1. /\ LaidOut /\ LaidOut' /\ UNCHANGED <<slots, nextLocalOffset, totalFrameSize>>
      /\ Len(slots) \in Nat /\ blockStart' = Len(slots)
  BY DEF ResetTemp, LaidOut, layoutVars, IInv, TypeOK
<1>2. BlockTemps' = {} /\ LocalIndices' = LocalIndices
  BY <1>1 DEF BlockTemps, LocalIndices
<1>3. SlotsAt(BlockTemps)' = Contract!NoAreas /\ SlotsAt(LocalIndices)' = SlotsAt(LocalIndices)
  BY <1>1, <1>2 DEF SlotsAt, Contract!NoAreas
<1>4. QED
  BY <1>1, <1>3 DEF Contract!Release

\* While the function is lowered, a step that makes no slot and ends no block is
\* invisible to the contract.
LEMMA ServingStutters ==
  ASSUME UNCHANGED <<phase, slots, nextLocalOffset, totalFrameSize, blockStart>>
  PROVE  UNCHANGED Contract!contractVars
<1>1. UNCHANGED <<LaidOut, BlockTemps, LocalIndices>>
  BY DEF LaidOut, BlockTemps, LocalIndices
<1>2. QED
  BY <1>1 DEF Contract!contractVars, SlotsAt

\* No step takes a slot away, so a block never began in the future.
LEMMA BlockBeganStep ==
  ASSUME IInv, BlockBegan, [Next]_vars
  PROVE  BlockBegan'
<1>0. TypeOK /\ Len(slots) \in Nat /\ blockStart \in Nat
  BY DEF IInv, TypeOK
<1>1. ASSUME NEW name \in Names, NEW size \in Sizes, NEW kind \in Kinds,
             NEW reg \in ParamRegs \cup {NoReg}, NEW off \in Int,
             AddSlot(name, size, kind, reg, off), blockStart' = blockStart
      PROVE  BlockBegan'
  <2>1. Len(slots') = Len(slots) + 1
    BY <1>0, <1>1, SlotAdded
  <2>2. blockStart <= Len(slots) + 1
    BY <1>0 DEF BlockBegan
  <2>3. QED
    BY <1>1, <2>1, <2>2 DEF BlockBegan
<1>2. ASSUME NEW c \in 1 .. Len(slots), NEW o \in Int, blockStart' = blockStart,
             slots' = [slots EXCEPT ![c].off = o]
      PROVE  BlockBegan'
  BY <1>0, <1>2, SlotMoved DEF BlockBegan, IInv, TypeOK
<1>3. CASE Analysis
  <2>1. CASE \E bytes \in TempSpaces : SetMaxTempSpace(bytes)
    BY <2>1 DEF SetMaxTempSpace, BlockBegan
  <2>2. ASSUME NEW v \in Vregs, NEW size \in Sizes, NEW reg \in ParamRegs \cup {NoReg},
               \/ AddParam(v, size, reg)
               \/ AddAllocaSlot(v, size)
               \/ AddSpillSlot(v, size)
        PROVE  BlockBegan'
    <3>1. /\ v \in Names /\ {"Param", "Alloca", "Spill"} \subseteq Kinds /\ 0 \in Int
          /\ NoReg \in ParamRegs \cup {NoReg} /\ blockStart' = blockStart
      BY <2>2 DEF Names, Kinds, AddParam, AddAllocaSlot, AddSpillSlot, tempVars
    <3>2. \/ AddSlot(v, size, "Param", reg, 0)
          \/ AddSlot(v, size, "Alloca", NoReg, 0)
          \/ AddSlot(v, size, "Spill", NoReg, 0)
      BY <2>2 DEF AddParam, AddAllocaSlot, AddSpillSlot
    <3>3. QED
      BY <1>1, <3>1, <3>2
  <2>3. NoReg \in ParamRegs \cup {NoReg}
    OBVIOUS
  <2>4. QED
    BY <1>3, <2>1, <2>2, <2>3 DEF Analysis
<1>4. CASE PlaceParam
  <2>1. cursor \in 1 .. Len(slots) /\ paramOffset \in Int /\ blockStart' = blockStart
    BY <1>0, <1>4 DEF PlaceParam, tempVars, TypeOK
  <2>2. slots' = slots \/ slots' = [slots EXCEPT ![cursor].off = paramOffset]
    BY <1>4 DEF PlaceParam
  <2>3. QED
    BY <1>2, <2>1, <2>2 DEF BlockBegan
<1>5. CASE PlaceLocal
  <2>1. /\ cursor \in 1 .. Len(slots) /\ blockStart' = blockStart
        /\ nextLocalOffset - slots[cursor].size \in Int
    BY <1>5, <1>0, SlotFields DEF PlaceLocal, tempVars, TypeOK
  <2>2. \/ slots' = slots
        \/ slots' = [slots EXCEPT ![cursor].off = nextLocalOffset - slots[cursor].size]
    BY <1>5 DEF PlaceLocal
  <2>3. QED
    BY <1>2, <2>1, <2>2 DEF BlockBegan
<1>6. CASE ParamsPlaced \/ PlaceTempArea
  BY <1>6, <1>0 DEF ParamsPlaced, PlaceTempArea, tempVars, BlockBegan
<1>7. CASE Lowering
  <2>1. phase = "lowering" /\ (blockStart' = blockStart \/ blockStart' = Len(slots))
    BY <1>7 DEF Lowering, AllocTemp, AllocResultSlot, KeepResult, MayHoldResult, ResultSlot,
       NewTempSlot, ResetTemp, SetPhysReg, tempVars
  <2>2. Len(slots') >= Len(slots)
    BY <2>1, LoweringStep
  <2>3. Len(slots') \in Nat
    BY <1>7, TypeStep, <1>0 DEF TypeOK, Next
  <2>4. QED
    BY <1>0, <2>1, <2>2, <2>3 DEF BlockBegan
<1>8. CASE UNCHANGED vars
  BY <1>8 DEF BlockBegan, vars, tempVars
<1>9. QED
  BY <1>3, <1>4, <1>5, <1>6, <1>7, <1>8 DEF Next, ComputeLayout

\* Every step of the class is a step of the contract, or invisible to it.
LEMMA ContractStep ==
  ASSUME IInv, IInv', BaseIsBottom', BlockBegan, [Next]_vars
  PROVE  [Contract!Next]_Contract!contractVars
<1>1. CASE phase # "lowering" /\ phase' # "lowering"
  BY <1>1, CollectingIsSilent
<1>2. CASE PlaceTempArea
  BY <1>2, LayOutStep DEF Contract!Next
<1>3. ASSUME NEW size \in Sizes, AllocTemp(size)
      PROVE  Contract!Take
  BY <1>3, TakeStep DEF AllocTemp, TempName, Names, IInv, TypeOK
<1>4. ASSUME NEW v \in Vregs, NEW size \in Sizes,
             AllocResultSlot(v, size) \/ KeepResult(v, size), ~HasSpillSlot(v)
      PROVE  Contract!Take
  BY <1>4, TakeStep DEF AllocResultSlot, KeepResult, MayHoldResult, ResultSlot, Names
<1>5. CASE ResetTemp
  BY <1>5, ReleaseStep DEF Contract!Next
<1>6. CASE UNCHANGED <<phase, slots, nextLocalOffset, totalFrameSize, blockStart>>
  BY <1>6, ServingStutters
<1>7. \/ phase # "lowering" /\ phase' # "lowering"
      \/ PlaceTempArea \/ ResetTemp
      \/ UNCHANGED <<phase, slots, nextLocalOffset, totalFrameSize, blockStart>>
      \/ \E size \in Sizes : AllocTemp(size)
      \/ \E v \in Vregs, size \in Sizes :
           (AllocResultSlot(v, size) \/ KeepResult(v, size)) /\ ~HasSpillSlot(v)
  BY DEF Next, Analysis, ComputeLayout, Lowering, AddParam, AddAllocaSlot, AddSpillSlot,
         SetMaxTempSpace, PlaceParam, ParamsPlaced, PlaceLocal, AllocResultSlot, KeepResult,
         ResultSlot, SetPhysReg, layoutVars, tempVars, vars
<1>8. QED
  BY <1>1, <1>2, <1>3, <1>4, <1>5, <1>6, <1>7 DEF Contract!Next

\* The class StackFrame implements the contract, whatever slots are registered,
\* however wrong the estimate of the temp space is.
THEOREM StackFrameKeepsContract == Spec => KeepsContract
<1>1. Init => Contract!Init
  BY DEF Init, LaidOut, SlotsAt, Contract!Init, Contract!NoAreas
<1>2. Init => BlockBegan
  BY DEF Init, BlockBegan
<1>3. IInv /\ BlockBegan /\ [Next]_vars => BlockBegan'
  BY BlockBeganStep
<1>4. IInv /\ IInv' /\ BaseIsBottom' /\ BlockBegan /\ [Next]_vars => [Contract!Next]_Contract!contractVars
  BY ContractStep
<1>5. QED
  BY <1>1, <1>2, <1>3, <1>4, BaseAtBottom, Invariance, PTL DEF Spec, KeepsContract, Contract!Spec
=============================================================================
