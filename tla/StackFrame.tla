---------------------------- MODULE StackFrame ----------------------------
(***************************************************************************)
(* The frame manager of the code generator (class StackFrame): the slots   *)
(* of a function's parameters, allocas and spilled vregs, the temp area    *)
(* that is reused by every basic block, and the two maps that say which    *)
(* register or stack place a vreg was last left in.                        *)
(*                                                                         *)
(* One behaviour is the life of one StackFrame object: FunctionAnalysis    *)
(* registers slots, computeLayout gives them bp offsets (one slot per step *)
(* of its two loops), then the instruction handlers allocate results and   *)
(* temps and move vregs between registers until the function is lowered.   *)
(***************************************************************************)
EXTENDS Integers, Sequences

CONSTANTS
  Vregs,                    (* the IR's virtual registers                   *)
  ax, bx, cx, dx, si, di,   (* the registers slots and vregs can live in    *)
  NoReg,                    (* paramReg = "": the parameter is on the stack *)
  Sizes,                    (* byte sizes requested for slots               *)
  TempSpaces,               (* values FunctionAnalysis estimates for a block*)
  ResultRegs,               (* registers the handlers leave a result in     *)
  MaxSlots                  (* bound on the slots one behaviour creates     *)

ParamRegs == {bx, si, di}
TempRegs == {ax, cx, dx}
Regs == ParamRegs \cup TempRegs

ASSUME SizesAssumption == Sizes \subseteq Nat \ {0}
ASSUME TempSpacesAssumption == TempSpaces \subseteq Nat
ASSUME MaxSlotsAssumption == MaxSlots \in Nat
ASSUME RegsAssumption == Regs \cap Int = {} /\ NoReg \notin Regs /\ ResultRegs \subseteq Regs
ASSUME VregsAssumption == Vregs \cap Int = {}

SavedRegs == 6      \* bx, si and di, pushed by the prologue below bp
FirstParam == 6     \* saved bp, IP and CS lie between bp and the arguments

Kinds == {"Param", "Alloca", "Spill", "Temp"}

TempName(offset) == offset    \* stands for the string "$temp_bp<offset>"
Names == Vregs \cup Int
Places == Regs \cup Int       \* a register name or a bp offset

Slot == [name : Names, size : Nat \ {0}, off : Int, kind : Kinds,
         reg : ParamRegs \cup {NoReg}]

VARIABLES
  phase,            \* "analysis", "params", "locals" (computeLayout), "lowering"
  cursor,           \* next slot of computeLayout's loop
  paramOffset,      \* next offset computeLayout gives to a stack parameter
  slots,            \* the slots vector
  index,            \* vregToSlotIndex
  vregToPhys,
  physToVreg,
  nextLocalOffset,
  localsSize,
  tempSize,
  totalFrameSize,
  tempBase,
  tempCurrent,
  blockStart        \* auxiliary: slots that existed when this block began

layoutVars == <<phase, cursor, paramOffset, nextLocalOffset, localsSize>>
tempVars == <<tempSize, totalFrameSize, tempBase, tempCurrent, blockStart>>
regVars == <<vregToPhys, physToVreg>>
vars == <<layoutVars, slots, index, regVars, tempVars>>

EmptyMap == [x \in {} |-> x]
Put(map, key, value) ==
  [k \in DOMAIN map \cup {key} |-> IF k = key THEN value ELSE map[k]]
Drop(map, keys) == [k \in DOMAIN map \ keys |-> map[k]]

HasSlot(v) == v \in DOMAIN index
KindOf(v) == slots[index[v]].kind
IsLocal(slot) == slot.kind \in {"Alloca", "Spill"}
IsStackParam(slot) == slot.kind = "Param" /\ slot.reg = NoReg

-----------------------------------------------------------------------------
(* Accessors *)

GetPhysReg(v) ==
  IF HasSlot(v)
    THEN LET slot == slots[index[v]]
         IN IF slot.kind = "Param" /\ slot.reg # NoReg THEN slot.reg ELSE slot.off
    ELSE IF v \in DOMAIN vregToPhys THEN vregToPhys[v] ELSE ax

Occupied(p) == p \in DOMAIN physToVreg

GetFreeTempReg ==
  IF ~Occupied(ax) THEN ax
  ELSE IF ~Occupied(cx) THEN cx
  ELSE IF ~Occupied(dx) THEN dx
  ELSE cx

-----------------------------------------------------------------------------
(* Pass 1: the analysis registers slots; no offset is known yet. *)

Init ==
  /\ phase = "analysis"
  /\ cursor = 1
  /\ paramOffset = FirstParam
  /\ slots = <<>>
  /\ index = EmptyMap
  /\ vregToPhys = EmptyMap
  /\ physToVreg = EmptyMap
  /\ nextLocalOffset = -SavedRegs
  /\ localsSize = 0
  /\ tempSize = 0
  /\ totalFrameSize = 0
  /\ tempBase = 0
  /\ tempCurrent = 0
  /\ blockStart = 0

\* Seeded fault: the index is read after the push_back.
AddSlotIndexLate(v, size, kind, reg, off) ==
  /\ Len(slots) < MaxSlots
  /\ slots' = Append(slots, [name |-> v, size |-> size, off |-> off,
                             kind |-> kind, reg |-> reg])
  /\ index' = Put(index, v, Len(slots) + 2)

AddSlot(v, size, kind, reg, off) ==
  /\ Len(slots) < MaxSlots
  /\ slots' = Append(slots, [name |-> v, size |-> size, off |-> off,
                             kind |-> kind, reg |-> reg])
  /\ index' = Put(index, v, Len(slots) + 1)

\* analyzeParams gives each of bx, si and di to at most one 16-bit parameter.
AddParam(v, size, reg) ==
  /\ phase = "analysis"
  /\ ~HasSlot(v)
  /\ \A i \in 1 .. Len(slots) : slots[i].kind = "Param"
  /\ reg # NoReg => size = 2 /\ ~Occupied(reg)
  /\ AddSlot(v, size, "Param", reg, 0)
  /\ vregToPhys' = IF reg = NoReg THEN vregToPhys ELSE Put(vregToPhys, v, reg)
  /\ physToVreg' = IF reg = NoReg THEN physToVreg ELSE Put(physToVreg, reg, v)
  /\ UNCHANGED <<layoutVars, tempVars>>

AddAllocaSlot(v, size) ==
  /\ phase = "analysis"
  /\ ~HasSlot(v)
  /\ \A i \in 1 .. Len(slots) : slots[i].kind # "Spill"
  /\ AddSlot(v, size, "Alloca", NoReg, 0)
  /\ UNCHANGED <<layoutVars, regVars, tempVars>>

AddSpillSlot(v, size) ==
  /\ phase = "analysis"
  /\ ~HasSlot(v)
  /\ AddSlot(v, size, "Spill", NoReg, 0)
  /\ UNCHANGED <<layoutVars, regVars, tempVars>>

\* The last step of the analysis; lowerFunction then calls computeLayout.
SetMaxTempSpace(bytes) ==
  /\ phase = "analysis"
  /\ tempSize' = bytes
  /\ phase' = "params"
  /\ UNCHANGED <<cursor, paramOffset, nextLocalOffset, localsSize, slots, index,
                 regVars, totalFrameSize, tempBase, tempCurrent, blockStart>>

-----------------------------------------------------------------------------
(* Pass 2: computeLayout *)

\* Seeded fault: every stack parameter is taken to be one word.
PlaceParamAsWord ==
  /\ phase = "params"
  /\ cursor <= Len(slots)
  /\ cursor' = cursor + 1
  /\ IF IsStackParam(slots[cursor])
       THEN /\ slots' = [slots EXCEPT ![cursor].off = paramOffset]
            /\ paramOffset' = paramOffset + 2
       ELSE UNCHANGED <<slots, paramOffset>>
  /\ UNCHANGED <<phase, nextLocalOffset, localsSize, index, regVars, tempVars>>

PlaceParam ==
  /\ phase = "params"
  /\ cursor <= Len(slots)
  /\ cursor' = cursor + 1
  /\ IF IsStackParam(slots[cursor])
       THEN /\ slots' = [slots EXCEPT ![cursor].off = paramOffset]
            /\ paramOffset' = paramOffset + slots[cursor].size
       ELSE UNCHANGED <<slots, paramOffset>>
  /\ UNCHANGED <<phase, nextLocalOffset, localsSize, index, regVars, tempVars>>

ParamsPlaced ==
  /\ phase = "params"
  /\ cursor > Len(slots)
  /\ phase' = "locals"
  /\ cursor' = 1
  /\ nextLocalOffset' = -SavedRegs
  /\ localsSize' = 0
  /\ UNCHANGED <<paramOffset, slots, index, regVars, tempVars>>

\* Seeded fault: the offset is stored before it is lowered by the size.
PlaceLocalEarly ==
  /\ phase = "locals"
  /\ cursor <= Len(slots)
  /\ cursor' = cursor + 1
  /\ IF IsLocal(slots[cursor])
       THEN /\ slots' = [slots EXCEPT ![cursor].off = nextLocalOffset]
            /\ nextLocalOffset' = nextLocalOffset - slots[cursor].size
            /\ localsSize' = localsSize + slots[cursor].size
       ELSE UNCHANGED <<nextLocalOffset, localsSize, slots>>
  /\ UNCHANGED <<phase, paramOffset, index, regVars, tempVars>>

PlaceLocal ==
  /\ phase = "locals"
  /\ cursor <= Len(slots)
  /\ cursor' = cursor + 1
  /\ IF IsLocal(slots[cursor])
       THEN /\ nextLocalOffset' = nextLocalOffset - slots[cursor].size
            /\ localsSize' = localsSize + slots[cursor].size
            /\ slots' = [slots EXCEPT ![cursor].off = nextLocalOffset']
       ELSE UNCHANGED <<nextLocalOffset, localsSize, slots>>
  /\ UNCHANGED <<phase, paramOffset, index, regVars, tempVars>>

PlaceTempArea ==
  /\ phase = "locals"
  /\ cursor > Len(slots)
  /\ phase' = "lowering"
  /\ tempBase' = nextLocalOffset - tempSize
  /\ tempCurrent' = tempBase'
  /\ totalFrameSize' = localsSize + tempSize
  /\ blockStart' = Len(slots)
  /\ UNCHANGED <<cursor, paramOffset, nextLocalOffset, localsSize, slots, index,
                 regVars, tempSize>>

-----------------------------------------------------------------------------
(* Pass 3: the instruction handlers *)

\* Seeded fault: the frame size is not refreshed when the area grows.
ExtendWithoutFrame(needed) ==
  LET excess == tempCurrent - tempBase + needed - tempSize
  IN IF excess > 0
       THEN tempBase' = tempBase - excess /\ tempSize' = tempSize + excess
            /\ UNCHANGED totalFrameSize
       ELSE UNCHANGED <<tempBase, tempSize, totalFrameSize>>

\* Seeded fault: the new frame size forgets what the block already used.
ExtendForgetsUsed(needed) ==
  LET excess == tempCurrent - tempBase + needed - tempSize
  IN IF excess > 0
       THEN tempBase' = tempBase - excess /\ tempSize' = tempSize + excess
            /\ totalFrameSize' = localsSize + needed
       ELSE UNCHANGED <<tempBase, tempSize, totalFrameSize>>

ExtendTempArea(needed) ==
  LET used == tempCurrent - tempBase
      excess == used + needed - tempSize
  IN IF excess > 0
       THEN /\ tempBase' = tempBase - excess
            /\ tempSize' = used + needed
            /\ totalFrameSize' = localsSize + used + needed
       ELSE UNCHANGED <<tempBase, tempSize, totalFrameSize>>

\* Seeded fault: every temp is taken to be one word.
NewTempSlotAsWord(name, size) ==
  /\ ExtendTempArea(size)
  /\ AddSlot(name, size, "Temp", NoReg, tempCurrent)
  /\ tempCurrent' = tempCurrent + 2
  /\ UNCHANGED <<layoutVars, blockStart>>

NewTempSlot(name, size) ==
  /\ ExtendTempArea(size)
  /\ AddSlot(name, size, "Temp", NoReg, tempCurrent)
  /\ tempCurrent' = tempCurrent + size
  /\ UNCHANGED <<layoutVars, blockStart>>

AllocTemp(size) ==
  /\ phase = "lowering"
  /\ NewTempSlot(TempName(tempCurrent), size)
  /\ UNCHANGED regVars

HasSpillSlot(v) == HasSlot(v) /\ KindOf(v) = "Spill"

\* Every vreg is the result of one instruction, which is lowered once.
MayHoldResult(v) == phase = "lowering" /\ (HasSlot(v) => KindOf(v) = "Spill")

\* Seeded fault: the spill slot is resized to what the handler asks for.
ResultSlotResized(v, size) ==
  IF HasSpillSlot(v)
    THEN /\ slots' = [slots EXCEPT ![index[v]].size = size]
         /\ UNCHANGED <<layoutVars, index, tempVars>>
    ELSE NewTempSlot(v, size)

\* Seeded fault: the spill slot of the analysis is overlooked.
ResultSlotAnew(v, size) == NewTempSlot(v, size)

ResultSlot(v, size) ==
  IF HasSpillSlot(v) THEN UNCHANGED <<layoutVars, slots, index, tempVars>>
                     ELSE NewTempSlot(v, size)

\* The offset allocResultSlot returns.
ResultOffset(v) == IF HasSpillSlot(v) THEN slots[index[v]].off ELSE tempCurrent

AllocResultSlot(v, size) ==
  /\ MayHoldResult(v)
  /\ ResultSlot(v, size)
  /\ UNCHANGED regVars

ResetTemp ==
  /\ phase = "lowering"
  /\ tempCurrent' = tempBase
  /\ blockStart' = Len(slots)
  /\ UNCHANGED <<layoutVars, slots, index, regVars, tempSize, totalFrameSize,
                 tempBase>>

\* Seeded fault: the vreg that held the place keeps it too.
EvictedNobody(v, p) == {}

Evicted(v, p) ==
  IF Occupied(p) /\ ~(v \in DOMAIN vregToPhys /\ vregToPhys[v] = p)
    THEN {physToVreg[p]} ELSE {}

MapReg(v, p) ==
  /\ vregToPhys' = Put(Drop(vregToPhys, Evicted(v, p)), v, p)
  /\ physToVreg' = Put(IF v \in DOMAIN vregToPhys
                         THEN Drop(physToVreg, {vregToPhys[v]})
                         ELSE physToVreg, p, v)

SetPhysReg(v, p) ==
  /\ phase = "lowering"
  /\ MapReg(v, p)
  /\ UNCHANGED <<layoutVars, slots, index, tempVars>>

\* The handlers' way to keep a result: allocResultSlot, then setPhysReg to it.
KeepResult(v, size) ==
  /\ MayHoldResult(v)
  /\ ResultSlot(v, size)
  /\ MapReg(v, ResultOffset(v))

\* A handler leaves a vreg in a register, in its own slot, or (lowerLoad, for a
\* pointer it saves) in a slot of allocTemp.
ResultPlaces(v) ==
  ResultRegs \cup {slots[i].off : i \in {j \in 1 .. Len(slots) :
                     slots[j].name \in Int \/ (HasSlot(v) /\ index[v] = j)}}

Analysis ==
  \/ \E v \in Vregs, size \in Sizes \cap {2, 4}, reg \in ParamRegs \cup {NoReg} :
       AddParam(v, size, reg)
  \/ \E v \in Vregs, size \in Sizes : AddAllocaSlot(v, size)
  \/ \E v \in Vregs, size \in Sizes \cap {2, 4} : AddSpillSlot(v, size)
  \/ \E bytes \in TempSpaces : SetMaxTempSpace(bytes)

ComputeLayout == PlaceParam \/ ParamsPlaced \/ PlaceLocal \/ PlaceTempArea

Lowering ==
  \/ \E size \in Sizes : AllocTemp(size)
  \/ \E v \in Vregs, size \in Sizes : AllocResultSlot(v, size) \/ KeepResult(v, size)
  \/ ResetTemp
  \/ \E v \in Vregs : \E p \in ResultPlaces(v) : SetPhysReg(v, p)

Next == Analysis \/ ComputeLayout \/ Lowering

Spec == Init /\ [][Next]_vars
-----------------------------------------------------------------------------
(* Properties *)

\* The frame and the register maps have their types: in whatever order names are
\* registered, every one that is known has the index of a slot.
TypeOK ==
  /\ phase \in {"analysis", "params", "locals", "lowering"}
  /\ cursor \in Nat \ {0}
  /\ paramOffset \in Int
  /\ slots \in Seq(Slot)
  /\ DOMAIN index \subseteq Names
  /\ \A n \in DOMAIN index : index[n] \in 1 .. Len(slots)
  /\ DOMAIN vregToPhys \subseteq Vregs
  /\ \A v \in DOMAIN vregToPhys : vregToPhys[v] \in Places
  /\ DOMAIN physToVreg \subseteq Places
  /\ \A p \in DOMAIN physToVreg : physToVreg[p] \in Vregs
  /\ nextLocalOffset \in Int /\ localsSize \in Int
  /\ tempSize \in Nat /\ totalFrameSize \in Int
  /\ tempBase \in Int /\ tempCurrent \in Int
  /\ blockStart \in Nat

\* setPhysReg, addParam: the two register maps are inverse of each other, so
\* no register or place is ever recorded as holding two vregs, and no vreg is
\* recorded in a place that was given to another one.
RegMapsInverse ==
  /\ \A v \in DOMAIN vregToPhys :
       vregToPhys[v] \in DOMAIN physToVreg /\ physToVreg[vregToPhys[v]] = v
  /\ \A p \in DOMAIN physToVreg :
       physToVreg[p] \in DOMAIN vregToPhys /\ vregToPhys[physToVreg[p]] = p

End(slot) == slot.off + slot.size
Disjoint(s, t) == End(s) <= t.off \/ End(t) <= s.off
LocalIndices == {i \in 1 .. Len(slots) : IsLocal(slots[i])}
BlockTemps == {i \in 1 .. Len(slots) : i > blockStart /\ slots[i].kind = "Temp"}

\* computeLayout: once the layout is known, two allocas or spill slots never
\* share a byte, none reaches into the saved registers above, and two stack
\* parameters never share a byte nor reach the return address below them.
LocalsDisjoint ==
  phase = "lowering" =>
    /\ \A i, j \in LocalIndices : i # j => Disjoint(slots[i], slots[j])
    /\ \A i \in LocalIndices : End(slots[i]) <= -SavedRegs
ParamsDisjoint ==
  phase = "lowering" =>
    LET stacked == {i \in 1 .. Len(slots) : IsStackParam(slots[i])} IN
    /\ \A i, j \in stacked : i # j => Disjoint(slots[i], slots[j])
    /\ \A i \in stacked : slots[i].off >= FirstParam

\* extendTempArea, getFrameSize: every slot handed out lies above the stack
\* pointer the prologue sets with `sub sp, totalFrameSize`, whatever was
\* allocated after the estimate; an interrupt or a call destroys what is below.
FrameCoversSlots ==
  phase = "lowering" =>
    /\ tempBase = -SavedRegs - totalFrameSize
    /\ \A i \in LocalIndices \cup BlockTemps : slots[i].off >= tempBase

\* allocTemp, allocResultSlot, resetTemp: the temps of one basic block never
\* share a byte, even across extensions of the temp area.
BlockTempsDisjoint ==
  phase = "lowering" =>
    \A i, j \in BlockTemps : i # j => Disjoint(slots[i], slots[j])

\* As long as the block's temps fit in the area computeLayout reserved, they
\* are clear of every alloca and every spilled vreg.
TempsThatFitAvoidLocals ==
  phase = "lowering" /\ tempCurrent <= nextLocalOffset =>
    \A i \in BlockTemps, j \in LocalIndices : Disjoint(slots[i], slots[j])

\* The comment of extendTempArea says that the area is extended downward: temps
\* then never reach the locals or the saved registers above the area.
TempsAvoidLocals ==
  phase = "lowering" =>
    \A i \in BlockTemps :
      /\ \A j \in LocalIndices : Disjoint(slots[i], slots[j])
      /\ End(slots[i]) <= -SavedRegs

\* "fixed offsets for all vregs": once laid out, a slot never moves or changes
\* size, whatever is allocated later, because code that addresses it is emitted.
SlotsNeverMove ==
  [][phase = "lowering" =>
       /\ Len(slots') >= Len(slots)
       /\ \A i \in 1 .. Len(slots) : slots'[i] = slots[i]]_vars

\* A parameter, an alloca or a spilled vreg is found in the slot the analysis
\* gave it for the rest of the function: no handler can rebind it to a temp.
HomesAreKept ==
  [][phase = "lowering" =>
       \A v \in Vregs : HasSlot(v) => HasSlot(v)' /\ index'[v] = index[v]]_vars

\* What the handlers may rely on, by the contract's names: the homes are the
\* allocas and spill slots, the temps those of the current block, the roof is
\* where computeLayout stopped, the bottom is where the prologue leaves sp.
LaidOut == phase = "lowering"
SlotsAt(indices) == [i \in indices |-> slots[i]]
Contract == INSTANCE FrameContract WITH
  Ceiling <- -SavedRegs,
  stage   <- IF LaidOut THEN "serving" ELSE "collecting",
  homes   <- SlotsAt(IF LaidOut THEN LocalIndices ELSE {}),
  temps   <- SlotsAt(IF LaidOut THEN BlockTemps ELSE {}),
  roof    <- IF LaidOut THEN nextLocalOffset ELSE 0,
  bottom  <- IF LaidOut THEN -SavedRegs - totalFrameSize ELSE 0

\* The class implements the contract: computeLayout lays all homes out at once
\* as its caller sees it, every handler takes at most one temp and moves nothing
\* else, however the area is extended, and resetTemp gives the temps back.
KeepsContract == Contract!Spec

\* The prologue is emitted last, with the final frame size: it must cover what
\* was emitted for the first blocks, so the size never shrinks.
FrameNeverShrinks ==
  [][phase = "lowering" => totalFrameSize' >= totalFrameSize]_vars
=============================================================================
