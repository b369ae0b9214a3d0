SPECIFICATION Spec
CONSTANTS
  Vregs = {v1, v2, v3}
  ax = ax
  bx = bx
  cx = cx
  dx = dx
  si = si
  di = di
  NoReg = NoReg
  Sizes = {2, 4}
  TempSpaces = {0, 4}
  ResultRegs = {}
  MaxSlots = 4
SYMMETRY Symmetry
INVARIANTS
  TypeOK
  LocalsDisjoint
  ParamsDisjoint
  FrameCoversSlots
PROPERTIES
  SlotsNeverMove
  HomesAreKept
  KeepsContract
