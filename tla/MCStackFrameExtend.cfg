SPECIFICATION Spec
CONSTANTS
  Vregs = {v1, v2, v3, v4}
  ax = ax
  bx = bx
  cx = cx
  dx = dx
  si = si
  di = di
  NoReg = NoReg
  Sizes = {4, 8}
  TempSpaces = {22}
  ResultRegs = {}
  MaxSlots = 4
SYMMETRY Symmetry
INVARIANT TempsAvoidLocals
