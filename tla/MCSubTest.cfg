SPECIFICATION CSpec
CONSTANTS
  t1 = t1
  t2 = t2
  t3 = t3
  t4 = t4
  t5 = t5
  t6 = t6
  p1 = p1
  p2 = p2
  p3 = p3
  ax = ax
  bx = bx
  cx = cx
  dx = dx
  si = si
  di = di
  NoReg = NoReg
  Vregs <- MCVregs
  Sizes = {2, 4}
  TempSpaces <- MCTempSpaces
  ResultRegs = {ax, cx, dx}
  MaxSlots = 12
  Base = 4
  ByteBase = 2
  Radix = 2
  BufferLength = 1
  Calls = {}
  Inputs = {0, 1, 2, 3}
  Junks = {2}
  Programs <- SubTest
INVARIANT ReturnMatches
