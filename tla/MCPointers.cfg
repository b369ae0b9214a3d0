SPECIFICATION Spec
CONSTANTS
  W = 64
  FrameTop = 32
  Types <- AllTypes
  Globals <- Everything
  Locals <- Allocas
  Indices = {0, 1}
  Features = {}
  MaxSteps = 3
INVARIANTS
  PointersTypeOK
  AddressesRight
  LoadsRight
  MemoryAgrees
