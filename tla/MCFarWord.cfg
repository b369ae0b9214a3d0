SPECIFICATION Spec
CONSTANTS
  W = 64
  FrameTop = 32
  Types <- AllTypes
  Globals <- Words16
  Locals <- OneLocal
  Indices = {0, 1}
  Features = {"farWord"}
  MaxSteps = 3
INVARIANT
  LoadsRight
