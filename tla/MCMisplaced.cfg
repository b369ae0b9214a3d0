SPECIFICATION Spec
CONSTANTS
  Calls <- Registers
  Top = 120
  MaxDepth = 3
  MaxCalls = 3
INVARIANT ParamsFound
