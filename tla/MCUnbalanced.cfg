SPECIFICATION Spec
CONSTANTS
  Calls <- VariableFloat
  Top = 120
  MaxDepth = 3
  MaxCalls = 3
INVARIANT Balanced
