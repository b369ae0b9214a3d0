SPECIFICATION FairSpec
CONSTANTS
  Calls <- Matched
  Top = 120
  MaxDepth = 3
  MaxCalls = 3
INVARIANTS
  CallTypeOK
  ParamsFound
  FrameIntact
  Balanced
PROPERTIES
  RegistersKept
  Finishes
