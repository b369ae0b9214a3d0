SPECIFICATION RSpec
CONSTANTS
  Base = 4
  ByteBase = 2
  Radix = 3
  BufferLength = 4
  Calls <- SignedDivisions
PROPERTY CallsReturn
