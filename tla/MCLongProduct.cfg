SPECIFICATION RSpec
CONSTANTS
  Base = 16
  ByteBase = 4
  Radix = 3
  BufferLength = 4
  Calls <- Products
INVARIANT ProductsRight
