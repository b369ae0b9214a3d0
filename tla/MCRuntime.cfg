SPECIFICATION RSpec
CONSTANTS
  Base = 16
  ByteBase = 4
  Radix = 10
  BufferLength = 4
  Calls <- EverydayCalls
INVARIANTS
  RuntimeTypeOK
  QuotientsRight
  UnsignedRemaindersRight
  PartialQuotients
  ProductsRight
  DigitsRight
PROPERTY CallsReturn
