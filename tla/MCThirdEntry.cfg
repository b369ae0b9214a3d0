SPECIFICATION Spec
CONSTANTS
  W = 128
  Counts = {0, 1, 11, 100}
  Names = {"hf", "buf", "iov", "unused", "code", "request", "value", "a", "b", "c"}
  Calls <- ThirdEntry
  MaxCalls = 2
INVARIANT ThirdEntryWorks
