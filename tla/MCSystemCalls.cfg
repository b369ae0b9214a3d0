SPECIFICATION FairSpec
CONSTANTS
  W = 128
  Counts = {0, 1, 11, 100}
  Names = {"hf", "buf", "iov", "unused", "code", "request", "value", "a", "b", "c"}
  Calls <- Served
  MaxCalls = 2
INVARIANTS SyscallTypeOK DosGetsRequest ResultsRight
PROPERTIES CallerKept SyscallsAnswered
