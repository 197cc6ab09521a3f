SPECIFICATION DumpSpec
CONSTANTS
  Writers = {"w"}
  Readers = {}
  DiskFails = FALSE
  MaxChunks = 3
  MaxVersion = 2
  CopyChunks = 2
INVARIANT DumpUsable
CHECK_DEADLOCK FALSE
