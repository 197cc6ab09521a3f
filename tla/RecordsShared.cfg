SPECIFICATION WhiteDbSpec
CONSTANTS
  Parts = {"chains"}
  Align = 2
  ExactNr = 8
  VarNr = 4
  InitialSubarea = 16
  MinimalSubarea = 16
  SubareaArray = 3
  SegmentSize = 69
  Lengths = {3, 9}
  AreaOrder <- MCAreaOrder
  ObjLength <- MCObjLength
  InitialSize <- MCInitialSize
  HeaderSize = 2
  HashArea = 2
  \* a request smaller than the alignment leaves room for, and one that is
  \* larger than twice the first block
  HeaderBytes = 6
  MinFirst = 8
  ALIGNMENT = 4
  Requests = {5, 30}
  MaxBlocks = 3
  \* two names, attached without a size, with one that is too small and with
  \* one that is larger than the default
  Names = {1, 2}
  AskedSizes = {0, 1, 3}
  DefaultSize = 2
  MinInit = 2
  KeyTableSize = 4
  MallocFails = TRUE
  MaxHandles = 3
  \* a segment that outgrows the one it is imported to
  Writers = {"w"}
  Readers = {"r"}
  DiskFails = TRUE
  MaxChunks = 2
  MaxVersion = 2
  CopyChunks = 1
  Rows <- MCRows
  Key <- MCKey
  NodeSize = 2
  Underflow = 1
  MaxNodes = 4
  r1 = r1
  r2 = r2
  r3 = r3
  r4 = r4
  text = text
  nothing = nothing
  LongTexts = {"a", "b"}
  ShortTexts = {"en"}
  Hash <- PlainHash
  StrHashSize = 2
  Fields = {1, 2}
  MaxStrings = 3
  HashRows <- MCHashRows
  RowValues <- MCRowValues
  BucketOf <- Parity
  IdxHashSize = 2
  MaxBuckets = 2
  Keys = {0, 1, 3, 4}
  Vals = {1, 2}
  Scrambled <- MCScrambled
  Cap = 2
  MaxLevel = 4
  MaxAdds = 6
  Docs = {3, 5, 8, 10}
  PageSize = 2
  HashJoinFrom = 4
  HashUniqueFrom = 3
  Sizes <- MCSizes
  Scramble <- Triple
  MaxRows = 3
  Table <- MCTable
  ByKey <- MCByKey
  QueryValues = {1, 2}
  Limits = {0, 2}
  MaxArgs = 3
INVARIANT BacklinksProvidedFor
CHECK_DEADLOCK FALSE
