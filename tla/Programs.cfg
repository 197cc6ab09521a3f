SPECIFICATION ProgramsSpec
CONSTANTS
  Commands <- MCCommands
  Directories <- MCDirectories
  Linked <- MCLinked
  Faults = {"read", "write", "create", "open", "stat", "utime", "remove", "kill"}
  MaxFaults = 1
  MaxEnv = 1
  Bytes = {0, 1}
  nblockMAX = 4
  MaxRun = 6
  Inputs <- MCInputs
  OtherFiles <- MCOtherFiles
  InSizes = {1, 9}
  OutSizes = {1, 2}
  MaxFlush = 1
  Roots <- MCRoots
  Suite <- MCSuite
  Dirs <- MCDirs
  MayFail = {"both", "native", "nothing"}
  Options <- MCOptions
INVARIANTS
  NothingLost
  ExitTells
  FilesKept
  Measured
  BlockFits
  RoundTrip
  CallsSucceed
  BoardExact
  RepeatsCounted
  MovesExact
  SwapExact
PROPERTIES
  FlushComplete
  EveryFileRead
  UnmakeRestores
  PlaysChess
