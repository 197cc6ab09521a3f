SPECIFICATION Bzip2Spec
CONSTANTS
  Commands <- MCCommands
  Directories <- MCDirectories
  Linked <- MCLinked
  Faults = {"fclose"}
  MaxFaults = 1
  MaxEnv = 0
INVARIANT NothingLost
