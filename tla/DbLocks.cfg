SPECIFICATION MCSpec
CONSTANTS
  Procs = {1, 2, 3}
  MaxNodes = 3
  UseLockTimeout = TRUE
  LateWakes = FALSE
INVARIANTS
  WordsCount
PROPERTIES
  ImplementsRwLock
  PreferredServed
  EveryRequestServed
