SPECIFICATION Spec
CONSTANTS
  Procs = {p1, p2, p3}
  MaxNodes = 3
  UseLockTimeout = FALSE
  LateWakes = TRUE
SYMMETRY Symmetry
INVARIANT MutualExclusion
