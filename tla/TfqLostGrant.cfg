SPECIFICATION Spec
CONSTANTS
  Procs = {p1, p2, p3}
  MaxNodes = 3
  UseLockTimeout = TRUE
  LateWakes = FALSE
SYMMETRY Symmetry
INVARIANT HeadAdmitted
