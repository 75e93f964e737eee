SPECIFICATION Spec
CONSTANTS
  Procs = {p1, p2, p3}
  None = None
  Faults = {"kill", "disk", "fork", "reject"}
SYMMETRY Symmetry
INVARIANTS
  TypeOK
  OneOwner
  OnlyKnownLosses
CHECK_DEADLOCK FALSE
