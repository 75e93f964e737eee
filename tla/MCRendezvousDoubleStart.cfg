SPECIFICATION Spec
CONSTANTS
  Procs = {p1, p2}
  None = None
  Faults = {}
INVARIANT
  LoserNeverPublishes
CHECK_DEADLOCK FALSE
