SPECIFICATION Spec
CONSTANTS
  Procs = {p1, p2}
  None = None
  Faults = {}
INVARIANT
  QueueFilesAreAtomic
CHECK_DEADLOCK FALSE
