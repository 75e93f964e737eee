SPECIFICATION FairSpec
CONSTANTS
  Procs = {p1, p2}
  None = None
  Faults = {}
PROPERTY
  QueuedIsDrained
CHECK_DEADLOCK FALSE
