SPECIFICATION FairSpec
CONSTANTS
  Procs = {p1, p2}
  None = None
  Faults = {"kill", "stop", "fork", "reject", "queue"}
INVARIANTS
  OneOwner
  AtMostOnce
  SentOrderIsKept
PROPERTIES
  SendsEnd
  BoundDaemonDrains
CHECK_DEADLOCK FALSE
