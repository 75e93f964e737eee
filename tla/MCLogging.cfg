SPECIFICATION Spec
CONSTANTS
  w1 = w1
  w2 = w2
  w3 = w3
  Processes <- MCProcesses
  MAX_LOG_BYTES = 2
  MaxRecords = 5
SYMMETRY MCSymmetry
INVARIANTS
  TypeOK
  SizeBound
  LinesWhole
  NewestKept
CHECK_DEADLOCK FALSE
