SPECIFICATION Spec
CONSTANTS
  Period = 3
  IdleTimeout = 6
  Late = 1
  MaxClients = 2
INVARIANTS
  TypeOK
  StopsOnlyWhenIdle
  StopsInTime
CHECK_DEADLOCK FALSE
