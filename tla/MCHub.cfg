SPECIFICATION Spec
CONSTANTS
  Clients = {c1, c2}
  Handlers = {h1, h2}
  Free = Free
  PendingCap = 2
  BroadcastCap = 3
  MaxPayloads = 4
SYMMETRY Symmetry
INVARIANTS
  TypeOK
  SettledOnce
  NoStrandedBacklog
  NothingOwedIsForgotten
  LagOnlyUnderLoad
  ConnectedIsExact
  NoWarningMeansSent
  UnheardOnlyAfterDeparture
PROPERTIES
  ImplementsMailbox
  NoEvictionWhileServed
CHECK_DEADLOCK FALSE
