SPECIFICATION FairSpec
CONSTANTS
  Daemons = {d1, d2}
  Ports = {p1}
  Clients = {c1, c2}
  None = None
  Methods <- MCMethods
  MaxFrames = 2
INVARIANTS
  TypeOK
  LockfilesAreTrue
  HandshakeIsRight
  RepliesInOrder
PROPERTY
  NobodyWaits
CHECK_DEADLOCK FALSE
