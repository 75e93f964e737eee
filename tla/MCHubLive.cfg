SPECIFICATION FairSpec
CONSTANTS
  Clients = {c1, c2}
  Handlers = {h1}
  Free = Free
  PendingCap = 1
  BroadcastCap = 2
  MaxPayloads = 3
PROPERTIES
  OwedIsDelivered
CHECK_DEADLOCK FALSE
