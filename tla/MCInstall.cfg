SPECIFICATION Spec
CONSTANTS
  MaxEntries = 1
  MaxSaves = 1
INVARIANTS
  TypeOK
  UserEntriesKept
  OriginalKept
  EndsAsAnnounced
PROPERTY
  NoDanglingBinding
CHECK_DEADLOCK FALSE
