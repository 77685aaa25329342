CONSTANTS
  PageSize = 32
  SectionSize = 4
  HeaderSize = 4
  IntBits = 8
  IntSize = 1
  MinBlockSize = 16
  AsaLength = 5
  ReservedPages = 2
  Requests <- MCRequests
SPECIFICATION Spec
INVARIANTS
  AllocationsDisjoint
  SectionsAccounted
  FreeFindsEnd
  BlocksBacked
PROPERTIES
  MallocEnds
CHECK_DEADLOCK FALSE
