CONSTANTS
  Entries = 5
  FrameCount = 9
  WordBits = 4
  ReservedPages = 4
  WindowPage = 3
  PageDirectory = 1
  FirstTable = 2
  ClientPages <- MCClientPages
  InitReserved = {0}
SPECIFICATION Spec
INVARIANTS
  TypeOK
  FrameExclusive
  IdentityIntact
  TlbCoherent
  NeverHalts
  GetPhysExact
  OomExact
PROPERTIES
  DataPreserved
  ImplementsPageMap
CHECK_DEADLOCK TRUE
