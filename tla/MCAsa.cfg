CONSTANTS
  Length = 9
  ReservedPages = 2
  MaxRequest = 6
SPECIFICATION Spec
INVARIANTS
  NoOverlap
  FirstFit
  NullMeansFull
PROPERTIES
  AllocReturns
