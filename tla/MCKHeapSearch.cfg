CONSTANTS
  MaxLength = 8
  WordBits = 3
SPECIFICATION Spec
INVARIANTS
  SearchExact
  MarkExact
PROPERTIES
  SearchEnds
CHECK_DEADLOCK FALSE
