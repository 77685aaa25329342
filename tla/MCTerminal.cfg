CONSTANTS
  Width = 2
  Height = 2
  MaxBuffer = 2
  MaxString = 3
  MaxText = 4
SPECIFICATION Spec
INVARIANTS
  TypeOK
  PendingExact
  ScreenShowsOutput
