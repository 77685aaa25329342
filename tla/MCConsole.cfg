CONSTANTS
  Width = 2
  Height = 2
  VideoRows = 7
  Base = 3
  MaxText = 4
SPECIFICATION Spec
INVARIANTS
  
  HardwareCursor
  CursorOnScreen
