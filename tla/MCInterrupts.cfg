CONSTANTS
  MaxRoutines = 2
  Periods = {1, 3}
  Waits = {0, 2}
  Rates = {1, 3}
  Wrap = 4
SPECIFICATION Spec
INVARIANTS
  TypeOK
  FaultOnlyUninstalled
  RoutinesOnTime
  NothingLeftInService
  DriversHandleTheirLines
PROPERTIES
  WaitNotShort
  WaitEnds
CHECK_DEADLOCK TRUE
