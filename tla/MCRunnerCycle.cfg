CONSTANTS
  Manifests <- BatchAndBrief
  Cycles = {host}
  Day = 5
  SpendWindow = 3
  Ceiling = 2
  StopAt = 2
  MaxTime = 13
  MaxKills = 1
SPECIFICATION Spec
INVARIANTS
  AttemptsAreBounded
  RunsOnTime
PROPERTIES
  PaidOncePerWindow
  FleetUnderCeiling
CHECK_DEADLOCK FALSE
