CONSTANTS
  a = a
  b = b
  c = c
  Paths = {a, b, c}
  Notes = {a}
  MaxVersions = 4
  MaxPlans = 2
  MaxBatch = 2
  MaxCrashes = 2
  MaxHands = 1
SPECIFICATION FairSpec
INVARIANTS
  TypeOK
  ClobbersOnlyInTheWindow
  AppliedImpliesRecorded
  NoIntentLeftBehind
PROPERTY EveryRunEnds
CHECK_DEADLOCK FALSE
