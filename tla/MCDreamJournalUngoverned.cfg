CONSTANTS
  a = a
  b = b
  Paths = {a, b}
  Notes = {a}
  MaxVersions = 4
  MaxPlans = 1
  MaxBatch = 1
  MaxCrashes = 1
  MaxHands = 1
SPECIFICATION Spec
INVARIANT MadeImpliesGoverned
CHECK_DEADLOCK FALSE
