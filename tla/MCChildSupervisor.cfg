SPECIFICATION Spec
CONSTANTS
  Callers = {c1, c2, c3}
  None = None
  FailThreshold = 3
  MaxBackoff = 2
  MaxFaults = 2
INVARIANTS TypeOK NoOrphan
PROPERTIES CondemnedForCause WarmIsHonest ServesAgain
CHECK_DEADLOCK FALSE
