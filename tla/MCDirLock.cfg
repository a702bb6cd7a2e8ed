CONSTANTS
  Procs = {g1, g2, y1}
  None = None
  GoProcs = {g1, g2}
  Stale = 2
  HeartbeatEvery = 1
  FaultKinds = {"crash", "pause", "interrupt"}
  MaxFaults = 1
SPECIFICATION LockFairSpec
INVARIANTS
  LockTypeOK
  ExclusiveUnlessOverlap
PROPERTIES
  CrashedLockIsReclaimed
