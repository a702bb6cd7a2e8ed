CONSTANTS
  Procs = {y1, y2, y3}
  None = None
  GoProcs = {}
  Stale = 2
  HeartbeatEvery = 1
  FaultKinds = {"crash"}
  MaxFaults = 1
SPECIFICATION LockSpec
INVARIANTS
  MutualExclusion
