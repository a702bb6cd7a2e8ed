SPECIFICATION Spec
CONSTANTS
  Paths = {a, b}
  PhonePaths = {b}
  None = None
  Own = {"probe"}
  MaxChanges = 2
  MaxFaults = 2
INVARIANTS TypeOK NoLostStaging
PROPERTIES NeverOnSight EveryFileIsRecorded
