SPECIFICATION Spec
CONSTANTS
  Paths = {a, b}
  PhonePaths = {b}
  None = None
  Own = {"probe"}
  MaxChanges = 2
  MaxFaults = 1
PROPERTY EveryDeletionIsRecorded
