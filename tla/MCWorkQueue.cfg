CONSTANTS
  Owners = {judge}
  Targets = {t1, t2, t3}
  MaxAttempts = 2
  Limits = {2}
  MaxAborts = 1
SPECIFICATION FairSpec
INVARIANTS
  TypeOK
  NoRepeatInOneDrain
  NothingRetriesForever
  SilentMeansCovered
PROPERTIES
  EveryItemIsReached
  ImplementsLedger
CHECK_DEADLOCK FALSE
