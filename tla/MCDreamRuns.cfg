CONSTANTS
  Commands = {"pass", "manifest", "build"}
  Every = 2
  MaxTime = 3
  MaxRuns = 2
  MaxIntents = 2
  MaxStops = 2
SPECIFICATION FairSpec
INVARIANTS
  TypeOK
  NoForgottenIntent
PROPERTIES
  PassesAreSpaced
  EveryIntentIsSettled
CHECK_DEADLOCK FALSE
