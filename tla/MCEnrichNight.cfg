CONSTANTS
  Paths = {p1, p2, p3}
  Notes = {p1, p2}
  Fixed = {p1}
  Stubborn = {p1}
  PageSize = 2
  MaxCalls = 2
  Fuse = 2
  None = None
  MaxEvents = 2
SPECIFICATION FairSpec
INVARIANTS
  TypeOK
  JudgedOrRaced
PROPERTIES
  OnlyRacesLose
  PaidForOnce
  EveryNoteIsJudged
