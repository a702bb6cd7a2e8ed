SPECIFICATION Spec
CONSTANTS
  Clients = {1, 2}
  Paths <- PathsOf
  Space = {1, 2}
  Units = {"page"}
  Titles = {"t", "card"}
  Texts = {"text", "idea", "own"}
  Asks <- AsksOf
  Early <- EarlyOf
  None = None
  Cap = 2
  MaxEdits = 1
  Touched = {1, 3}
  MaxFaults = 1
INVARIANTS TypeOK
PROPERTIES ReplacesWhatItRead OneNotePerSource IndexCatchesUp
CHECK_DEADLOCK FALSE
