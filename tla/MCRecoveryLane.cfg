CONSTANTS
  MaxId = 2
  Edits = 2
  ReopenEarly = FALSE
  QuitMidSave = FALSE
  MayFail = TRUE
SPECIFICATION FairSpec
INVARIANT LaneInvariant
PROPERTIES EditReachesDisk DrainEnds
CHECK_DEADLOCK FALSE
