CONSTANTS
  MaxId = 2
  Edits = 2
  ReopenEarly = TRUE
  QuitMidSave = FALSE
  MayFail = FALSE
SPECIFICATION Spec
INVARIANTS
  NewestTextKept
CHECK_DEADLOCK FALSE
