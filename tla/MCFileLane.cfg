CONSTANTS
  Slots = 2
  Buffers = {1, 2}
  MayFail = TRUE
  UnpublishedMax = 2
SPECIFICATION FairSpec
INVARIANT FileInvariant
PROPERTIES CheckFollows SaveEnds
CHECK_DEADLOCK FALSE
