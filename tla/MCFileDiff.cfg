CONSTANTS
  Slots = 3
  Buffers = {1, 2}
  MayFail = FALSE
  UnpublishedMax = 4
SPECIFICATION Spec
INVARIANT NoWriteIsLost
CHECK_DEADLOCK FALSE
