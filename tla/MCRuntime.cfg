CONSTANTS
  Optional = {o1}
  Committing = {c1}
  Commands = {p1}
  EventQueue = 1
  Workers = 1
  Processes = 1
  MapMayPanic = TRUE
SPECIFICATION FairSpec
INVARIANTS
  ResultSlotsAccounted
  CommittedIsReported
  DrainLeavesNothing
PROPERTIES
  NoObsoleteValue
  KeepsPromise
  AcceptedIsAnswered
  ShutdownDrains
CHECK_DEADLOCK FALSE
