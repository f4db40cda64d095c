CONSTANTS
  PartsRun = {"save", "mutation", "recovery", "diff", "review", "text", "edit"}
  DiffChangesMax <- DiffChanges
  Touched = {"head", "index", "work", "other"}
  AttemptsMax = 3
  BodyHeights = {0, 2}
  Repeats = {1, 2}
  Edits = 2
  Changes = 2
  N = 2
  OtherChanges = 2
  DiskTexts = {1, 2}
  EventsMax = 1
  LoadsMax = 3
  EditsMax = 1
  RangeMax = 1
  BytesMax = 4
  HistoryEntriesMax = 2
  HistoryBytesMax = 3
  StepsMax = 2
  StepBytesMax = 1
  ScrollOff = 1
  SideScrollOff = 1
  ShiftWidth = 2
  RegisterBytesMax = 12
  TextCharsMax = 14
  InsertCharsMax = 4
  MotionCountMax = 9
  WheelRows = 1
  EditLayouts = {"one", "apart"}
SPECIFICATION FilesSpec
INVARIANTS
  WholeFile
  OutcomeIsTrue
  OverwritesOnlyRaces
  TextSurvives
  MutationInvariant
  RecoveryInvariant
  ComparisonInvariant
  TextHistoryInvariant
  EditingInvariant
CHECK_DEADLOCK FALSE
