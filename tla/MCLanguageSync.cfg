SPECIFICATION FairSpec
CONSTANTS
  ServerCount = 1
  QueueMax = 1
  EventsMax = 1
  RestartsMax = 1
  WireMax = 1
  RevisionMax = 2
  QuestionsMax = 1
INVARIANTS SyncInvariant AnswersDescribeTheirText
PROPERTY QuestionIsReleased
CHECK_DEADLOCK FALSE
