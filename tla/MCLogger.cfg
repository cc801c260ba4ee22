SPECIFICATION Spec
CONSTANTS
  StorageSize = 12
  PageSize = 4
  DataStart = 3
  SampleSize = 3
  MaxSessions = 5
  UnmatchedStop = FALSE
  FormatWhileLogging = FALSE
INVARIANTS
  PointerNamesEvent
  ListedEventsIntact
  CommittedEventsListed
  OwnHeaderSurvives
  SampleReadBack
CHECK_DEADLOCK FALSE
