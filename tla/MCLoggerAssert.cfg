SPECIFICATION Spec
CONSTANTS
  StorageSize = 15
  PageSize = 5
  DataStart = 3
  SampleSize = 2
  MaxSessions = 3
  UnmatchedStop = FALSE
  FormatWhileLogging = FALSE
INVARIANTS
  LastEventInStorage
CHECK_DEADLOCK FALSE
