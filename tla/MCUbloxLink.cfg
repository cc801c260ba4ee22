SPECIFICATION FairSpec
CONSTANTS
  Base = 4
  Sync1 = 3
  Sync2 = 2
  Word = 65536
  BufferLen = 6
  QueueLength = 2
  MaxRetries = 2
  PointerSize = 1
  Kind <- MCKind
  ClassId <- MCClassId
  Body <- MCBody
  MaxReports = 1
  MaxCommands = 2
  MaxNoise = 1
INVARIANTS
  ParsesEveryMessage
  ReadsWithinCap
PROPERTIES
  SetupEnds
  CommandsTaken
CHECK_DEADLOCK FALSE
