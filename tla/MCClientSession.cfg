SPECIFICATION FairSpec
CONSTANTS
  Config = Config
  Sensor = Sensor
  Info = Info
  Gap = Gap
  Fragment = 3
  Size <- MCSize
  Expected <- MCExpected
  Other <- MCOther
  kConfig = Config
  kSensorData = Sensor
  Listed = 1
  MaxStreams = 2
  MaxSessions = 2
  MaxRequests = 2
INVARIANTS
  SubscribesWhenComplete
  StreamTaken
  FlagTellsAll
PROPERTIES
  RequestSettles
  SessionCompletes
CHECK_DEADLOCK FALSE
