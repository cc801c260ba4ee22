SPECIFICATION FairSpec
CONSTANTS
  FilterLength = 2
  MainLength = 2
  SensorLength = 1
  GpsLength = 1
  ChipCredits = 1
  Commands = {"start", "stop", "list"}
  MaxMessages = 4
  MaxRequests = 2
  MaxChanges = 2
  MaxListed = 1
INVARIANTS
  SamplesTogether
  PacketSettles
  ReceiverFollowsSession
  FilterIsRecentMean
 
CHECK_DEADLOCK FALSE
