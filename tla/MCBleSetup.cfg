SPECIFICATION FairSpec
CONSTANTS
  QueueLength = 4
  CreditLimit = 4
  ChipCredits = 2
  SetupMessages = 2
  MaxTransmits = 0
  MaxFlash = 2
  MaxPolls = 2
  MaxNotices = 2
  MaxDrops = 2
PROPERTIES
  Connects
  EventsAnswered
  MainReturns
CHECK_DEADLOCK FALSE
