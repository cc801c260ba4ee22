SPECIFICATION Spec
CONSTANTS
  QueueLength = 4
  CreditLimit = 4
  ChipCredits = 2
  SetupMessages = 2
  MaxTransmits = 3
  MaxFlash = 1
  MaxPolls = 2
  MaxNotices = 1
  MaxDrops = 1
INVARIANTS
  ExchangeOwnsBus
  ReadyNotLost
  CreditsConserved
CHECK_DEADLOCK FALSE
