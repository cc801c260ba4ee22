SPECIFICATION StoreSpec
CONSTANTS
  StorageSize = 6
  PageSize = 2
  Cell = {0, 1}
  Zero = 0
  Margins <- MCMargins
  Payloads <- MCPayloads
  MaxLen = 4
INVARIANTS
  StoreTypeOK
  CacheCoherent
  TransferExact
PROPERTIES
  ImplementsFlatStore
CHECK_DEADLOCK FALSE
