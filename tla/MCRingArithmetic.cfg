SPECIFICATION Spec
CONSTANTS
  StorageSize = 8
  PageSize = 4
  Past = 2
INVARIANTS
  OverlapExact
  WrapKeepsCell
CHECK_DEADLOCK FALSE
