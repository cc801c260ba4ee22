SPECIFICATION Spec
CONSTANTS
  StorageSize = 42
  PageSize = 21
  ValSize = 2
  HomeLen = 5
  AlarmLen = 4
  Low = 2
  High = 3
  Vals <- MCVals
  MaxSettings = 2
  MaxEvents = 2
  MaxStores = 1
INVARIANTS
  SettingsStayInField
  StoredAlarmsSurvive
CHECK_DEADLOCK FALSE
