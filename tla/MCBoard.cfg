SPECIFICATION Spec
CONSTANTS
  Prom <- PromWords
  Wrong <- WrongWords
  Readings <- SomeReadings
  Reload = 28
  Conversion = 91
  MaxSamples = 1
  MaxRequests = 1
  TempUnit = 1
  OffUnit = 2
  OffSlope = 64
  SensUnit = 4
  SensSlope = 64
  TempSlope = 65536
  Bend = 1024
  SensCut = 512
  Out = 16
  Warm = 20
  VeryCold = 35
  Full = 20
  Step = 10
  Ease = 4
  Period = 25
  MaxBlinks = 2
  MaxAlerts = 2
INVARIANTS
  WritesArrive
  ReadingsTrue
  LedShowsAlert
  CorruptionNoticed
  PressureShort
VIEW Relevant
CHECK_DEADLOCK FALSE
