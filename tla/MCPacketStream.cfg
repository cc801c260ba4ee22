SPECIFICATION PacketSpec
CONSTANTS
  Fragment = 3
  Size <- MCSize
  Bodies <- MCBodies
  Window = 2
  MaxPackets = 3
  MaxClosings = 2
INVARIANTS
  DecodesWhatWasSent
  ReaderOutOfStep
CHECK_DEADLOCK FALSE
