SPECIFICATION Spec
CONSTANTS
  DEFAULT_QUEUE_SIZE = 2
  ByteMod = 5
  NumPackets = 3
  NetCap = 2
  Unreliable = TRUE
  SeqMod = 8
  SBufCap = 1
  EarlyWakeups = TRUE
INVARIANTS WindowExact AckedIsDelivered InOrder NoStrandedFrame
CONSTRAINT BeforeOverrun
CHECK_DEADLOCK FALSE
