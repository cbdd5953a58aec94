SPECIFICATION Spec
CONSTANTS
  DEFAULT_QUEUE_SIZE = 2
  ByteMod = 5
  NumPackets = 2
  NetCap = 2
  Unreliable = TRUE
  SeqMod = 8
  SBufCap = 1
  EarlyWakeups = FALSE
INVARIANT DeliveredIntact
CHECK_DEADLOCK FALSE
