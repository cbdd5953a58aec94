SPECIFICATION FairSpec
CONSTANTS
  DEFAULT_QUEUE_SIZE = 2
  ByteMod = 5
  NumPackets = 3
  NetCap = 3
  Unreliable = FALSE
  SeqMod = 8
  SBufCap = 1
  EarlyWakeups = TRUE
PROPERTY WaitingBlockIsSent
CHECK_DEADLOCK FALSE
