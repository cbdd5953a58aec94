SPECIFICATION FFairSpec
CONSTANTS
  DEFAULT_QUEUE_SIZE = 3
  ByteMod = 8
  NumPackets = 6
  NetCap = 6
  Unreliable = FALSE
  SeqMod = 16
  SBufCap = 3
  EarlyWakeups = FALSE
  DEFAULT_PACKET_SIZE = 2
  DEFAULT_BUF_SIZE = 2
INVARIANTS FTypeOK NoOverrun EOFIsLast NoSleepOnEmptyWindow StreamIsFile
PROPERTIES TransferCompletes FileArrives
CHECK_DEADLOCK FALSE
