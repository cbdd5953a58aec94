SPECIFICATION RSpec
CONSTANTS
  DEFAULT_QUEUE_SIZE = 3
  ByteMod = 8
  NumPackets = 12
INVARIANT AlwaysInOrder
CHECK_DEADLOCK FALSE
