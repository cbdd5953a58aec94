SPECIFICATION FairSpec
CONSTANTS
  Producers = {app, reader}
  Blocks = {b1, b2}
  NoBlock = NoBlock
  QUEUE_CAPACITY = 2
  Spurious = TRUE
  MaxSize = 4
INVARIANTS TypeOK RingAligned NoLostWakeup NoStarvedProducer
PROPERTIES ImplementsFifo SleeperWoken PushedIsSeen
