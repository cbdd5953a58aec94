SPECIFICATION FairSpec
CONSTANTS
  Peers = {"ann", "bob", "cyd"}
  Byte = {"a1", "a2", "a3", "b1", "b2"}
  Original <- MCOriginal
  NoFile = NoFile
  Sources <- MCSources
  ReadOnly = {"cyd"}
  BufSize = 2
  SockBuf = 2
  LenMod = 5
  MaxGets <- MCMaxGets
  MayCrash = {"bob"}
  MayFail = {"ann"}
INVARIANTS TypeOK OkIsComplete OkIsCopy
PROPERTIES GetEnds
CHECK_DEADLOCK FALSE
