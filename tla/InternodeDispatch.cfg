SPECIFICATION FairSpec
CONSTANTS
  NumRDMARanks = 2
  NumPeers = 2
  Node = 0
  NumWarps = 2
  WindowSize = 2
  RdmaSend = 2
  RdmaRecv = 4
  NvlSend = 2
  NvlRecv = 3
  Ordered = TRUE
  Runs <- CheckedRuns
INVARIANTS
  TypeOK
  WindowSound
  RowsReceived
  HeadsRecorded
PROPERTIES
  IsTokenStream
  AllReceived
CHECK_DEADLOCK FALSE
