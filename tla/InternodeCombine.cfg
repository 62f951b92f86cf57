SPECIFICATION FairSpec
CONSTANTS
  NumRDMARanks = 2
  NumPeers = 2
  Home = 0
  NumForwarders = 2
  NumReceivers = 2
  RdmaSend = 2
  RdmaRecv = 4
  NvlSend = 1
  NvlRecv = 3
  Ordered = TRUE
  Runs <- CheckedRuns
INVARIANTS
  TypeOK
  RowsCombined
PROPERTIES
  AllCombined
CHECK_DEADLOCK FALSE
