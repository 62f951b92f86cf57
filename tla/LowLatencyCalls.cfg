SPECIFICATION FairSpec
CONSTANTS
  NumRanks = 2
  MaxTokens = 2
  Tag = 3
  Runs <- CheckedRuns
INVARIANTS
  TypeOK
  RowsReceived
  CombinedOwn
PROPERTY CallsReturn
CHECK_DEADLOCK FALSE
