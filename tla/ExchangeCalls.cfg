\* Two ranks, regions of four slots.  Each rank stops after its calls, or
\* where its host throws or leaves it waiting.
SPECIFICATION FairSpec
CONSTANTS
  NumRanks = 2
  NumTokens = 5
  Capacity = 4
  Calls <- CallTwice
  Routes <- CheckedRoutes
  AppBarrier = TRUE
INVARIANTS
  TypeOK
  RowsReceived
  CombinedGenuine
  PutsApart
  DispatchFits
PROPERTY CallsComplete
CHECK_DEADLOCK FALSE
