SPECIFICATION Spec
CONSTANTS
  NumRanks = 2
  NumTokens = 2
  Capacity = 4
  Calls <- CallOnce
  Routes <- EqualRoutes
  AppBarrier = FALSE
INVARIANT RowsReceived
CHECK_DEADLOCK FALSE
