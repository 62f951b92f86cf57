SPECIFICATION Spec
CONSTANTS
  NumRanks = 2
  NumTokens = 2
  Capacity = 4
  Calls <- CallOnce
  Routes <- EqualRoutes
  AppBarrier = TRUE
INVARIANT CombinedOnce
CHECK_DEADLOCK FALSE
