SPECIFICATION FairCounterSpec
CONSTANTS
  NumTotals = 2
  NumWords = 4
  Programs <- CheckedPrograms
INVARIANTS
  CounterTypeOK
  HostTakesOwnCounts
PROPERTY AllAnswered
