SPECIFICATION CounterSpec
CONSTANTS
  NumTotals = 1
  NumWords = 3
  Programs <- MixedPrograms
INVARIANT HostTakesOwnCounts
