SPECIFICATION Spec
CONSTANTS
  NumRanks = 2
  ExpertsPerRank = 1
  Alignment = 1
  Demands <- PairDemands
  MaxCall = 1
INVARIANT CountsGathered
CHECK_DEADLOCK FALSE
