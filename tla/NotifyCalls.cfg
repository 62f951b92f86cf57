\* Three ranks, two calls.  Each rank stops after MaxCall calls.
SPECIFICATION Spec
CONSTANTS
  NumRanks = 3
  ExpertsPerRank = 1
  Alignment = 2
  Demands <- ChangingDemands
  MaxCall = 2
INVARIANTS
  TypeOK
  ExpertTotals
  MatrixIsGathered
  UniformCountsGathered
CHECK_DEADLOCK FALSE
