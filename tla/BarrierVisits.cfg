\* Three ranks, two visits, with the fence.  Each rank stops after MaxRound
\* visits.
CONSTANTS
  Rank = {r1, r2, r3}
  SyncOnly = FALSE
  MaxRound = 2
SPECIFICATION FairBarrierSpec
INVARIANTS BarrierTypeOK SignalsNeverDrift WritesVisible BarrierIInv
PROPERTIES IsBarrier AllVisitsComplete
CHECK_DEADLOCK FALSE
