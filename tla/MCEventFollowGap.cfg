SPECIFICATION EvSpec
CONSTANTS
  Writers = {w1, w2}
  NoWriter = NoWriter
  MaxRecords = 2
  MaxEvents = 5
  MaxAborts = 0
  MaxTorn = 0
  MaxPowerLoss = 0
  Follows = TRUE
SYMMETRY WriterSymmetry
INVARIANTS
  FollowerMissesNothing
CHECK_DEADLOCK FALSE
