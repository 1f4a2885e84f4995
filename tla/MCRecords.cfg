SPECIFICATION RecordsSpec
CONSTANTS
  Gens = {g1, g2}
  NoGen = NoGen
  Nobody = Nobody
  Clients = {p1, p2}
  MaxRev = 6
  Codes = {0, 3}
  Writers = {p1, p2}
  NoWriter = NoWriter
  MaxRecords = 2
  MaxEvents = 6
  MaxAborts = 1
  MaxTorn = 1
  MaxPowerLoss = 1
  Follows = TRUE
SYMMETRY ProcessSymmetry
CHECK_DEADLOCK FALSE
INVARIANTS StoppedCodeIsOwn LogIsIntact FollowerIsFaithful
PROPERTIES RunningEndsInOwnStop StoppedAuthorityStable RevisionOrdersLifecycle
