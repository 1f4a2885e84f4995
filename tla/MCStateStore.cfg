SPECIFICATION StoreSpec
CONSTANTS
  Gens = {g1, g2}
  NoGen = NoGen
  Nobody = Nobody
  Clients = {p1, p2}
  MaxRev = 6
  Codes = {0, 3}
  Maintainers = {p1, p2}
  MaxWrites = 3
  MaxOpens = 2
  MaxCalls = 3
  MaxLcCrashes = 1
  MaxBytes = 2
  MaxFiles = 3
SYMMETRY ClientSymmetry
CHECK_DEADLOCK FALSE
INVARIANTS TypeOK TokensNameCurrentGeneration LogTextAccountedFor
PROPERTIES NoResurrection StoppedAuthorityStable ImplementsContract
