SPECIFICATION LifecycleSpec
CONSTANTS
  Gens = {g1, g2}
  NoGen = NoGen
  MaxRev = 9
  Codes = {3}
  Commands = {c1}
  Kinds = {"reconcile", "wait", "rm", "restart"}
  MaxFaults = 1
  MaxCrashes = 1
  Bridge = TRUE
SYMMETRY TaskSymmetry
INVARIANTS HostFollowsRecord NoOrphanHostResource
PROPERTIES PayloadKeepsResources
