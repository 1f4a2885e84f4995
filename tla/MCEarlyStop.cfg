SPECIFICATION StopSpec
CONSTANTS
  Gens = {g1}
  NoGen = NoGen
  MaxRev = 9
  Codes = {3}
  Commands = {c1, c2}
  Kinds = {"reconcile", "stop"}
  MaxFaults = 1
  MaxCrashes = 0
  Bridge = TRUE
  o1 = o1
  o2 = o2
  a1 = a1
  a2 = a2
  Owners = {o1, o2}
  Custom = {o1}
  Admins = {a1, a2}
  NoOwner = NoOwner
  Scenes <- HostScenes
SYMMETRY CommandSymmetry
INVARIANTS StopIsDeath CleanReturn NothingIsForgotten
