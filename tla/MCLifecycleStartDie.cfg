SPECIFICATION Spec
CONSTANTS
  Gens = {g1}
  NoGen = NoGen
  MaxRev = 9
  Codes = {3}
  Commands = {c1}
  Kinds = {"stop"}
  MaxFaults = 0
  MaxCrashes = 0
  Bridge = TRUE
INVARIANTS StartHasDie
