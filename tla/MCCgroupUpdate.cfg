SPECIFICATION CgSpec
CONSTANTS
  CgClients = {c1}
  NoHolder = NoHolder
  MaxGen = 2
  MaxPolls = 1
  MaxCgFaults = 0
INVARIANTS UpdateSurvivesRestart
CHECK_DEADLOCK FALSE
