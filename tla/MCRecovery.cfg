SPECIFICATION RecoverySpec
CONSTANTS
  Gens = {g1}
  NoGen = NoGen
  MaxRev = 9
  Codes = {3}
  Commands = {c1}
  Kinds = {"reconcile"}
  MaxFaults = 1
  MaxCrashes = 1
  Bridge = TRUE
  w1 = w1
  s1 = s1
  d1 = d1
  k1 = k1
  k2 = k2
  WaitCmds = {w1}
  StopReqs = {s1}
  DeleteCmds = {d1}
  RcScenes <- RestartScenes
  MaxRuns = 3
  MaxSettle = 1
  HealthRetries = 2
  Creators = {v1}
  Removers = {r1, r2}
  MaxVsCrashes = 1
  Payload = p
  ExecPayload = x
  Descendants = {k1, k2}
  CpScenes <- ProcessScenes
  MaxCpFaults = 1
INVARIANTS ClientsSeeTheTruth VolumeIsAsReported ProcessesAreAsRecorded
PROPERTIES EventuallyClean GenerationNeverRevives ClientsGetAnswers CreationRepairs ProcessesEnd
