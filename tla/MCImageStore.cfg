SPECIFICATION ImagesSpec
CONSTANTS
  Clients = {c1}
  Pruner = pruner
  Ops = {"import", "commit", "tag", "rmi", "pull", "system"}
  IDs = {i1, i2}
  Tags = {t1}
  Ext = ext
  None = None
  MaxClock = 2
  MaxFaults = 1
  MaxCrashes = 1
  Paths <- SmallPaths
  Records <- SmallRecords
  Modes = {"m1", "m2"}
  MaxLayers = 2
  MaxRecords = 4
  ExScenes <- SmallScenes
  Builds = {"b1", "b2"}
  BdScenes <- BuildScenes
  CiScenes <- InitScenes
  FileNames <- SmallNames
INVARIANTS RemovalIsOwed LayersBecomeTheTree BuildsLeaveWholeTrees
  PayloadRunsAsAdmitted HostIsLeftAlone ParentKnowsTheEnd
PROPERTIES RemovesOnlyUnreferenced StaysReachable CleanupRecovered OthersKeepTheirs
