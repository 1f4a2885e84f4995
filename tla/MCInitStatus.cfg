SPECIFICATION CiSpec
CONSTANTS
  CiScenes <- InitScenes
  FileNames <- SmallNames
INVARIANTS PayloadFailureIsItsOwn
CHECK_DEADLOCK FALSE
