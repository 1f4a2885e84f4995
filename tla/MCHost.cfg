SPECIFICATION HostSpec
CONSTANTS
  Procs = {p1, p2}
  Gens = {g1, g2, g3}
  NoGen = NoGen
  Containers = {c1, c2, db}
  db = db
  HostName <- SharedName
  NoEntry = NoEntry
  PoolSize = 1
  BridgeScenes <- BridgeKinds
  CgClients = {p1, p2}
  NoHolder = NoHolder
  MaxGen = 2
  MaxPolls = 2
  MaxCgFaults = 2
  Servers = {p1, p2}
  NoSocket = NoSocket
  MaxBinds = 4
SYMMETRY ProcSymmetry
CHECK_DEADLOCK FALSE
INVARIANTS PayloadOwnsItsAddress NameServesItsPayload
  CgroupDoesAsTold SocketIsItsServers
