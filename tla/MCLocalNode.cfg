SPECIFICATION Spec
CONSTANTS
  Tasks = {"t1", "t2", "t3"}
  Objects = {"o1", "o2"}
  Conversations = {"c1", "c2"}
  Ops <- MCOps
  MaxCrashes = 2
  MaxFaults = 1
  MaxClock = 1
  Asks <- MCAsks
  Bodies <- MCBodies
  Json <- MCJson
  Catalogued = {"known"}
  EngineModels = {"tag"}
  Capacity = 1
  MaxLine = 3
  MaxChunk = 2
  Releases <- MCReleases
  MaxCommands = 3
  MaxRenameFaults = 1
  a = a
  b = b
  c = c
  d = d
  Addresses = {a, b, c, d}
  Stores <- MCStores
  WholeStore <- MCWhole
  RootLists <- MCRoots
  Limits <- MCLimits
  HostLimits <- MCHostLimits
  Layers <- MCLayers
  Applications <- MCApplications
  Profile <- MCProfile
  Admitted <- MCAdmitted
  Quota <- MCQuota
  World <- MCWorld
  InvocationMax = 2
  Inputs <- MCInputs
  SizeOf <- MCSize
  MailboxCapacity = 1
  FetchMax = 2
INVARIANTS
  
  
  
  BinaryStaysInstalled
  PermitsCoverThreads
  GraphIsClosure
PROPERTIES
  StreamsEnd
  InvocationsEnd
CHECK_DEADLOCK FALSE
