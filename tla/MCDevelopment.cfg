SPECIFICATION Spec
CONSTANTS
  app = app
  web = web
  json = json
  core = core
  Builds = {b1, b2}
  Runs = {r1}
  MaxVersion = 2
  Bases = {1}
  Inputs = 2
  Project = app
  Packages = {web, json, core}
  Requires <- MCRequires
  Foreign <- MCForeign
  Projects = {"p"}
  Contents = {1, 2}
  Workers = {"w1", "w2", "w3"}
  MaxEdits = 1
  MaxRequests = 3
  MaxExits = 1
  MaxSaveFaults = 1
  Views = {"v1", "v2"}
  Before = {"v1"}
  Asks = {"a1"}
  MaxWindowFaults = 1
INVARIANTS
  WindowsAreServed
  RunsClaimedImage
  
  
  SettledIsCurrent
CHECK_DEADLOCK FALSE
