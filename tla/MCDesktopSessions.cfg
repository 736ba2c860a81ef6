SPECIFICATION FairSpec
CONSTANTS
  suite = suite
  copy = copy
  root = root
  tool = tool
  s1 = s1
  s2 = s2
  s3 = s3
  Archives = {suite, copy}
  Applications = {root, tool}
  AppsOf <- MCAppsOf
  Inspected <- MCInspected
  ViewApp <- MCViewApp
  Starts = {s1, s2, s3}
  Suspect = {s3}
  Runs = {r1}
  Stops = {t1, t2}
  ArchiveOf <- MCArchiveOf
  None = None
INVARIANTS
  RegistryConsistent
  NoLostSession
PROPERTIES
  StopsEnd
CHECK_DEADLOCK FALSE
