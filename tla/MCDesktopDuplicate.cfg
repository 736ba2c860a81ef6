SPECIFICATION Spec
CONSTANTS
  suite = suite
  copy = copy
  root = root
  tool = tool
  s1 = s1
  s2 = s2
  s3 = s3
  Archives = {suite, copy}
  Applications = {root, tool}
  AppsOf <- MCAppsOf
  Inspected <- MCInspected
  ViewApp <- MCViewApp
  Starts = {s2, s3}
  Suspect = {}
  Runs = {}
  Stops = {t1}
  ArchiveOf <- MCArchiveOf
  None = None
INVARIANT OneSessionPerApplication
CHECK_DEADLOCK FALSE
