SPECIFICATION FairSpec
CONSTANTS
  app = app
  refused = refused
  probe = probe
  Kappas = {app, refused}
  Denied = {refused}
  Loaders = {l1, l2, probe}
  Unloaders = {u1, u2}
  Runners = {r1}
  KappaOf <- MCKappaOf
  Droppable = {l2, u2}
  None = None
INVARIANTS
  AuditedBeforeStart
  SingleOwner
PROPERTIES
  TreesKeepContract
  TakenTreeStops
CHECK_DEADLOCK FALSE
