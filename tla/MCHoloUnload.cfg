SPECIFICATION Spec
CONSTANTS
  app = app
  refused = refused
  probe = probe
  Kappas = {app}
  Denied = {}
  Loaders = {l1}
  Unloaders = {u1, u2}
  Runners = {r1}
  KappaOf <- MCKappaOf
  Droppable = {}
  None = None
INVARIANT UnloadStopsTree
CHECK_DEADLOCK FALSE
