SPECIFICATION FairSpec
CONSTANTS
  NumApps = 2
  NumLayers = 4
  AppOf <- MCAppOf
  Primary <- MCPrimary
  ViewLayers <- MCViews
  Invokers = {}
  OneShots = {shot}
  Stoppers = {stop}
  Intents = {rootView, childView}
  rootView = rootView
  IntentApp <- MCIntentApp
  Droppable = {stop}
  Free = Free
INVARIANTS
  FailedStartReleasesAll
  StopDrainsInvocations
  InFlightLayersStayUp
PROPERTIES
  StopsInReverse
  ImplementsTree
  StopReturns
CHECK_DEADLOCK FALSE
