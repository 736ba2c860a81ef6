SPECIFICATION Spec
CONSTANTS
  NumApps = 2
  NumLayers = 4
  AppOf <- MCAppOf
  Primary <- MCPrimary
  ViewLayers <- MCViews
  Invokers = {}
  OneShots = {}
  Stoppers = {stop}
  Intents = {rootView}
  rootView = rootView
  IntentApp <- MCIntentApp
  Droppable = {}
  Free = Free
INVARIANT NoLayerStoppedInFlight
CHECK_DEADLOCK FALSE
