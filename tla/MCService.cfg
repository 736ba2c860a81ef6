SPECIFICATION Spec
CONSTANTS
    p1 = p1
    p2 = p2
    c1 = c1
    c2 = c2
    None = None
    Processes = {p1, p2}
    Clients = {c1, c2}
    Commands <- MCCommands
    ConfigFiles <- MCConfigFiles
    Serves <- MCServes
    BuiltinModules <- MCModules
    Preference = "local"
    ReadFallback = TRUE
    RemoteOps = {"put", "get"}
    MaxRestarts = 1
    MaxEvents = 1
INVARIANTS
    
    PluginIsPinned

    
CHECK_DEADLOCK FALSE
