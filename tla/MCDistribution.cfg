SPECIFICATION Spec
CONSTANTS
    Jobs = {j1}
    Specs = {"leaf", "page", "suite", "old"}
    Manifest <- MCManifest
    Files = {"a", "h", "i"}
    Size <- MCSize
    MaxCompiles = 2
    Portable = {"h", "i"}
    Fold <- MCFold
    Entry = {"i"}
    MaxFiles = 2
    MaxFileBytes = 2
    MaxBundleBytes = 3
    Foreign <- MCForeign
    Grants = {{}, {"r"}}
    Surfaces = {"direct"}
    MaxLayers = 4
    MaxApplications = 3
    MaxDepth = 1
    MaxObjects = 5
    MaxResolvedBytes = 5
    MaxImports = 2
    MaxRot = 1
    n1 = n1
    n2 = n2
    t1 = t1
    t2 = t2
    Tasks = {t1, t2}
    Nodes = {n1, n2}
    OpsOf <- MCOpsOf
    Pushable <- MCPushable
    Blobs <- MCBlobs
    InputRefs <- MCInputRefs
    Endpoint = "h1"
    Namespace = "models"
    Published <- MCPublished
    Objects <- MCObjects
    OtherTags <- MCOtherTags
    Kind <- MCKind
    Repos <- MCRepos
    Names = {"a"}
    Limit = 1
    PageSize = 2
    MaxScanPages = 2
    MetadataEntries = 2
    MaxChunkBytes = 4
    MaxOps = 2
    Stocked = {n1}
    Existing = {3, 4}
    MaxFaults = 1
    Generators = {"g1", "g2"}
    Terminals = {"g1"}
    Flags <- MCFlags
    Chosen <- MCChosen
    MaxInits = 2
    MaxPrompted = 2
INVARIANTS
    InitIsExact
    PlanIsExact
    
    
    PushedTagsResolve
    PulledIsComplete
    ContentIsVerified
    
CHECK_DEADLOCK FALSE
