\* Three localities, two steps of which the first migrates.
CONSTANTS
    BranchFactor = 2
    Depth = 3
    NumBodies = 3
    LeafCapacity = 1
    BucketDepth = 2
    MaxLetDepth = 3
    Theta = 1
    Size = 3
    Steps = 2
    RebalanceInterval = 2
    EnergyAt = {0, 1}
    OutputAt = {0, 1}
    Paths <- MCPaths
    Policies = {"tree", "let", "let_direct"}
    TimerGroups = {{}, {"tree"}, {"all"}}
    Endings = {"gather", "error", "none"}
SPECIFICATION MCSpec
INVARIANTS BodiesKept DomainsAgree SeenOnce 
PROPERTY SitesFinish
\* The program ends.
CHECK_DEADLOCK FALSE
