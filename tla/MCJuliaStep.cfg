\* Three partitions of three, three and one bodies; energies are wanted after
\* the second step, and all there is before the first and after the third; one
\* half kick is left out.  The sort of large partitions and untimed phases, which
\* let more tasks overlap.
CONSTANTS
    BranchFactor = 2
    Depth = 4
    NumBodies = 7
    LeafCapacity = 1
    MaxBranches = 2
    Theta = 1
    NumPartitions = 3
    NumTiles = 2
    TreeTasks = 2
    ExportGroups = 2
    ImportFanin = 2
    Steps = 3
    EnergyInterval = 2
    VtkInterval = 4
    VtkFormat = "vtp"
    CsvStates = {"initial", "final"}
    Starts <- MCStarts
    Sorts = {TRUE}
    Overlaps = {TRUE}
    Warmups = {0}
SPECIFICATION Spec
INVARIANTS TreesAsSerial SeenOnce MatchesLeapfrog
