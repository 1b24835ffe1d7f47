\* Leaves of two bodies: no piece of a partition of three is left for the tasks.
CONSTANTS
    BranchFactor = 2
    Depth = 4
    NumBodies = 7
    LeafCapacity = 2
    MaxBranches = 2
    Theta = 1
    NumPartitions = 3
    NumTiles = 2
    TreeTasks = 2
    ExportGroups = 2
    ImportFanin = 2
    Steps = 3
    EnergyInterval = 2
    VtkInterval = 4
    VtkFormat = "vtp"
    CsvStates = {"initial", "final"}
    Starts <- MCStarts
    Sorts = {TRUE}
    Overlaps = {TRUE}
    Warmups = {0}
SPECIFICATION Spec
INVARIANT TreesAsSerial
