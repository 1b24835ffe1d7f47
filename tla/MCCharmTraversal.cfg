\* Three PEs, keys of three bits, TreePieces with several groups of buckets.
CONSTANTS
    p0 = p0
    p1 = p1
    p2 = p2
    PE <- MCPE
    Inputs <- MCInputs
    MaxPieces = 3
    NumParticles = 4
    BranchFactor = 2
    Depth = 3
    Limit = 1
    CacheLine = 2
    GroupSize = 2
    GroupParticles = 2
    YieldPeriod = 1
    Reach = {1, 3}
SPECIFICATION MCSpec
INVARIANTS SeesAllOnce NoBadRequest NobodyStuck PendingExact
\* The step ends.
CHECK_DEADLOCK FALSE
