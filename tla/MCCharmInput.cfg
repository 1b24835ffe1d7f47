\* Balanced by count, a binary tree, keys of three bits: four particles loaded
\* from a file by three PEs, or anywhere.
CONSTANTS
    p0 = p0
    p1 = p1
    p2 = p2
    PE <- MCPE
    Root = p0
    peOf <- MCPeOf
    NumParticles = 4
    BranchFactor = 2
    Depth = 3
    Budget = 4
    TreePieces = 5
    Target = 2
    BalanceByCost = FALSE
    Costs = {1}
    Files <- MCFiles
    FirstKeys <- MCKeys
    RecordBytes = 2
    Preamble = 1
    IntMax = 7
SPECIFICATION MCSpec
INVARIANTS LoadedExactly LeavesAgree BudgetWellSpent HandedOver
PROPERTY LoadedOrSettled
\* The decomposition ends.
CHECK_DEADLOCK FALSE
