\* Four bodies in leaves of one or in one leaf, two steps: three force evaluations.
CONSTANTS
    BranchFactor = 2
    Depth = 4
    NumBodies = 4
    MaxLeaves = {1, 4}
    Theta = 1
    Steps = 2
    Starts <- MCStarts
SPECIFICATION Spec
INVARIANTS MatchesBruteForce StoresSettled
