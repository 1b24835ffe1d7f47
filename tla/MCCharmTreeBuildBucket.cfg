\* Two particles, which fit one bucket; four children to a node, so that a
\* budget of two TreePieces cannot tell them apart.
CONSTANTS
    p0 = p0
    p1 = p1
    p2 = p2
    PE <- MCPE2
    NumParticles = 2
    BranchFactor = 4
    Depth = 1
    Limit = 2
SPECIFICATION Spec
INVARIANT AllTreesReady
CHECK_DEADLOCK FALSE
