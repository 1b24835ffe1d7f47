\* Three PEs and keys of two bits: a PE may wait for a second one that itself
\* waits for a third.  TreePieces, empty ones too, anywhere.
CONSTANTS
    p0 = p0
    p1 = p1
    p2 = p2
    PE <- MCPE
    NumParticles = 3
    BranchFactor = 2
    Depth = 2
    Limit = 1
SPECIFICATION Spec
INVARIANTS MomentsRight OwnersAndTypes TreeSettled EverybodyReady
SYMMETRY Symmetry
\* Tree construction ends.
CHECK_DEADLOCK FALSE
