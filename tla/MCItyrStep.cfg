\* Seven bodies in slices of two and five, four chunks, two steps; one node, or
\* two with two ranks each, or with one and slices that blocks of two bodies
\* span, with and without the arena; energies of the first and the last step.
CONSTANTS
    BranchFactor = 2
    Depth = 4
    NumBodies = 7
    Leaf = 1
    Chunk = 2
    Theta = 1
    Steps = 2
    EnergyEvery = 3
    OutputEvery = 3
    EnergyBlock = 2
    Topologies <- MCTopologies
    Arenas = {TRUE, FALSE}
    Starts <- MCStarts
SPECIFICATION Spec
INVARIANTS AsBruteForce ReplicasAgree
