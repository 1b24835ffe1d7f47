\* Three PEs, three steps, a frame in the first and the third.
CONSTANTS
    p0 = p0
    p1 = p1
    p2 = p2
    t0 = t0
    t1 = t1
    t2 = t2
    PE <- MCPE
    Root = p0
    TreePiece <- MCTreePiece
    homeOf <- MCHomeOf
    NumParticles = 3
    MaxParticlesPerMsg = 2
    NumIterations = 3
    OutputFrequency = 2
    DumpStep = 1
    TimersOn = TRUE
    NaNSteps = {2}
SPECIFICATION ProgramFairSpec
INVARIANTS ParticlesConserved OwnershipExact StepIsolation LeapfrogExact OutputComplete
PROPERTIES ImplementsRedistribution RunEnds
\* The program ends.
CHECK_DEADLOCK FALSE
