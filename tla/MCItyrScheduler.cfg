\* Three workers, four threads, three programs.
CONSTANTS
    root = root
    a = a
    b = b
    c = c
    NumWorkers = 3
    Thread <- MCThread
    Root = root
    NoThread = NoThread
    Programs <- MCPrograms
SPECIFICATION FairSpec
INVARIANTS ThreadsInOnePlace QueuedFramesIntact CleanExit
PROPERTIES ImplementsForkJoin RootsEnd
