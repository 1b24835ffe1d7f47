\* Two thieves that keep coming back, and more pushes than there is room for.
CONSTANTS
    r1 = r1
    r2 = r2
    Owner = r0
    Thief <- MCThief
    Capacity = 2
    NumEntries = 3
SPECIFICATION FairSpec
INVARIANTS OwnerView
PROPERTIES ImplementsDeque OwnerServed
\* push and push_bottom throw when the queue is full, and the program ends.
CHECK_DEADLOCK FALSE
