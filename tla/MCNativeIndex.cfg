SPECIFICATION FairSpec
CONSTANTS
    Threads = {th1, th2}
    Labels = {1, 2, 3}
    Tokens = {c1, c2}
    None = None
    Capacity = 2
    MaxEdges = 2
    Home <- CollidingHome
    MaxCalls = 2
INVARIANTS UniqueSlot OneEdgePerOwner RegisteredIsVisible
           InverseImpliesOwner LookupFindsRegistered
PROPERTY EveryCallReturns
CHECK_DEADLOCK FALSE
