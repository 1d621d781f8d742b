SPECIFICATION FairSpec
CONSTANTS
    N = 2
    Tasks = {1, 2}
    Attempts = 2
    MaxDrops = 2
    MaxLosses = 2
INVARIANTS NeverRejected 
PROPERTY UploadEnds
CHECK_DEADLOCK FALSE
