SPECIFICATION Spec
CONSTANTS
    Handlers = {h1, h2}
    Monitor = Monitor
    Free = Free
    Sids = {1, 2}
    Tasks = {1, 2}
    Kinds = {"claim", "finalize", "aggregate"}
    Batches = {{1, 2}}
    InitialOwners <- AllOwners
    HistoryScheduling = TRUE
    ScanRecovery = FALSE
    RepeatAggregate = FALSE
    MaxRound = 0
    MaxRequests = 5
    MaxFaults = 1
SYMMETRY Symmetry
INVARIANTS TypeOK AcceptedStaysCommitted AveragedOnce WeightsBounded
PROPERTY OnlyDroppedLose
CHECK_DEADLOCK FALSE
