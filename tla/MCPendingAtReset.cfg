SPECIFICATION Spec
CONSTANTS
    Handlers = {h1, h2}
    Monitor = Monitor
    Free = Free
    Sids = {1, 2}
    Tasks = {1, 2}
    Kinds = {"claim", "aggregate", "finalize"}
    Batches = {{1}, {2}}
    InitialOwners <- AllOwners
    HistoryScheduling = TRUE
    ScanRecovery = FALSE
    RepeatAggregate = FALSE
    MaxRound = 0
    MaxRequests = 4
    MaxFaults = 0
SYMMETRY Symmetry
INVARIANT NoPendingAtReset
CHECK_DEADLOCK FALSE
