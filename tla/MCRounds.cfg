SPECIFICATION Spec
CONSTANTS
    Handlers = {h1, h2}
    Monitor = Monitor
    Free = Free
    Sids = {1, 2}
    Tasks = {1}
    Kinds = {"register", "heartbeat", "labels", "claim", "finalize", "aggregate", "lease", "configure"}
    Batches = {{1}}
    InitialOwners <- FirstOwns
    HistoryScheduling = FALSE
    ScanRecovery = TRUE
    RepeatAggregate = FALSE
    MaxRound = 1
    MaxRequests = 6
    MaxFaults = 1
SYMMETRY Symmetry
INVARIANT TrainerIsOwner
PROPERTY ImplementsLifecycle
CHECK_DEADLOCK FALSE
