SPECIFICATION FairSpec
CONSTANTS
    Handlers = {h1, h2}
    Monitor = Monitor
    Free = Free
    Sids = {1, 2}
    Tasks = {1}
    Kinds = {"claim", "finalize", "aggregate", "heartbeat"}
    Batches = {{1}}
    InitialOwners <- AllOwners
    HistoryScheduling = TRUE
    ScanRecovery = FALSE
    RepeatAggregate = FALSE
    MaxRound = 0
    MaxRequests = 3
    MaxFaults = 1
PROPERTIES HandlersReturn DropReleases
CHECK_DEADLOCK FALSE
