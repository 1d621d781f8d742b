SPECIFICATION FairSpec
CONSTANTS
    Handlers = {h1, h2}
    Monitor = Monitor
    Free = Free
    Sids = {1, 2}
    Tasks = {1}
    Kinds = {"heartbeat", "claim"}
    Batches = {{1}}
    InitialOwners <- AllOwners
    HistoryScheduling = TRUE
    ScanRecovery = FALSE
    RepeatAggregate = FALSE
    MaxRound = 0
    MaxRequests = 3
    MaxFaults = 1
PROPERTY OfflineTrainerReleased
CHECK_DEADLOCK FALSE
