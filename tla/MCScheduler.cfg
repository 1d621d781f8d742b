SPECIFICATION FairSpec
CONSTANTS
    NumGpus = 1
    Slots = {0, 1}
    NumJobs = 4
    NoJob = NoJob
    MaxErrors = 2
INVARIANTS SlotsBounded ResultsComplete
PROPERTY CallReturns
CHECK_DEADLOCK FALSE
