SPECIFICATION FairSpec
CONSTANTS
    Aggregators = {a1, a2}
    Models = {1, 2, 3}
    Size <- SizeInChunks
    NoFile = NoFile
    Attempts = 2
    MaxSaves = 2
INVARIANTS DescriptorMatchesFile DownloadIsWhole
PROPERTY DownloadEnds
CHECK_DEADLOCK FALSE
