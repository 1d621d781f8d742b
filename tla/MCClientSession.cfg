SPECIFICATION FairSpec
CONSTANTS
    Requests = {1, 2, 3}
    Limits = {1, 2}
    FirstLimit = 1
    Main = Main
    Beaters = {b1, b2}
    None = None
    BeatHandlers = {1}
    Attempts = 2
    MaxOps = 2
    MaxHung = 1
    MaxEvents = 2
INVARIANTS NoLostWakeup SessionIsLatest CarriedOutOnce
PROPERTIES SnapshotsInOrder WaitersServed LeaseKept CallEnds
CHECK_DEADLOCK FALSE
