SPECIFICATION Spec
CONSTANTS
    Threads = {th1, th2, th3}
    Trainers = {c1, c2}
    NoTrainer = NoTrainer
    VersionMod = 3
    MaxWrites = 4
SYMMETRY Symmetry
INVARIANTS TypeOK OneWinner NoABA PendingSnapshotIsReal
PROPERTY ImplementsLifecycle
