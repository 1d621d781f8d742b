SPECIFICATION Spec
CONSTANTS
    Servers = {ks1, ks2}
    Keys = {k1, k2}
    Clients = {c1}
    Threads = {t1, t2}
    ClientOf <- OneClient
    Records = {r1, r2}
    None = None
    MaxCrashes = 2
    MaxFailures = 2
SYMMETRY Symmetry
INVARIANTS OneLabelPerRecord ServingKeyIsOnDisk
PROPERTIES IssuedIsStored StoreKeepsLabels
CHECK_DEADLOCK FALSE
