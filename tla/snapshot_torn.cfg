\* A request loads the counters while two flushes count on them.
SPECIFICATION Spec
CONSTANTS
    Jobs = {j1, j2}
    Flushers = {f1, f2}
    Clients = {c1}
    PoolSize = 1
    ScanLimit = 2
    MaxRuns = 2
    MaxOps = 1
    MaxAsked = 1
SYMMETRY MCSymmetry
INVARIANTS
    SnapshotConsistent
