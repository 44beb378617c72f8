\* One request reads while two jobs are inserted, run, retried, rewritten and deleted.
SPECIFICATION Spec
CONSTANTS
    Jobs = {j1, j2}
    Flushers = {f1, f2}
    Clients = {c1}
    PoolSize = 1
    ScanLimit = 2
    MaxRuns = 2
    MaxOps = 1
    MaxAsked = 1
SYMMETRY MCSymmetry
CONSTRAINT MCReportOpen
INVARIANTS
    TypeOK
    SnapshotBounded
    ReportGapsBounded
    QuietReportIsExact
