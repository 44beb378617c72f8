\* The polling ticker as the only flush, a restart, a failing call, a queue paused
\* and resumed.  The bounds let the system come to rest.
SPECIFICATION Spec
CONSTANTS
    Jobs = {1, 3}
    Queues <- MCQueues
    QueueOf <- MCQueueOf
    PriorityOf <- MCPriorityOf
    MaxAttemptsOf <- MCMoreAttemptsOf
    TypeOf <- MCTypeOf
    MaxDuration = 64
    OutOfRange <- MCOutOfRange
    Flushers = {ticker}
    Ticker = ticker
    Workers = {w1, w2}
    PoolSize = 2
    ScanSize = 2
    BackoffBase = 1
    Clients = {c1}
    Ops = {"pause"}
    MaxOps = 2
    Batches <- MCBatches
    InitialJobs = {1, 3}
    MaxTime = 2
    MaxCrashes = 1
    MaxFaults = 1
    PromptTeardown = FALSE
SYMMETRY MCSymmetry
INVARIANTS
    AttemptLogComplete
    PauseSlipBound
    MetricsMatchStore
PROPERTIES
    NotBeforeRunAt
CHECK_DEADLOCK FALSE
