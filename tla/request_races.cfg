\* Two requests at once on one job, with two flushes and a failing call.
\* The bounds let the system come to rest.
SPECIFICATION Spec
CONSTANTS
    Jobs = {2}
    Queues <- MCQueues
    QueueOf <- MCQueueOf
    PriorityOf <- MCPriorityOf
    MaxAttemptsOf <- MCMaxAttemptsOf
    TypeOf <- MCTypeOf
    MaxDuration = 64
    OutOfRange <- MCOutOfRange
    Flushers = {ticker, http}
    Ticker = ticker
    Workers = {w1, w2, w3}
    PoolSize = 2
    ScanSize = 1
    BackoffBase = 1
    Clients = {c1, c2}
    Ops = {"create", "retry", "cancel", "delete", "requeue", "flush", "disconnect"}
    MaxOps = 4
    Batches <- MCBatches
    InitialJobs = {2}
    MaxTime = 0
    MaxCrashes = 0
    MaxFaults = 1
    PromptTeardown = FALSE
SYMMETRY MCSymmetry
INVARIANTS
    TypeOK
    OneOwnerPerJob
    ActiveIsOwned
    CancelReachesHandler
PROPERTIES
    FinalUnlessStale
CHECK_DEADLOCK FALSE
