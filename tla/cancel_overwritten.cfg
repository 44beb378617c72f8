\* A cancel request against a running job.
SPECIFICATION Spec
CONSTANTS
    Jobs = {2}
    Queues <- MCQueues
    QueueOf <- MCQueueOf
    PriorityOf <- MCPriorityOf
    MaxAttemptsOf <- MCMaxAttemptsOf
    TypeOf <- MCTypeOf
    MaxDuration = 64
    OutOfRange <- MCOutOfRange
    Flushers = {ticker}
    Ticker = ticker
    Workers = {w1, w2}
    PoolSize = 1
    ScanSize = 1
    BackoffBase = 1
    Clients = {c1}
    Ops = {"cancel"}
    MaxOps = 1
    Batches <- MCBatches
    InitialJobs = {2}
    MaxTime = 0
    MaxCrashes = 0
    MaxFaults = 0
    PromptTeardown = FALSE
SYMMETRY MCSymmetry
PROPERTIES
    CancelledStays
CHECK_DEADLOCK FALSE
