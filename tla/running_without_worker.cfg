\* A claimed row that no goroutine will ever settle.
SPECIFICATION Spec
CONSTANTS
    Jobs = {1}
    Queues <- MCQueues
    QueueOf <- MCQueueOf
    PriorityOf <- MCPriorityOf
    MaxAttemptsOf <- MCMaxAttemptsOf
    TypeOf <- MCTypeOf
    MaxDuration = 64
    OutOfRange <- MCOutOfRange
    Flushers = {ticker, http}
    Ticker = ticker
    Workers = {w1, w2}
    PoolSize = 1
    ScanSize = 1
    BackoffBase = 1
    Clients = {c1}
    Ops = {"flush", "disconnect"}
    MaxOps = 2
    Batches <- MCBatches
    InitialJobs = {1}
    MaxTime = 0
    MaxCrashes = 0
    MaxFaults = 0
    PromptTeardown = FALSE
SYMMETRY MCSymmetry
INVARIANTS
    RunningHasWorker
CHECK_DEADLOCK FALSE
