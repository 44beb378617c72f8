\* The scan limit is reached by jobs of a paused queue.
SPECIFICATION FairSpec
CONSTANTS
    Jobs = {1, 3}
    Queues <- MCQueues
    QueueOf <- MCQueueOf
    PriorityOf <- MCPriorityOf
    MaxAttemptsOf <- MCMaxAttemptsOf
    TypeOf <- MCTypeOf
    MaxDuration = 64
    OutOfRange <- MCOutOfRange
    Flushers = {ticker}
    Ticker = ticker
    Workers = {w1, w2}
    PoolSize = 1
    ScanSize = 1
    BackoffBase = 1
    Clients = {c1}
    Ops = {"pause"}
    MaxOps = 1
    Batches <- MCBatches
    InitialJobs = {1, 3}
    MaxTime = 1
    MaxCrashes = 0
    MaxFaults = 0
    PromptTeardown = TRUE
PROPERTIES
    DueJobRuns
CHECK_DEADLOCK FALSE
