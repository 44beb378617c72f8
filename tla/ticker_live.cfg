\* Do all jobs reach an end when only the ticker flushes, one restart intervenes and
\* one call of the store fails.  Two slots let two goroutines overlap.  The system comes to rest
\* when they have.
SPECIFICATION FairSpec
CONSTANTS
    Jobs = {1, 2}
    Queues <- MCQueues
    QueueOf <- MCQueueOf
    PriorityOf <- MCPriorityOf
    MaxAttemptsOf <- MCMaxAttemptsOf
    TypeOf <- MCTypeOf
    MaxDuration = 64
    OutOfRange <- MCOutOfRange
    Flushers = {ticker}
    Ticker = ticker
    Workers = {w1, w2, w3}
    PoolSize = 2
    ScanSize = 2
    BackoffBase = 1
    Clients = {c1}
    Ops = {}
    MaxOps = 0
    Batches <- MCBatches
    InitialJobs = {1, 2}
    MaxTime = 2
    MaxCrashes = 1
    MaxFaults = 1
    PromptTeardown = TRUE
INVARIANTS
    StrandedOnlyByFault
PROPERTIES
    EventuallySettled
CHECK_DEADLOCK FALSE
