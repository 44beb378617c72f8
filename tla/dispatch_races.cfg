\* Two flushes over the same due jobs contend for one slot; the client of one of them
\* Two flushes over the same due jobs contend for one slot, the process restarts, and
\* no request rewrites a row.
SPECIFICATION FairSpec
CONSTANTS
    Jobs = {1, 2}
    Queues <- MCQueues
    QueueOf <- MCQueueOf
    PriorityOf <- MCPriorityOf
    MaxAttemptsOf <- MCMaxAttemptsOf
    TypeOf <- MCTypeOf
    MaxDuration = 64
    OutOfRange <- MCOutOfRange
    Flushers = {ticker, http}
    Ticker = ticker
    Workers = {w1, w2}
    PoolSize = 1
    ScanSize = 2
    BackoffBase = 1
    Clients = {c1}
    Ops = {"flush"}
    MaxOps = 1
    Batches <- MCBatches
    InitialJobs = {1, 2}
    MaxTime = 1
    MaxCrashes = 1
    MaxFaults = 0
    PromptTeardown = FALSE
INVARIANTS
    SlotsAccounted
    ClaimIsExclusive
    AttemptsBounded
    MetricsMatchStore
PROPERTIES
    TerminalIsFinal
    EarlyClaimIsStale
    ImplementsLifecycle
    FlushReturns
CHECK_DEADLOCK FALSE
