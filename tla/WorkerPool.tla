------------------------------ MODULE WorkerPool ------------------------------
(***************************************************************************)
(* Package worker: Flush claims due jobs and hands each one to a goroutine *)
(* that runs its handler.  Flush runs on the polling ticker and inside     *)
(* every POST /flush request, so several flushes are in flight at once;    *)
(* each works through the copies its own ScanDue returned.                 *)
(*                                                                         *)
(* A step is one statement on the store or one critical section of         *)
(* Pool.mu; everything between two such points is local to its goroutine.  *)
(***************************************************************************)
EXTENDS JobStore, Backoff

CONSTANTS
    Flushers,      \* concurrent executions of Flush
    Ticker,        \* the one Pool.Start runs; the others are HTTP requests
    Workers,       \* identities for the goroutines Flush starts
    PoolSize,      \* capacity of the semaphore channel (16 in New)
    ScanSize,      \* Pool.scanSize (200 in New)
    BackoffBase,   \* Pool.backoff, in ticks
    TypeOf         \* the column type of a job: the name of its handler

ASSUME PoolAssumption ==
    /\ Ticker \in Flushers
    /\ IsFiniteSet(Flushers) /\ IsFiniteSet(Workers)
    /\ PoolSize \in Nat \ {0}
    /\ ScanSize \in Nat \ {0}
    /\ BackoffBase \in Nat \ {0}

VARIABLES
    active,    \* Pool.active: the ids registered as executing
    cancels,   \* Pool.cancels: id -> the goroutine its CancelFunc belongs to,
               \*   as a set that is empty when the map has no entry
    sem,       \* number of tokens in the channel Pool.sem
    flusher,   \* each Flush: where it is, its unprocessed copies, the current one
    worker,    \* each goroutine: where it is and its local variables
    metrics,   \* Pool.metrics
    slips      \* history: claims a flush made from a queue while it was paused

poolVars == <<active, cancels, sem, flusher, worker, metrics, slips>>

NoCopy == [id |-> CHOOSE j \in Jobs : TRUE, row |-> AbsentRow]

\* "check": at the head of the loop; "claim", "register", "acquire": the three
\* steps the loop body takes for the copy in cur.  ctxDone is ctx.Err() # nil.
IdleFlusher == [pc |-> "idle", rest |-> {}, cur |-> NoCopy, ctxDone |-> FALSE]

\* Named after the step the goroutine takes next.
IdleWorker == [pc |-> "idle", copy |-> NoCopy, parent |-> Ticker, ctxDone |-> FALSE,
               failed |-> FALSE, willRetry |-> FALSE, next |-> 0]

Flusher == [pc : {"idle", "check", "claim", "register", "acquire"},
            rest : SUBSET Copy, cur : Copy, ctxDone : BOOLEAN]

Worker == [pc : {"idle", "start", "handle", "record", "count", "settle",
                 "teardown", "release"},
           copy : Copy, parent : Flushers, ctxDone : BOOLEAN,
           failed : BOOLEAN, willRetry : BOOLEAN, next : Nat]

NoMetrics == [succeeded |-> 0, failed |-> 0, retried |-> 0, dead |-> 0]

PoolTypeOK ==
    /\ active \in SUBSET Jobs
    /\ cancels \in [Jobs -> SUBSET Workers]
    /\ sem \in Nat
    /\ flusher \in [Flushers -> Flusher]
    /\ worker \in [Workers -> Worker]
    /\ metrics \in [succeeded : Nat, failed : Nat, retried : Nat, dead : Nat]
    /\ slips \in [Flushers -> [Queues -> Nat]]

\* The volatile part of a new Pool.
PoolReset ==
    /\ active' = {}
    /\ cancels' = [j \in Jobs |-> {}]
    /\ sem' = 0
    /\ flusher' = [f \in Flushers |-> IdleFlusher]
    /\ worker' = [w \in Workers |-> IdleWorker]
    /\ metrics' = NoMetrics

PoolInit ==
    /\ active = {}
    /\ cancels = [j \in Jobs |-> {}]
    /\ sem = 0
    /\ flusher = [f \in Flushers |-> IdleFlusher]
    /\ worker = [w \in Workers |-> IdleWorker]
    /\ metrics = NoMetrics
    /\ slips = [f \in Flushers |-> [q \in Queues |-> 0]]

-----------------------------------------------------------------------------
(* Flush. *)

\* The loop moves on to the next copy.
NextCopy(f) == [flusher EXCEPT ![f].pc = "check", ![f].cur = NoCopy]

\* ScanDue.  A scan that finds nothing returns at once and changes nothing.
FlushBegin(f) ==
    /\ flusher[f].pc = "idle"
    /\ ScanDue(ScanSize, now) # {}
    /\ flusher' = [flusher EXCEPT ![f].pc = "check",
                                  ![f].rest = ScanDue(ScanSize, now)]
    /\ UNCHANGED <<storeVars, active, cancels, sem, worker, metrics, slips>>

\* Mutant: the loop claims without asking IsPaused.
NeverPaused(q) == FALSE

IsPaused(q) == q \in paused

\* The first copy left.
IsNextCopy(f, c) ==
    c \in flusher[f].rest /\ \A d \in flusher[f].rest \ {c} : Precedes(c, d)

\* The loop takes a copy and reads the paused flag of its queue.
FlushCheck(f) ==
    /\ flusher[f].pc = "check"
    /\ \E c \in flusher[f].rest :
        /\ IsNextCopy(f, c)
        /\ flusher' =
             IF IsPaused(QueueOf[c.id])
             THEN [flusher EXCEPT ![f].rest = @ \ {c}]
             ELSE [flusher EXCEPT ![f].rest = @ \ {c}, ![f].pc = "claim",
                                  ![f].cur = c]
    /\ UNCHANGED <<storeVars, active, cancels, sem, worker, metrics, slips>>

FlushClaim(f) ==
    LET j == flusher[f].cur.id
        q == QueueOf[j]
    IN  /\ flusher[f].pc = "claim"
        /\ Claim(j)
        /\ flusher' = IF Claimable(j)
                      THEN [flusher EXCEPT ![f].pc = "register"]
                      ELSE NextCopy(f)
        /\ slips' = IF Claimable(j) /\ q \in paused
                    THEN [slips EXCEPT ![f][q] = @ + 1]
                    ELSE slips
        /\ UNCHANGED <<active, cancels, sem, worker, metrics>>

\* Mutant: the active-set check is dropped.
NeverActive(j) == FALSE

IsActive(j) == j \in active

\* A job still registered is skipped; its row stays claimed.
FlushRegister(f) ==
    LET j == flusher[f].cur.id
    IN  /\ flusher[f].pc = "register"
        /\ IF IsActive(j)
           THEN flusher' = NextCopy(f) /\ UNCHANGED active
           ELSE /\ flusher' = [flusher EXCEPT ![f].pc = "acquire"]
                /\ active' = active \cup {j}
        /\ UNCHANGED <<storeVars, cancels, sem, worker, metrics, slips>>

\* Mutant: off by one in the capacity of the channel.
SlotFreeOffByOne == sem <= PoolSize

SlotFree == sem < PoolSize

\* A new goroutine.  Its context is a child of the flush's, so it is born
\* cancelled if that one is.
Started(f) == [IdleWorker EXCEPT !.pc = "start", !.copy = flusher[f].cur,
                                 !.parent = f, !.ctxDone = flusher[f].ctxDone]

\* The send on Pool.sem succeeds and the goroutine is started.
FlushDispatch(f) ==
    /\ flusher[f].pc = "acquire"
    /\ SlotFree
    /\ sem' = sem + 1
    /\ \E w \in Workers :
        /\ worker[w].pc = "idle"
        /\ worker' = [worker EXCEPT ![w] = Started(f)]
    /\ flusher' = NextCopy(f)
    /\ UNCHANGED <<storeVars, active, cancels, metrics, slips>>

\* Mutant: the early return takes a token it never put there.
FlushAbortReleasesSlot(f) ==
    /\ flusher[f].pc = "acquire"
    /\ flusher[f].ctxDone
    /\ active' = active \ {flusher[f].cur.id}
    /\ sem' = sem - 1
    /\ flusher' = [flusher EXCEPT ![f].pc = "check", ![f].rest = {},
                                  ![f].cur = NoCopy]
    /\ UNCHANGED <<storeVars, cancels, worker, metrics, slips>>

\* Mutant: the early return forgets the active set.
FlushAbortKeepsActive(f) ==
    /\ flusher[f].pc = "acquire"
    /\ flusher[f].ctxDone
    /\ flusher' = [flusher EXCEPT ![f].pc = "check", ![f].rest = {},
                                  ![f].cur = NoCopy]
    /\ UNCHANGED <<storeVars, active, cancels, sem, worker, metrics, slips>>

\* The select takes its ctx.Done() case: the id leaves the active set and
\* Flush returns the error.  The row stays claimed.
FlushAbort(f) ==
    /\ flusher[f].pc = "acquire"
    /\ flusher[f].ctxDone
    /\ active' = active \ {flusher[f].cur.id}
    /\ flusher' = [flusher EXCEPT ![f].pc = "check", ![f].rest = {},
                                  ![f].cur = NoCopy]
    /\ UNCHANGED <<storeVars, cancels, sem, worker, metrics, slips>>

\* The contexts of the goroutines a flush started are children of its own.
CancelChildren(f) ==
    [w \in Workers |->
        IF worker[w].pc # "idle" /\ worker[w].parent = f
        THEN [worker[w] EXCEPT !.ctxDone = TRUE]
        ELSE worker[w]]

\* Flush returns.  For a POST /flush net/http then cancels r.Context(); the
\* ticker's context lives as long as the process.
FlushReturn(f) ==
    /\ flusher[f].pc = "check"
    /\ flusher[f].rest = {}
    /\ flusher' = [flusher EXCEPT ![f] = IdleFlusher]
    /\ worker' = IF f = Ticker THEN worker ELSE CancelChildren(f)
    /\ UNCHANGED <<storeVars, active, cancels, sem, metrics, slips>>

-----------------------------------------------------------------------------
(* The goroutine of one job: executeJob, finish and the deferred calls. *)

Executing(w) == worker[w].pc \notin {"idle", "release"}

\* The handlers registerBuiltinHandlers binds, and the error executeJob makes
\* for a type that has none: TRUE is success.
Outcomes(type, ctxDone) ==
    CASE type \in {"noop", "echo"} -> {TRUE}
      [] type = "slow"             -> IF ctxDone THEN BOOLEAN ELSE {TRUE}
      [] OTHER                     -> {FALSE}

\* executeJob derives the context and registers its CancelFunc.
WorkerStart(w) ==
    /\ worker[w].pc = "start"
    /\ cancels' = [cancels EXCEPT ![worker[w].copy.id] = {w}]
    /\ worker' = [worker EXCEPT ![w].pc = "handle"]
    /\ UNCHANGED <<storeVars, active, sem, flusher, metrics, slips>>

WorkerHandle(w) ==
    /\ worker[w].pc = "handle"
    /\ \E ok \in Outcomes(TypeOf[worker[w].copy.id], worker[w].ctxDone) :
        worker' = [worker EXCEPT ![w].pc = "record", ![w].failed = ~ok]
    /\ UNCHANGED <<storeVars, active, cancels, sem, flusher, metrics, slips>>

\* Mutant: attempts are numbered from one.
WorkerRecordFromOne(w) ==
    /\ worker[w].pc = "record"
    /\ RecordAttempt(worker[w].copy.id, worker[w].copy.row.attempts + 1,
                     ~worker[w].failed)
    /\ worker' = [worker EXCEPT ![w].pc = "count"]
    /\ UNCHANGED <<active, cancels, sem, flusher, metrics, slips>>

\* finish, first statement: the attempt is numbered by the worker's own copy.
WorkerRecord(w) ==
    /\ worker[w].pc = "record"
    /\ RecordAttempt(worker[w].copy.id, worker[w].copy.row.attempts,
                     ~worker[w].failed)
    /\ worker' = [worker EXCEPT ![w].pc = "count"]
    /\ UNCHANGED <<active, cancels, sem, flusher, metrics, slips>>

\* Mutant: off by one in the retry limit.
WillRetryOnceLess(c) ==
    /\ Retryable(c.row, MaxAttemptsOf[c.id])
    /\ c.row.attempts + 2 < MaxAttemptsOf[c.id]

\* nextRun, decided from the worker's copy of the row.
WillRetry(c) ==
    /\ Retryable(c.row, MaxAttemptsOf[c.id])
    /\ c.row.attempts + 1 < MaxAttemptsOf[c.id]

NextRunAt(c) ==
    now + Window(New("exponential", BackoffBase), c.row.attempts, BackoffBase,
                 16 * BackoffBase)

\* Mutant: the outcome is counted when the handler returns and again in finish.
BumpTwice(counts, names) ==
    [n \in DOMAIN counts |-> IF n \in names THEN counts[n] + 2 ELSE counts[n]]

Bump(counts, names) ==
    [n \in DOMAIN counts |-> IF n \in names THEN counts[n] + 1 ELSE counts[n]]

\* finish counts the outcome and decides on a retry before the row shows either.
WorkerCount(w) ==
    LET c == worker[w].copy
        retry == worker[w].failed /\ WillRetry(c)
    IN  /\ worker[w].pc = "count"
        /\ metrics' = Bump(metrics,
                           IF worker[w].failed
                           THEN {"failed", IF retry THEN "retried" ELSE "dead"}
                           ELSE {"succeeded"})
        /\ worker' = [worker EXCEPT
                        ![w].pc = "settle", ![w].willRetry = retry,
                        ![w].next = IF retry THEN NextRunAt(c) ELSE 0]
        /\ UNCHANGED <<storeVars, active, cancels, sem, flusher, slips>>

\* finish, second statement.
WorkerSettle(w) ==
    /\ worker[w].pc = "settle"
    /\ IF worker[w].failed
       THEN Fail(worker[w].copy.id, worker[w].willRetry, worker[w].next)
       ELSE Succeed(worker[w].copy.id)
    /\ worker' = [worker EXCEPT ![w].pc = "teardown"]
    /\ UNCHANGED <<active, cancels, sem, flusher, metrics, slips>>

\* Mutant: the deferred function leaves its entry in Pool.cancels.
WorkerTeardownKeepsCancel(w) ==
    /\ worker[w].pc = "teardown"
    /\ active' = active \ {worker[w].copy.id}
    /\ worker' = [worker EXCEPT ![w].pc = "release"]
    /\ UNCHANGED <<storeVars, cancels, sem, flusher, metrics, slips>>

\* The deferred function that runs first clears both maps, by id.
WorkerTeardown(w) ==
    /\ worker[w].pc = "teardown"
    /\ active' = active \ {worker[w].copy.id}
    /\ cancels' = [cancels EXCEPT ![worker[w].copy.id] = {}]
    /\ worker' = [worker EXCEPT ![w].pc = "release"]
    /\ UNCHANGED <<storeVars, sem, flusher, metrics, slips>>

\* Mutant: the goroutine ends without receiving from Pool.sem.
WorkerReleaseKeepsSlot(w) ==
    /\ worker[w].pc = "release"
    /\ worker' = [worker EXCEPT ![w] = IdleWorker]
    /\ UNCHANGED <<storeVars, active, cancels, sem, flusher, metrics, slips>>

WorkerRelease(w) ==
    /\ worker[w].pc = "release"
    /\ sem' = sem - 1
    /\ worker' = [worker EXCEPT ![w] = IdleWorker]
    /\ UNCHANGED <<storeVars, active, cancels, flusher, metrics, slips>>

-----------------------------------------------------------------------------

\* Pool.Cancel: the CancelFunc registered for the id, if there is one.
CancelledBy(j) ==
    [w \in Workers |-> IF w \in cancels[j]
                       THEN [worker[w] EXCEPT !.ctxDone = TRUE]
                       ELSE worker[w]]

\* RecoverInterrupted: the rows ListJobs finds running are written back pending.
\* (Its limit of 10000 rows and its return at the first error play no part: Open has
\* reset every running row before it is called.)
RecoverInterrupted(table, at) ==
    [j \in Jobs |-> IF table[j].state = "running" THEN RequeueAt(table[j], at)
                                                  ELSE table[j]]

(* Calls of the store that return an error.                                *)

\* IsPaused fails, and the loop goes on as if the queue were not paused.
FlushCheckFails(f) ==
    /\ flusher[f].pc = "check"
    /\ \E c \in flusher[f].rest :
        /\ IsNextCopy(f, c)
        /\ flusher' = [flusher EXCEPT ![f].rest = @ \ {c}, ![f].pc = "claim",
                                      ![f].cur = c]
    /\ UNCHANGED <<storeVars, active, cancels, sem, worker, metrics, slips>>

\* Claim fails, and Flush returns the error without a look at the other copies.
FlushClaimFails(f) ==
    /\ flusher[f].pc = "claim"
    /\ flusher' = [flusher EXCEPT ![f].pc = "check", ![f].rest = {},
                                  ![f].cur = NoCopy]
    /\ UNCHANGED <<storeVars, active, cancels, sem, worker, metrics, slips>>

\* finish discards the error of RecordAttempt, and that of Succeed or Fail.
WorkerCallFails(w) ==
    /\ \/ /\ worker[w].pc = "record"
          /\ worker' = [worker EXCEPT ![w].pc = "count"]
       \/ /\ worker[w].pc = "settle"
          /\ worker' = [worker EXCEPT ![w].pc = "teardown"]
    /\ UNCHANGED <<storeVars, active, cancels, sem, flusher, metrics, slips>>

-----------------------------------------------------------------------------

FlushStep(f) ==
    FlushCheck(f) \/ FlushClaim(f) \/ FlushRegister(f) \/ FlushDispatch(f)
        \/ FlushAbort(f) \/ FlushReturn(f)

WorkerStep(w) ==
    WorkerStart(w) \/ WorkerHandle(w) \/ WorkerRecord(w) \/ WorkerCount(w)
        \/ WorkerSettle(w) \/ WorkerTeardown(w) \/ WorkerRelease(w)
=============================================================================
