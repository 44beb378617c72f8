------------------------------ MODULE JobSched ------------------------------
(***************************************************************************)
(* The service main() assembles: the store, the pool polling it, the HTTP  *)
(* API beside it, the wall clock, and the death and restart of the process.*)
(***************************************************************************)
EXTENDS JobApi

CONSTANTS
    InitialJobs,      \* jobs pending when the history begins
    MaxTime,          \* bound on the clock
    MaxCrashes,       \* bound on restarts
    MaxFaults,        \* bound on store calls that return an error
    PromptTeardown    \* TRUE: between a goroutine's decision on the next run
                      \* and its deferred clean-up (one UPDATE) the clock does
                      \* not reach another second

ASSUME SchedAssumption ==
    /\ InitialJobs \subseteq Jobs
    /\ MaxTime \in Nat
    /\ MaxCrashes \in Nat
    /\ MaxFaults \in Nat
    /\ PromptTeardown \in BOOLEAN

VARIABLES
    crashes,    \* number of restarts
    faults      \* number of store calls that returned an error

badLuck == <<crashes, faults>>

vars == <<storeVars, poolVars, apiVars, badLuck>>

TypeOK ==
    /\ StoreTypeOK
    /\ PoolTypeOK
    /\ ApiTypeOK
    /\ crashes \in Nat /\ faults \in Nat

Init ==
    /\ jobs = [j \in Jobs |->
                 IF j \in InitialJobs
                 THEN [state |-> "pending", runAt |-> 0, attempts |-> 0]
                 ELSE AbsentRow]
    /\ attempts = [j \in Jobs |-> <<>>]
    /\ paused = {}
    /\ now = 0
    /\ PoolInit
    /\ ApiInit
    /\ crashes = 0
    /\ faults = 0

-----------------------------------------------------------------------------

\* The ticker's channel fires and Flush is run under main's context.
PollTick ==
    /\ FlushBegin(Ticker)
    /\ UNCHANGED <<apiVars, badLuck>>

FlushStepOf(f) == FlushStep(f) /\ UNCHANGED <<apiVars, badLuck>>

WorkerStepOf(w) == WorkerStep(w) /\ UNCHANGED <<apiVars, badLuck>>

ClientStepOf(c) == ClientStep(c) /\ UNCHANGED badLuck

RequestStep ==
    /\ \/ \E j \in Jobs : ApiRequeueDead(j)
       \/ \E q \in Queues : ApiPause(q) \/ ApiResume(q)
       \/ \E f \in Flushers : ApiFlush(f) \/ ApiDisconnect(f)
    /\ UNCHANGED badLuck

\* A call of the store fails (a full disk, an I/O error, a locked file).
FaultStep ==
    /\ faults < MaxFaults
    /\ faults' = faults + 1
    /\ \/ /\ \/ \E f \in Flushers : FlushCheckFails(f) \/ FlushClaimFails(f)
             \/ \E w \in Workers : WorkerCallFails(w)
          /\ UNCHANGED apiVars
       \/ \E c \in Clients : ApiCallFails(c)
    /\ UNCHANGED crashes

\* Mutant: a restart without either recovery.
RestartWithoutRecovery ==
    /\ crashes < MaxCrashes
    /\ PoolReset
    /\ client' = [c \in Clients |-> IdleClient]
    /\ crashes' = crashes + 1
    /\ UNCHANGED <<jobs, attempts, paused, now, slips, ops, faults>>

\* The process dies at any point and main runs again: Open recovers, a new
\* pool is made, RecoverInterrupted runs, polling starts.
Restart ==
    /\ crashes < MaxCrashes
    /\ jobs' = RecoverInterrupted(RecoverOnOpen(jobs, now), now)
    /\ PoolReset
    /\ client' = [c \in Clients |-> IdleClient]
    /\ crashes' = crashes + 1
    /\ UNCHANGED <<attempts, paused, now, slips, ops, faults>>

Tick ==
    /\ now < MaxTime
    /\ PromptTeardown => \A w \in Workers : worker[w].pc \notin {"settle", "teardown"}
    /\ now' = now + 1
    /\ UNCHANGED <<jobs, attempts, paused, poolVars, apiVars, badLuck>>

Next ==
    \/ PollTick
    \/ \E f \in Flushers : FlushStepOf(f)
    \/ \E w \in Workers : WorkerStepOf(w)
    \/ \E c \in Clients : ClientStepOf(c)
    \/ RequestStep
    \/ FaultStep
    \/ Restart
    \/ Tick

Spec == Init /\ [][Next]_vars

\* The Go scheduler runs every runnable goroutine, the operating system's
\* clock advances and the ticker polls.  Senders blocked on a channel are served
\* in order of arrival, so a flush waiting for a slot is not overtaken for ever.
\* Nothing is assumed of clients, and nothing of crashes or store errors.
Fairness ==
    /\ WF_vars(PollTick)
    /\ \A f \in Flushers :
        /\ WF_vars(FlushStepOf(f))
        /\ SF_vars(FlushDispatch(f) /\ UNCHANGED <<apiVars, badLuck>>)
    /\ \A w \in Workers : WF_vars(WorkerStepOf(w))
    /\ WF_vars(Tick)

FairSpec == Spec /\ Fairness

-----------------------------------------------------------------------------
(* Properties of the pool that no client, crash or interleaving may break. *)

WorkerOwns(w, j) == Executing(w) /\ worker[w].copy.id = j

FlusherOwns(f, j) == flusher[f].pc = "acquire" /\ flusher[f].cur.id = j

\* No job is executed, or about to be, by two parties at once, whatever requests
\* rewrite its row: the active set, not the row, is what guards the handler.
OneOwnerPerJob ==
    \A j \in Jobs :
        /\ \A v, w \in Workers : WorkerOwns(v, j) /\ WorkerOwns(w, j) => v = w
        /\ \A f, g \in Flushers : FlusherOwns(f, j) /\ FlusherOwns(g, j) => f = g
        /\ \A f \in Flushers, w \in Workers : ~(FlusherOwns(f, j) /\ WorkerOwns(w, j))

\* An id is in the active set exactly while one flush or one goroutine answers
\* for it, so no exit path of Flush or of the goroutine leaks a registration
\* (which would bar the job until a restart) or drops another's.
ActiveIsOwned ==
    \A j \in Jobs :
        j \in active <=> \/ \E f \in Flushers : FlusherOwns(f, j)
                         \/ \E w \in Workers : WorkerOwns(w, j)

\* executeJob has registered its CancelFunc and the deferred function is to come.
Registered(w, j) == WorkerOwns(w, j) /\ worker[w].pc # "start"

\* While a handler may be running, the CancelFunc under its job's id is its own,
\* and an id nobody executes has none: a cancel request reaches the right
\* goroutine or nobody.
CancelReachesHandler ==
    \A j \in Jobs : cancels[j] = {w \in Workers : Registered(w, j)}

Busy == {w \in Workers : worker[w].pc # "idle"}

\* Every token in the semaphore belongs to a goroutine that has not ended, and
\* there are never more of them than the channel holds.
SlotsAccounted ==
    /\ sem = Cardinality(Busy)
    /\ sem <= PoolSize

\* Pausing a queue is not atomic with the flushes under way, but the harm is
\* bounded: a flush claims at most one job from a queue after it was paused, and
\* one more for each call of the store that fails.
PauseSlipBound == \A f \in Flushers, q \in Queues : slips[f][q] <= 1 + faults

-----------------------------------------------------------------------------
(* Properties of the rows while only the pool writes them once they exist. *)

\* The parties between a successful Claim of j and the statement that settles it.
ClaimedByFlusher(f, j) ==
    flusher[f].pc \in {"register", "acquire"} /\ flusher[f].cur.id = j

ClaimedByWorker(w, j) ==
    /\ worker[w].pc \in {"start", "handle", "record", "count", "settle"}
    /\ worker[w].copy.id = j

\* A claim is exclusive until it is settled: the row stays running and nobody
\* else holds a claim on it, so no execution settles a row another one claimed.
ClaimIsExclusive ==
    \A j \in Jobs :
        LET holders == {f \in Flushers : ClaimedByFlusher(f, j)}
                         \cup {w \in Workers : ClaimedByWorker(w, j)}
        IN  /\ Cardinality(holders) <= 1
            /\ holders # {} => jobs[j].state = "running"

\* The jobs somebody has claimed and is yet to settle.
Held ==
    {j \in Jobs : \/ \E f \in Flushers : ClaimedByFlusher(f, j)
                  \/ \E w \in Workers : ClaimedByWorker(w, j)}

Lifecycle == INSTANCE JobLifecycle
                WITH state <- [j \in Jobs |-> jobs[j].state],
                     tries <- [j \in Jobs |-> jobs[j].attempts],
                     held <- Held

\* While requests insert rows but only the pool rewrites them, all its statements,
\* flushes, goroutines, failures and restarts amount to the life-cycle: every change
\* of a row is its insertion, the claim of a job, the one settlement of a claim, or
\* the recovery at a restart.
ImplementsLifecycle == Lifecycle!Spec

\* A settled job is never touched again, late goroutines, stale flushes and
\* restarts included.
TerminalIsFinal ==
    [][\A j \in Jobs : IsTerminal(jobs[j].state) => jobs'[j] = jobs[j]]_vars

\* A dead letter has used up its attempts, and a job exceeds them by no more
\* than one attempt for each flush beyond the ticker's, whose stale copy may
\* grant a retry too many.  With the ticker alone the limit is exact.
AttemptsBounded ==
    \A j \in Jobs :
        /\ jobs[j].state = "dead" => jobs[j].attempts >= MaxAttemptsOf[j]
        /\ jobs[j].attempts <= MaxAttemptsOf[j] + Cardinality(Flushers) - 1

\* The goroutines that have counted an outcome the row does not show yet.
Counted(failed) ==
    {w \in Workers : worker[w].pc = "settle" /\ worker[w].failed = failed}

\* The failed attempts the table counts, each a pair of a job and a number.
Failures == UNION {{j} \X (0 .. jobs[j].attempts - 1) : j \in Jobs}

\* The counters agree with the table but for the outcomes on their way to it and
\* those whose UPDATE failed: no execution is missed or counted twice.  A restart
\* forgets the counters and keeps the rows.
MetricsMatchStore ==
    LET succeeded == {j \in Jobs : jobs[j].state = "succeeded"}
        dead == {j \in Jobs : jobs[j].state = "dead"}
        buried == {w \in Counted(TRUE) : ~worker[w].willRetry}
        failures == Cardinality(Failures)
    IN  /\ metrics.succeeded
             <= Cardinality(succeeded) + Cardinality(Counted(FALSE)) + faults
        /\ metrics.dead <= Cardinality(dead) + Cardinality(buried) + faults
        /\ metrics.failed <= failures + Cardinality(Counted(TRUE)) + faults
        /\ metrics.failed = metrics.retried + metrics.dead
        /\ crashes = 0 /\ faults = 0 =>
             /\ metrics.succeeded = Cardinality(succeeded) + Cardinality(Counted(FALSE))
             /\ metrics.dead = Cardinality(dead) + Cardinality(buried)
             /\ metrics.failed = failures + Cardinality(Counted(TRUE))

\* The attempt log of a job: every counted failure has its entry unless the
\* insert failed, no entry runs ahead of the counter, and only a restart can leave
\* a number twice.
AttemptLogComplete ==
    \A j \in Jobs :
        LET log == attempts[j]
            n == jobs[j].attempts
            missing == {i \in 0 .. n - 1 :
                           \A k \in 1 .. Len(log) : log[k] # [idx |-> i, ok |-> FALSE]}
        IN  /\ Cardinality(missing) <= faults
            /\ \A k \in 1 .. Len(log) : log[k].idx <= n
            /\ \A k \in 2 .. Len(log) : log[k - 1].idx <= log[k].idx
            /\ Len(log) <= n + 1 + crashes

\* A job is claimed no earlier than its run_at.
NotBeforeRunAt ==
    [][\A j \in Jobs :
          jobs[j].state = "pending" /\ jobs'[j].state = "running"
              => jobs[j].runAt <= now]_vars

\* While a job waits for its retry, only a flush still working through a list
\* it scanned before the last attempt ended can claim it ahead of its run_at.
EarlyClaimIsStale ==
    [][\A j \in Jobs :
          /\ jobs[j].state = "pending" /\ jobs'[j].state = "running"
          /\ jobs[j].runAt > now
          => \E f \in Flushers :
                /\ flusher[f].pc = "claim"
                /\ flusher[f].cur.id = j
                /\ flusher[f].cur.row.attempts < jobs[j].attempts]_vars

\* A goroutine or a request that will write j from what it read or claimed
\* some time ago.
HoldsStale(j) ==
    \/ \E w \in Workers : ClaimedByWorker(w, j)
    \/ \E c \in Clients : /\ client[c].pc \in {"retry", "signal", "cancel"}
                          /\ client[c].copy.id = j

\* Requests and flushes alone never revive a job that succeeded or was
\* cancelled: only a party that read or claimed the row before it got there can
\* overwrite it, and once none is left the row changes no more but by a delete.
FinalUnlessStale ==
    [][\A j \in Jobs :
          jobs[j].state \in {"succeeded", "cancelled"} /\ ~HoldsStale(j)
              => jobs'[j] \in {jobs[j], AbsentRow}]_vars

\* Running, with nobody to settle it.
Stranded(j) == jobs[j].state = "running" /\ j \notin Held

\* With the ticker as the only flush and goroutines that clean up in time, a
\* claimed row always has a holder: no flush meets the goroutine of an earlier
\* attempt in the active set, and only a call of the store that failed strands it.
StrandedOnlyByFault == (\E j \in Jobs : Stranded(j)) => faults > 0

-----------------------------------------------------------------------------
(* What the documentation says and the code does not keep. *)

\* "StateRunning means a worker is currently executing the job", a flush that
\* is about to start one included.
RunningHasWorker == \A j \in Jobs : ~Stranded(j)

\* "A cancelled job is set to cancelled", and stays so until it is deleted.
CancelledStays ==
    [][\A j \in Jobs : jobs[j].state = "cancelled"
                          => jobs'[j] \in {jobs[j], AbsentRow}]_vars

\* "Flush claims and dispatches every job that is due right now": a due job of
\* a queue that is not paused is run.
DueJobRuns ==
    \A j \in Jobs : <>[](QueueOf[j] \notin paused) =>
                       <>(IsTerminal(jobs[j].state) \/ jobs[j].runAt > MaxTime)

-----------------------------------------------------------------------------
(* Liveness. *)

\* Every job whose next attempt falls within the bound on time ends up for good
\* succeeded, dead or cancelled; only a store error can leave it stranded until
\* the next restart, which puts it back on its way.
EventuallySettled ==
    \A j \in Jobs : <>[](\/ IsTerminal(jobs[j].state)
                         \/ jobs[j].runAt > MaxTime
                         \/ faults > 0 /\ Stranded(j))

\* A flush always returns: it never waits for ever for a slot.
FlushReturns ==
    \A f \in Flushers : flusher[f].pc # "idle" ~> flusher[f].pc = "idle"
=============================================================================
