# Verification of taskt114-jobsched

A TLA+ model of the job scheduler in `src/`: a Go service that keeps jobs in SQLite,
claims the due ones on a ticker and on request, runs their handlers on a bounded pool of
goroutines, retries failures with a backoff and lets clients create, retry, cancel,
delete and requeue jobs over HTTP while all of this goes on.

## The system

| Component | State it keeps | Operations | Talks to |
|---|---|---|---|
| `internal/store` | tables jobs, attempts, queues, schedules (survive a crash) | one SQL statement at a time (`SetMaxOpenConns(1)`); `Open` recovers running rows | everybody calls it |
| `internal/worker` `Pool` | `active`, `cancels`, `sem`, metrics (lost in a crash) | `Flush`, the goroutine of a job, `Cancel`, `Start` | store, handlers |
| `internal/worker` recurring schedules | none of its own | `RunRecurring`, `fireDueSchedules` | store |
| `internal/worker/recovery.go` | none | `RecoverInterrupted` | store |
| `internal/api` | none; one goroutine per request | job, queue, flush, schedule and read-only requests | store, pool |
| `internal/backoff`, `internal/model`, `internal/metrics`, `internal/clock` | counters (metrics) | pure functions; atomic increments | pool |
| `main.go` | the process | opens the store, recovers, starts the ticker and the server | all |

What is hard here, in one sentence each (PROJECT.json lists every hazard at its line):

* **Nothing locks a row.** `retryJob` and `cancelJob` read a row and write all of it back
  later; `Succeed` and `Fail` ask for the id alone; the pool, several flushes and several
  requests do this at once.
* **`Flush` works through a snapshot.** It scans up to 200 rows, then for each asks
  `IsPaused`, claims, registers, waits for a slot and starts a goroutine. Anything may
  happen to the row, the queue or the request in between, and the wait may be long.
* **Two guards against double execution.** The compare-and-set of `Claim` and the set
  `active`. Neither subsumes the other, and they are not taken together.
* **Contexts.** The goroutines of `POST /flush` live under the request's context, which
  net/http cancels when the request ends.
* **Crashes** at any point, with committed rows staying and the rest forgotten.
* **Errors** of the store, which `finish`, `Flush` and `fireDueSchedules` mostly discard.
* **A schedule's firing is two statements** made from a copy, without a transaction, and the
  identifier of its job is computed from what the second of them records.
* **Reports are several reads**, between which the pool moves counters and rows, and requests
  rewrite and delete rows.
* **Boundaries**: the scan limit, the semaphore, the retry limit, the int64 of durations and
  the zero time stored in one.

What makes each component correct:

* *pool*: a job is executed by one goroutine at a time; no exit path leaks a slot or a
  registration; a cancel reaches the goroutine that executes the job; flushes return.
* *rows*: a claim is exclusive until it is settled; a finished job stays finished; the
  attempt count, the attempt log and the metrics agree; nothing runs before its `run_at`;
  everything due is settled in the end, restarts included.
* *requests*: only a writer that read a row earlier can revive a finished job; a pause is
  overrun by at most one claim of each flush.
* *schedules*: no job before its slot, at most one round after a disable or delete, no
  interval lost or doubled by a crash, and a schedule that is behind catches up.
* *reports*: their parts disagree by no more than what the order of the reads allows and what
  requests delete or revive in between; with no row written in between they agree.

## Modules

| Module | Models | Correspondence |
|---|---|---|
| `JobModel` | `model/job.go`, `transition.go` | states, predicates, the row (state, run_at, attempts) |
| `Backoff` | `backoff/` | the three strategies, `New`, `NextDelay`, `Clamp`, `Window`; durations with the width of the code |
| `JobStore` | `store/store.go` | `jobs`, `attempts`, `paused`, `now`; an operator per SQL statement |
| `WorkerPool` | `worker/`, the counters of `metrics/` | `active`, `cancels`, `sem`, `metrics`; `flusher` and `worker` hold the program counters and locals of flushes and goroutines |
| `JobApi` | `api/api.go` | `client` holds the program counter and the copy of each request |
| `JobSched` | `main.go` | the composition: ticker, flushes, goroutines, requests, clock, failing calls, restart; the properties |
| `JobLifecycle` | what the scheduler promises of a job | abstract: `state`, `tries`, `held`; insert, claim, settle, lose, restart |
| `Schedules` | schedules table, `RunRecurring`, schedule requests, `schedule_window.go` | `schedules`, `jobIds`, the locals of `fireDueSchedules` in `recurring` |
| `Reports` | `Counters.Read`, `Stats`, `Maintenance` and what they call | `reader` holds the request and what it has read; of a row only its `state`; `claimed`, `stage` and `client` are the pool and the requests that write rows |
| `MCJobSched`, `MCSchedules`, `MCReports` | - | values of the constants for TLC |
| `JobSchedProofs`, `PoolOnlyProofs`, `TickerAloneProofs`, `AttemptsProofs`, `MetricsProofs`, `TickerFaultsProofs` | - | theorems and proofs about `JobSched` |
| `SchedulesProofs`, `ReportsProofs` | - | theorems and proofs about `Schedules` and `Reports` |

`JobModel`, `JobStore`, `WorkerPool`, `JobApi` and `JobSched` each EXTEND the one before
(the proof modules likewise, `JobSchedProofs`, `PoolOnlyProofs`, `TickerAloneProofs` and
`TickerFaultsProofs`; `AttemptsProofs` and `MetricsProofs` EXTEND `PoolOnlyProofs`);
`WorkerPool` takes `Backoff` as well. `JobSched` instantiates `JobLifecycle` with the refinement
mapping `state`, `attempts` of the rows and `Held`, the jobs between a successful `Claim` and the
statement that settles it. `Reports` is `WorkerPool` and `JobApi` once more without the data
their decisions rest on: every statement of the pool, the runner, the requests and the restart
that inserts, rewrites or deletes a row is an action on the row's state, taken whenever some data
would have it so. `Schedules` stands alone: of the jobs table it needs the identifiers
`fireDueSchedules` makes, which no other part of the service makes, and the rows those jobs become
are ordinary ones for `JobSched`.

A step is one SQL statement, one critical section of `Pool.mu` or one operation on the
semaphore; what a goroutine does between two such points is local to it. So `Flush` is
`FlushBegin` (ScanDue), `FlushCheck` (IsPaused), `FlushClaim`, `FlushRegister`, then
`FlushDispatch` or `FlushAbort` (the `select`), and `FlushReturn`; the goroutine is `WorkerStart`
(registers its CancelFunc), `WorkerHandle`, `WorkerRecord` (RecordAttempt), `WorkerCount` (the
counters and `nextRun`), `WorkerSettle` (Succeed or Fail), `WorkerTeardown` (first deferred
function) and `WorkerRelease` (the receive from `sem`); `DeleteJob` is two steps, `retryJob` two,
`cancelJob` two or three. A round of `fireDueSchedules` is `RecurringBegin` (DueSchedules),
`RecurringNext` for each copy (MissedRuns, NextRun), and `RecurringInsert` (CreateJob) and
`RecurringTouch` (TouchSchedule) for each firing. A read-only request is `Ask`, then one
`LoadCounter` or `RunStatement` at a time.

**Store errors.** Every statement of the pool, of the job requests and of a firing may return an
error instead of having its effect (`FlushCheckFails`, `FlushClaimFails`, `WorkerCallFails`,
`ApiCallFails`, `RecurringInsertFails`, `RecurringTouchFails`), and the code goes on as it does
after that error. A failing read of a request, of ScanDue or of DueSchedules changes nothing
and is a stuttering step.

Abstractions:

* Queue, type, priority and max_attempts are fixed per id, also across a delete and a new
  insert. Payloads, results, error texts and the other time stamps are left out.
* In `JobSched` one tick is one second, so that `strftime('%s')` and the backoff base are whole
  ticks. A client's `run_at` is now or the next tick; an earlier one is due at once, like now.
* A batch is a set of ids, inserted in any order. Validation of a request changes no state.
* `Workers` are identities for goroutines, reused after they end. TLC is given as many as
  can be alive at once: PoolSize, and one more where a dispatch must not be held up by a
  goroutine that has not finished.
* Handlers are the built-in ones; "slow" may lose the race with its cancelled context or
  win it. An unregistered type fails.
* In `Schedules` an int64 has `Word` values, a second `Second` and a millisecond `Milli`
  nanoseconds; `Wrap` and `Sub` are int64 arithmetic and `time.Sub`. Year 1 in nanoseconds is
  `ZeroTime`, and `EpochAssumption` says what arithmetic says of the real values: no whole number
  of milliseconds leads from the wrapped year 1 to the epoch. Nothing but `interval_seconds` of a
  schedule request is input; the clock does not leave the range of an int64.
* In `Reports` which due rows a flush looks at, how a handler ends and whether there is a retry are
  left open, which only adds behaviours; due is any part of the pending rows. A goroutine's
  increments are steps of their own, and it ends with its UPDATE, which frees its slot no later than
  the code does. The state "scheduled" is read everywhere and written by no statement of the service.
  One request reads at a time, since readers do not influence each other.
* History variables: `slips` (claims a flush made from a queue that was paused), `asked`, `born`,
  `births`, `fired`, `late` of `Schedules`; in `Reports`, `deleted` (rows deleted since the process
  started) and, of a report under way, `moved`, `gone` and `revived` (whether a row was written, how
  many were deleted, how many were dead letters and are none any more).
* `RecoverInterrupted` looks at 10000 rows at most and returns at the first error. `Open` has reset
  every running row before it is called, so it finds none, and the model leaves both out.

## Runs

`MaxOps` bounds all requests (flushes over HTTP and disconnects included), `MaxTime` the clock,
`MaxCrashes` the restarts, `MaxFaults` the failing calls; in `Reports`, `MaxRuns` bounds the
executions, `MaxOps` the requests that rewrite or delete rows and `MaxAsked` those that read.
`CHECK_DEADLOCK FALSE` is set where these bounds let the system come to rest.

In the runs of `MCJobSched` job 1 has the highest priority and always fails (max_attempts 2, or
3 in `ticker_alone`), job 2 succeeds unless cancelled, job 3 lives in a second queue. Time to
retries: 1 then 2 ticks.

| Run | Setting | Shows |
|---|---|---|
| `request_races` | 1 job, 2 concurrent clients, 4 requests of every row-writing kind, 2 flushes, 2 slots, 1 failing call | `TypeOK`, `OneOwnerPerJob`, `ActiveIsOwned`, `CancelReachesHandler`, `FinalUnlessStale` |
| `dispatch_races` | 2 jobs, 2 flushes that contend for 1 slot, 2 goroutines, 1 restart, no request that rewrites a row, fairness | `SlotsAccounted`, `ClaimIsExclusive`, `AttemptsBounded`, `MetricsMatchStore`, `TerminalIsFinal`, `EarlyClaimIsStale`, `ImplementsLifecycle`, `FlushReturns` |
| `ticker_alone` | 2 jobs in 2 queues, ticker only, 3 attempts, 1 restart, 1 failing call, pause and resume | `AttemptLogComplete`, `PauseSlipBound`, `MetricsMatchStore`, `NotBeforeRunAt` |
| `ticker_live` | 2 jobs, ticker only, 2 slots, 3 goroutines, 1 restart, 1 failing call, `PromptTeardown`, fairness | `StrandedOnlyByFault`, `EventuallySettled` |
| `schedules` | 2 schedules, 3 requests of any kind, intervals of 1 and 2 seconds and two that overflow (one to a negative, one to less than a millisecond), 1 restart, 1 failing call, fairness | `TypeOK`, `NothingEnqueuedEarly`, `LateFiringsBounded`, `NoIntervalLost`, `BlockedOnlyByLostTouch`, `PanicNeedsOverflow`, `CatchesUp` |
| `reports` | 2 jobs, 2 flushes, 1 slot, 2 executions, 1 request that rewrites or deletes a row, inserts and restarts without bound, 1 request that reads | `TypeOK`, `SnapshotBounded`, `ReportGapsBounded`, `QuietReportIsExact` |

The bounds reach the interesting cases: two jobs and one slot make a flush wait while
others move its rows; two requests on one job are what a lost update needs; two flushes and
two attempts are what a stale retry decision needs; a job with three attempts is given two
different backoffs (the clock of `ticker_alone` stops before its third attempt); a restart and a failing call may fall between any two steps. In `schedules` a word of 64
values puts the wrapped year 1 more than a round of firings before the start, so a schedule takes
several rounds to catch up, requests fall between any two statements of a round, and two
schedules make one wait in a snapshot while it is disabled or deleted; three requests are enough to
create, delete and create again under one id, or to create, disable and enable. In `reports`
two jobs let every pair of reads be separated by a row that moves, a second flush by a claim older
than its job's burial; a delete, a requeue, a retry or a cancel falls between any two reads. A second
request that reads would only add the same reads again. `MCReportOpen` ends the search where a
maintenance report is made: the state itself is still checked, and no later step changes the report.

`MetricsMatchStore` is in two runs because they try different parts of it: `dispatch_races` stale
copies and exact counts before the first restart, `ticker_alone` the failed outcome that `faults` pays
for. `dispatch_races` begins with both jobs in the table, so that no insert of a client falls into it;
creations and disconnects race with flushes in `request_races`, and the theorems under `PoolOnly` include
them. A flush that waits for a slot while another holds it is in `dispatch_races`; `ticker_live` has as
many slots as jobs, so that executions overlap, and a third goroutine for one that cleans up late.

`dispatch_races` and the ticker runs leave out requests that rewrite rows, because these
properties are false with them: that is what `FinalUnlessStale` delimits and what the
following runs show. Each checks a sentence of the documentation and finds it broken.

| Run | Sentence | What happens |
|---|---|---|
| `running_without_worker` | "StateRunning means a worker is currently executing the job" (model/job.go:17) | the client of a flush leaves after the claim: the row stays running, nobody runs it |
| `cancel_overwritten` | a cancelled job is set to cancelled (BENZHI_README.md:26) | the goroutine's Fail or Succeed overwrites it |
| `paused_queue_fills_scan` | "Flush claims and dispatches every job that is due right now" (worker.go:77) | due rows of a paused queue fill the scan limit for ever |
| `snapshot_torn` | "Read returns a consistent snapshot" (metrics.go:62) | a goroutine counts a failure and its retry between the loads of `failed` and `retried`: the snapshot has a retry of no failure |
| `schedule_floods` | "re-enqueued every Interval" (model/schedule.go:8) | a new schedule counts as overdue since 1754, the wrapped year 1, and fires ten back-dated jobs in every round |
| `schedule_stranded` | "until disabled or deleted"; restored in full after a restart (BENZHI_README.md:3) | after a crash between CreateJob and TouchSchedule each round is refused at the same slot |

Two more sentences hold only with the ticker as the only flush, and are proved for that case and
proved within a bound otherwise: a job runs no earlier than its `run_at` (model/job.go:44; `NotBeforeRunAt`,
against `EarlyClaimIsStale` with several flushes) and a job beyond its attempts is a dead letter
(BENZHI_README.md:3; `AttemptsBounded`, which with one flush leaves no excess). Two of
the findings, too, have a positive side: `StrandedOnlyByFault` says when a running row does
have somebody executing it, and `SnapshotBounded` in which direction a torn snapshot is never off:
it shows no more failures without an outcome than there can be goroutines between two increments.

### Fairness

`Fairness` assumes weak fairness of every goroutine (the Go scheduler runs what can run), of
the ticker and of the clock, and strong fairness of a flush's send on the semaphore,
because a Go channel serves its blocked senders in the order they came. Nothing is assumed of
clients, and crashes, failing calls and disconnects never have to happen. Handlers end: the
built-in ones are the only ones `main` registers, and they do.
`ticker_live` and `paused_queue_fills_scan` set `PromptTeardown`: between a goroutine's
decision on the next run (`nextRun`) and its deferred clean-up, one UPDATE later, the clock
does not reach another second. `EventuallySettled` needs it as soon as there are two slots:
with `PromptTeardown = FALSE` in `ticker_live.cfg`, TLC finds a job that comes up for its
retry while it is still in `active`; the ticker claims it, skips it (worker.go:96-98) and
leaves the row running until a restart. With one slot the ticker would wait for that very
goroutine, and the case would not arise. The window is far shorter than a backoff of at least
a second, and the assumption is named for that reason.

`Schedules` assumes weak fairness of the goroutine of `RunRecurring`, whose timer fires every
second, and of the clock. Failing calls are bounded, so that a store that fails for ever is not
asked to make progress.

## Theorems

All theorems hold for any sets of jobs, queues, flushes, goroutines, clients and schedules and any
bounds, from the named assumptions of the modules (`StoreAssumption`, `PoolAssumption`,
`ApiAssumption`, `SchedAssumption`, `BackoffAssumption`, `ScheduleAssumption`, `EpochAssumption`,
`ReportAssumption`), which TLC evaluates in every run.

`JobSchedProofs`, for every request, failing call and crash:

* `SlotsAreAccounted`: `Spec => [](TypeOK /\ SlotsAccounted)`. `sem` is a natural number
  only because a goroutine that ends holds a token, and a goroutine's token is counted only
  when the program counters have their type: the two are inductive together and neither
  alone. `TypeCorrect` follows.
* `OwnershipInvariant`: `ActiveIsOwned`, `OneOwnerPerJob` and `CancelReachesHandler` together
  are inductive (`Ownership`). The argument: an id enters `active` only when nobody owns it, so
  the flush that adds it is its sole owner; ownership passes to the goroutine in the same step
  that starts it; only the owner removes the id, and with it the CancelFunc. No property of the
  rows is needed, so requests cannot disturb it. `ExecutionIsExclusive`,
  `RegistrationsAreOwned` and `CancelFindsItsHandler` are its three parts.
* `PauseSlipsAreBounded`: a flush that has claimed from a paused queue is past its claim and
  the pause still holds (`SlipInv`), so its next `IsPaused` stops it, unless that call fails.
* `FinishedJobsAreFinal` (`FinalUnlessStale`), step by step: every statement that may write a
  finished row belongs to a party that held a copy or a claim before.
* `WindowBounds` and `OverflowFallsBackToBase`: the delay of a retry lies between base and
  maximum for every strategy and attempt number, whatever the conversion of an oversized float64
  yields; where it yields a negative duration, the delay drops to the base.

* `ScanTakesTheFirst`: `ScanDue` is what `ORDER BY ... LIMIT` says: due rows, no more than the
  limit, nothing left out that precedes a row taken, and the limit reached if anything is left
  out. The model defines it by counting predecessors; the proof shows that the order is total on
  the due rows, that rank grows along it, and finds the first row left out by well-foundedness.
* `LoopHasItsNextCopy`: a list holds a job once (`ListsSingle`), so the loop of a flush always
  has exactly one next copy and `NextCopy`, a CHOOSE, is well defined.

`PoolOnlyProofs`, under `PoolOnly`: no request but create, pause, resume, flush and disconnect, that
is, once a row is there only the pool writes it. `PoolInvariant` is the induction: each claim has one
holder and its row is running (`Exclusive`); and no copy is ahead of its row in attempts
(`CopiesInv`), so a copy whose row is pending again at a higher count is stale. The invariant also
gives every step as one of the life-cycle (`Effect`). From it `ClaimsAreExclusive`,
`SettledJobsAreFinal`, `EarlyClaimsAreStale`, and `PoolImplementsLifecycle`, the refinement
`PoolOnly /\ Spec => Lifecycle!Spec`: the initial states map to initial states, and each step
maps to an insert, a claim, a success, a retry, a burial, a loss, the restart or a stutter.

`AttemptsProofs`, under `PoolOnly`: `AttemptsAreBounded`, `AttemptsBounded` for any number of flushes.
A flush *hopes* for a job (`Hoping`) while it, or a goroutine it started, has a copy by which
`finish` would still retry. Beyond the limit every retry uses up the hope of one flush, and no
flush gets a new one, because a scan now shows the row at its limit; so attempts and the number of
hoping flushes together stay below a bound (`HopeBounds`). That needs a flush to have one copy of a
job in all (`ListSingle`, `Spent`): its list holds a job once, and a copy in the hands of a
goroutine is no longer on it.

`MetricsProofs`, under `PoolOnly`: `MetricsAgree` (`MetricsMatchStore`). The property is inductive
as it stands, next to `PoolInvariant` (`Balanced` restates it over named sets); what is to
be shown is by how much each step changes each cardinality. The failures of all rows are counted by
one set of pairs, `Failures`, so that a sum over the table is a cardinality. `WorkerCount` moves a
counter and the set of outcomes on their way, `WorkerSettle` moves an outcome into its row, an error
of the store takes it away and is charged to `faults`.

`TickerAloneProofs`, under `TickerAlone` (as well, the ticker is the only flush): lists and copies
are fresh (`FreshInv`): whatever is still on the list of the flush has not been touched since the
scan, because only this flush could have claimed it, and a goroutine that holds a job keeps it off
the next list. Hence `AttemptsAreExact` (never more than max_attempts, which `AttemptsBounded`
reads as with one flush) and `ClaimsWaitForRunAt`.

`TickerFaultsProofs`, under `TickerAlone` as well:

* `AttemptLogs` (`AttemptLogComplete`). `LogInv` adds to it how long the log of a job may be at each
  program counter of its goroutine, that its indices are in order and never ahead of the row, and
  that each attempt the log lacks is charged to a failing call (`LossesCharged`). It rests on the
  fresh copies: a stale one would record an index twice.
* `StrandingTakesAFault` (`StrandedOnlyByFault`), under `PromptTeardown` too. `StrandInv`: a goroutine
  on its way out of the active set has left its row where the ticker cannot claim it in this second
  (`LeavesInTime`: settled for good, or pending with a later `run_at`, which `RetriesLater` gets from
  the bounds of `Window`), nothing of the kind is on the ticker's list, its context does not end;
  so `FlushRegister` never finds a job still active.

`SchedulesProofs`: `RoundsAreBounded` and `ScheduleTypeCorrect`; `FiringsAreTimely`, from an invariant
that keeps every `last_run` on the grid of milliseconds through year 1, so that the clause
`last_run=0` never holds and all slots a firing has left lie in the past (`Timely`);
`LateFiringsAreBounded`, from what a round may still fire and has fired late (`Spent`);
`PanicsOnlyByOverflow`; and `IntervalsAreKept` and `BlocksComeFromLostTouches`, from the history of
a schedule in its one life (`Tracked`): its interval never changes, only its own firings move
`last_run`, and the copy in the round agrees with the row, so the next slot is either the one
after the last or, after a crash, the last one again.

`ReportsProofs`: `ReportTypeCorrect` and `SnapshotsAreBounded`. The invariant relates the counters
to the goroutines between two increments, what the runner has counted to the rows that are there or
have been deleted, and each partial snapshot to the counters: what has been loaded is at most what
is there, so the counters loaded later make up for those loaded before. `ReportGapsAreBounded` and
`QuietReportsAreExact` come from one invariant of the report in the making (`MaintenanceInv`), which
compares what each statement has answered with the table as it is now: below it, but for the rows
deleted and the dead letters revived since (`AccountedInv`), and equal while no row was written
(`QuietInv`). One lemma (`PutRowWrites`) says what any statement that writes a row does to these
sums; no action needs more. That the parts add up is `StatesPartition`: the six states divide the table.
Neither theorem asks anything of the requests: deletes, requeues, retries and cancels are among the
steps between two reads.

So every invariant and action property of a passing run is stated by a theorem. Only
model-checked are the liveness properties `EventuallySettled`, `FlushReturns` and `CatchesUp`:
liveness under fairness and ENABLED are beyond this prover and stay with TLC, as do the
violations. Induction over data and RECURSIVE operators are beyond it too; the model has none
that a theorem would need.

## Not modelled

* Requests of a single statement that only read (`getJob`, `listQueues`, `jobAttempts`, `workers`
  and their like): one statement reads one state. Paging of `GET /jobs` happens in memory
  over one statement; two pages are two requests that nothing relates.
* The queue report and `queueDetail`: a paused flag and a count, which nothing relates.
* `Job.IsDue`, `Schedule.IsDue`, `ObserveState`, `SetBackoffStrategy` and `model/status.go` have no
  caller in the service.
* `runSmokeTest`, the build files, JSON, the admin token: sequential, or pure input and output.
* Identifiers made by `newID` are model values; a collision is an insert that is refused.
* Contexts that are never cancelled (worker.go:128) leak memory, which the model does not have.
* Two processes over one database file: `main` starts one, and nothing in the code prepares for two.

## Plan

1. A life-cycle with the requests in it, which `FinalUnlessStale` now delimits from outside, and
   the refinement for every request.
2. `MetricsMatchStore` with requests that rewrite rows: which of them may put counters and table apart.
3. The safety part of the liveness properties: that a flush waiting for a slot always has a goroutine
   that can release it, that a due job nobody holds is on the next list.
4. `Schedules` and `JobSched` composed through the jobs table, to follow a fired job to its end.
