------------------------------- MODULE Reports -------------------------------
(***************************************************************************)
(* The requests that only read: GET /metrics loads the counters of package *)
(* metrics one after another, GET /stats and the maintenance report run    *)
(* one statement on the store after another, while the pool, the recurring *)
(* runner and the requests that insert, rewrite and delete rows move both. *)
(*                                                                         *)
(* Of a row only its state counts here.  What the pool does is WorkerPool  *)
(* without the data its decisions rest on: which due rows a flush looks    *)
(* at, how a handler ends and whether there is a retry are left open.  A   *)
(* goroutine's increments, one action there, are one action each here.     *)
(***************************************************************************)
EXTENDS JobModel, Sequences, FiniteSets

CONSTANTS
    Jobs,
    Flushers,      \* flushes that may run at once
    Clients,       \* requests that may be rewriting a row at once
    PoolSize,      \* goroutines that may execute at once
    ScanLimit,     \* the limit of DueCount's scan (10000)
    MaxRuns,       \* bound on the executions counted
    MaxOps,        \* bound on the requests that rewrite or delete rows
    MaxAsked       \* bound on the requests that read

ASSUME ReportAssumption ==
    /\ Jobs # {} /\ IsFiniteSet(Jobs)
    /\ PoolSize \in Nat \ {0}
    /\ ScanLimit \in Nat \ {0}
    /\ MaxRuns \in Nat
    /\ MaxOps \in Nat
    /\ MaxAsked \in Nat

VARIABLES
    state,       \* job -> the state of its row
    claimed,     \* flush -> the job it has claimed and not yet started
    stage,       \* job -> how far its goroutine has come
    counters,    \* Pool.metrics
    inserted,    \* rows the recurring runner has inserted and not yet counted
    client,      \* request -> the row it has read and what it will make of it
    ops,         \* number of requests that rewrite or delete rows
    deleted,     \* history: rows deleted since the process started
    reader,      \* the request that reads and what it has read so far
    asked        \* number of those

poolVars == <<claimed, stage, counters, inserted>>
rowVars == <<state, deleted>>
vars == <<rowVars, poolVars, client, ops, reader, asked>>

CounterNames == {"enqueued", "succeeded", "failed", "retried", "dead"}

\* Mutant: the outcomes of failed attempts are loaded before the attempts.
MetricsOrderDeadFirst == <<"enqueued", "succeeded", "retried", "dead", "failed">>

\* Counters.Read: the order of the loads.
MetricsOrder == <<"enqueued", "succeeded", "failed", "retried", "dead">>

\* Mutant: Stats counts the dead letters before it groups by state.
MaintenanceOrderDeadFirst ==
    <<"deadLetters", "byState", "total", "due", "oldest", "capacity">>

\* Stats, DueCount, OldestPending, and of Capacity's second Stats the one
\* statement whose result it uses.
MaintenanceOrder == <<"total", "byState", "deadLetters", "due", "oldest", "capacity">>

\* "idle": not executing; "run": its handler runs; "decide": IncFailed is done
\* and nextRun is being asked; the others wait for the UPDATE named.
Stages == {"idle", "run", "decide", "succeed", "retry", "bury"}

NoJob == "none"

ASSUME NoJobAssumption == NoJob \notin Jobs

Capacities == [pending : Nat, running : Nat, terminal : Nat]

Report == [total : Nat, byState : [ValidStates -> Nat], deadLetters : Nat,
           due : Nat, oldest : BOOLEAN, capacity : Capacities]

NoReport == [total |-> 0, byState |-> [s \in ValidStates |-> 0], deadLetters |-> 0,
             due |-> 0, oldest |-> FALSE,
             capacity |-> [pending |-> 0, running |-> 0, terminal |-> 0]]

NoCounts == [n \in CounterNames |-> 0]

\* read: how many of the loads or statements are done.  History of the rows while
\* a report is made: whether one was written, how many were deleted, how many
\* were dead letters and are none any more.
Reader == [asks : {"nothing", "metrics", "maintenance"}, read : Nat,
           snapshot : [CounterNames -> Nat], report : Report,
           moved : BOOLEAN, gone : Nat, revived : Nat]

NoReader == [asks |-> "nothing", read |-> 0, snapshot |-> NoCounts,
             report |-> NoReport, moved |-> FALSE, gone |-> 0, revived |-> 0]

Client == [job : Jobs \cup {NoJob}, to : {"pending", "cancelled"}]

IdleClient == [job |-> NoJob, to |-> "pending"]

TypeOK ==
    /\ state \in [Jobs -> ValidStates \cup {"absent"}]
    /\ claimed \in [Flushers -> Jobs \cup {NoJob}]
    /\ stage \in [Jobs -> Stages]
    /\ counters \in [CounterNames -> Nat]
    /\ inserted \in Nat
    /\ client \in [Clients -> Client]
    /\ ops \in Nat
    /\ deleted \in Nat
    /\ reader \in Reader
    /\ asked \in Nat

Init ==
    /\ state \in [Jobs -> {"absent", "pending"}]
    /\ claimed = [f \in Flushers |-> NoJob]
    /\ stage = [j \in Jobs |-> "idle"]
    /\ counters = NoCounts
    /\ inserted = 0
    /\ client = [c \in Clients |-> IdleClient]
    /\ ops = 0
    /\ deleted = 0
    /\ reader = NoReader
    /\ asked = 0

-----------------------------------------------------------------------------
(* Statements that write a row. *)

One(condition) == IF condition THEN 1 ELSE 0

ReportPending ==
    reader.asks = "maintenance" /\ reader.read < Len(MaintenanceOrder)

\* The row of j enters a state, is inserted or is deleted, while a report is made
\* or not.
PutRow(j, to) ==
    /\ state' = [state EXCEPT ![j] = to]
    /\ deleted' = deleted + One(to = "absent")
    /\ IF ReportPending
       THEN reader' = [reader EXCEPT !.moved = TRUE,
                         !.gone = @ + One(to = "absent"),
                         !.revived = @ + One(state[j] = "dead" /\ to # "dead")]
       ELSE UNCHANGED reader

\* An UPDATE that asks for the id alone, which matches no row once it is deleted.
UpdateRow(j, to) ==
    IF state[j] # "absent" THEN PutRow(j, to) ELSE UNCHANGED <<rowVars, reader>>

-----------------------------------------------------------------------------
(* The pool and the recurring runner. *)

Enter(j, from, to) == stage[j] = from /\ stage' = [stage EXCEPT ![j] = to]

Inc(name) == counters' = [counters EXCEPT ![name] = @ + 1]

Claim(f, j) ==
    /\ claimed[f] = NoJob
    /\ state[j] \in {"pending", "scheduled"}
    /\ PutRow(j, "running")
    /\ claimed' = [claimed EXCEPT ![f] = j]
    /\ UNCHANGED <<stage, counters, inserted, client, ops, asked>>

Executing == {j \in Jobs : stage[j] # "idle"}

Started ==
    counters["succeeded"] + counters["failed"]
        + Cardinality({j \in Jobs : stage[j] = "run"})

\* The goroutine is started with a slot of the semaphore.  The active set keeps a
\* second one of the same job from starting, whatever the row says.
Execute(f, j) ==
    /\ claimed[f] = j
    /\ Cardinality(Executing) < PoolSize
    /\ Started < MaxRuns
    /\ Enter(j, "idle", "run")
    /\ claimed' = [claimed EXCEPT ![f] = NoJob]
    /\ UNCHANGED <<rowVars, counters, inserted, client, ops, reader, asked>>

\* The job is active already, or the context of the flush has ended.
DropClaim(f) ==
    /\ claimed[f] # NoJob
    /\ claimed' = [claimed EXCEPT ![f] = NoJob]
    /\ UNCHANGED <<rowVars, stage, counters, inserted, client, ops, reader, asked>>

\* A goroutine counts.
Counting(j, from, to, name) ==
    /\ Enter(j, from, to)
    /\ Inc(name)
    /\ UNCHANGED <<rowVars, claimed, inserted, client, ops, reader, asked>>

CountSuccess(j) == Counting(j, "run", "succeed", "succeeded")

\* finish counts a failure before it asks nextRun whether there is a retry.
CountFailure(j) == Counting(j, "run", "decide", "failed")

CountRetry(j) == Counting(j, "decide", "retry", "retried")

CountDead(j) == Counting(j, "decide", "bury", "dead")

\* Succeed or Fail writes the outcome, whatever the row says by now.
Settle(j) ==
    /\ \/ Enter(j, "succeed", "idle") /\ UpdateRow(j, "succeeded")
       \/ Enter(j, "retry", "idle") /\ UpdateRow(j, "pending")
       \/ Enter(j, "bury", "idle") /\ UpdateRow(j, "dead")
    /\ UNCHANGED <<claimed, counters, inserted, client, ops, asked>>

\* The final UPDATE fails.
LoseOutcome(j) ==
    /\ stage[j] \in {"succeed", "retry", "bury"}
    /\ Enter(j, stage[j], "idle")
    /\ UNCHANGED <<rowVars, claimed, counters, inserted, client, ops, reader, asked>>

\* A new row, by a request or by the recurring runner, which then counts it.
Insert(j, byRunner) ==
    /\ state[j] = "absent"
    /\ byRunner => inserted = 0
    /\ PutRow(j, "pending")
    /\ inserted' = inserted + One(byRunner)
    /\ UNCHANGED <<claimed, stage, counters, client, ops, asked>>

\* Mutant: the runner counts a job whose insert was refused.
CountEnqueuedAnyway ==
    /\ inserted' = inserted - 1
    /\ Inc("enqueued")
    /\ UNCHANGED <<rowVars, claimed, stage, client, ops, reader, asked>>

CountEnqueued ==
    /\ inserted > 0
    /\ inserted' = inserted - 1
    /\ Inc("enqueued")
    /\ UNCHANGED <<rowVars, claimed, stage, client, ops, reader, asked>>

\* The process dies with its counters, its goroutines and all requests.
Restart ==
    /\ state' = [j \in Jobs |-> IF state[j] = "running" THEN "pending" ELSE state[j]]
    /\ claimed' = [f \in Flushers |-> NoJob]
    /\ stage' = [j \in Jobs |-> "idle"]
    /\ counters' = NoCounts
    /\ inserted' = 0
    /\ client' = [c \in Clients |-> IdleClient]
    /\ deleted' = 0
    /\ reader' = NoReader
    /\ UNCHANGED <<ops, asked>>

-----------------------------------------------------------------------------
(* The requests that rewrite and delete rows. *)

NewRequest == ops < MaxOps /\ ops' = ops + 1

\* retryJob and cancelJob read the row and check its state ...
ReadRow(c, j, to) ==
    /\ client[c] = IdleClient
    /\ IF to = "pending" THEN CanRetry(state[j]) /\ state[j] # "running"
                         ELSE CanCancel(state[j])
    /\ NewRequest
    /\ client' = [client EXCEPT ![c] = [job |-> j, to |-> to]]
    /\ UNCHANGED <<rowVars, poolVars, reader, asked>>

\* ... and write it back, unless the UPDATE fails.
WriteRow(c) ==
    /\ client[c].job # NoJob
    /\ UpdateRow(client[c].job, client[c].to) \/ UNCHANGED <<rowVars, reader>>
    /\ client' = [client EXCEPT ![c] = IdleClient]
    /\ UNCHANGED <<poolVars, ops, asked>>

RequeueDead(j) ==
    /\ state[j] = "dead"
    /\ NewRequest
    /\ PutRow(j, "pending")
    /\ UNCHANGED <<poolVars, client, asked>>

DeleteRow(j) ==
    /\ state[j] # "absent"
    /\ NewRequest
    /\ PutRow(j, "absent")
    /\ UNCHANGED <<poolVars, client, asked>>

-----------------------------------------------------------------------------
(* The requests that read. *)

CountIn(s) == Cardinality({j \in Jobs : state[j] = s})

Total == Cardinality({j \in Jobs : state[j] # "absent"})

ByState == [s \in ValidStates |-> CountIn(s)]

\* Mutant: cancelled and dead jobs are taken for gone.
CapacityOfSucceeded(byState) ==
    [pending  |-> byState["pending"] + byState["scheduled"],
     running  |-> byState["running"],
     terminal |-> byState["succeeded"]]

Capacity(byState) ==
    [pending  |-> byState["pending"] + byState["scheduled"],
     running  |-> byState["running"],
     terminal |-> byState["succeeded"] + byState["dead"] + byState["cancelled"]]

\* Of the pending rows, those whose run_at has come are any subset.
DueCounts ==
    {n \in 0 .. Cardinality(Jobs) : n <= ScanLimit /\ n <= CountIn("pending")}

\* Whether there is an oldest pending job.
OldestPending == \E j \in Jobs : state[j] = "pending"

Ask(what) ==
    /\ asked < MaxAsked
    /\ reader' = [NoReader EXCEPT !.asks = what]
    /\ asked' = asked + 1
    /\ UNCHANGED <<rowVars, poolVars, client, ops>>

LoadCounter ==
    /\ reader.asks = "metrics"
    /\ reader.read < Len(MetricsOrder)
    /\ LET name == MetricsOrder[reader.read + 1]
       IN  reader' = [reader EXCEPT !.read = @ + 1,
                                    !.snapshot[name] = counters[name]]
    /\ UNCHANGED <<rowVars, poolVars, client, ops, asked>>

RunStatement ==
    /\ reader.asks = "maintenance"
    /\ reader.read < Len(MaintenanceOrder)
    /\ LET name == MaintenanceOrder[reader.read + 1]
           r == reader.report
       IN  \E due \in DueCounts :
             reader' = [reader EXCEPT
               !.read = @ + 1,
               !.report = CASE name = "total"       -> [r EXCEPT !.total = Total]
                            [] name = "byState"     -> [r EXCEPT !.byState = ByState]
                            [] name = "deadLetters" -> [r EXCEPT !.deadLetters = CountIn("dead")]
                            [] name = "due"         -> [r EXCEPT !.due = due]
                            [] name = "oldest"      -> [r EXCEPT !.oldest = OldestPending]
                            [] name = "capacity"    -> [r EXCEPT !.capacity = Capacity(ByState)]]
    /\ UNCHANGED <<rowVars, poolVars, client, ops, asked>>

-----------------------------------------------------------------------------

Next ==
    \/ \E j \in Jobs :
        \/ \E f \in Flushers : Claim(f, j) \/ Execute(f, j)
        \/ CountSuccess(j) \/ CountFailure(j) \/ CountRetry(j) \/ CountDead(j)
        \/ Settle(j) \/ LoseOutcome(j)
        \/ \E byRunner \in BOOLEAN : Insert(j, byRunner)
        \/ \E c \in Clients, to \in {"pending", "cancelled"} : ReadRow(c, j, to)
        \/ RequeueDead(j) \/ DeleteRow(j)
    \/ \E f \in Flushers : DropClaim(f)
    \/ \E c \in Clients : WriteRow(c)
    \/ CountEnqueued
    \/ Restart
    \/ Ask("metrics") \/ Ask("maintenance")
    \/ LoadCounter
    \/ RunStatement

Spec == Init /\ [][Next]_vars

-----------------------------------------------------------------------------
(* Properties. *)

SnapshotTaken == reader.asks = "metrics" /\ reader.read = Len(MetricsOrder)

ReportMade == reader.asks = "maintenance" /\ reader.read = Len(MaintenanceOrder)

\* Read loads the counters one by one while goroutines count, and is as
\* consistent as the order of its loads makes it: the failed attempts it shows
\* exceed the retries and burials by at most the goroutines that can be between
\* two increments, and the jobs enqueued are all in the table, or were deleted.
SnapshotBounded ==
    SnapshotTaken =>
        LET s == reader.snapshot
        IN  /\ s["failed"] <= s["retried"] + s["dead"] + PoolSize
            /\ s["enqueued"] <= Total + deleted

\* The statements of a report see the table at different times.  A row counted in
\* the total is missed by the states only when it was deleted in between, and a
\* dead letter by what is read later only when somebody took it out of that state:
\* a request, or the goroutine of a claim older than its burial.
ReportGapsBounded ==
    ReportMade =>
        LET r == reader.report
        IN  /\ r.total <= r.capacity.pending + r.capacity.running + r.capacity.terminal
                             + reader.gone
            /\ r.byState["dead"] <= r.deadLetters + reader.revived
            /\ r.deadLetters <= r.capacity.terminal + reader.revived

\* A report made while no row changed is exact: its parts agree with each other.
QuietReportIsExact ==
    ReportMade /\ ~reader.moved =>
        LET r == reader.report
        IN  /\ r.total = r.capacity.pending + r.capacity.running + r.capacity.terminal
            /\ r.capacity.running = r.byState["running"]
            /\ r.deadLetters = r.byState["dead"]
            /\ r.due <= r.capacity.pending
            /\ r.oldest <=> r.byState["pending"] # 0

-----------------------------------------------------------------------------
(* What the documentation says and the code does not keep. *)

\* "Read returns a consistent snapshot": as in the counters at every moment, each
\* retry and each burial is one of the failed attempts.
SnapshotConsistent ==
    SnapshotTaken =>
        reader.snapshot["retried"] + reader.snapshot["dead"] <= reader.snapshot["failed"]
=============================================================================
