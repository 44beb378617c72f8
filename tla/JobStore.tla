------------------------------ MODULE JobStore ------------------------------
(***************************************************************************)
(* Package store: the SQLite tables the scheduler shares, and the SQL      *)
(* statements run against them.  db.SetMaxOpenConns(1) serialises the      *)
(* statements, and each one commits on its own, so a statement is one      *)
(* atomic action here; a store method of several statements is several     *)
(* actions of its caller.  Committed rows survive a crash.                 *)
(***************************************************************************)
EXTENDS JobModel, Sequences, FiniteSets

CONSTANTS
    Jobs,            \* job ids; naturals, ordered as ORDER BY id orders them
    Queues,          \* queue names
    QueueOf,         \* the columns of a job that no statement of the service
    PriorityOf,      \*   changes: queue, priority and max_attempts
    MaxAttemptsOf

ASSUME StoreAssumption ==
    /\ Jobs \subseteq Nat /\ Jobs # {} /\ IsFiniteSet(Jobs)
    /\ QueueOf \in [Jobs -> Queues]
    /\ PriorityOf \in [Jobs -> Int]
    /\ MaxAttemptsOf \in [Jobs -> Nat \ {0}]

VARIABLES
    jobs,       \* table jobs: id -> row (AbsentRow when there is none)
    attempts,   \* table attempts: id -> its rows (idx, ok) in insertion order
    paused,     \* table queues: the names whose paused flag is 1
    now         \* the wall clock, in ticks of one second

storeVars == <<jobs, attempts, paused, now>>

Attempt == [idx : Nat, ok : BOOLEAN]

\* A *model.Job: the copy of a row that a caller of the store holds.
Copy == [id : Jobs, row : Row]

CopyOf(j) == [id |-> j, row |-> jobs[j]]

StoreTypeOK ==
    /\ jobs \in [Jobs -> Row]
    /\ attempts \in [Jobs -> Seq(Attempt)]
    /\ paused \in SUBSET Queues
    /\ now \in Nat

SetRow(j, row) ==
    /\ jobs' = [jobs EXCEPT ![j] = row]
    /\ UNCHANGED <<attempts, paused, now>>

\* A statement whose WHERE clause matches no row.
NoRowMatches == UNCHANGED storeVars

-----------------------------------------------------------------------------
(* Jobs. *)

\* INSERT; the PRIMARY KEY refuses an id that is taken.
CreateJob(j, runAt) ==
    /\ ~Exists(jobs[j])
    /\ SetRow(j, [state |-> "pending", runAt |-> runAt, attempts |-> 0])

\* UpdateJob writes back every column of the caller's copy.
UpdateJob(copy) ==
    IF Exists(jobs[copy.id]) THEN SetRow(copy.id, copy.row) ELSE NoRowMatches

\* ORDER BY priority DESC, run_at ASC, id ASC.
Precedes(a, b) ==
    LET pa == PriorityOf[a.id]
        pb == PriorityOf[b.id]
    IN  \/ pa > pb
        \/ pa = pb /\ a.row.runAt < b.row.runAt
        \/ pa = pb /\ a.row.runAt = b.row.runAt /\ a.id < b.id

\* Mutant: the scan loses its run_at<=? clause.
IsDueWhenever(row, at) == row.state \in {"pending", "scheduled"}

IsDue(row, at) == row.state \in {"pending", "scheduled"} /\ row.runAt <= at

\* The rows ScanDue returns: the first `limit` due ones.  A set, because the
\* order of its members is Precedes.
ScanDue(limit, at) ==
    LET due == {CopyOf(j) : j \in {k \in Jobs : IsDue(jobs[k], at)}}
    IN  {c \in due : Cardinality({d \in due : Precedes(d, c)}) < limit}

\* Mutant: the compare-and-set loses its WHERE state IN (...) clause.
ClaimableByAnyone(j) == Exists(jobs[j])

Claimable(j) == jobs[j].state \in {"pending", "scheduled"}

\* The UPDATE of Claim; it does not ask whether run_at has been reached.
Claim(j) ==
    IF Claimable(j)
    THEN SetRow(j, [jobs[j] EXCEPT !.state = "running"])
    ELSE NoRowMatches

\* Succeed and Fail ask for the id alone, whatever state the row is in.
Succeed(j) ==
    IF Exists(jobs[j])
    THEN SetRow(j, [jobs[j] EXCEPT !.state = "succeeded"])
    ELSE NoRowMatches

\* Mutant: the dead-letter branch forgets attempts=attempts+1.
FailDeadUncounted(j, willRetry, nextRunAt) ==
    IF Exists(jobs[j])
    THEN SetRow(j, IF willRetry
                   THEN [state |-> "pending", runAt |-> nextRunAt,
                         attempts |-> jobs[j].attempts + 1]
                   ELSE [jobs[j] EXCEPT !.state = "dead"])
    ELSE NoRowMatches

Fail(j, willRetry, nextRunAt) ==
    IF Exists(jobs[j])
    THEN SetRow(j, [state    |-> IF willRetry THEN "pending" ELSE "dead",
                    runAt    |-> IF willRetry THEN nextRunAt ELSE jobs[j].runAt,
                    attempts |-> jobs[j].attempts + 1])
    ELSE NoRowMatches

RequeueDead(j) ==
    /\ jobs[j].state = "dead"
    /\ SetRow(j, [jobs[j] EXCEPT !.state = "pending", !.runAt = now])

\* DeleteJob is two statements: the attempts first, then the row.
DeleteAttempts(j) ==
    /\ attempts' = [attempts EXCEPT ![j] = <<>>]
    /\ UNCHANGED <<jobs, paused, now>>

DeleteRow(j) == SetRow(j, AbsentRow)

-----------------------------------------------------------------------------
(* Attempts and queues. *)

\* No foreign key: an attempt of a deleted job is inserted all the same.
RecordAttempt(j, idx, ok) ==
    /\ attempts' = [attempts EXCEPT ![j] = Append(@, [idx |-> idx, ok |-> ok])]
    /\ UNCHANGED <<jobs, paused, now>>

SetPaused(q, flag) ==
    /\ paused' = IF flag THEN paused \cup {q} ELSE paused \ {q}
    /\ UNCHANGED <<jobs, attempts, now>>

-----------------------------------------------------------------------------
(* Restart. *)

RequeueAt(row, at) == [row EXCEPT !.state = "pending", !.runAt = at]

\* The recovery UPDATE of Open, as a function of the table.
RecoverOnOpen(table, at) ==
    [j \in Jobs |-> IF table[j].state = "running" THEN RequeueAt(table[j], at)
                                                  ELSE table[j]]
=============================================================================
