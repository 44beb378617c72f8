------------------------------ MODULE Schedules ------------------------------
(***************************************************************************)
(* Recurring schedules: the schedules table, the requests that write it    *)
(* and the goroutine RunRecurring starts, which wakes every second and     *)
(* enqueues a job for each interval that has passed.  A firing is two      *)
(* statements, CreateJob and TouchSchedule, without a transaction, made    *)
(* from the copies one DueSchedules returned.                              *)
(*                                                                         *)
(* Times are int64 nanoseconds in the table; here a word has Word values.  *)
(* Of the jobs table only the ids fireDueSchedules makes are kept.         *)
(***************************************************************************)
EXTENDS Integers, Sequences, FiniteSets

CONSTANTS
    Schedules,     \* schedule ids; naturals, ordered as ORDER BY id orders them
    Requests,      \* values of interval_seconds that clients send
    Ops,           \* the kinds of request made
    Second, Milli, \* nanoseconds in a second, and in a millisecond
    Word,          \* number of values of an int64
    ZeroTime,      \* nanoseconds from the epoch to the zero time.Time (year 1)
    StartTime,     \* the clock when the history begins
    MaxCatchUp,    \* firings in one round (10 in fireDueSchedules)
    MaxTime,       \* bound on the clock
    MaxOps,        \* bound on the number of requests
    MaxCrashes,    \* bound on restarts
    MaxFaults      \* bound on store calls that return an error

ASSUME ScheduleAssumption ==
    /\ Schedules \subseteq Nat /\ Schedules # {}
    /\ Requests \subseteq Int
    /\ Ops \subseteq {"create", "delete", "enable", "disable", "deleteJob"}
    /\ Milli \in Nat \ {0} /\ Second \in Nat /\ Milli <= Second
    /\ Word \in Nat \ {0}
    /\ ZeroTime \in Int
    /\ StartTime \in Nat \ {0}
    /\ MaxCatchUp \in Nat \ {0}
    /\ MaxTime \in Nat /\ MaxOps \in Nat
    /\ MaxCrashes \in Nat /\ MaxFaults \in Nat
    /\ StartTime <= MaxTime /\ MaxTime < Word \div 2

VARIABLES
    schedules,   \* table schedules: id -> its row; the domain is the ids stored
    jobIds,      \* the ids <<schedule, run_at>> present in table jobs
    now,         \* the wall clock
    recurring,   \* the goroutine of RunRecurring: where it is and its locals
    up,          \* FALSE once the process has died of a panic
    asked,       \* history: the values of interval_seconds accepted so far
    born,        \* history: when a schedule was last created
    births,      \* history: how often
    fired,       \* history: the run_at of each job enqueued for it, in order
    late,        \* history: firings since it was disabled or deleted
    ops,         \* number of requests made
    crashes,     \* number of restarts
    faults       \* number of calls that failed, by statement of a firing

tableVars == <<schedules, jobIds>>
historyVars == <<asked, born, births, fired, late>>
vars == <<tableVars, now, recurring, up, historyVars, ops, crashes, faults>>

Row == [interval : Nat, enabled : BOOLEAN, lastRun : Int]

\* A model.Schedule read from the table.
Copy == [id : Schedules, interval : Nat, enabled : BOOLEAN, lastRun : Int]

CopyOf(s) == [id |-> s, interval |-> schedules[s].interval,
              enabled |-> schedules[s].enabled, lastRun |-> schedules[s].lastRun]

\* "next": at the head of the loop over due; "insert", "touch": the two
\* statements of a firing of the schedule in cur.
Recurring == [pc : {"idle", "next", "insert", "touch"}, due : SUBSET Copy,
              cur : Schedules, interval : Nat, runs : Nat, runAt : Int]

Asleep == [pc |-> "idle", due |-> {}, cur |-> CHOOSE s \in Schedules : TRUE,
           interval |-> 0, runs |-> 0, runAt |-> 0]

TypeOK ==
    /\ DOMAIN schedules \subseteq Schedules
    /\ \A s \in DOMAIN schedules : schedules[s] \in Row
    /\ jobIds \subseteq Schedules \X Int
    /\ now \in Nat
    /\ recurring \in Recurring
    /\ up \in BOOLEAN
    /\ asked \subseteq Int /\ born \in [Schedules -> Nat]
    /\ births \in [Schedules -> Nat] /\ late \in [Schedules -> Nat]
    /\ fired \in [Schedules -> Seq(Int)]
    /\ ops \in Nat /\ crashes \in Nat
    /\ faults \in [{"insert", "touch"} -> Nat]

Init ==
    /\ schedules = [s \in {} |-> Asleep]
    /\ jobIds = {}
    /\ now = StartTime
    /\ recurring = Asleep
    /\ up = TRUE
    /\ asked = {}
    /\ born = [s \in Schedules |-> 0]
    /\ births = [s \in Schedules |-> 0]
    /\ fired = [s \in Schedules |-> <<>>]
    /\ late = [s \in Schedules |-> 0]
    /\ ops = 0
    /\ crashes = 0
    /\ faults = [statement \in {"insert", "touch"} |-> 0]

-----------------------------------------------------------------------------
(* Conversions. *)

MaxInt == Word \div 2 - 1

\* int64 arithmetic wraps around.
Wrap(n) == ((n + Word \div 2) % Word) - Word \div 2

\* time.Duration(interval_seconds) * time.Second
IntervalOf(seconds) == Wrap(seconds * Second)

\* Mutant: the column takes whole minutes.
StoredIntervalInMinutes(interval) == (interval \div (60 * Second)) * 60 * Second

\* Interval.Milliseconds() on the way in, time.Duration(ms) * time.Millisecond
\* on the way out.
StoredInterval(interval) == (interval \div Milli) * Milli

\* LastRun of a new schedule is the zero time, and its UnixNano wraps.
NeverRun == Wrap(ZeroTime)

\* No slot falls on the epoch, which the table takes for "never run": year 1
\* wraps to a time some 871 milliseconds off the grid of whole seconds.
ASSUME EpochAssumption == \A n \in 0 .. Word : NeverRun + n * Milli # 0

\* Time.Sub saturates.
Sub(a, b) == IF a - b > MaxInt THEN MaxInt ELSE a - b

-----------------------------------------------------------------------------
(* Statements and helpers of fireDueSchedules. *)

\* Mutant: the enabled=1 clause is lost.
IsDueThoughDisabled(row, at) == row.lastRun = 0 \/ row.lastRun + row.interval <= at

IsDue(row, at) ==
    row.enabled /\ (row.lastRun = 0 \/ row.lastRun + row.interval <= at)

DueSchedules(at) ==
    {CopyOf(s) : s \in {x \in DOMAIN schedules : IsDue(schedules[x], at)}}

\* Schedule.NextRun of a copy from the table, whose LastRun IsZero never holds.
NextRun(c) == c.lastRun + c.interval

\* Mutant: the interval that is still running counts as missed.
MissedRunsRoundedUp(c, at) ==
    IF ~c.enabled \/ at < c.lastRun THEN 0
    ELSE Sub(at, c.lastRun) \div c.interval + 1

\* Schedule.MissedRuns; interval # 0, or the division panics.
MissedRuns(c, at) ==
    IF ~c.enabled \/ at < c.lastRun THEN 0
    ELSE Sub(at, c.lastRun) \div c.interval

Clamped(runs) ==
    IF runs < 1 THEN 1 ELSE IF runs > MaxCatchUp THEN MaxCatchUp ELSE runs

\* A step of fireDueSchedules ends by moving on to the next due schedule.
NextDue == [recurring EXCEPT !.pc = "next"]

\* Mutant: the row records the time of the firing, not its slot.
TouchScheduleAtNow(s, at) ==
    schedules' = IF s \in DOMAIN schedules
                 THEN [schedules EXCEPT ![s].lastRun = now]
                 ELSE schedules

TouchSchedule(s, at) ==
    schedules' = IF s \in DOMAIN schedules
                 THEN [schedules EXCEPT ![s].lastRun = Wrap(at)]
                 ELSE schedules

-----------------------------------------------------------------------------
(* The goroutine of RunRecurring. *)

\* The timer fires.  A round that finds nothing due changes nothing.
RecurringBegin ==
    /\ up
    /\ recurring.pc = "idle"
    /\ DueSchedules(now) # {}
    /\ recurring' = [recurring EXCEPT !.pc = "next", !.due = DueSchedules(now)]
    /\ UNCHANGED <<tableVars, now, up, historyVars, ops, crashes, faults>>

\* The first copy left of the round.
IsFirst(c) == c \in recurring.due /\ \A d \in recurring.due : c.id <= d.id

\* The loop takes a copy and counts the intervals it has missed by now.
RecurringNext ==
    /\ up
    /\ recurring.pc = "next"
    /\ \E c \in recurring.due :
        /\ IsFirst(c)
        /\ c.interval # 0
        /\ recurring' = [pc |-> "insert", due |-> recurring.due \ {c},
                         cur |-> c.id, interval |-> c.interval,
                         runs |-> Clamped(MissedRuns(c, now)), runAt |-> NextRun(c)]
    /\ UNCHANGED <<tableVars, now, up, historyVars, ops, crashes, faults>>

\* MissedRuns divides by the interval; nobody recovers, and the process dies.
RecurringPanic ==
    /\ up
    /\ recurring.pc = "next"
    /\ \E c \in recurring.due : IsFirst(c) /\ c.interval = 0
    /\ up' = FALSE
    /\ recurring' = Asleep
    /\ UNCHANGED <<tableVars, now, historyVars, ops, crashes, faults>>

RecurringDone ==
    /\ up
    /\ recurring.pc = "next"
    /\ recurring.due = {}
    /\ recurring' = Asleep
    /\ UNCHANGED <<tableVars, now, up, historyVars, ops, crashes, faults>>

Slot == <<recurring.cur, recurring.runAt>>

IsLate(s) == s \notin DOMAIN schedules \/ ~schedules[s].enabled

\* Mutant: a refused insert ends the round.
RecurringInsertOrReturn ==
    LET s == recurring.cur
    IN  /\ up
        /\ recurring.pc = "insert"
        /\ IF Slot \in jobIds
           THEN /\ recurring' = Asleep
                /\ UNCHANGED <<jobIds, fired, late>>
           ELSE /\ recurring' = [recurring EXCEPT !.pc = "touch"]
                /\ jobIds' = jobIds \cup {Slot}
                /\ fired' = [fired EXCEPT ![s] = Append(@, recurring.runAt)]
                /\ late' = IF IsLate(s) THEN [late EXCEPT ![s] = @ + 1] ELSE late
        /\ UNCHANGED <<schedules, now, up, asked, born, births,
                       ops, crashes, faults>>

\* CreateJob.  The id is made from the schedule's and the slot's; when the
\* table has it already the insert is refused and the loop leaves the schedule.
RecurringInsert ==
    LET s == recurring.cur
    IN  /\ up
        /\ recurring.pc = "insert"
        /\ IF Slot \in jobIds
           THEN /\ recurring' = NextDue
                /\ UNCHANGED <<jobIds, fired, late>>
           ELSE /\ recurring' = [recurring EXCEPT !.pc = "touch"]
                /\ jobIds' = jobIds \cup {Slot}
                /\ fired' = [fired EXCEPT ![s] = Append(@, recurring.runAt)]
                /\ late' = IF IsLate(s) THEN [late EXCEPT ![s] = @ + 1] ELSE late
        /\ UNCHANGED <<schedules, now, up, asked, born, births,
                       ops, crashes, faults>>

\* The loop goes round, one interval later.
AfterTouch ==
    IF recurring.runs = 1
    THEN NextDue
    ELSE [recurring EXCEPT !.pc = "insert", !.runs = @ - 1,
                           !.runAt = @ + recurring.interval]

\* Mutant: the row is written only after the last firing of the round.
RecurringTouchLast ==
    /\ up
    /\ recurring.pc = "touch"
    /\ IF recurring.runs = 1
       THEN TouchSchedule(recurring.cur, recurring.runAt)
       ELSE UNCHANGED schedules
    /\ recurring' = AfterTouch
    /\ UNCHANGED <<jobIds, now, up, historyVars, ops, crashes, faults>>

\* TouchSchedule records the slot; a schedule deleted meanwhile has no row.
RecurringTouch ==
    /\ up
    /\ recurring.pc = "touch"
    /\ TouchSchedule(recurring.cur, recurring.runAt)
    /\ recurring' = AfterTouch
    /\ UNCHANGED <<jobIds, now, up, historyVars, ops, crashes, faults>>

\* A call of the store fails.  A failed CreateJob ends the schedule's firings as
\* a refused one does; the error of TouchSchedule is not looked at.
Failing(statement) ==
    /\ up
    /\ recurring.pc = statement
    /\ faults["insert"] + faults["touch"] < MaxFaults
    /\ faults' = [faults EXCEPT ![statement] = @ + 1]
    /\ UNCHANGED <<tableVars, now, up, historyVars, ops, crashes>>

RecurringInsertFails == Failing("insert") /\ recurring' = NextDue

RecurringTouchFails == Failing("touch") /\ recurring' = AfterTouch

FaultStep == RecurringInsertFails \/ RecurringTouchFails

RecurringStep ==
    \/ RecurringBegin \/ RecurringNext \/ RecurringPanic \/ RecurringDone
    \/ RecurringInsert \/ RecurringTouch

-----------------------------------------------------------------------------
(* Requests, one statement each. *)

NewRequest(op) ==
    /\ up
    /\ op \in Ops
    /\ ops < MaxOps
    /\ ops' = ops + 1
    /\ UNCHANGED <<now, recurring, up, fired, crashes, faults>>

\* Mutant: Validate does not look at the interval.
IsPositive(seconds) == seconds > 0

\* The handler's check of interval_seconds, and Validate's of the interval.
IsAccepted(seconds) == seconds > 0 /\ IntervalOf(seconds) > 0

\* POST /schedules.
CreateSchedule(s, seconds) ==
    /\ NewRequest("create")
    /\ s \notin DOMAIN schedules
    /\ IsAccepted(seconds)
    /\ schedules' =
         [t \in DOMAIN schedules \cup {s} |->
            IF t = s
            THEN [interval |-> StoredInterval(IntervalOf(seconds)),
                  enabled |-> TRUE, lastRun |-> NeverRun]
            ELSE schedules[t]]
    /\ asked' = asked \cup {seconds}
    /\ born' = [born EXCEPT ![s] = now]
    /\ births' = [births EXCEPT ![s] = @ + 1]
    /\ late' = [late EXCEPT ![s] = 0]
    /\ UNCHANGED jobIds

DeleteSchedule(s) ==
    /\ NewRequest("delete")
    /\ s \in DOMAIN schedules
    /\ schedules' = [t \in DOMAIN schedules \ {s} |-> schedules[t]]
    /\ UNCHANGED <<jobIds, asked, born, births, late>>

SetScheduleEnabled(s, op) ==
    /\ op \in {"enable", "disable"}
    /\ NewRequest(op)
    /\ s \in DOMAIN schedules
    /\ schedules' = [schedules EXCEPT ![s].enabled = (op = "enable")]
    /\ late' = IF op = "enable" THEN [late EXCEPT ![s] = 0] ELSE late
    /\ UNCHANGED <<jobIds, asked, born, births>>

\* DELETE /jobs/{id} of a job a schedule made.
DeleteJob(id) ==
    /\ NewRequest("deleteJob")
    /\ jobIds' = jobIds \ {id}
    /\ UNCHANGED <<schedules, asked, born, births, late>>

RequestStep ==
    \/ \E s \in Schedules, seconds \in Requests : CreateSchedule(s, seconds)
    \/ \E s \in Schedules : DeleteSchedule(s)
    \/ \E s \in Schedules, op \in {"enable", "disable"} : SetScheduleEnabled(s, op)
    \/ \E id \in jobIds : DeleteJob(id)

-----------------------------------------------------------------------------

\* The process dies between any two steps, or has died, and main runs again.
Restart ==
    /\ crashes < MaxCrashes
    /\ crashes' = crashes + 1
    /\ up' = TRUE
    /\ recurring' = Asleep
    /\ UNCHANGED <<tableVars, now, historyVars, ops, faults>>

Tick ==
    /\ now + Second <= MaxTime
    /\ now' = now + Second
    /\ UNCHANGED <<tableVars, recurring, up, historyVars, ops, crashes, faults>>

Next == RecurringStep \/ FaultStep \/ RequestStep \/ Restart \/ Tick

Spec == Init /\ [][Next]_vars

\* The goroutine runs whenever it can, its timer fires every second, and the
\* clock advances.  Nothing is assumed of clients, crashes and errors.
FairSpec == Spec /\ WF_vars(RecurringStep) /\ WF_vars(Tick)

-----------------------------------------------------------------------------
(* Properties. *)

\* No job is enqueued before its slot: whatever the delay between DueSchedules,
\* the count of missed intervals and the inserts, a round stops in the past.
NothingEnqueuedEarly ==
    \A s \in Schedules : \A k \in 1 .. Len(fired[s]) : fired[s][k] <= now

\* A disable or a delete does not stop the round under way, but the harm is
\* bounded by one round, and no later round fires the schedule.
LateFiringsBounded == \A s \in Schedules : late[s] <= MaxCatchUp

\* The schedules whose slots are those of one life: never deleted and re-created.
OneLife == {s \in DOMAIN schedules : births[s] = 1}

\* Wherever a crash or a failed insert falls, a schedule's slots are enqueued in
\* order, none is skipped and none twice, but for the last one before a crash when
\* a client deletes its job; and last_run trails the last job enqueued by at most
\* the one slot whose TouchSchedule is yet to come, or was lost in a crash.  Only
\* TouchSchedule may not fail.
NoIntervalLost ==
    faults["touch"] = 0 =>
      \A s \in OneLife :
        LET log == fired[s]
            interval == schedules[s].interval
            last == IF log = <<>> THEN NeverRun ELSE log[Len(log)]
            behind == \/ recurring.pc = "touch" /\ recurring.cur = s
                      \/ crashes > 0
        IN  /\ \A k \in 2 .. Len(log) :
                 \/ log[k] = log[k - 1] + interval
                 \/ log[k] = log[k - 1] /\ crashes > 0
            /\ \/ schedules[s].lastRun = last
               \/ behind /\ schedules[s].lastRun = last - interval

\* The next slot of the schedule is taken by a job already in the table, so
\* that every round breaks off at CreateJob and never reaches TouchSchedule.
Blocked(s) ==
    s \in DOMAIN schedules
        /\ <<s, schedules[s].lastRun + schedules[s].interval>> \in jobIds

\* Only a TouchSchedule that a crash forestalled or that failed, or a schedule
\* created again under the id of a deleted one, can block a schedule.
BlockedOnlyByLostTouch ==
    \A s \in OneLife :
        Blocked(s) => \/ recurring.pc = "touch" /\ recurring.cur = s
                      \/ crashes > 0
                      \/ faults["touch"] > 0

\* The process panics only over a schedule whose interval_seconds overflowed:
\* the checks of the request and the unit of the column let no other zero by.
PanicNeedsOverflow ==
    ~up => \E seconds \in asked : seconds * Second > MaxInt

Overdue(s) == s \in DOMAIN schedules /\ IsDue(schedules[s], now)

Poisoned == \E s \in DOMAIN schedules : schedules[s].interval = 0

\* A schedule catches up again and again: it stays overdue for ever only when it
\* is blocked, or when the process cannot get past a zero interval.
CatchesUp ==
    \A s \in Schedules : []<>~Overdue(s) \/ <>[]Blocked(s) \/ <>[](Poisoned \/ ~up)

-----------------------------------------------------------------------------
(* What the documentation says and the code does not keep. *)

\* "re-enqueued every Interval": once when it is created and once more for each
\* interval that has passed since.
OncePerInterval ==
    \A s \in OneLife :
        (Len(fired[s]) - 1) * schedules[s].interval <= now - born[s]

\* "re-enqueued every Interval until disabled or deleted", restarts included.
KeepsFiring == \A s \in Schedules : []<>~Overdue(s)
=============================================================================
