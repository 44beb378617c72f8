---------------------------- MODULE ReportsProofs ----------------------------
(***************************************************************************)
(* What a snapshot of the counters and a maintenance report are worth, for *)
(* any number of jobs, goroutines, requests and restarts.                  *)
(***************************************************************************)
EXTENDS Reports, FiniteSetTheorems, TLAPS

Deciding == {j \in Jobs : stage[j] = "decide"}

\* The retries and burials the snapshot shows, or will show at least.
OutcomesSeen ==
    (IF reader.read >= 4 THEN reader.snapshot["retried"] ELSE counters["retried"])
  + (IF reader.read >= 5 THEN reader.snapshot["dead"] ELSE counters["dead"])

SlotsInv == Cardinality(Executing) <= PoolSize

\* The goroutines between two increments are the difference of the counters.
FailuresInv ==
    counters["failed"] = counters["retried"] + counters["dead"] + Cardinality(Deciding)

\* What the runner has inserted is stored, or has been deleted.
EnqueuedInv == counters["enqueued"] + inserted <= Total + deleted

SnapshotInv ==
    reader.asks = "metrics" =>
        /\ reader.read >= 1 => reader.snapshot["enqueued"] <= counters["enqueued"]
        /\ reader.read >= 3 => reader.snapshot["failed"] <= OutcomesSeen + PoolSize

Inv == TypeOK /\ SlotsInv /\ FailuresInv /\ EnqueuedInv /\ SnapshotInv

-----------------------------------------------------------------------------
(* Typing. *)

LEMMA DefaultsTyped ==
    /\ NoReader \in Reader /\ NoCounts \in [CounterNames -> Nat]
    /\ IdleClient \in Client
BY DEF NoReader, Reader, NoCounts, NoReport, Report, Capacities, IdleClient, Client

LEMMA CountsTyped ==
    /\ \A s : CountIn(s) \in Nat
    /\ Total \in Nat
    /\ ByState \in [ValidStates -> Nat]
    /\ Capacity(ByState) \in Capacities
<1>1. ASSUME NEW S \in SUBSET Jobs PROVE Cardinality(S) \in Nat
  BY <1>1, ReportAssumption, FS_Subset, FS_CardinalityType
<1>2. \A s : CountIn(s) \in Nat
  BY <1>1 DEF CountIn
<1>3. Total \in Nat
  BY <1>1 DEF Total
<1>4. ByState \in [ValidStates -> Nat]
  BY <1>2 DEF ByState
<1> QED BY <1>2, <1>3, <1>4 DEF Capacity, Capacities, ValidStates

LEMMA EnterTyped ==
    ASSUME TypeOK, NEW j \in Jobs, NEW from, NEW to \in Stages, Enter(j, from, to)
    PROVE  /\ stage' \in [Jobs -> Stages]
           /\ stage[j] = from /\ stage'[j] = to
           /\ \A k \in Jobs \ {j} : stage'[k] = stage[k]
BY DEF TypeOK, Enter

LEMMA IncTyped ==
    ASSUME TypeOK, NEW name \in CounterNames, Inc(name)
    PROVE  /\ counters' \in [CounterNames -> Nat]
           /\ counters'[name] = counters[name] + 1
           /\ \A n \in CounterNames \ {name} : counters'[n] = counters[n]
BY DEF TypeOK, Inc

\* The record of a reader that has done one more load or statement.
LEMMA ReaderAdvanced ==
    ASSUME TypeOK, NEW snapshot \in [CounterNames -> Nat], NEW report \in Report,
           reader' = [reader EXCEPT !.read = @ + 1, !.snapshot = snapshot,
                                    !.report = report]
    PROVE  /\ reader' \in Reader
           /\ reader'.asks = reader.asks /\ reader'.read = reader.read + 1
           /\ reader'.snapshot = snapshot
<1>0. reader \in Reader
  BY DEF TypeOK
<1>1. reader' = [asks |-> reader.asks, read |-> reader.read + 1, snapshot |-> snapshot,
                 report |-> report, moved |-> reader.moved, gone |-> reader.gone,
                 revived |-> reader.revived]
  BY <1>0 DEF Reader
<1>2. /\ reader.asks \in {"nothing", "metrics", "maintenance"}
      /\ reader.read + 1 \in Nat /\ reader.moved \in BOOLEAN
      /\ reader.gone \in Nat /\ reader.revived \in Nat
  BY <1>0 DEF Reader
<1> QED BY <1>1, <1>2 DEF Reader

LEMMA StatementTyped ==
    ASSUME TypeOK, RunStatement
    PROVE  /\ reader' \in Reader
           /\ reader'.asks = "maintenance"
<1> DEFINE name == MaintenanceOrder[reader.read + 1]
           r == reader.report
           Answer(due) ==
             CASE name = "total"       -> [r EXCEPT !.total = Total]
               [] name = "byState"     -> [r EXCEPT !.byState = ByState]
               [] name = "deadLetters" -> [r EXCEPT !.deadLetters = CountIn("dead")]
               [] name = "due"         -> [r EXCEPT !.due = due]
               [] name = "oldest"      -> [r EXCEPT !.oldest = OldestPending]
               [] name = "capacity"    -> [r EXCEPT !.capacity = Capacity(ByState)]
<1>1. PICK due \in DueCounts :
        reader' = [reader EXCEPT !.read = @ + 1, !.report = Answer(due)]
  BY DEF RunStatement
<1>2. due \in Nat /\ OldestPending \in BOOLEAN
  <2>1. Cardinality(Jobs) \in Nat
    BY ReportAssumption, FS_CardinalityType
  <2> QED BY <2>1 DEF DueCounts, OldestPending
<1>3. /\ r \in Report /\ reader \in Reader /\ reader.read \in Nat
      /\ reader.asks = "maintenance"
  BY DEF TypeOK, Reader, RunStatement
<1>4. reader.read \in 0 .. 5
  BY <1>3 DEF RunStatement, MaintenanceOrder
<1>5. name \in {"total", "byState", "deadLetters", "due", "oldest", "capacity"}
  BY <1>4 DEF MaintenanceOrder
<1>6. Answer(due) \in Report
  <2> HIDE DEF name, r
  <2> QED BY <1>2, <1>3, <1>5, CountsTyped DEF Report
<1>7. PICK answer \in Report :
        reader' = [reader EXCEPT !.read = @ + 1, !.report = answer]
  BY <1>1, <1>6
<1>8. reader' = [reader EXCEPT !.read = @ + 1, !.snapshot = reader.snapshot,
                               !.report = answer]
  BY <1>3, <1>7 DEF Reader
<1>9. reader.snapshot \in [CounterNames -> Nat]
  BY <1>3 DEF Reader
<1> QED BY <1>3, <1>7, <1>8, <1>9, ReaderAdvanced

LEMMA LoadTyped ==
    ASSUME TypeOK, LoadCounter
    PROVE  /\ reader' \in Reader
           /\ reader.read \in 0 .. 4
           /\ reader.asks = "metrics"
           /\ reader'.read = reader.read + 1
           /\ LET name == MetricsOrder[reader.read + 1]
              IN  /\ name \in CounterNames
                  /\ reader'.snapshot[name] = counters[name]
                  /\ \A n \in CounterNames \ {name} :
                       reader'.snapshot[n] = reader.snapshot[n]
<1> DEFINE name == MetricsOrder[reader.read + 1]
<1>1. reader \in Reader /\ reader.read \in Nat /\ counters \in [CounterNames -> Nat]
  BY DEF TypeOK, Reader
<1>2. reader.read \in 0 .. 4
  BY <1>1 DEF LoadCounter, MetricsOrder
<1>3. name \in CounterNames
  BY <1>2 DEF MetricsOrder, CounterNames
<1>4. reader' = [reader EXCEPT !.read = @ + 1, !.snapshot[name] = counters[name]]
  BY DEF LoadCounter
<1> HIDE DEF name
<1> DEFINE loaded == [reader.snapshot EXCEPT ![name] = counters[name]]
<1>4a. reader' = [reader EXCEPT !.read = @ + 1, !.snapshot = loaded]
  BY <1>4
<1>4b. loaded \in [CounterNames -> Nat]
  BY <1>1, <1>3 DEF Reader
<1>5. reader'.snapshot = [reader.snapshot EXCEPT ![name] = counters[name]]
  BY <1>1, <1>4 DEF Reader
<1>6. /\ reader'.snapshot \in [CounterNames -> Nat]
      /\ reader'.snapshot[name] = counters[name]
      /\ \A n \in CounterNames \ {name} : reader'.snapshot[n] = reader.snapshot[n]
  BY <1>1, <1>3, <1>5 DEF Reader
<1>7. reader' \in Reader /\ reader'.read = reader.read + 1
  <2>1. reader' = [reader EXCEPT !.read = @ + 1, !.snapshot = loaded,
                                 !.report = reader.report]
    BY <1>1, <1>4a DEF Reader
  <2>2. reader.report \in Report
    BY <1>1 DEF Reader
  <2> HIDE DEF loaded
  <2> QED BY <1>1, <1>4b, <2>1, <2>2, ReaderAdvanced
<1> QED BY <1>2, <1>3, <1>6, <1>7 DEF name, LoadCounter

\* Two sets of jobs that differ in one job at most.
LEMMA OneChanged ==
    ASSUME NEW S \in SUBSET Jobs, NEW T \in SUBSET Jobs, NEW j \in Jobs,
           S \ {j} = T \ {j}
    PROVE  /\ Cardinality(S) \in Nat /\ Cardinality(T) \in Nat
           /\ j \notin S /\ j \in T => Cardinality(T) = Cardinality(S) + 1
           /\ j \in S /\ j \notin T => Cardinality(S) = Cardinality(T) + 1
           /\ (j \in S <=> j \in T) => Cardinality(S) = Cardinality(T)
<1>1. IsFiniteSet(S) /\ IsFiniteSet(T)
  BY ReportAssumption, FS_Subset
<1>2. ASSUME j \notin S, j \in T PROVE Cardinality(T) = Cardinality(S) + 1
  <2>1. T = S \cup {j}
    BY <1>2
  <2> QED BY <1>1, <1>2, <2>1, FS_AddElement
<1>3. ASSUME j \in S, j \notin T PROVE Cardinality(S) = Cardinality(T) + 1
  <2>1. S = T \cup {j}
    BY <1>3
  <2> QED BY <1>1, <1>3, <2>1, FS_AddElement
<1>4. ASSUME j \in S <=> j \in T PROVE Cardinality(S) = Cardinality(T)
  <2>1. S = T
    BY <1>4
  <2> QED BY <2>1
<1> QED BY <1>1, <1>2, <1>3, <1>4, FS_CardinalityType

\* What a statement that writes a row leaves of the table and of a report being
\* made: a row that is not there any more, and a dead letter that is none any
\* more, are counted.
RowWritten ==
    /\ state' \in [Jobs -> ValidStates \cup {"absent"}]
    /\ deleted' \in Nat
    /\ reader' \in Reader
    /\ reader'.asks = reader.asks /\ reader'.read = reader.read
    /\ reader'.snapshot = reader.snapshot /\ reader'.report = reader.report
    /\ Total + deleted <= Total' + deleted'
    /\ ~ReportPending => reader' = reader
    /\ ReportPending =>
         /\ reader'.moved
         /\ Total + reader.gone <= Total' + reader'.gone
         /\ CountIn("dead") + reader.revived <= CountIn("dead")' + reader'.revived
         /\ reader.revived <= reader'.revived

LEMMA PutRowWrites ==
    ASSUME TypeOK, NEW j \in Jobs, NEW to \in ValidStates \cup {"absent"}, PutRow(j, to)
    PROVE  /\ RowWritten
           /\ state[j] = "absent" /\ to # "absent"
                => Total' = Total + 1 /\ deleted' = deleted
<1> DEFINE S == {k \in Jobs : state[k] # "absent"}
           T == {k \in Jobs : state'[k] # "absent"}
           D == {k \in Jobs : state[k] = "dead"}
           E == {k \in Jobs : state'[k] = "dead"}
<1>0. /\ state \in [Jobs -> ValidStates \cup {"absent"}] /\ deleted \in Nat
      /\ reader \in Reader /\ reader.gone \in Nat /\ reader.revived \in Nat
  BY DEF TypeOK, Reader
<1>1. /\ state' = [state EXCEPT ![j] = to]
      /\ deleted' = deleted + One(to = "absent")
  BY DEF PutRow
<1>2. /\ state' \in [Jobs -> ValidStates \cup {"absent"}] /\ state'[j] = to
      /\ \A k \in Jobs \ {j} : state'[k] = state[k]
  BY <1>0, <1>1
<1>3. One(to = "absent") = (IF to = "absent" THEN 1 ELSE 0)
  BY DEF One
<1>4. deleted' \in Nat
  BY <1>0, <1>1, <1>3
<1>5. /\ Total = Cardinality(S) /\ Total' = Cardinality(T)
      /\ CountIn("dead") = Cardinality(D) /\ CountIn("dead")' = Cardinality(E)
  BY DEF Total, CountIn
<1>6. /\ Total \in Nat /\ Total' \in Nat
      /\ state[j] = "absent" /\ to # "absent" => Total' = Total + 1
      /\ Total <= Total' + One(to = "absent")
  <2>1. S \ {j} = T \ {j} /\ S \in SUBSET Jobs /\ T \in SUBSET Jobs
    BY <1>2
  <2>2. (j \in S <=> state[j] # "absent") /\ (j \in T <=> to # "absent")
    BY <1>2
  <2> HIDE DEF S, T
  <2> QED BY <1>3, <1>5, <2>1, <2>2, OneChanged
<1>7. CountIn("dead") <= CountIn("dead")' + One(state[j] = "dead" /\ to # "dead")
      /\ CountIn("dead") \in Nat /\ CountIn("dead")' \in Nat
  <2>1. D \ {j} = E \ {j} /\ D \in SUBSET Jobs /\ E \in SUBSET Jobs
    BY <1>2
  <2>2. (j \in D <=> state[j] = "dead") /\ (j \in E <=> to = "dead")
    BY <1>2
  <2>3. One(state[j] = "dead" /\ to # "dead")
          = (IF state[j] = "dead" /\ to # "dead" THEN 1 ELSE 0)
    BY DEF One
  <2> HIDE DEF D, E
  <2> QED BY <1>5, <2>1, <2>2, <2>3, OneChanged
<1>8. CASE ~ReportPending
  <2>1. reader' = reader
    BY <1>8 DEF PutRow
  <2> QED BY <1>0, <1>1, <1>2, <1>3, <1>4, <1>6, <1>8, <2>1 DEF RowWritten
<1>9. CASE ReportPending
  <2> DEFINE g == reader.gone + One(to = "absent")
             v == reader.revived + One(state[j] = "dead" /\ to # "dead")
  <2>1. reader' = [reader EXCEPT !.moved = TRUE, !.gone = g, !.revived = v]
    BY <1>9 DEF PutRow
  <2>2. g \in Nat /\ v \in Nat
    BY <1>0 DEF One
  <2>3. Total + reader.gone <= Total' + g
    BY <1>0, <1>3, <1>6
  <2>4. CountIn("dead") + reader.revived <= CountIn("dead")' + v /\ reader.revived <= v
    <3>1. One(state[j] = "dead" /\ to # "dead") \in Nat
      BY DEF One
    <3> QED BY <1>0, <1>7, <3>1
  <2> HIDE DEF g, v
  <2>5. /\ reader' \in Reader
        /\ reader'.asks = reader.asks /\ reader'.read = reader.read
        /\ reader'.snapshot = reader.snapshot /\ reader'.report = reader.report
        /\ reader'.moved /\ reader'.gone = g /\ reader'.revived = v
    BY <1>0, <2>1, <2>2 DEF Reader
  <2> QED BY <1>0, <1>1, <1>2, <1>3, <1>4, <1>6, <1>9, <2>3, <2>4, <2>5 DEF RowWritten
<1> QED BY <1>1, <1>3, <1>6, <1>8, <1>9, <1>0

LEMMA UpdateRowWrites ==
    ASSUME TypeOK, NEW j \in Jobs, NEW to \in ValidStates, UpdateRow(j, to)
    PROVE  RowWritten \/ UNCHANGED <<rowVars, reader>>
BY PutRowWrites DEF UpdateRow

LEMMA InitInv == Init => Inv
<1> SUFFICES ASSUME Init PROVE Inv
  OBVIOUS
<1>1. TypeOK
  BY DefaultsTyped DEF Init, TypeOK, Stages, ValidStates
<1>2. Executing = {} /\ Deciding = {}
  BY DEF Init, Executing, Deciding
<1>3. SlotsInv /\ FailuresInv
  BY <1>2, FS_EmptySet, ReportAssumption DEF SlotsInv, FailuresInv, Init, NoCounts,
     CounterNames
<1>4. EnqueuedInv
  BY CountsTyped DEF EnqueuedInv, Init, NoCounts, CounterNames
<1>5. SnapshotInv
  BY DEF SnapshotInv, Init, NoReader
<1> QED BY <1>1, <1>3, <1>4, <1>5 DEF Inv

-----------------------------------------------------------------------------
(* What the steps leave alone. *)

\* A step that touches neither counters nor the snapshot.
LEMMA SnapshotKept ==
    ASSUME SnapshotInv, counters' = counters, reader'.asks = reader.asks,
           reader'.read = reader.read, reader'.snapshot = reader.snapshot
    PROVE  SnapshotInv'
BY DEF SnapshotInv, OutcomesSeen

\* Counters only grow, and a snapshot already taken of one does not.
LEMMA SnapshotGrown ==
    ASSUME TypeOK, SnapshotInv, reader' = reader,
           counters' \in [CounterNames -> Nat],
           \A n \in CounterNames : counters[n] <= counters'[n]
    PROVE  SnapshotInv'
<1>1. /\ counters \in [CounterNames -> Nat]
      /\ reader.snapshot \in [CounterNames -> Nat]
      /\ PoolSize \in Nat
  BY ReportAssumption DEF TypeOK, Reader
<1>2. {"enqueued", "retried", "dead", "failed"} \subseteq CounterNames
  BY DEF CounterNames
<1>3. OutcomesSeen <= OutcomesSeen' /\ OutcomesSeen \in Nat /\ OutcomesSeen' \in Nat
  BY <1>1, <1>2 DEF OutcomesSeen
<1> QED BY <1>1, <1>2, <1>3 DEF SnapshotInv

\* A step that moves no goroutine.
LEMMA StagesKept ==
    ASSUME SlotsInv, FailuresInv, stage' = stage,
           counters'["failed"] = counters["failed"],
           counters'["retried"] = counters["retried"],
           counters'["dead"] = counters["dead"]
    PROVE  SlotsInv' /\ FailuresInv'
BY DEF SlotsInv, FailuresInv, Executing, Deciding

\* A goroutine goes from one stage to another that is not between two increments.
LEMMA StageMoved ==
    ASSUME TypeOK, SlotsInv, NEW j \in Jobs, NEW from, NEW to \in Stages,
           Enter(j, from, to), from # "idle"
    PROVE  /\ SlotsInv'
           /\ from # "decide" /\ to # "decide" => Deciding' = Deciding
           /\ from # "decide" /\ to = "decide"
                => Cardinality(Deciding') = Cardinality(Deciding) + 1
           /\ from = "decide" /\ to # "decide"
                => Cardinality(Deciding) = Cardinality(Deciding') + 1
<1>0. /\ stage' \in [Jobs -> Stages] /\ stage[j] = from /\ stage'[j] = to
      /\ \A k \in Jobs \ {j} : stage'[k] = stage[k]
  BY EnterTyped
<1>1. IsFiniteSet(Deciding) /\ IsFiniteSet(Deciding') /\ IsFiniteSet(Executing)
  <2>1. Deciding \subseteq Jobs /\ Deciding' \subseteq Jobs /\ Executing \subseteq Jobs
    BY DEF Deciding, Executing
  <2> QED BY <2>1, ReportAssumption, FS_Subset
<1>2. SlotsInv'
  <2>1. Executing' \subseteq Executing
    BY <1>0 DEF Executing
  <2>2. /\ Cardinality(Executing') <= Cardinality(Executing)
        /\ Cardinality(Executing) \in Nat /\ Cardinality(Executing') \in Nat
    BY <1>1, <2>1, FS_Subset, FS_CardinalityType
  <2> QED BY <2>2, ReportAssumption DEF SlotsInv
<1>3. ASSUME from # "decide", to # "decide" PROVE Deciding' = Deciding
  BY <1>0, <1>3 DEF Deciding
<1>4. ASSUME from # "decide", to = "decide"
      PROVE  Cardinality(Deciding') = Cardinality(Deciding) + 1
  <2>1. Deciding' = Deciding \cup {j} /\ j \notin Deciding
    BY <1>0, <1>4 DEF Deciding
  <2> QED BY <1>1, <2>1, FS_AddElement
<1>5. ASSUME from = "decide", to # "decide"
      PROVE  Cardinality(Deciding) = Cardinality(Deciding') + 1
  <2>1. Deciding = Deciding' \cup {j} /\ j \notin Deciding'
    BY <1>0, <1>5 DEF Deciding
  <2> QED BY <1>1, <2>1, FS_AddElement
<1> QED BY <1>2, <1>3, <1>4, <1>5

\* A row is written and no goroutine moves.
LEMMA RowKeeps ==
    ASSUME Inv, RowWritten, UNCHANGED <<stage, counters, asked>>, ops' \in Nat,
           claimed' \in [Flushers -> Jobs \cup {NoJob}], client' \in [Clients -> Client],
           inserted' \in Nat,
           \/ inserted' = inserted
           \/ Total' + deleted' = Total + deleted + 1 /\ inserted' = inserted + 1
    PROVE  Inv'
<1>1. /\ TypeOK /\ SlotsInv /\ FailuresInv /\ EnqueuedInv /\ SnapshotInv
      /\ counters["enqueued"] \in Nat /\ inserted \in Nat /\ deleted \in Nat
      /\ deleted' \in Nat /\ Total \in Nat
  BY CountsTyped DEF Inv, TypeOK, CounterNames, RowWritten
<1>2. Total' \in Nat
  BY ReportAssumption, FS_Subset, FS_CardinalityType DEF Total
<1>3. TypeOK'
  BY <1>1 DEF TypeOK, RowWritten
<1>4. SlotsInv' /\ FailuresInv'
  BY <1>1, StagesKept
<1>5. EnqueuedInv'
  <2>1. /\ Total + deleted <= Total' + deleted'
        /\ counters["enqueued"] + inserted <= Total + deleted
    BY <1>1 DEF EnqueuedInv, RowWritten
  <2>2. counters'["enqueued"] + inserted' <= Total' + deleted'
    BY <1>1, <1>2, <2>1 DEF Total
  <2> QED BY <2>2 DEF EnqueuedInv
<1>6. SnapshotInv'
  BY <1>1, SnapshotKept DEF RowWritten
<1> QED BY <1>3, <1>4, <1>5, <1>6 DEF Inv

-----------------------------------------------------------------------------
(* One lemma for each kind of step. *)

\* A step that moves rows, goroutines, counters and the reader not at all.
LEMMA BookkeepingKeeps ==
    ASSUME Inv, UNCHANGED <<rowVars, stage, counters, inserted, reader, asked>>,
           claimed' \in [Flushers -> Jobs \cup {NoJob}], client' \in [Clients -> Client],
           ops' \in Nat
    PROVE  Inv'
BY DEF Inv, TypeOK, SlotsInv, FailuresInv, EnqueuedInv, SnapshotInv, OutcomesSeen,
   Executing, Deciding, Total, rowVars

\* The statements of flushes, of requests and of the runner.
LEMMA RowStep ==
    ASSUME Inv, NEW j \in Jobs,
           \/ \E f \in Flushers : Claim(f, j)
           \/ \E byRunner \in BOOLEAN : Insert(j, byRunner)
           \/ RequeueDead(j) \/ DeleteRow(j)
    PROVE  Inv'
<1>0. /\ TypeOK /\ inserted \in Nat /\ ops \in Nat
      /\ claimed \in [Flushers -> Jobs \cup {NoJob}] /\ client \in [Clients -> Client]
  BY DEF Inv, TypeOK
<1>1. ASSUME NEW f \in Flushers, Claim(f, j) PROVE Inv'
  <2>1. RowWritten
    BY <1>0, <1>1, PutRowWrites DEF Claim, ValidStates
  <2>2. claimed' \in [Flushers -> Jobs \cup {NoJob}]
    BY <1>0, <1>1 DEF Claim
  <2> QED BY <1>0, <1>1, <2>1, <2>2, RowKeeps DEF Claim
<1>2. ASSUME NEW byRunner \in BOOLEAN, Insert(j, byRunner) PROVE Inv'
  <2>1. RowWritten /\ Total' = Total + 1 /\ deleted' = deleted
    BY <1>0, <1>2, PutRowWrites DEF Insert, ValidStates
  <2>2. Total' + deleted' = Total + deleted + 1
    BY <1>0, <2>1, CountsTyped DEF TypeOK
  <2>3. inserted' \in Nat /\ (inserted' = inserted \/ inserted' = inserted + 1)
    BY <1>0, <1>2 DEF Insert, One
  <2> QED BY <1>0, <1>2, <2>1, <2>2, <2>3, RowKeeps DEF Insert
<1>3. CASE RequeueDead(j) \/ DeleteRow(j)
  <2>1. RowWritten
    BY <1>0, <1>3, PutRowWrites DEF RequeueDead, DeleteRow, ValidStates
  <2>2. ops' \in Nat
    BY <1>0, <1>3 DEF RequeueDead, DeleteRow, NewRequest
  <2> QED BY <1>0, <1>3, <2>1, <2>2, RowKeeps DEF RequeueDead, DeleteRow, poolVars
<1> QED BY <1>1, <1>2, <1>3

\* retryJob and cancelJob, and a claim that comes to nothing.
LEMMA RequestStep ==
    ASSUME Inv,
           \/ \E c \in Clients, j \in Jobs, to \in {"pending", "cancelled"} : ReadRow(c, j, to)
           \/ \E c \in Clients : WriteRow(c)
           \/ \E f \in Flushers : DropClaim(f)
    PROVE  Inv'
<1>0. /\ TypeOK /\ inserted \in Nat /\ ops \in Nat
      /\ claimed \in [Flushers -> Jobs \cup {NoJob}] /\ client \in [Clients -> Client]
  BY DEF Inv, TypeOK
<1>1. ASSUME NEW c \in Clients, NEW j \in Jobs, NEW to \in {"pending", "cancelled"},
             ReadRow(c, j, to)
      PROVE  Inv'
  <2>1. ops' \in Nat /\ client' \in [Clients -> Client]
    BY <1>0, <1>1 DEF ReadRow, NewRequest, Client
  <2> QED BY <1>0, <1>1, <2>1, BookkeepingKeeps DEF ReadRow, poolVars
<1>2. ASSUME NEW c \in Clients, WriteRow(c) PROVE Inv'
  <2>1. client' \in [Clients -> Client]
    BY <1>0, <1>2, DefaultsTyped DEF WriteRow
  <2>2. client[c].job \in Jobs /\ client[c].to \in ValidStates
    BY <1>0, <1>2 DEF WriteRow, Client, ValidStates
  <2>3. RowWritten \/ UNCHANGED <<rowVars, reader>>
    BY <1>0, <1>2, <2>2, UpdateRowWrites DEF WriteRow
  <2>4. CASE RowWritten
    BY <1>0, <1>2, <2>1, <2>4, RowKeeps DEF WriteRow, poolVars
  <2>5. CASE UNCHANGED <<rowVars, reader>>
    BY <1>0, <1>2, <2>1, <2>5, BookkeepingKeeps DEF WriteRow, poolVars
  <2> QED BY <2>3, <2>4, <2>5
<1>3. ASSUME NEW f \in Flushers, DropClaim(f) PROVE Inv'
  <2>1. claimed' \in [Flushers -> Jobs \cup {NoJob}]
    BY <1>0, <1>3 DEF DropClaim
  <2> QED BY <1>0, <1>3, <2>1, BookkeepingKeeps DEF DropClaim
<1> QED BY <1>1, <1>2, <1>3

\* A goroutine writes its outcome, or fails to.
LEMMA SettleStep ==
    ASSUME Inv, NEW j \in Jobs, Settle(j) \/ LoseOutcome(j)
    PROVE  Inv'
<1>0. /\ TypeOK /\ SlotsInv /\ FailuresInv
      /\ inserted \in Nat /\ counters \in [CounterNames -> Nat]
      /\ UNCHANGED <<claimed, counters, inserted, client, ops, asked>>
  BY DEF Inv, TypeOK, Settle, LoseOutcome
<1>1. PICK from \in {"succeed", "retry", "bury"} : Enter(j, from, "idle")
  BY DEF Settle, LoseOutcome
<1>2. stage' \in [Jobs -> Stages] /\ SlotsInv' /\ Deciding' = Deciding
  BY <1>0, <1>1, EnterTyped, StageMoved DEF Stages
<1>3. RowWritten \/ UNCHANGED <<rowVars, reader>>
  BY <1>0, UpdateRowWrites DEF Settle, LoseOutcome, ValidStates
<1>4. FailuresInv'
  BY <1>0, <1>2 DEF FailuresInv
<1>5. TypeOK'
  BY <1>0, <1>2, <1>3 DEF TypeOK, RowWritten, rowVars
<1>6. EnqueuedInv'
  <2>1. Total \in Nat /\ deleted \in Nat /\ counters["enqueued"] \in Nat
    BY <1>0, CountsTyped DEF TypeOK, CounterNames
  <2>2. Total' \in Nat /\ deleted' \in Nat
    BY <1>5, ReportAssumption, FS_Subset, FS_CardinalityType DEF Total, TypeOK
  <2>3. Total + deleted <= Total' + deleted'
    BY <1>3, <2>1 DEF RowWritten, rowVars, Total
  <2>4. counters["enqueued"] + inserted <= Total + deleted
    BY DEF Inv, EnqueuedInv
  <2>5. counters["enqueued"] + inserted <= Total' + deleted'
    BY <1>0, <2>1, <2>2, <2>3, <2>4 DEF Total
  <2> QED BY <1>0, <2>5 DEF EnqueuedInv
<1>7. SnapshotInv'
  BY <1>0, <1>3, SnapshotKept DEF Inv, RowWritten
<1> QED BY <1>2, <1>4, <1>5, <1>6, <1>7 DEF Inv

\* A goroutine is started, or counts.
LEMMA GoroutineStep ==
    ASSUME Inv, NEW j \in Jobs,
           \/ \E f \in Flushers : Execute(f, j)
           \/ CountSuccess(j) \/ CountFailure(j) \/ CountRetry(j) \/ CountDead(j)
    PROVE  Inv'
<1>0. /\ TypeOK /\ SlotsInv /\ FailuresInv /\ EnqueuedInv /\ SnapshotInv
      /\ counters \in [CounterNames -> Nat] /\ inserted \in Nat
      /\ {"enqueued", "succeeded", "failed", "retried", "dead"} = CounterNames
      /\ claimed' \in [Flushers -> Jobs \cup {NoJob}]
      /\ UNCHANGED <<rowVars, inserted, client, ops, reader, asked>>
  BY DEF Inv, TypeOK, CounterNames, Execute, CountSuccess, CountFailure, CountRetry,
     CountDead, Counting
<1>1. IsFiniteSet(Deciding) /\ Cardinality(Deciding) \in Nat
  BY ReportAssumption, FS_Subset, FS_CardinalityType DEF Deciding
<1>2. ASSUME stage' \in [Jobs -> Stages], counters' \in [CounterNames -> Nat],
             SlotsInv', FailuresInv', counters'["enqueued"] = counters["enqueued"],
             \A n \in CounterNames : counters[n] <= counters'[n]
      PROVE  Inv'
  <2>1. TypeOK' /\ EnqueuedInv'
    BY <1>0, <1>2 DEF TypeOK, EnqueuedInv, Total, rowVars
  <2>2. SnapshotInv'
    BY <1>0, <1>2, SnapshotGrown
  <2> QED BY <1>2, <2>1, <2>2 DEF Inv
<1>3. CASE \E f \in Flushers : Execute(f, j)
  <2>1. /\ Enter(j, "idle", "run") /\ counters' = counters
        /\ Cardinality(Executing) < PoolSize
    BY <1>3 DEF Execute, Executing
  <2>2. /\ stage' \in [Jobs -> Stages] /\ stage[j] = "idle" /\ stage'[j] = "run"
        /\ \A k \in Jobs \ {j} : stage'[k] = stage[k]
    BY <1>0, <2>1, EnterTyped DEF Stages
  <2>3. Executing' = Executing \cup {j} /\ j \notin Executing /\ Deciding' = Deciding
    BY <2>2 DEF Executing, Deciding
  <2>4. Cardinality(Executing') = Cardinality(Executing) + 1
        /\ Cardinality(Executing) \in Nat
    <3>1. IsFiniteSet(Executing)
      BY ReportAssumption, FS_Subset DEF Executing
    <3> QED BY <2>3, <3>1, FS_AddElement, FS_CardinalityType
  <2>5. SlotsInv' /\ FailuresInv'
    BY <1>0, <2>1, <2>3, <2>4, ReportAssumption DEF SlotsInv, FailuresInv
  <2>6. \A n \in CounterNames : counters[n] <= counters'[n]
    BY <1>0, <2>1
  <2> QED BY <1>0, <1>2, <2>1, <2>2, <2>5, <2>6
<1>4. CASE CountSuccess(j)
  <2>1. Enter(j, "run", "succeed") /\ Inc("succeeded")
    BY <1>4 DEF CountSuccess, Counting
  <2>2. /\ stage' \in [Jobs -> Stages] /\ SlotsInv' /\ Deciding' = Deciding
    BY <1>0, <2>1, EnterTyped, StageMoved DEF Stages
  <2>3. /\ counters' \in [CounterNames -> Nat]
        /\ counters'["succeeded"] = counters["succeeded"] + 1
        /\ \A n \in CounterNames \ {"succeeded"} : counters'[n] = counters[n]
    BY <1>0, <2>1, IncTyped
  <2>4. FailuresInv'
    BY <1>0, <2>2, <2>3 DEF FailuresInv
  <2> QED BY <1>0, <1>2, <2>2, <2>3, <2>4
<1>5. CASE CountFailure(j)
  <2>1. Enter(j, "run", "decide") /\ Inc("failed")
    BY <1>5 DEF CountFailure, Counting
  <2>2. /\ stage' \in [Jobs -> Stages] /\ SlotsInv'
        /\ Cardinality(Deciding') = Cardinality(Deciding) + 1
    BY <1>0, <2>1, EnterTyped, StageMoved DEF Stages
  <2>3. /\ counters' \in [CounterNames -> Nat]
        /\ counters'["failed"] = counters["failed"] + 1
        /\ \A n \in CounterNames \ {"failed"} : counters'[n] = counters[n]
    BY <1>0, <2>1, IncTyped
  <2>4. FailuresInv'
    BY <1>0, <1>1, <2>2, <2>3 DEF FailuresInv
  <2> QED BY <1>0, <1>2, <2>2, <2>3, <2>4
<1>6. CASE CountRetry(j) \/ CountDead(j)
  <2>1. PICK to \in {"retry", "bury"}, name \in {"retried", "dead"} :
          Enter(j, "decide", to) /\ Inc(name)
    BY <1>6 DEF CountRetry, CountDead, Counting
  <2>2. /\ stage' \in [Jobs -> Stages] /\ SlotsInv'
        /\ Cardinality(Deciding) = Cardinality(Deciding') + 1
    BY <1>0, <2>1, EnterTyped, StageMoved DEF Stages
  <2>3. /\ counters' \in [CounterNames -> Nat]
        /\ counters'[name] = counters[name] + 1
        /\ \A n \in CounterNames \ {name} : counters'[n] = counters[n]
    BY <1>0, <2>1, IncTyped
  <2>4. Cardinality(Deciding') \in Nat
    BY ReportAssumption, FS_Subset, FS_CardinalityType DEF Deciding
  <2>5. FailuresInv'
    BY <1>0, <1>1, <2>1, <2>2, <2>3, <2>4 DEF FailuresInv
  <2> QED BY <1>0, <1>2, <2>1, <2>2, <2>3, <2>5
<1> QED BY <1>3, <1>4, <1>5, <1>6

LEMMA RunnerStep ==
    ASSUME Inv, CountEnqueued PROVE Inv'
<1>0. /\ TypeOK /\ SlotsInv /\ FailuresInv /\ EnqueuedInv /\ SnapshotInv
      /\ counters \in [CounterNames -> Nat] /\ inserted \in Nat
      /\ {"enqueued", "succeeded", "failed", "retried", "dead"} = CounterNames
      /\ Inc("enqueued") /\ inserted > 0 /\ inserted' = inserted - 1
      /\ UNCHANGED <<rowVars, claimed, stage, client, ops, reader, asked>>
  BY DEF Inv, TypeOK, CounterNames, CountEnqueued
<1>1. /\ counters' \in [CounterNames -> Nat]
      /\ counters'["enqueued"] = counters["enqueued"] + 1
      /\ \A n \in CounterNames \ {"enqueued"} : counters'[n] = counters[n]
  BY <1>0, IncTyped
<1>2. TypeOK'
  BY <1>0, <1>1 DEF TypeOK, rowVars
<1>3. SlotsInv' /\ FailuresInv'
  BY <1>0, <1>1, StagesKept
<1>4. EnqueuedInv'
  <2>1. Total' = Total /\ deleted' = deleted
    BY <1>0 DEF Total, rowVars
  <2>2. counters'["enqueued"] + inserted' = counters["enqueued"] + inserted
    BY <1>0, <1>1
  <2> QED BY <1>0, <2>1, <2>2 DEF EnqueuedInv
<1>5. SnapshotInv'
  <2>1. \A n \in CounterNames : counters[n] <= counters'[n]
    BY <1>0, <1>1
  <2> QED BY <1>0, <1>1, <2>1, SnapshotGrown
<1> QED BY <1>2, <1>3, <1>4, <1>5 DEF Inv

LEMMA RestartStep ==
    ASSUME Inv, Restart PROVE Inv'
<1>0. /\ TypeOK /\ EnqueuedInv
      /\ state' = [j \in Jobs |-> IF state[j] = "running" THEN "pending" ELSE state[j]]
      /\ claimed' = [f \in Flushers |-> NoJob] /\ client' = [c \in Clients |-> IdleClient]
      /\ stage' = [j \in Jobs |-> "idle"] /\ counters' = NoCounts /\ inserted' = 0
      /\ deleted' = 0
      /\ reader' = NoReader /\ ops' = ops /\ asked' = asked
  BY DEF Inv, Restart
<1>1. TypeOK'
  BY <1>0, DefaultsTyped DEF TypeOK, Stages, ValidStates
<1>2. Executing' = {} /\ Deciding' = {}
  BY <1>0 DEF Executing, Deciding
<1>3. SlotsInv' /\ FailuresInv'
  BY <1>0, <1>2, FS_EmptySet, ReportAssumption DEF SlotsInv, FailuresInv, NoCounts,
     CounterNames
<1>4. EnqueuedInv'
  <2>1. Total' \in Nat
    BY ReportAssumption, FS_Subset, FS_CardinalityType DEF Total
  <2>2. counters'["enqueued"] = 0 /\ inserted' = 0 /\ deleted' = 0
    BY <1>0 DEF NoCounts, CounterNames
  <2>3. counters'["enqueued"] + inserted' <= Total' + deleted'
    BY <2>1, <2>2 DEF Total
  <2> QED BY <2>3 DEF EnqueuedInv
<1>5. SnapshotInv'
  BY <1>0 DEF SnapshotInv, NoReader
<1> QED BY <1>1, <1>3, <1>4, <1>5 DEF Inv

\* The steps of a request change nothing but what it has read.
LEMMA ReaderStep ==
    ASSUME Inv, Ask("metrics") \/ Ask("maintenance") \/ LoadCounter \/ RunStatement
    PROVE  Inv'
<1>0. /\ TypeOK /\ SlotsInv /\ FailuresInv /\ EnqueuedInv /\ SnapshotInv
      /\ counters \in [CounterNames -> Nat] /\ PoolSize \in Nat
      /\ {"enqueued", "succeeded", "failed", "retried", "dead"} = CounterNames
      /\ UNCHANGED <<rowVars, poolVars, client, ops>>
  BY ReportAssumption DEF Inv, TypeOK, CounterNames, Ask, LoadCounter, RunStatement,
     poolVars
<1>1. SlotsInv' /\ FailuresInv'
  BY <1>0, StagesKept DEF poolVars
<1>2. EnqueuedInv'
  BY <1>0 DEF EnqueuedInv, Total, rowVars, poolVars
<1>3. ASSUME reader' \in Reader, asked' \in Nat PROVE TypeOK'
  BY <1>0, <1>3 DEF TypeOK, rowVars, poolVars
<1>4. CASE Ask("metrics") \/ Ask("maintenance")
  <2>1. PICK what \in {"metrics", "maintenance"} : Ask(what)
    BY <1>4
  <2>2. /\ reader' \in Reader /\ reader'.read = 0
    BY <2>1, DefaultsTyped DEF Ask, Reader, NoReader
  <2>3. asked' \in Nat
    BY <1>0, <2>1 DEF Ask, TypeOK
  <2>4. SnapshotInv'
    BY <2>2 DEF SnapshotInv
  <2> QED BY <1>1, <1>2, <1>3, <2>2, <2>3, <2>4 DEF Inv
<1>5. CASE LoadCounter
  <2> DEFINE name == MetricsOrder[reader.read + 1]
  <2>1. /\ reader' \in Reader /\ reader.read \in 0 .. 4 /\ reader.asks = "metrics"
        /\ reader'.read = reader.read + 1
        /\ name \in CounterNames
        /\ reader'.snapshot[name] = counters[name]
        /\ \A n \in CounterNames \ {name} :
             reader'.snapshot[n] = reader.snapshot[n]
    BY <1>0, <1>5, LoadTyped
  <2>2. asked' \in Nat
    BY <1>0, <1>5 DEF LoadCounter, TypeOK
  <2>3. name = CASE reader.read = 0 -> "enqueued" [] reader.read = 1 -> "succeeded"
                 [] reader.read = 2 -> "failed" [] reader.read = 3 -> "retried"
                 [] reader.read = 4 -> "dead"
    BY <2>1 DEF MetricsOrder
  <2> HIDE DEF name
  <2>4. \A n \in CounterNames : counters[n] \in Nat /\ reader.snapshot[n] \in Nat
    BY <1>0 DEF TypeOK, Reader
  <2>5. Cardinality(Deciding) <= PoolSize /\ Cardinality(Deciding) \in Nat
    <3>1. Deciding \subseteq Executing /\ Executing \subseteq Jobs
      BY DEF Deciding, Executing
    <3>2. /\ Cardinality(Deciding) <= Cardinality(Executing)
          /\ Cardinality(Deciding) \in Nat /\ Cardinality(Executing) \in Nat
      BY <3>1, ReportAssumption, FS_Subset, FS_CardinalityType
    <3> QED BY <1>0, <3>2 DEF SlotsInv
  <2>6. counters["failed"] <= counters["retried"] + counters["dead"] + PoolSize
    BY <1>0, <2>4, <2>5 DEF FailuresInv
  <2>7. counters' = counters
    BY <1>0 DEF poolVars
  <2>8. reader'.snapshot["enqueued"] <= counters["enqueued"]
    BY <1>0, <2>1, <2>3, <2>4 DEF SnapshotInv
  <2>9. ASSUME reader'.read >= 3
        PROVE  reader'.snapshot["failed"] <= OutcomesSeen' + PoolSize
    <3>1. CASE reader.read = 2
      BY <1>0, <2>1, <2>3, <2>6, <2>7, <3>1 DEF OutcomesSeen
    <3>2. CASE reader.read = 3
      BY <1>0, <2>1, <2>3, <2>7, <3>2 DEF OutcomesSeen, SnapshotInv
    <3>3. CASE reader.read = 4
      BY <1>0, <2>1, <2>3, <2>7, <3>3 DEF OutcomesSeen, SnapshotInv
    <3> QED BY <2>1, <2>9, <3>1, <3>2, <3>3
  <2>10. SnapshotInv'
    BY <2>7, <2>8, <2>9 DEF SnapshotInv
  <2> QED BY <1>1, <1>2, <1>3, <2>1, <2>2, <2>10 DEF Inv
<1>6. CASE RunStatement
  <2>1. reader' \in Reader /\ reader'.asks = "maintenance"
    BY <1>0, <1>6, StatementTyped
  <2>2. asked' \in Nat
    BY <1>0, <1>6 DEF RunStatement, TypeOK
  <2>3. SnapshotInv'
    BY <2>1 DEF SnapshotInv
  <2> QED BY <1>1, <1>2, <1>3, <2>1, <2>2, <2>3 DEF Inv
<1> QED BY <1>4, <1>5, <1>6

LEMMA NextInv == Inv /\ [Next]_vars => Inv'
<1> SUFFICES ASSUME Inv, [Next]_vars PROVE Inv'
  OBVIOUS
<1>1. ASSUME NEW j \in Jobs,
             \/ \E f \in Flushers : Claim(f, j) \/ Execute(f, j)
             \/ CountSuccess(j) \/ CountFailure(j) \/ CountRetry(j) \/ CountDead(j)
             \/ Settle(j) \/ LoseOutcome(j)
             \/ \E byRunner \in BOOLEAN : Insert(j, byRunner)
             \/ \E c \in Clients, to \in {"pending", "cancelled"} : ReadRow(c, j, to)
             \/ RequeueDead(j) \/ DeleteRow(j)
      PROVE  Inv'
  BY <1>1, RowStep, GoroutineStep, SettleStep, RequestStep
<1>2. CASE (\E f \in Flushers : DropClaim(f)) \/ (\E c \in Clients : WriteRow(c))
  BY <1>2, RequestStep
<1>3. CASE CountEnqueued
  BY <1>3, RunnerStep
<1>4. CASE Restart
  BY <1>4, RestartStep
<1>5. CASE Ask("metrics") \/ Ask("maintenance") \/ LoadCounter \/ RunStatement
  BY <1>5, ReaderStep
<1>6. CASE UNCHANGED vars
  <2>1. UNCHANGED <<state, deleted, stage, counters, inserted, reader, asked, claimed,
                    client, ops>>
    BY <1>6 DEF vars, rowVars, poolVars
  <2>2. ops' \in Nat /\ claimed' \in [Flushers -> Jobs \cup {NoJob}]
        /\ client' \in [Clients -> Client]
    BY <2>1 DEF Inv, TypeOK
  <2> QED BY <2>1, <2>2, BookkeepingKeeps DEF rowVars
<1> QED BY <1>1, <1>2, <1>3, <1>4, <1>5, <1>6 DEF Next

-----------------------------------------------------------------------------

LEMMA InvHolds == Spec => []Inv
BY InitInv, NextInv, PTL DEF Spec

\* Counters, rows and the request keep their types.
THEOREM ReportTypeCorrect == Spec => []TypeOK
<1>1. Inv => TypeOK
  BY DEF Inv
<1> QED BY <1>1, InvHolds, PTL

\* However increments fall between the loads of Counters.Read, the failures in a
\* snapshot exceed the outcomes by no more than the goroutines that fit the pool,
\* and the jobs enqueued exceed the table by no more than what requests deleted.
THEOREM SnapshotsAreBounded == Spec => []SnapshotBounded
<1>1. Inv => SnapshotBounded
  <2> SUFFICES ASSUME Inv, SnapshotTaken
               PROVE  LET s == reader.snapshot
                      IN  /\ s["failed"] <= s["retried"] + s["dead"] + PoolSize
                          /\ s["enqueued"] <= Total + deleted
    BY DEF SnapshotBounded
  <2>1. reader.asks = "metrics" /\ reader.read = 5
    BY DEF SnapshotTaken, MetricsOrder
  <2>2. reader.snapshot["failed"]
          <= reader.snapshot["retried"] + reader.snapshot["dead"] + PoolSize
    BY <2>1 DEF Inv, SnapshotInv, OutcomesSeen
  <2>3. reader.snapshot["enqueued"] <= Total + deleted
    <3>1. /\ reader.snapshot["enqueued"] \in Nat /\ counters["enqueued"] \in Nat
          /\ inserted \in Nat /\ Total \in Nat /\ deleted \in Nat
      BY CountsTyped DEF Inv, TypeOK, Reader, CounterNames
    <3>2. /\ reader.snapshot["enqueued"] <= counters["enqueued"]
          /\ counters["enqueued"] + inserted <= Total + deleted
      BY <2>1 DEF Inv, SnapshotInv, EnqueuedInv
    <3> QED BY <3>1, <3>2
  <2> QED BY <2>2, <2>3
<1> QED BY <1>1, InvHolds, PTL

-----------------------------------------------------------------------------
(* The maintenance report. *)

Reported == reader.report

\* What the statements run so far have answered, against the table as it is now and
\* the rows that have left it, or left its dead letters, since the request came.
AccountedInv ==
    /\ reader.read \in 1 .. 5 => Reported.total <= Total + reader.gone
    /\ reader.read \in 2 .. 5 => Reported.byState["dead"] <= CountIn("dead") + reader.revived
    /\ reader.read \in 3 .. 5 => Reported.deadLetters <= CountIn("dead") + reader.revived
    /\ reader.read >= 3 => Reported.byState["dead"] <= Reported.deadLetters + reader.revived
    /\ reader.read >= 6 =>
         /\ Reported.total <= Reported.capacity.pending + Reported.capacity.running
                               + Reported.capacity.terminal + reader.gone
         /\ Reported.deadLetters <= Reported.capacity.terminal + reader.revived

\* Of one table: total, byState, deadLetters, due, oldest, capacity.
SameTable(r, n) ==
    /\ n \in 1 .. 5 => r.total = Total
    /\ n \in 2 .. 5 => r.byState = ByState
    /\ n \in 3 .. 5 => r.deadLetters = CountIn("dead")
    /\ n \in 4 .. 5 => r.due <= CountIn("pending")
    /\ n \in 5 .. 5 => (r.oldest <=> OldestPending)

Exact(r) ==
    /\ r.total = r.capacity.pending + r.capacity.running + r.capacity.terminal
    /\ r.capacity.running = r.byState["running"]
    /\ r.deadLetters = r.byState["dead"]
    /\ r.due <= r.capacity.pending
    /\ r.oldest <=> r.byState["pending"] # 0

\* While no row has moved.
QuietInv ==
    /\ SameTable(Reported, reader.read)
    /\ reader.read >= 6 => Exact(Reported)

MaintenanceInv ==
    reader.asks = "maintenance" => AccountedInv /\ (~reader.moved => QuietInv)

\* Every row is in one of the six states.
LEMMA StatesPartition ==
    ASSUME TypeOK
    PROVE  Total = CountIn("pending") + CountIn("scheduled") + CountIn("running")
                     + CountIn("succeeded") + CountIn("dead") + CountIn("cancelled")
<1> DEFINE In(x) == {j \in Jobs : state[j] = x}
           Up1 == In("pending") \cup In("scheduled")
           Up2 == Up1 \cup In("running")
           Up3 == Up2 \cup In("succeeded")
           Up4 == Up3 \cup In("dead")
           Up5 == Up4 \cup In("cancelled")
<1>1. ASSUME NEW S, NEW T, IsFiniteSet(S), IsFiniteSet(T), S \cap T = {}
      PROVE  /\ IsFiniteSet(S \cup T)
             /\ Cardinality(S \cup T) = Cardinality(S) + Cardinality(T)
  <2>1. Cardinality(S \cap T) = 0
    BY <1>1, FS_EmptySet
  <2>2. Cardinality(S) \in Nat /\ Cardinality(T) \in Nat
    BY <1>1, FS_CardinalityType
  <2>3. /\ IsFiniteSet(S \cup T)
        /\ Cardinality(S \cup T)
             = Cardinality(S) + Cardinality(T) - Cardinality(S \cap T)
    BY <1>1, FS_Union
  <2> QED BY <2>1, <2>2, <2>3
<1>2. \A x : IsFiniteSet(In(x)) /\ Cardinality(In(x)) = CountIn(x)
  BY ReportAssumption, FS_Subset DEF CountIn
<1>3. /\ In("pending") \cap In("scheduled") = {} /\ Up1 \cap In("running") = {}
      /\ Up2 \cap In("succeeded") = {} /\ Up3 \cap In("dead") = {}
      /\ Up4 \cap In("cancelled") = {}
  OBVIOUS
<1>4. Up5 = {j \in Jobs : state[j] # "absent"}
  BY DEF TypeOK, ValidStates
<1> HIDE DEF In
<1>5. IsFiniteSet(Up1) /\ Cardinality(Up1) = CountIn("pending") + CountIn("scheduled")
  BY <1>1, <1>2, <1>3
<1> HIDE DEF Up1
<1>6. IsFiniteSet(Up2) /\ Cardinality(Up2) = Cardinality(Up1) + CountIn("running")
  BY <1>1, <1>2, <1>3, <1>5
<1> HIDE DEF Up2
<1>7. IsFiniteSet(Up3) /\ Cardinality(Up3) = Cardinality(Up2) + CountIn("succeeded")
  BY <1>1, <1>2, <1>3, <1>6
<1> HIDE DEF Up3
<1>8. IsFiniteSet(Up4) /\ Cardinality(Up4) = Cardinality(Up3) + CountIn("dead")
  BY <1>1, <1>2, <1>3, <1>7
<1> HIDE DEF Up4
<1>9. Cardinality(Up5) = Cardinality(Up4) + CountIn("cancelled")
  BY <1>1, <1>2, <1>3, <1>8
<1> QED BY <1>4, <1>5, <1>6, <1>7, <1>8, <1>9 DEF Total

\* The whole table, as Capacity sorts it.
LEMMA CapacityIsTotal ==
    ASSUME TypeOK
    PROVE  LET c == Capacity(ByState)
           IN  /\ c.pending + c.running + c.terminal = Total
               /\ CountIn("dead") <= c.terminal
               /\ CountIn("pending") <= c.pending
               /\ c.running = ByState["running"]
<1>1. \A x : CountIn(x) \in Nat
  BY CountsTyped
<1>2. \A x \in ValidStates : ByState[x] = CountIn(x)
  BY DEF ByState
<1> QED BY <1>1, <1>2, StatesPartition DEF Capacity, ValidStates

LEMMA PendingCounted == OldestPending <=> CountIn("pending") # 0
<1> DEFINE P == {j \in Jobs : state[j] = "pending"}
<1>1. IsFiniteSet(P)
  BY ReportAssumption, FS_Subset
<1>2. (P = {}) <=> (Cardinality(P) = 0)
  BY <1>1, FS_EmptySet
<1> QED BY <1>2 DEF OldestPending, CountIn

\* What one more statement adds to the report.
LEMMA StatementAnswers ==
    ASSUME TypeOK, RunStatement
    PROVE  LET n == reader.read
               r == reader.report
               new == reader'.report
           IN  /\ n \in 0 .. 5 /\ reader'.read = n + 1
               /\ reader'.moved = reader.moved /\ reader'.gone = reader.gone
               /\ reader'.revived = reader.revived
               /\ reader.asks = "maintenance" /\ reader'.asks = "maintenance"
               /\ new.total = IF n = 0 THEN Total ELSE r.total
               /\ new.byState = IF n = 1 THEN ByState ELSE r.byState
               /\ new.deadLetters = IF n = 2 THEN CountIn("dead") ELSE r.deadLetters
               /\ IF n = 3 THEN new.due <= CountIn("pending") ELSE new.due = r.due
               /\ new.oldest = IF n = 4 THEN OldestPending ELSE r.oldest
               /\ new.capacity = IF n = 5 THEN Capacity(ByState) ELSE r.capacity
<1> DEFINE n == reader.read
           name == MaintenanceOrder[n + 1]
           r == reader.report
           Answer(due) ==
             CASE name = "total"       -> [r EXCEPT !.total = Total]
               [] name = "byState"     -> [r EXCEPT !.byState = ByState]
               [] name = "deadLetters" -> [r EXCEPT !.deadLetters = CountIn("dead")]
               [] name = "due"         -> [r EXCEPT !.due = due]
               [] name = "oldest"      -> [r EXCEPT !.oldest = OldestPending]
               [] name = "capacity"    -> [r EXCEPT !.capacity = Capacity(ByState)]
<1>1. PICK due \in DueCounts :
        reader' = [reader EXCEPT !.read = @ + 1, !.report = Answer(due)]
  BY DEF RunStatement
<1>2. due <= CountIn("pending")
  BY DEF DueCounts
<1>3. /\ r \in Report /\ reader \in Reader /\ n \in Nat
      /\ reader.asks = "maintenance"
  BY DEF TypeOK, Reader, RunStatement
<1>4. n \in 0 .. 5
  BY <1>3 DEF RunStatement, MaintenanceOrder
<1>5. name = CASE n = 0 -> "total" [] n = 1 -> "byState" [] n = 2 -> "deadLetters"
               [] n = 3 -> "due" [] n = 4 -> "oldest" [] n = 5 -> "capacity"
  BY <1>4 DEF MaintenanceOrder
<1> HIDE DEF name
<1>6. /\ reader'.read = n + 1 /\ reader'.moved = reader.moved
      /\ reader'.gone = reader.gone /\ reader'.revived = reader.revived
      /\ reader'.asks = "maintenance" /\ reader'.report = Answer(due)
  BY <1>1, <1>3 DEF Reader
<1> DEFINE new == reader'.report
<1> HIDE DEF r, n, new
<1>7. new = Answer(due)
  BY <1>6 DEF new
<1>8. /\ new.total = IF n = 0 THEN Total ELSE r.total
      /\ new.byState = IF n = 1 THEN ByState ELSE r.byState
      /\ new.deadLetters = IF n = 2 THEN CountIn("dead") ELSE r.deadLetters
      /\ new.due = IF n = 3 THEN due ELSE r.due
      /\ new.oldest = IF n = 4 THEN OldestPending ELSE r.oldest
      /\ new.capacity = IF n = 5 THEN Capacity(ByState) ELSE r.capacity
  <2>1. CASE n = 0
    BY <1>3, <1>5, <1>7, <2>1 DEF Report
  <2>2. CASE n = 1
    BY <1>3, <1>5, <1>7, <2>2 DEF Report
  <2>3. CASE n = 2
    BY <1>3, <1>5, <1>7, <2>3 DEF Report
  <2>4. CASE n = 3
    BY <1>3, <1>5, <1>7, <2>4 DEF Report
  <2>5. CASE n = 4
    BY <1>3, <1>5, <1>7, <2>5 DEF Report
  <2>6. CASE n = 5
    BY <1>3, <1>5, <1>7, <2>6 DEF Report
  <2> QED BY <1>4, <2>1, <2>2, <2>3, <2>4, <2>5, <2>6
<1>9. IF n = 3 THEN new.due <= CountIn("pending") ELSE new.due = r.due
  BY <1>2, <1>8
<1> QED BY <1>3, <1>4, <1>6, <1>8, <1>9 DEF r, n, new

\* A row is written while a report is made, or before it or after.
LEMMA WriteAccounted ==
    ASSUME TypeOK, MaintenanceInv, RowWritten
    PROVE  MaintenanceInv'
<1>1. CASE ~ReportPending
  <2>1. reader' = reader
    BY <1>1 DEF RowWritten
  <2>2. ASSUME reader.asks = "maintenance" PROVE reader.read >= 6
    <3>1. reader.read \in Nat
      BY DEF TypeOK, Reader
    <3> QED BY <1>1, <2>2, <3>1 DEF ReportPending, MaintenanceOrder
  <2>3. ASSUME reader.asks = "maintenance", AccountedInv PROVE AccountedInv'
    <3>1. ~(reader.read \in 1 .. 5) /\ ~(reader.read \in 2 .. 5) /\ ~(reader.read \in 3 .. 5)
      BY <2>2, <2>3
    <3> QED BY <2>1, <2>3, <3>1 DEF AccountedInv, Reported
  <2>4. ASSUME reader.asks = "maintenance", QuietInv PROVE QuietInv'
    <3>1. \A n \in 1 .. 5 : ~(reader.read \in n .. 5)
      BY <2>2, <2>4
    <3> QED BY <2>1, <2>4, <3>1 DEF QuietInv, SameTable, Exact, Reported
  <2> QED BY <2>1, <2>3, <2>4 DEF MaintenanceInv
<1>2. CASE ReportPending
  <2>1. /\ reader.asks = "maintenance" /\ reader.read \in 0 .. 5
        /\ reader \in Reader /\ reader.gone \in Nat /\ reader.revived \in Nat
        /\ Reported.total \in Nat /\ Reported.deadLetters \in Nat
        /\ Reported.byState["dead"] \in Nat
    BY <1>2 DEF ReportPending, MaintenanceOrder, TypeOK, Reader, Report, Reported, ValidStates
  <2>2. /\ reader'.asks = reader.asks /\ reader'.read = reader.read
        /\ reader'.report = reader.report /\ reader'.moved
        /\ reader'.gone \in Nat /\ reader'.revived \in Nat
    BY <1>2 DEF RowWritten, Reader
  <2>3. /\ Total + reader.gone <= Total' + reader'.gone
        /\ CountIn("dead") + reader.revived <= CountIn("dead")' + reader'.revived
        /\ reader.revived <= reader'.revived
        /\ Total \in Nat /\ CountIn("dead") \in Nat
        /\ Total' \in Nat /\ CountIn("dead")' \in Nat
    <3>1. Total \in Nat /\ CountIn("dead") \in Nat
      BY CountsTyped
    <3>2. Total' \in Nat /\ CountIn("dead")' \in Nat
      BY ReportAssumption, FS_Subset, FS_CardinalityType DEF Total, CountIn
    <3> QED BY <1>2, <3>1, <3>2 DEF RowWritten
  <2>4. AccountedInv'
    <3>1. AccountedInv
      BY <2>1 DEF MaintenanceInv
    <3>2. Reported' = Reported
      BY <2>2 DEF Reported
    <3>3. /\ reader.read \in 1 .. 5 => Reported.total <= Total' + reader'.gone
          /\ reader.read \in 2 .. 5
               => Reported.byState["dead"] <= CountIn("dead")' + reader'.revived
          /\ reader.read \in 3 .. 5
               => Reported.deadLetters <= CountIn("dead")' + reader'.revived
      BY <2>1, <2>2, <2>3, <3>1 DEF AccountedInv
    <3>4. reader.read >= 3
            => Reported.byState["dead"] <= Reported.deadLetters + reader'.revived
      BY <2>1, <2>2, <2>3, <3>1 DEF AccountedInv
    <3> QED BY <2>1, <2>2, <3>2, <3>3, <3>4 DEF AccountedInv
  <2> QED BY <2>2, <2>4 DEF MaintenanceInv
<1> QED BY <1>1, <1>2

LEMMA MaintenanceStep ==
    ASSUME Inv, Inv', MaintenanceInv, [Next]_vars
    PROVE  MaintenanceInv'
<1>0. /\ TypeOK /\ TypeOK' /\ reader \in Reader /\ reader.read \in Nat
      /\ reader.gone \in Nat /\ reader.revived \in Nat
      /\ Reported \in Report /\ Reported.total \in Nat
      /\ Reported.deadLetters \in Nat /\ Reported.byState["dead"] \in Nat
      /\ Total \in Nat /\ CountIn("dead") \in Nat
  <2>1. TypeOK /\ TypeOK' /\ reader \in Reader
    BY DEF Inv, TypeOK
  <2>2. /\ reader.read \in Nat /\ Reported \in Report
        /\ reader.gone \in Nat /\ reader.revived \in Nat
    BY <2>1 DEF Reader, Reported
  <2> QED BY <2>1, <2>2, CountsTyped DEF Report, ValidStates
<1>1. ASSUME UNCHANGED <<state, reader>> PROVE MaintenanceInv'
  BY <1>1 DEF MaintenanceInv, AccountedInv, QuietInv, SameTable, Exact, Reported, Total,
     CountIn, ByState, OldestPending
<1>2. ASSUME RowWritten \/ UNCHANGED <<rowVars, reader>> PROVE MaintenanceInv'
  BY <1>0, <1>1, <1>2, WriteAccounted DEF rowVars
<1>3. ASSUME NEW j \in Jobs,
             \/ \E f \in Flushers : Claim(f, j)
             \/ Settle(j)
             \/ \E byRunner \in BOOLEAN : Insert(j, byRunner)
             \/ RequeueDead(j) \/ DeleteRow(j)
      PROVE  MaintenanceInv'
  <2>1. CASE Settle(j)
    BY <1>0, <1>2, <2>1, UpdateRowWrites DEF Settle, ValidStates
  <2>2. CASE ~Settle(j)
    <3>1. \E to \in ValidStates \cup {"absent"} : PutRow(j, to)
      BY <1>3, <2>2 DEF Claim, Insert, RequeueDead, DeleteRow, ValidStates
    <3> QED BY <1>0, <1>2, <3>1, PutRowWrites
  <2> QED BY <2>1, <2>2
<1>4. ASSUME NEW c \in Clients, WriteRow(c) PROVE MaintenanceInv'
  <2>1. client[c].job \in Jobs /\ client[c].to \in ValidStates
    BY <1>0, <1>4 DEF WriteRow, TypeOK, Client, ValidStates
  <2> QED BY <1>0, <1>2, <1>4, <2>1, UpdateRowWrites DEF WriteRow
<1>5. ASSUME NEW j \in Jobs,
             \/ \E f \in Flushers : Execute(f, j)
             \/ CountSuccess(j) \/ CountFailure(j)
             \/ CountRetry(j) \/ CountDead(j) \/ LoseOutcome(j)
             \/ \E c \in Clients, to \in {"pending", "cancelled"} : ReadRow(c, j, to)
      PROVE  MaintenanceInv'
  BY <1>1, <1>5 DEF Execute, CountSuccess, CountFailure, CountRetry, CountDead,
     Counting, LoseOutcome, ReadRow, rowVars
<1>6. CASE (\E f \in Flushers : DropClaim(f)) \/ CountEnqueued \/ UNCHANGED vars
  BY <1>1, <1>6 DEF DropClaim, CountEnqueued, vars, rowVars
<1>7. CASE Restart
  BY <1>7 DEF Restart, NoReader, MaintenanceInv
<1>8. ASSUME NEW what \in {"metrics", "maintenance"}, Ask(what) PROVE MaintenanceInv'
  <2>1. reader'.read = 0
    BY <1>8 DEF Ask, NoReader
  <2> QED BY <2>1 DEF MaintenanceInv, AccountedInv, QuietInv, SameTable
<1>9. CASE LoadCounter
  <2>1. reader.asks = "metrics" /\ reader'.asks = "metrics"
    BY <1>0, <1>9 DEF LoadCounter, Reader
  <2> QED BY <2>1 DEF MaintenanceInv
<1>10. CASE RunStatement
  <2> DEFINE n == reader.read
             r == reader.report
             new == reader'.report
             g == reader.gone
             v == reader.revived
  <2>1. /\ n \in 0 .. 5 /\ reader'.read = n + 1
        /\ reader'.moved = reader.moved /\ reader'.gone = g /\ reader'.revived = v
        /\ reader.asks = "maintenance" /\ reader'.asks = "maintenance"
        /\ new.total = IF n = 0 THEN Total ELSE r.total
        /\ new.byState = IF n = 1 THEN ByState ELSE r.byState
        /\ new.deadLetters = IF n = 2 THEN CountIn("dead") ELSE r.deadLetters
        /\ IF n = 3 THEN new.due <= CountIn("pending") ELSE new.due = r.due
        /\ new.oldest = IF n = 4 THEN OldestPending ELSE r.oldest
        /\ new.capacity = IF n = 5 THEN Capacity(ByState) ELSE r.capacity
    BY <1>0, <1>10, StatementAnswers
  <2>2. state' = state
    BY <1>10 DEF RunStatement, rowVars
  <2>3. /\ Total' = Total /\ \A x : CountIn(x)' = CountIn(x)
        /\ ByState' = ByState /\ OldestPending' = OldestPending
    BY <2>2 DEF Total, CountIn, ByState, OldestPending
  <2>4. AccountedInv /\ (~reader.moved => QuietInv)
    BY <2>1 DEF MaintenanceInv
  <2>5. /\ Capacity(ByState).pending + Capacity(ByState).running
             + Capacity(ByState).terminal = Total
        /\ CountIn("dead") <= Capacity(ByState).terminal
        /\ CountIn("pending") <= Capacity(ByState).pending
        /\ Capacity(ByState).running = ByState["running"]
        /\ Capacity(ByState).terminal \in Nat /\ Capacity(ByState).pending \in Nat
        /\ ByState["dead"] = CountIn("dead") /\ ByState["pending"] = CountIn("pending")
        /\ CountIn("pending") \in Nat
    BY <1>0, CapacityIsTotal, CountsTyped DEF Capacities, ByState, ValidStates
  <2>6. /\ r.total \in Nat /\ r.deadLetters \in Nat /\ r.byState["dead"] \in Nat
        /\ r.due \in Nat /\ g \in Nat /\ v \in Nat
    BY <1>0 DEF Reported, Report
  <2> HIDE DEF n, r, new, g, v
  <2>7. AccountedInv'
    <3>1. /\ n \in 1 .. 5 => r.total <= Total + g
          /\ n \in 2 .. 5 => r.byState["dead"] <= CountIn("dead") + v
          /\ n \in 3 .. 5 => r.deadLetters <= CountIn("dead") + v
          /\ n >= 3 => r.byState["dead"] <= r.deadLetters + v
      BY <2>4 DEF AccountedInv, n, r, g, v, Reported
    <3>2. /\ n + 1 \in 1 .. 5 => new.total <= Total + g
          /\ n + 1 \in 2 .. 5 => new.byState["dead"] <= CountIn("dead") + v
          /\ n + 1 \in 3 .. 5 => new.deadLetters <= CountIn("dead") + v
          /\ n + 1 >= 3 => new.byState["dead"] <= new.deadLetters + v
      BY <1>0, <2>1, <2>5, <2>6, <3>1
    <3>3. ASSUME n + 1 >= 6
          PROVE  /\ new.total <= new.capacity.pending + new.capacity.running
                                   + new.capacity.terminal + g
                 /\ new.deadLetters <= new.capacity.terminal + v
      <4>1. n = 5
        BY <2>1, <3>3
      <4>2. /\ new.total = r.total /\ new.deadLetters = r.deadLetters
            /\ new.capacity = Capacity(ByState)
        BY <2>1, <4>1
      <4>3. r.total <= Total + g /\ r.deadLetters <= CountIn("dead") + v
        BY <3>1, <4>1
      <4> QED BY <1>0, <2>5, <2>6, <4>2, <4>3
    <3> QED BY <2>1, <2>3, <3>2, <3>3 DEF AccountedInv, new, Reported
  <2>8. ASSUME ~reader.moved PROVE QuietInv'
    <3>1. SameTable(r, n)
      BY <2>4, <2>8 DEF QuietInv, n, r, Reported
    <3>2. SameTable(new, n + 1)
      BY <2>1, <3>1 DEF SameTable
    <3>3. ASSUME n + 1 >= 6 PROVE Exact(new)
      <4>1. n = 5
        BY <2>1, <3>3
      <4>2. /\ new.total = r.total /\ new.deadLetters = r.deadLetters
            /\ new.byState = r.byState /\ new.due = r.due /\ new.oldest = r.oldest
            /\ new.capacity = Capacity(ByState)
        BY <2>1, <4>1
      <4>3. /\ r.total = Total /\ r.byState = ByState /\ r.deadLetters = CountIn("dead")
            /\ r.due <= CountIn("pending") /\ (r.oldest <=> OldestPending)
        BY <3>1, <4>1 DEF SameTable
      <4> QED BY <2>5, <2>6, <4>2, <4>3, PendingCounted DEF Exact
    <3> QED BY <2>1, <2>3, <3>2, <3>3 DEF QuietInv, SameTable, Exact, new, Reported
  <2> QED BY <2>1, <2>7, <2>8 DEF MaintenanceInv
<1> QED BY <1>3, <1>4, <1>5, <1>6, <1>7, <1>8, <1>9, <1>10 DEF Next

LEMMA MaintenanceHolds == Spec => [](Inv /\ MaintenanceInv)
<1>1. Init => MaintenanceInv
  BY DEF Init, NoReader, MaintenanceInv
<1> QED BY <1>1, InvHolds, MaintenanceStep, PTL DEF Spec

\* Stats, DueCount, OldestPending and Capacity see the table at six moments.  Of the
\* rows counted in the total, the later counts miss only such as were deleted between
\* two statements, and of the dead letters only such as left that state: whatever
\* the pool, the runner, restarts and the requests that insert, retry, cancel, requeue
\* and delete do to the rows meanwhile.
THEOREM ReportGapsAreBounded == Spec => []ReportGapsBounded
<1>1. MaintenanceInv => ReportGapsBounded
  BY DEF MaintenanceInv, AccountedInv, Reported, ReportGapsBounded, ReportMade,
     MaintenanceOrder
<1> QED BY <1>1, MaintenanceHolds, PTL

\* When no row changed between the first statement of a report and the last, its
\* parts are those of one table.
THEOREM QuietReportsAreExact == Spec => []QuietReportIsExact
<1>1. MaintenanceInv => QuietReportIsExact
  BY DEF MaintenanceInv, QuietInv, Exact, Reported, QuietReportIsExact, ReportMade,
     MaintenanceOrder
<1> QED BY <1>1, MaintenanceHolds, PTL
=============================================================================
