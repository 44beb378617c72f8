-------------------------- MODULE TickerFaultsProofs --------------------------
(***************************************************************************)
(* What failing statements and restarts can cost while the ticker runs the *)
(* only Flush: entries missing from a job's attempt log, entries twice in  *)
(* it, and rows left running with nobody to settle them.                   *)
(***************************************************************************)
EXTENDS TickerAloneProofs

-----------------------------------------------------------------------------
(* The attempt log. *)

FailureEntry(j, i) ==
    \E k \in 1 .. Len(attempts[j]) : attempts[j][k] = [idx |-> i, ok |-> FALSE]

\* The attempt is yet to be recorded.
ToRecord(w, j) ==
    worker[w].pc \in {"start", "handle", "record"} /\ worker[w].copy.id = j

\* The attempt has been recorded, or its insert has failed.
Recorded(w, j) == worker[w].pc \in {"count", "settle"} /\ worker[w].copy.id = j

\* Numbers of failures that have no entry, the attempt under way included.
Lost(j) ==
    {i \in 0 .. jobs[j].attempts :
        /\ ~FailureEntry(j, i)
        /\ \/ i < jobs[j].attempts
           \/ \E w \in Workers : Recorded(w, j) /\ worker[w].failed}

\* The next entry of j is yet to be written, and it will be the first of its
\* attempt unless a restart has cut an earlier one short.
Unrecorded(j) ==
    \/ jobs[j].state \notin {"running", "succeeded"}
    \/ \E f \in Flushers : ClaimedByFlusher(f, j)
    \/ \E w \in Workers : ToRecord(w, j)

LogShort(j) ==
    /\ Len(attempts[j]) <= jobs[j].attempts + crashes + 1
    /\ Unrecorded(j) => Len(attempts[j]) <= jobs[j].attempts + crashes

LogOrdered(j) ==
    /\ \A k \in 1 .. Len(attempts[j]) : attempts[j][k].idx <= jobs[j].attempts
    /\ \A k \in 2 .. Len(attempts[j]) : attempts[j][k - 1].idx <= attempts[j][k].idx

LossesCharged(j) == Cardinality(Lost(j)) <= faults

LogInv == \A j \in Jobs : LogShort(j) /\ LogOrdered(j) /\ LossesCharged(j)

LEMMA LostFinite ==
    ASSUME TypeOK, NEW j \in Jobs
    PROVE  IsFiniteSet(Lost(j)) /\ Cardinality(Lost(j)) \in Nat
<1>1. 0 \in Int /\ jobs[j].attempts \in Int
  BY DEF TypeOK, StoreTypeOK, Row
<1>2. IsFiniteSet(0 .. jobs[j].attempts)
  BY <1>1, FS_Interval
<1>3. Lost(j) \in SUBSET (0 .. jobs[j].attempts)
  BY DEF Lost
<1> QED BY <1>2, <1>3, FS_Subset, FS_CardinalityType

LEMMA FewerLost ==
    ASSUME TypeOK, NEW j \in Jobs, LossesCharged(j), Lost(j)' \subseteq Lost(j),
           faults <= faults', faults' \in Nat
    PROVE  LossesCharged(j)'
<1>1. Cardinality(Lost(j)') <= Cardinality(Lost(j)) /\ Cardinality(Lost(j)') \in Nat
  BY LostFinite, FS_Subset, FS_CardinalityType
<1>2. faults \in Nat
  BY DEF TypeOK
<1> QED BY <1>1, <1>2, LostFinite DEF LossesCharged

\* A step that writes no log and counts no attempt.
LEMMA LogStands ==
    ASSUME TypeOK, TypeOK', LogInv, faults <= faults', crashes <= crashes',
           NEW j \in Jobs, attempts'[j] = attempts[j],
           jobs'[j].attempts = jobs[j].attempts,
           crashes < crashes' \/ (Unrecorded(j)' => Unrecorded(j)),
           \A w \in Workers : Recorded(w, j)' /\ worker'[w].failed
                                => Recorded(w, j) /\ worker[w].failed
    PROVE  LogShort(j)' /\ LogOrdered(j)' /\ LossesCharged(j)'
<1>0. /\ crashes \in Nat /\ crashes' \in Nat /\ faults' \in Nat
      /\ jobs[j].attempts \in Nat /\ Len(attempts[j]) \in Nat
      /\ LogShort(j) /\ LogOrdered(j) /\ LossesCharged(j)
  BY DEF TypeOK, StoreTypeOK, Row, LogInv
<1>1. LogShort(j)'
  BY <1>0 DEF LogShort
<1>2. LogOrdered(j)'
  BY <1>0 DEF LogOrdered
<1>3. Lost(j)' \subseteq Lost(j)
  BY DEF Lost, FailureEntry
<1>4. LossesCharged(j)'
  BY <1>0, <1>3, FewerLost
<1> QED BY <1>1, <1>2, <1>4

LEMMA UnrecordedStands ==
    ASSUME NEW j \in Jobs, jobs'[j].state = jobs[j].state \/ Unrecorded(j),
           \A f \in Flushers : ClaimedByFlusher(f, j)' => Unrecorded(j),
           \A w \in Workers : ToRecord(w, j)' => Unrecorded(j)
    PROVE  Unrecorded(j)' => Unrecorded(j)
BY DEF Unrecorded

\* A goroutine moves on without recording or settling.
LEMMA GoroutineLogs ==
    ASSUME TypeOK, TypeOK', LogInv, NEW w \in Workers, UNCHANGED <<jobs, attempts, flusher>>,
           faults <= faults', crashes <= crashes',
           \A v \in Workers \ {w} : worker'[v] = worker[v],
           \A j \in Jobs : /\ ToRecord(w, j)' => ToRecord(w, j)
                           /\ Recorded(w, j)' /\ worker'[w].failed
                                => Recorded(w, j) /\ worker[w].failed
    PROVE  LogInv'
<1> SUFFICES ASSUME NEW j \in Jobs PROVE LogShort(j)' /\ LogOrdered(j)' /\ LossesCharged(j)'
  BY DEF LogInv
<1>1. \A v \in Workers : /\ ToRecord(v, j)' => ToRecord(v, j)
                         /\ Recorded(v, j)' /\ worker'[v].failed
                              => Recorded(v, j) /\ worker[v].failed
  BY DEF ToRecord, Recorded
<1>2. \A f \in Flushers : ClaimedByFlusher(f, j)' => ClaimedByFlusher(f, j)
  BY DEF ClaimedByFlusher
<1>3. Unrecorded(j)' => Unrecorded(j)
  BY <1>1, <1>2 DEF Unrecorded
<1> QED BY <1>1, <1>3, LogStands

\* The attempt is numbered by the goroutine's copy, which is as old as the row.
LEMMA RecordLogs ==
    ASSUME TypeOK, TypeOK', PoolInv, FreshInv, LogInv, NEW w \in Workers, WorkerRecord(w),
           UNCHANGED <<crashes, faults>>
    PROVE  LogInv'
<1>p. PICK id \in Jobs : id = worker[w].copy.id
  BY DEF TypeOK, PoolTypeOK, Worker, Copy
<1>n. PICK n \in Nat : n = jobs[id].attempts
  BY DEF TypeOK, StoreTypeOK, Row
<1> DEFINE entry == [idx |-> worker[w].copy.row.attempts, ok |-> ~worker[w].failed]
<1>0. /\ worker \in [Workers -> Worker] /\ attempts \in [Jobs -> Seq(Attempt)]
      /\ worker[w].pc = "record" /\ UNCHANGED <<jobs, flusher>>
      /\ attempts' = [attempts EXCEPT ![id] = Append(attempts[id], entry)]
      /\ worker[w].copy.row.attempts = jobs[id].attempts
      /\ jobs[id].attempts \in Nat /\ crashes \in Nat /\ faults \in Nat
  BY <1>p DEF TypeOK, StoreTypeOK, PoolTypeOK, Row, WorkerRecord, RecordAttempt, FreshInv,
     CopyFresh
<1>1. /\ worker'[w].pc = "count" /\ worker'[w].copy = worker[w].copy
      /\ worker'[w].failed = worker[w].failed
      /\ \A v \in Workers \ {w} : worker'[v] = worker[v]
  BY <1>0 DEF WorkerRecord, Worker
<1>2. /\ entry \in Attempt /\ entry.idx = jobs[id].attempts
      /\ worker[w].failed => entry = [idx |-> jobs[id].attempts, ok |-> FALSE]
  BY <1>0 DEF Attempt, Worker
<1> HIDE DEF entry
<1>3. /\ Len(attempts[id]) \in Nat
      /\ attempts'[id] = Append(attempts[id], entry)
      /\ Len(attempts'[id]) = Len(attempts[id]) + 1
      /\ \A k \in 1 .. Len(attempts[id]) : attempts'[id][k] = attempts[id][k]
      /\ attempts'[id][Len(attempts[id]) + 1] = entry
      /\ \A j \in Jobs \ {id} : attempts'[j] = attempts[j]
  BY <1>0, <1>2
<1>4. /\ jobs[id].state = "running"
      /\ \A f \in Flushers : ~ClaimedByFlusher(f, id)
      /\ \A v \in Workers \ {w} : ~ClaimedByWorker(v, id)
  <2>1. ClaimedByWorker(w, id) /\ id \in Held
    BY <1>p, <1>0 DEF ClaimedByWorker, Held
  <2> QED BY <2>1, HeldRuns DEF PoolInv, Exclusive
<1>5. \A v \in Workers \ {w} : ~ToRecord(v, id)' /\ ~Recorded(v, id)'
  BY <1>1, <1>4 DEF ToRecord, Recorded, ClaimedByWorker
<1>6. LogShort(id) /\ LogOrdered(id) /\ LossesCharged(id)
  BY DEF LogInv
<1>7. LogShort(id)'
  <2>1. Unrecorded(id)
    BY <1>p, <1>0 DEF Unrecorded, ToRecord
  <2>2. ~Unrecorded(id)'
    <3>1. ~ToRecord(w, id)'
      BY <1>1 DEF ToRecord
    <3>2. \A f \in Flushers : ~ClaimedByFlusher(f, id)'
      BY <1>0, <1>4 DEF ClaimedByFlusher
    <3> QED BY <1>0, <1>4, <1>5, <3>1, <3>2 DEF Unrecorded
  <2> QED BY <1>0, <1>3, <1>6, <2>1, <2>2 DEF LogShort
<1>8. LogOrdered(id)'
  <2>1. \A k \in 1 .. Len(attempts[id]) : attempts[id][k].idx \in Nat
    <3>1. attempts[id] \in Seq(Attempt)
      BY <1>0
    <3>2. \A k \in 1 .. Len(attempts[id]) : attempts[id][k] \in Attempt
      BY <3>1
    <3> QED BY <3>2 DEF Attempt
  <2>2. \A k \in 1 .. Len(attempts'[id]) : attempts'[id][k].idx <= jobs'[id].attempts
    BY <1>0, <1>2, <1>3, <1>6 DEF LogOrdered
  <2>3. \A k \in 2 .. Len(attempts'[id]) :
          attempts'[id][k - 1].idx <= attempts'[id][k].idx
    <3> SUFFICES ASSUME NEW k \in 2 .. Len(attempts'[id])
                 PROVE  attempts'[id][k - 1].idx <= attempts'[id][k].idx
      OBVIOUS
    <3>1. CASE k <= Len(attempts[id])
      BY <1>3, <1>6, <3>1 DEF LogOrdered
    <3>2. CASE k = Len(attempts[id]) + 1
      BY <1>2, <1>3, <1>6, <3>2 DEF LogOrdered
    <3> QED BY <1>3, <3>1, <3>2
  <2> QED BY <2>2, <2>3 DEF LogOrdered
<1>9. LossesCharged(id)'
  <2>1. \A i : FailureEntry(id, i) => FailureEntry(id, i)'
    BY <1>3 DEF FailureEntry
  <2>2. worker[w].failed => FailureEntry(id, n)'
    <3>1. Len(attempts[id]) + 1 \in 1 .. Len(attempts'[id])
      BY <1>3
    <3> QED BY <1>n, <1>2, <1>3, <3>1 DEF FailureEntry
  <2>3. ASSUME NEW i \in Lost(id)' PROVE i \in Lost(id)
    <3>1. /\ i \in 0 .. n /\ ~FailureEntry(id, i)'
          /\ i < n \/ \E v \in Workers : Recorded(v, id)' /\ worker'[v].failed
      BY <1>n, <1>0 DEF Lost
    <3>2. CASE i < n
      BY <1>n, <2>1, <3>1, <3>2 DEF Lost
    <3>3. CASE \E v \in Workers : Recorded(v, id)' /\ worker'[v].failed
      <4>1. worker[w].failed
        BY <1>1, <1>5, <3>3
      <4>2. i < n
        BY <2>2, <3>1, <4>1
      <4> QED BY <3>2, <4>2
    <3> QED BY <3>1, <3>2, <3>3
  <2>4. Lost(id)' \subseteq Lost(id)
    BY <2>3
  <2> QED BY <1>0, <1>6, <2>4, FewerLost
<1>10. ASSUME NEW j \in Jobs \ {id} PROVE LogShort(j)' /\ LogOrdered(j)' /\ LossesCharged(j)'
  <2>1. \A v \in Workers : /\ ToRecord(v, j)' => ToRecord(v, j)
                           /\ Recorded(v, j)' => Recorded(v, j) /\ v # w
    BY <1>p, <1>1 DEF ToRecord, Recorded
  <2>2. \A f \in Flushers : ClaimedByFlusher(f, j)' => ClaimedByFlusher(f, j)
    BY <1>0 DEF ClaimedByFlusher
  <2>3. Unrecorded(j)' => Unrecorded(j)
    BY <1>0, <2>1, <2>2 DEF Unrecorded
  <2> QED BY <1>0, <1>1, <1>3, <2>1, <2>3, LogStands
<1> QED BY <1>7, <1>8, <1>9, <1>10 DEF LogInv

\* The insert that fails is the one entry the fault may cost.
LEMMA RecordFailsLogs ==
    ASSUME TypeOK, TypeOK', PoolInv, LogInv, NEW w \in Workers, worker[w].pc = "record",
           worker' = [worker EXCEPT ![w].pc = "count"],
           UNCHANGED <<jobs, attempts, flusher, crashes>>, faults' = faults + 1
    PROVE  LogInv'
<1>p. PICK id \in Jobs : id = worker[w].copy.id
  BY DEF TypeOK, PoolTypeOK, Worker, Copy
<1>n. PICK n \in Nat : n = jobs[id].attempts
  BY DEF TypeOK, StoreTypeOK, Row
<1>0. worker \in [Workers -> Worker] /\ crashes \in Nat /\ faults \in Nat
  BY DEF TypeOK, PoolTypeOK
<1>1. /\ worker'[w].pc = "count" /\ worker'[w].copy = worker[w].copy
      /\ \A v \in Workers \ {w} : worker'[v] = worker[v]
  BY <1>0 DEF Worker
<1>2. ASSUME NEW j \in Jobs PROVE Unrecorded(j)' => Unrecorded(j)
  <2>1. \A v \in Workers : ToRecord(v, j)' => ToRecord(v, j)
    BY <1>1 DEF ToRecord
  <2>2. \A f \in Flushers : ClaimedByFlusher(f, j)' => ClaimedByFlusher(f, j)
    BY DEF ClaimedByFlusher
  <2> QED BY <2>1, <2>2 DEF Unrecorded
<1>3. ASSUME NEW j \in Jobs \ {id} PROVE LogShort(j)' /\ LogOrdered(j)' /\ LossesCharged(j)'
  <2>1. \A v \in Workers : Recorded(v, j)' => Recorded(v, j) /\ v # w
    BY <1>p, <1>1 DEF Recorded
  <2> QED BY <1>0, <1>1, <1>2, <2>1, LogStands
<1>4. LogShort(id)' /\ LogOrdered(id)'
  BY <1>0, <1>2 DEF LogInv, LogShort, LogOrdered
<1>5. LossesCharged(id)'
  <2>1. Lost(id)' \in SUBSET (Lost(id) \cup {n})
    <3>1. ASSUME NEW i \in Lost(id)', i # n PROVE i \in Lost(id)
      <4>1. i \in 0 .. n /\ ~FailureEntry(id, i)'
        BY <1>n, <3>1 DEF Lost
      <4>2. FailureEntry(id, i)' <=> FailureEntry(id, i)
        BY DEF FailureEntry
      <4>3. i < n
        BY <3>1, <4>1
      <4> QED BY <1>n, <4>1, <4>2, <4>3 DEF Lost
    <3> QED BY <3>1
  <2>2. /\ IsFiniteSet(Lost(id)) /\ Cardinality(Lost(id)) \in Nat
        /\ Cardinality(Lost(id)) <= faults
    BY LostFinite DEF LogInv, LossesCharged
  <2>3. /\ IsFiniteSet(Lost(id) \cup {n})
        /\ Cardinality(Lost(id) \cup {n}) \in Nat
        /\ Cardinality(Lost(id) \cup {n}) <= Cardinality(Lost(id)) + 1
    <3>1. /\ IsFiniteSet(Lost(id) \cup {n})
          /\ Cardinality(Lost(id) \cup {n})
               = IF n \in Lost(id) THEN Cardinality(Lost(id)) ELSE Cardinality(Lost(id)) + 1
      BY <2>2, FS_AddElement
    <3> QED BY <2>2, <3>1
  <2>4. /\ Cardinality(Lost(id)') \in Nat
        /\ Cardinality(Lost(id)') <= Cardinality(Lost(id) \cup {n})
    BY <2>1, <2>3, FS_Subset, FS_CardinalityType
  <2> QED BY <1>0, <2>2, <2>3, <2>4 DEF LossesCharged
<1> QED BY <1>3, <1>4, <1>5 DEF LogInv

\* The row counts the failure whose entry was written, or lost, before.
LEMMA SettleLogs ==
    ASSUME TypeOK, TypeOK', PoolInv, LogInv, NEW w \in Workers, WorkerSettle(w),
           UNCHANGED <<crashes, faults>>
    PROVE  LogInv'
<1>p. PICK id \in Jobs : id = worker[w].copy.id
  BY DEF TypeOK, PoolTypeOK, Worker, Copy
<1>n. PICK n \in Nat : n = jobs[id].attempts
  BY DEF TypeOK, StoreTypeOK, Row
<1>0. /\ worker \in [Workers -> Worker] /\ jobs \in [Jobs -> Row]
      /\ crashes \in Nat /\ faults \in Nat
      /\ worker[w].pc = "settle" /\ flusher' = flusher
      /\ ClaimedByWorker(w, id) /\ id \in Held
  BY <1>p DEF TypeOK, StoreTypeOK, PoolTypeOK, WorkerSettle, ClaimedByWorker, Held
<1>1. /\ worker'[w].pc = "teardown"
      /\ \A v \in Workers \ {w} : worker'[v] = worker[v]
  BY <1>0 DEF WorkerSettle, Worker
<1>2. /\ jobs[id].state = "running" /\ Exists(jobs[id])
      /\ \A f \in Flushers : ~ClaimedByFlusher(f, id)
      /\ \A v \in Workers \ {w} : ~ClaimedByWorker(v, id)
  BY <1>0, HeldRuns DEF Exists, PoolInv, Exclusive
<1>3. /\ \A v \in Workers : ~ToRecord(v, id)' /\ ~Recorded(v, id)'
      /\ \A f \in Flushers : ~ClaimedByFlusher(f, id)'
  BY <1>0, <1>1, <1>2 DEF ToRecord, Recorded, ClaimedByWorker, ClaimedByFlusher
<1>4. /\ attempts' = attempts
      /\ \A j \in Jobs \ {id} : jobs'[j] = jobs[j]
      /\ worker[w].failed => jobs'[id].attempts = n + 1
      /\ ~worker[w].failed => jobs'[id].attempts = n /\ jobs'[id].state = "succeeded"
  <2>1. CASE worker[w].failed
    <3>1. Fail(id, worker[w].willRetry, worker[w].next)
      BY <1>p, <2>1 DEF WorkerSettle
    <3> QED BY <1>n, <1>0, <1>2, <2>1, <3>1 DEF Fail, SetRow
  <2>2. CASE ~worker[w].failed
    <3>1. Succeed(id)
      BY <1>p, <2>2 DEF WorkerSettle
    <3> QED BY <1>n, <1>0, <1>2, <2>2, <3>1 DEF Succeed, SetRow, Row
  <2> QED BY <2>1, <2>2
<1>5. ASSUME NEW j \in Jobs \ {id} PROVE LogShort(j)' /\ LogOrdered(j)' /\ LossesCharged(j)'
  <2>1. \A v \in Workers : /\ ToRecord(v, j)' => ToRecord(v, j)
                           /\ Recorded(v, j)' => Recorded(v, j) /\ v # w
    BY <1>1 DEF ToRecord, Recorded
  <2>2. \A f \in Flushers : ClaimedByFlusher(f, j)' => ClaimedByFlusher(f, j)
    BY <1>0 DEF ClaimedByFlusher
  <2>3. Unrecorded(j)' => Unrecorded(j)
    BY <1>4, <2>1, <2>2 DEF Unrecorded
  <2> QED BY <1>0, <1>1, <1>4, <2>1, <2>3, LogStands
<1>6. CASE ~worker[w].failed
  <2>1. ~Unrecorded(id)'
    BY <1>3, <1>4, <1>6 DEF Unrecorded
  <2>2. LogShort(id)' /\ LogOrdered(id)' /\ LossesCharged(id)'
    BY <1>n, <1>0, <1>3, <1>4, <1>6, <2>1, LogStands
  <2> QED BY <1>5, <2>2 DEF LogInv
<1>7. CASE worker[w].failed
  <2>1. /\ LogShort(id) /\ LogOrdered(id) /\ LossesCharged(id)
        /\ Len(attempts[id]) \in Nat
    BY DEF LogInv, TypeOK, StoreTypeOK
  <2>2. LogShort(id)'
    BY <1>n, <1>0, <1>4, <1>7, <2>1 DEF LogShort
  <2>3. LogOrdered(id)'
    <3>1. attempts[id] \in Seq(Attempt)
      BY DEF TypeOK, StoreTypeOK
    <3>2. \A k \in 1 .. Len(attempts[id]) : attempts[id][k] \in Attempt
      BY <3>1
    <3>3. \A k \in 1 .. Len(attempts[id]) : attempts[id][k].idx \in Nat
      BY <3>2 DEF Attempt
    <3>4. \A k \in 1 .. Len(attempts[id]) : attempts[id][k].idx <= n + 1
      BY <1>n, <2>1, <3>3 DEF LogOrdered
    <3> QED BY <1>4, <1>7, <2>1, <3>4 DEF LogOrdered
  <2>4. Lost(id)' \subseteq Lost(id)
    <3> SUFFICES ASSUME NEW i \in Lost(id)' PROVE i \in Lost(id)
      OBVIOUS
    <3>1. i \in 0 .. n + 1 /\ i < n + 1 /\ ~FailureEntry(id, i)
      BY <1>3, <1>4, <1>7 DEF Lost, FailureEntry
    <3>2. Recorded(w, id)
      BY <1>p, <1>0 DEF Recorded
    <3> QED BY <1>n, <1>7, <3>1, <3>2 DEF Lost
  <2>5. LossesCharged(id)'
    BY <1>0, <2>1, <2>4, FewerLost
  <2> QED BY <1>5, <2>2, <2>3, <2>5 DEF LogInv
<1> QED BY <1>6, <1>7

\* A flush hands claims on and drops them, and claims only what is not running.
LEMMA FlushLogs ==
    ASSUME TypeOK, TypeOK', LogInv, NEW f \in Flushers,
           FlushStep(f) \/ FlushBegin(f) \/ FlushCheckFails(f) \/ FlushClaimFails(f),
           faults <= faults', crashes <= crashes'
    PROVE  LogInv'
<1>0. /\ flusher \in [Flushers -> Flusher] /\ worker \in [Workers -> Worker]
      /\ jobs \in [Jobs -> Row] /\ flusher[f].cur.id \in Jobs
  BY DEF TypeOK, StoreTypeOK, PoolTypeOK, Flusher, Copy
<1> SUFFICES ASSUME NEW j \in Jobs PROVE LogShort(j)' /\ LogOrdered(j)' /\ LossesCharged(j)'
  BY DEF LogInv
<1>1. CASE FlushClaim(f)
  <2>1. UNCHANGED <<attempts, worker>> /\ flusher[f].pc = "claim"
    BY <1>1 DEF FlushClaim, Claim, SetRow, NoRowMatches, storeVars
  <2>2. /\ jobs'[j].attempts = jobs[j].attempts
        /\ \/ jobs'[j] = jobs[j] /\ (flusher'[f].cur.id = j => flusher'[f].pc = "check")
           \/ Claimable(j)
        /\ \A g \in Flushers \ {f} : flusher'[g] = flusher[g]
    <3>1. CASE Claimable(flusher[f].cur.id)
      <4>1. /\ flusher' = [flusher EXCEPT ![f].pc = "register"]
            /\ jobs' = [jobs EXCEPT ![flusher[f].cur.id] =
                          [jobs[flusher[f].cur.id] EXCEPT !.state = "running"]]
        BY <1>1, <3>1 DEF FlushClaim, Claim, SetRow
      <4>2. /\ flusher'[f].cur = flusher[f].cur
            /\ \A g \in Flushers \ {f} : flusher'[g] = flusher[g]
        BY <1>0, <4>1 DEF Flusher
      <4> QED BY <1>0, <3>1, <4>1, <4>2 DEF Row
    <3>2. CASE ~Claimable(flusher[f].cur.id)
      <4>1. flusher' = NextCopy(f) /\ jobs' = jobs
        BY <1>1, <3>2 DEF FlushClaim, Claim, NoRowMatches, storeVars
      <4>2. /\ flusher'[f].pc = "check"
            /\ \A g \in Flushers \ {f} : flusher'[g] = flusher[g]
        BY <1>0, <4>1 DEF NextCopy, Flusher
      <4> QED BY <4>1, <4>2
    <3> QED BY <3>1, <3>2
  <2>3. Unrecorded(j)' => Unrecorded(j)
    <3>1. CASE Claimable(j)
      BY <3>1 DEF Claimable, Unrecorded
    <3>2. CASE ~Claimable(j)
      <4>1. \A g \in Flushers : ClaimedByFlusher(g, j)' => ClaimedByFlusher(g, j)
        BY <2>2, <3>2 DEF ClaimedByFlusher
      <4>2. \A w \in Workers : ToRecord(w, j)' => ToRecord(w, j)
        BY <2>1 DEF ToRecord
      <4> QED BY <2>2, <3>2, <4>1, <4>2 DEF Unrecorded
    <3> QED BY <3>1, <3>2
  <2> QED BY <2>1, <2>2, <2>3, LogStands DEF Recorded
<1>2. CASE FlushDispatch(f)
  <2>1. /\ UNCHANGED <<jobs, attempts>> /\ flusher[f].pc = "acquire"
        /\ flusher' = NextCopy(f)
    BY <1>2 DEF FlushDispatch, storeVars
  <2>2. PICK w \in Workers : worker' = [worker EXCEPT ![w] = Started(f)]
    BY <1>2 DEF FlushDispatch
  <2>3. /\ worker'[w].pc = "start" /\ worker'[w].copy = flusher[f].cur
        /\ \A v \in Workers \ {w} : worker'[v] = worker[v]
    BY <1>0, <2>2, StartedTyped
  <2>4. /\ flusher'[f].pc = "check"
        /\ \A g \in Flushers \ {f} : flusher'[g] = flusher[g]
    BY <1>0, <2>1 DEF NextCopy, Flusher
  <2>5. \A v \in Workers : Recorded(v, j)' => Recorded(v, j) /\ worker'[v] = worker[v]
    BY <2>3 DEF Recorded
  <2>6. \A g \in Flushers : ClaimedByFlusher(g, j)' => ClaimedByFlusher(g, j)
    BY <2>4 DEF ClaimedByFlusher
  <2>7. \A v \in Workers : ToRecord(v, j)' => ToRecord(v, j) \/ ClaimedByFlusher(f, j)
    BY <2>1, <2>3 DEF ToRecord, ClaimedByFlusher
  <2>8. Unrecorded(j)' => Unrecorded(j)
    BY <2>1, <2>6, <2>7 DEF Unrecorded
  <2> QED BY <2>1, <2>5, <2>8, LogStands
<1>3. CASE ~FlushClaim(f) /\ ~FlushDispatch(f)
  <2>1. UNCHANGED <<jobs, attempts>>
    BY <1>3 DEF FlushStep, FlushBegin, FlushCheckFails, FlushClaimFails, FlushCheck,
       FlushRegister, FlushAbort, FlushReturn, storeVars
  <2>2. worker' = worker \/ worker' = CancelChildren(f)
    BY <1>3 DEF FlushStep, FlushBegin, FlushCheckFails, FlushClaimFails, FlushCheck,
       FlushRegister, FlushAbort, FlushReturn
  <2>3. \A v \in Workers : /\ worker'[v].pc = worker[v].pc
                           /\ worker'[v].copy = worker[v].copy
                           /\ worker'[v].failed = worker[v].failed
    BY <1>0, <2>2 DEF CancelChildren, Worker
  <2>4. \A g \in Flushers : ClaimedByFlusher(g, j)' => ClaimedByFlusher(g, j)
    <3>1. CASE FlushRegister(f)
      <4>1. flusher[f].pc = "register"
        BY <3>1 DEF FlushRegister
      <4>2. flusher' = NextCopy(f) \/ flusher' = [flusher EXCEPT ![f].pc = "acquire"]
        BY <3>1 DEF FlushRegister
      <4>3. /\ flusher'[f].pc = "check" \/ flusher'[f].cur = flusher[f].cur
            /\ \A g \in Flushers \ {f} : flusher'[g] = flusher[g]
        BY <1>0, <4>2 DEF NextCopy, Flusher
      <4> QED BY <4>1, <4>3 DEF ClaimedByFlusher
    <3>2. CASE ~FlushRegister(f)
      <4>1. /\ flusher'[f].pc \in {"check", "claim", "idle"}
            /\ \A g \in Flushers \ {f} : flusher'[g] = flusher[g]
        <5>1. CASE FlushCheck(f)
          <6>1. PICK c \in flusher[f].rest :
                  flusher' = IF IsPaused(QueueOf[c.id])
                             THEN [flusher EXCEPT ![f].rest = @ \ {c}]
                             ELSE [flusher EXCEPT ![f].rest = @ \ {c}, ![f].pc = "claim",
                                                  ![f].cur = c]
            BY <5>1 DEF FlushCheck
          <6>2. flusher[f].pc = "check"
            BY <5>1 DEF FlushCheck
          <6>3. CASE IsPaused(QueueOf[c.id])
            <7>1. flusher' = [flusher EXCEPT ![f].rest = @ \ {c}]
              BY <6>1, <6>3
            <7> QED BY <1>0, <6>2, <7>1 DEF Flusher
          <6>4. CASE ~IsPaused(QueueOf[c.id])
            <7>1. flusher' = [flusher EXCEPT ![f].rest = @ \ {c}, ![f].pc = "claim",
                                             ![f].cur = c]
              BY <6>1, <6>4
            <7> QED BY <1>0, <7>1 DEF Flusher
          <6> QED BY <6>3, <6>4
        <5>2. CASE FlushAbort(f)
          BY <1>0, <5>2 DEF FlushAbort, Flusher
        <5>3. CASE FlushReturn(f)
          BY <1>0, <5>3 DEF FlushReturn, IdleFlusher
        <5>4. CASE FlushBegin(f)
          BY <1>0, <5>4 DEF FlushBegin, Flusher
        <5>5. CASE FlushCheckFails(f)
          BY <1>0, <5>5 DEF FlushCheckFails, Flusher
        <5>6. CASE FlushClaimFails(f)
          BY <1>0, <5>6 DEF FlushClaimFails, Flusher
        <5> QED BY <1>3, <3>2, <5>1, <5>2, <5>3, <5>4, <5>5, <5>6 DEF FlushStep
      <4> QED BY <4>1 DEF ClaimedByFlusher
    <3> QED BY <3>1, <3>2
  <2>5. Unrecorded(j)' => Unrecorded(j)
    BY <2>1, <2>3, <2>4 DEF Unrecorded, ToRecord
  <2> QED BY <2>1, <2>3, <2>5, LogStands DEF Recorded
<1> QED BY <1>1, <1>2, <1>3

LEMMA WorkerLogs ==
    ASSUME TypeOK, TypeOK', PoolInv, FreshInv, LogInv, NEW w \in Workers,
           \/ WorkerStep(w) /\ UNCHANGED <<crashes, faults>>
           \/ WorkerCallFails(w) /\ crashes' = crashes /\ faults' = faults + 1
    PROVE  LogInv'
<1>0. worker \in [Workers -> Worker] /\ crashes \in Nat /\ faults \in Nat
  BY DEF TypeOK, PoolTypeOK
<1>1. faults <= faults' /\ crashes <= crashes'
  BY <1>0
<1>2. ASSUME UNCHANGED <<jobs, attempts, flusher>>,
             \A v \in Workers \ {w} : worker'[v] = worker[v],
             \/ worker'[w].pc \in {"teardown", "release", "idle"}
             \/ /\ worker[w].pc \in {"start", "handle"}
                /\ worker'[w].pc \in {"handle", "record"}
                /\ worker'[w].copy = worker[w].copy
             \/ /\ worker[w].pc = "count" /\ worker'[w].pc = "settle"
                /\ worker'[w].copy = worker[w].copy
                /\ worker'[w].failed = worker[w].failed
      PROVE  LogInv'
  <2>1. \A j \in Jobs : /\ ToRecord(w, j)' => ToRecord(w, j)
                        /\ Recorded(w, j)' /\ worker'[w].failed
                             => Recorded(w, j) /\ worker[w].failed
    BY <1>2 DEF ToRecord, Recorded
  <2> QED BY <1>1, <1>2, <2>1, GoroutineLogs
<1>3. CASE WorkerCallFails(w) /\ crashes' = crashes /\ faults' = faults + 1
  <2>1. UNCHANGED <<jobs, attempts, flusher>>
    BY <1>3 DEF WorkerCallFails, storeVars
  <2>2. CASE worker[w].pc = "record"
    BY <1>3, <2>1, <2>2, RecordFailsLogs DEF WorkerCallFails
  <2>3. CASE worker[w].pc = "settle"
    BY <1>0, <1>2, <1>3, <2>1, <2>3 DEF WorkerCallFails, Worker
  <2> QED BY <1>3, <2>2, <2>3 DEF WorkerCallFails
<1>4. CASE WorkerStart(w)
  BY <1>0, <1>2, <1>4 DEF WorkerStart, storeVars, Worker
<1>5. CASE WorkerHandle(w)
  <2>1. PICK failed : worker' = [worker EXCEPT ![w].pc = "record", ![w].failed = failed]
    BY <1>5, Zenon DEF WorkerHandle
  <2>2. /\ worker'[w].pc = "record" /\ worker'[w].copy = worker[w].copy
        /\ \A v \in Workers \ {w} : worker'[v] = worker[v]
    BY <1>0, <2>1 DEF Worker
  <2> QED BY <1>2, <1>5, <2>2 DEF WorkerHandle, storeVars
<1>6. CASE WorkerRecord(w) /\ UNCHANGED <<crashes, faults>>
  BY <1>6, RecordLogs
<1>7. CASE WorkerCount(w)
  <2>1. PICK retry, n : worker' = [worker EXCEPT ![w].pc = "settle", ![w].willRetry = retry,
                                                 ![w].next = n]
    BY <1>7 DEF WorkerCount
  <2>2. /\ worker[w].pc = "count" /\ UNCHANGED <<jobs, attempts, flusher>>
        /\ worker'[w].pc = "settle" /\ worker'[w].copy = worker[w].copy
        /\ worker'[w].failed = worker[w].failed
        /\ \A v \in Workers \ {w} : worker'[v] = worker[v]
    BY <1>0, <1>7, <2>1 DEF WorkerCount, storeVars, Worker
  <2> QED BY <1>2, <2>2
<1>8. CASE WorkerSettle(w) /\ UNCHANGED <<crashes, faults>>
  BY <1>8, SettleLogs
<1>9. CASE WorkerTeardown(w)
  BY <1>0, <1>2, <1>9 DEF WorkerTeardown, storeVars, Worker
<1>10. CASE WorkerRelease(w)
  BY <1>0, <1>2, <1>10 DEF WorkerRelease, storeVars, IdleWorker
<1> QED BY <1>3, <1>4, <1>5, <1>6, <1>7, <1>8, <1>9, <1>10 DEF WorkerStep

\* An insert finds an id without attempts.
LEMMA ClientLogs ==
    ASSUME TypeOK, TypeOK', PoolInv, PlainRows, LogInv, NEW c \in Clients,
           ClientStep(c) \/ ApiCallFails(c), faults <= faults', crashes <= crashes'
    PROVE  LogInv'
<1>1. ClientMoves(c) /\ jobs \in [Jobs -> Row]
  BY ClientMovesOnly DEF TypeOK, StoreTypeOK
<1>2. UNCHANGED <<attempts, flusher, worker>>
  BY <1>1 DEF ClientMoves, poolVars
<1> SUFFICES ASSUME NEW j \in Jobs PROVE LogShort(j)' /\ LogOrdered(j)' /\ LossesCharged(j)'
  BY DEF LogInv
<1>3. jobs'[j].attempts = jobs[j].attempts /\ (jobs'[j].state = jobs[j].state \/ Unrecorded(j))
  <2>1. ASSUME NEW k \in Jobs, NEW row \in Row, Inserts(k, row)
        PROVE  /\ jobs'[j].attempts = jobs[j].attempts
               /\ jobs'[j].state = jobs[j].state \/ Unrecorded(j)
    BY <1>1, <2>1 DEF Inserts, PlainRows, Exists, Unrecorded
  <2> QED BY <1>1, <2>1 DEF ClientMoves
<1>4. /\ \A f \in Flushers : ClaimedByFlusher(f, j)' => Unrecorded(j)
      /\ \A w \in Workers : ToRecord(w, j)' => Unrecorded(j)
  BY <1>2 DEF ClaimedByFlusher, ToRecord, Unrecorded
<1>5. Unrecorded(j)' => Unrecorded(j)
  BY <1>3, <1>4, UnrecordedStands
<1> QED BY <1>2, <1>3, <1>5, LogStands DEF Recorded

LEMMA RestartLogs ==
    ASSUME TypeOK, TypeOK', LogInv, Restart
    PROVE  LogInv'
<1>0. jobs \in [Jobs -> Row] /\ crashes \in Nat /\ faults \in Nat
  BY DEF TypeOK, StoreTypeOK
<1>1. /\ UNCHANGED <<attempts, faults>> /\ crashes' = crashes + 1
      /\ \A w \in Workers : worker'[w] = IdleWorker
      /\ jobs' = RecoverInterrupted(RecoverOnOpen(jobs, now), now)
  BY DEF Restart, PoolReset
<1> SUFFICES ASSUME NEW j \in Jobs PROVE LogShort(j)' /\ LogOrdered(j)' /\ LossesCharged(j)'
  BY DEF LogInv
<1>2. jobs'[j].attempts = jobs[j].attempts
  <2>1. jobs'[j] = IF jobs[j].state = "running" THEN RequeueAt(jobs[j], now) ELSE jobs[j]
    BY <1>0, <1>1 DEF RecoverInterrupted, RecoverOnOpen, RequeueAt, Row
  <2> QED BY <1>0, <2>1 DEF RequeueAt, Row
<1>3. \A w \in Workers : ~Recorded(w, j)'
  BY <1>1 DEF Recorded, IdleWorker
<1> QED BY <1>0, <1>1, <1>2, <1>3, LogStands

\* A step that concerns neither rows, logs nor claims.
LEMMA LogsUnmoved ==
    ASSUME TypeOK, TypeOK', LogInv, UNCHANGED <<jobs, attempts, flusher, worker>>,
           faults <= faults', crashes <= crashes'
    PROVE  LogInv'
<1> SUFFICES ASSUME NEW j \in Jobs PROVE LogShort(j)' /\ LogOrdered(j)' /\ LossesCharged(j)'
  BY DEF LogInv
<1>1. Unrecorded(j)' => Unrecorded(j)
  BY DEF Unrecorded, ClaimedByFlusher, ToRecord
<1> QED BY <1>1, LogStands DEF Recorded

LEMMA LogStep ==
    ASSUME TypeOK, TypeOK', PoolInv, PlainRows, TickerInv, LogInv, [Next]_vars
    PROVE  LogInv'
<1>0. /\ crashes \in Nat /\ faults \in Nat /\ FreshInv /\ Flushers = {Ticker}
      /\ Ops \cap {"requeue"} = {}
  BY DEF TypeOK, TickerInv, TickerAlone, PoolOnly
<1>1. CASE PollTick
  BY <1>0, <1>1, FlushLogs DEF PollTick, badLuck
<1>2. ASSUME NEW f \in Flushers, FlushStepOf(f) PROVE LogInv'
  BY <1>0, <1>2, FlushLogs DEF FlushStepOf, badLuck
<1>3. ASSUME NEW w \in Workers, WorkerStepOf(w) PROVE LogInv'
  BY <1>0, <1>3, WorkerLogs DEF WorkerStepOf, badLuck
<1>4. ASSUME NEW c \in Clients, ClientStepOf(c) PROVE LogInv'
  BY <1>0, <1>4, ClientLogs DEF ClientStepOf, badLuck
<1>5. CASE RequestStep
  <2>1. ASSUME NEW j \in Jobs PROVE ~ApiRequeueDead(j)
    BY <1>0 DEF ApiRequeueDead, NewRequest
  <2>2. ASSUME NEW f \in Flushers PROVE ~ApiFlush(f) /\ ~ApiDisconnect(f)
    BY <1>0 DEF ApiFlush, ApiDisconnect
  <2>3. UNCHANGED <<jobs, attempts, flusher, worker, crashes, faults>>
    BY <1>5, <2>1, <2>2 DEF RequestStep, ApiPause, ApiResume, SetPaused, poolVars, badLuck
  <2> QED BY <1>0, <2>3, LogsUnmoved
<1>6. CASE FaultStep
  <2>1. /\ crashes' = crashes /\ faults' = faults + 1
        /\ crashes <= crashes' /\ faults <= faults'
    BY <1>0, <1>6 DEF FaultStep
  <2>2. ASSUME NEW f \in Flushers, FlushCheckFails(f) \/ FlushClaimFails(f) PROVE LogInv'
    BY <2>1, <2>2, FlushLogs
  <2>3. ASSUME NEW w \in Workers, WorkerCallFails(w) PROVE LogInv'
    BY <1>0, <2>1, <2>3, WorkerLogs
  <2>4. ASSUME NEW c \in Clients, ApiCallFails(c) PROVE LogInv'
    BY <2>1, <2>4, ClientLogs
  <2> QED BY <1>6, <2>2, <2>3, <2>4 DEF FaultStep
<1>7. CASE Restart
  BY <1>7, RestartLogs
<1>8. CASE Tick \/ UNCHANGED vars
  <2>1. UNCHANGED <<jobs, attempts, flusher, worker, crashes, faults>>
    BY <1>8 DEF Tick, vars, storeVars, poolVars, badLuck
  <2> QED BY <1>0, <2>1, LogsUnmoved
<1> QED BY <1>1, <1>2, <1>3, <1>4, <1>5, <1>6, <1>7, <1>8 DEF Next

LEMMA LogInit == Init => LogInv
<1> SUFFICES ASSUME Init, NEW j \in Jobs PROVE LogShort(j) /\ LogOrdered(j) /\ LossesCharged(j)
  BY DEF LogInv
<1>1. attempts[j] = <<>> /\ jobs[j].attempts = 0 /\ crashes = 0 /\ faults = 0
  BY DEF Init, AbsentRow
<1>2. Lost(j) = {}
  <2>1. \A w \in Workers : ~Recorded(w, j)
    BY DEF Init, PoolInit, IdleWorker, Recorded
  <2> QED BY <1>1, <2>1 DEF Lost
<1> QED BY <1>1, <1>2, FS_EmptySet DEF LogShort, LogOrdered, LossesCharged

\* The log of a job and its counter, which separate statements write, agree while
\* the ticker alone flushes: every failure the row counts has its entry but one for
\* each statement that failed, entries are in order and none is ahead of the row,
\* and only a restart makes the handler run, and be recorded, twice for one attempt.
THEOREM AttemptLogs == TickerAlone /\ Spec => []AttemptLogComplete
<1>1. TypeOK /\ LogInv => AttemptLogComplete
  <2> SUFFICES ASSUME TypeOK, LogInv, NEW j \in Jobs
               PROVE  LET log == attempts[j]
                          n == jobs[j].attempts
                          missing == {i \in 0 .. n - 1 :
                                         \A k \in 1 .. Len(log) :
                                            log[k] # [idx |-> i, ok |-> FALSE]}
                      IN  /\ Cardinality(missing) <= faults
                          /\ \A k \in 1 .. Len(log) : log[k].idx <= n
                          /\ \A k \in 2 .. Len(log) : log[k - 1].idx <= log[k].idx
                          /\ Len(log) <= n + 1 + crashes
    BY DEF AttemptLogComplete
  <2> DEFINE missing == {i \in 0 .. jobs[j].attempts - 1 :
                            \A k \in 1 .. Len(attempts[j]) :
                               attempts[j][k] # [idx |-> i, ok |-> FALSE]}
  <2>0. /\ jobs[j].attempts \in Nat /\ Len(attempts[j]) \in Nat /\ crashes \in Nat
        /\ faults \in Nat /\ LogShort(j) /\ LogOrdered(j) /\ LossesCharged(j)
    BY DEF TypeOK, StoreTypeOK, Row, LogInv
  <2>1. missing \subseteq Lost(j)
    <3> SUFFICES ASSUME NEW i \in missing PROVE i \in Lost(j)
      OBVIOUS
    <3>1. i \in 0 .. jobs[j].attempts - 1 /\ ~FailureEntry(j, i)
      BY DEF FailureEntry
    <3>2. i \in 0 .. jobs[j].attempts /\ i < jobs[j].attempts
      BY <2>0, <3>1
    <3> QED BY <3>1, <3>2 DEF Lost
  <2> HIDE DEF missing
  <2>2. Cardinality(missing) <= Cardinality(Lost(j)) /\ Cardinality(missing) \in Nat
    BY <2>1, LostFinite, FS_Subset, FS_CardinalityType
  <2>3. Cardinality(missing) <= faults
    BY <2>0, <2>2, LostFinite DEF LossesCharged
  <2>4. Len(attempts[j]) <= jobs[j].attempts + 1 + crashes
    BY <2>0 DEF LogShort
  <2> QED BY <2>0, <2>3, <2>4 DEF missing, LogOrdered
<1>2. Init => LogInv
  BY LogInit
<1>3. TypeOK /\ TypeOK' /\ PoolInv /\ PlainRows /\ TickerInv /\ LogInv /\ [Next]_vars => LogInv'
  BY LogStep
<1>4. TickerAlone => PoolOnly
  BY DEF TickerAlone
<1> QED BY <1>1, <1>2, <1>3, <1>4, TickerInvariant, PlainRowsHold, PTL DEF Spec
-----------------------------------------------------------------------------
(* Rows left running. *)

\* No flush under way meets j in its list, and none to come can scan it now.
OutOfReach(j) ==
    /\ \/ jobs[j].state \in {"succeeded", "dead"}
       \/ jobs[j].state = "pending" /\ now < jobs[j].runAt
    /\ \A c \in flusher[Ticker].rest : c.id # j
    /\ flusher[Ticker].pc \in {"claim", "register", "acquire"} => flusher[Ticker].cur.id # j

\* A retry is set for a later second than the one it is decided in.
RetriesLater ==
    \A w \in Workers :
        worker[w].pc = "settle" /\ worker[w].failed /\ worker[w].willRetry
            => now < worker[w].next

\* A goroutine that has yet to leave the active set is in no flush's way.
LeavesInTime ==
    \A w \in Workers, j \in Jobs :
        worker[w].pc = "teardown" /\ worker[w].copy.id = j => OutOfReach(j)

NoneStranded == \A j \in Jobs : ~Stranded(j)

StrandInv ==
    /\ PromptTeardown
    /\ flusher[Ticker].ctxDone = FALSE
    /\ RetriesLater
    /\ faults = 0 => LeavesInTime /\ NoneStranded

\* What the steps need of the invariants proved before.
Prompt == TypeOK /\ PoolInv /\ TickerInv /\ Ownership /\ StrandInv

LEMMA TickerIsFlusher == TickerAlone => Flushers = {Ticker} /\ Ticker \in Flushers
BY PoolAssumption DEF TickerAlone

\* Only a claim that ends with its row running strands a job.
LEMMA NoneLost ==
    ASSUME TypeOK, Effect, NoneStranded,
           \A f \in Flushers, j \in Jobs : ClaimedByFlusher(f, j) => j \in Held',
           \A w \in Workers, j \in Jobs :
              ClaimedByWorker(w, j) => j \in Held' \/ jobs'[j].state # "running"
    PROVE  NoneStranded'
<1> SUFFICES ASSUME NEW j \in Jobs, jobs'[j].state = "running", j \notin Held' PROVE FALSE
  BY DEF NoneStranded, Stranded
<1>0. jobs \in [Jobs -> Row]
  BY DEF TypeOK, StoreTypeOK
<1>1. j \notin Held
  BY DEF Held
<1>2. jobs[j].state # "running"
  BY <1>1 DEF NoneStranded, Stranded
<1>3. ASSUME NEW k \in Jobs, NEW row \in Row, Inserts(k, row) PROVE FALSE
  BY <1>0, <1>2, <1>3 DEF Inserts
<1>4. ASSUME NEW k \in Jobs, NEW row \in Row, Settles(k, row) PROVE FALSE
  BY <1>0, <1>2, <1>4 DEF Settles, Outcome
<1>5. ASSUME NEW f \in Flushers, NEW k \in Jobs, Claims(f, k) PROVE FALSE
  BY <1>0, <1>2, <1>5 DEF Claims
<1>6. CASE Recovers
  <2>1. jobs'[j] = IF jobs[j].state = "running" THEN RequeueAt(jobs[j], now) ELSE jobs[j]
    BY <1>0, <1>2, <1>6 DEF Recovers, RecoverInterrupted, RecoverOnOpen
  <2> QED BY <1>2, <2>1
<1> QED BY <1>2, <1>3, <1>4, <1>5, <1>6 DEF Effect, Quiet, Loses

\* A step that reaches for no row the lists do not hold.
LEMMA StillOutOfReach ==
    ASSUME NEW j \in Jobs, OutOfReach(j), jobs'[j] = jobs[j], now' = now,
           \/ flusher'[Ticker].rest \subseteq flusher[Ticker].rest
           \/ \A c \in flusher'[Ticker].rest : c.id # j,
           flusher'[Ticker].pc \in {"claim", "register", "acquire"} =>
              \/ /\ flusher[Ticker].pc \in {"claim", "register", "acquire"}
                 /\ flusher'[Ticker].cur = flusher[Ticker].cur
              \/ flusher'[Ticker].cur \in flusher[Ticker].rest
    PROVE  OutOfReach(j)'
<1>1. /\ \/ jobs'[j].state \in {"succeeded", "dead"}
         \/ jobs'[j].state = "pending" /\ now' < jobs'[j].runAt
      /\ \A c \in flusher'[Ticker].rest : c.id # j
      /\ flusher'[Ticker].pc \in {"claim", "register", "acquire"}
           => flusher'[Ticker].cur.id # j
  BY DEF OutOfReach
<1> QED BY <1>1 DEF OutOfReach

\* A step of the flush, which changes no goroutine but the one it starts.
LEMMA FlushInTime ==
    ASSUME Prompt, faults = 0, now' = now,
           \A j \in Jobs : \/ jobs'[j] = jobs[j]
                           \/ flusher[Ticker].pc = "claim" /\ flusher[Ticker].cur.id = j,
           \A w \in Workers : \/ worker'[w] = worker[w]
                              \/ worker'[w].pc \notin {"settle", "teardown"},
           \/ flusher'[Ticker].rest \subseteq flusher[Ticker].rest
           \/ flusher'[Ticker].rest = ScanDue(ScanSize, now),
           flusher'[Ticker].pc \in {"claim", "register", "acquire"} =>
              \/ /\ flusher[Ticker].pc \in {"claim", "register", "acquire"}
                 /\ flusher'[Ticker].cur = flusher[Ticker].cur
              \/ flusher'[Ticker].cur \in flusher[Ticker].rest
    PROVE  LeavesInTime'
<1> SUFFICES ASSUME NEW w \in Workers, NEW j \in Jobs,
                    worker'[w].pc = "teardown", worker'[w].copy.id = j
             PROVE  OutOfReach(j)'
  BY DEF LeavesInTime
<1>1. OutOfReach(j)
  BY DEF Prompt, StrandInv, LeavesInTime
<1>2. jobs'[j] = jobs[j]
  BY <1>1 DEF OutOfReach
<1>3. ASSUME NEW c \in ScanDue(ScanSize, now) PROVE c.id # j
  <2>1. PICK k \in Jobs : c = CopyOf(k) /\ IsDue(jobs[k], now)
    BY DEF ScanDue
  <2>2. jobs[j].runAt \in Nat /\ now \in Nat
    BY DEF Prompt, TypeOK, StoreTypeOK, Row
  <2> QED BY <1>1, <2>1, <2>2 DEF CopyOf, IsDue, OutOfReach
<1> QED BY <1>1, <1>2, <1>3, StillOutOfReach

LEMMA RetriesLaterKept ==
    ASSUME RetriesLater, now' = now,
           \A w \in Workers : \/ worker'[w] = worker[w]
                              \/ worker'[w].pc # "settle"
    PROVE  RetriesLater'
BY DEF RetriesLater

\* Enough for a step of the ticker's flush.
LEMMA FlushStrands ==
    ASSUME Prompt, Effect, faults' = faults, now' = now, flusher'[Ticker].ctxDone = FALSE,
           \A j \in Jobs : \/ jobs'[j] = jobs[j]
                           \/ flusher[Ticker].pc = "claim" /\ flusher[Ticker].cur.id = j,
           \A w \in Workers : \/ worker'[w] = worker[w]
                              \/ worker[w].pc = "idle" /\ worker'[w].pc = "start",
           \/ flusher'[Ticker].rest \subseteq flusher[Ticker].rest
           \/ flusher'[Ticker].rest = ScanDue(ScanSize, now),
           flusher'[Ticker].pc \in {"claim", "register", "acquire"} =>
              \/ /\ flusher[Ticker].pc \in {"claim", "register", "acquire"}
                 /\ flusher'[Ticker].cur = flusher[Ticker].cur
              \/ flusher'[Ticker].cur \in flusher[Ticker].rest,
           faults = 0 => \A j \in Jobs : ClaimedByFlusher(Ticker, j) => j \in Held'
    PROVE  StrandInv'
<1>0. TypeOK /\ StrandInv /\ Flushers = {Ticker}
  BY TickerIsFlusher DEF Prompt, TickerInv
<1>1. RetriesLater'
  BY <1>0, RetriesLaterKept DEF StrandInv
<1>2. ASSUME faults = 0 PROVE LeavesInTime' /\ NoneStranded'
  <2>1. LeavesInTime'
    BY <1>2, FlushInTime
  <2>2. \A w \in Workers, j \in Jobs : ClaimedByWorker(w, j) => j \in Held'
    BY DEF ClaimedByWorker, Held
  <2>3. \A f \in Flushers, j \in Jobs : ClaimedByFlusher(f, j) => j \in Held'
    BY <1>0, <1>2
  <2> QED BY <1>0, <1>2, <2>1, <2>2, <2>3, NoneLost DEF StrandInv
<1> QED BY <1>0, <1>1, <1>2 DEF StrandInv

\* The flush never finds the job it has claimed registered: the goroutine of an
\* earlier attempt would still have its claim, or be about to leave the active set.
LEMMA NotRegistered ==
    ASSUME Prompt, faults = 0, flusher[Ticker].pc = "register"
    PROVE  flusher[Ticker].cur.id \notin active
<1>p. PICK id \in Jobs : id = flusher[Ticker].cur.id
  BY PoolAssumption DEF Prompt, TypeOK, PoolTypeOK, Flusher, Copy
<1>0. /\ Flushers = {Ticker} /\ Exclusive /\ ActiveIsOwned /\ LeavesInTime
      /\ worker \in [Workers -> Worker]
  BY TickerIsFlusher DEF Prompt, TickerInv, PoolInv, Ownership, StrandInv, TypeOK, PoolTypeOK
<1>1. SUFFICES ASSUME id \in active PROVE FALSE
  BY <1>p
<1>2. ClaimedByFlusher(Ticker, id)
  BY <1>p DEF ClaimedByFlusher
<1>3. PICK w \in Workers : WorkerOwns(w, id)
  BY <1>0, <1>1 DEF ActiveIsOwned, FlusherOwns
<1>4. ~ClaimedByWorker(w, id)
  BY <1>0, <1>2 DEF Exclusive
<1>5. worker[w].pc = "teardown" /\ worker[w].copy.id = id
  BY <1>0, <1>3, <1>4 DEF WorkerOwns, Executing, ClaimedByWorker, Worker
<1>6. OutOfReach(id)
  BY <1>0, <1>5 DEF LeavesInTime
<1> QED BY <1>p, <1>6 DEF OutOfReach

LEMMA StrandFlush ==
    ASSUME Prompt, Effect, NEW f \in Flushers, FlushBegin(f) \/ FlushStep(f),
           faults' = faults
    PROVE  StrandInv'
<1>p. PICK id \in Jobs : id = flusher[Ticker].cur.id
  BY PoolAssumption DEF Prompt, TypeOK, PoolTypeOK, Flusher, Copy
<1>0. /\ f = Ticker /\ Ticker \in Flushers /\ flusher \in [Flushers -> Flusher]
      /\ jobs \in [Jobs -> Row] /\ worker \in [Workers -> Worker]
      /\ flusher[Ticker].ctxDone = FALSE
  BY TickerIsFlusher DEF Prompt, TickerInv, TypeOK, StoreTypeOK, PoolTypeOK, StrandInv
<1>1. CASE FlushBegin(f)
  <2>1. /\ flusher[Ticker].pc = "idle" /\ flusher'[Ticker].pc = "check"
        /\ flusher'[Ticker].rest = ScanDue(ScanSize, now)
        /\ flusher'[Ticker].ctxDone = flusher[Ticker].ctxDone
        /\ UNCHANGED <<jobs, now, worker>>
    BY <1>0, <1>1 DEF FlushBegin, storeVars, Flusher
  <2> QED BY <1>0, <2>1, FlushStrands DEF ClaimedByFlusher
<1>2. CASE FlushCheck(f)
  <2>1. PICK c \in flusher[f].rest :
          flusher' = IF IsPaused(QueueOf[c.id])
                     THEN [flusher EXCEPT ![f].rest = @ \ {c}]
                     ELSE [flusher EXCEPT ![f].rest = @ \ {c}, ![f].pc = "claim",
                                          ![f].cur = c]
    BY <1>2 DEF FlushCheck
  <2>2. flusher[Ticker].pc = "check" /\ UNCHANGED <<jobs, now, worker>>
    BY <1>0, <1>2 DEF FlushCheck, storeVars
  <2>3. /\ flusher'[Ticker].rest = flusher[Ticker].rest \ {c}
        /\ flusher'[Ticker].pc = "check" \/ flusher'[Ticker].cur = c
        /\ flusher'[Ticker].ctxDone = flusher[Ticker].ctxDone
    BY <1>0, <2>1, <2>2 DEF Flusher
  <2> QED BY <1>0, <2>1, <2>2, <2>3, FlushStrands DEF ClaimedByFlusher
<1>3. CASE FlushClaim(f)
  <2>1. /\ flusher[Ticker].pc = "claim" /\ UNCHANGED <<now, worker>>
        /\ \A j \in Jobs : jobs'[j] = jobs[j] \/ flusher[Ticker].cur.id = j
    BY <1>0, <1>3 DEF FlushClaim, Claim, SetRow, NoRowMatches, storeVars
  <2>2. /\ flusher'[Ticker].rest = flusher[Ticker].rest
        /\ flusher'[Ticker].pc = "check" \/ flusher'[Ticker].cur = flusher[Ticker].cur
        /\ flusher'[Ticker].ctxDone = flusher[Ticker].ctxDone
    BY <1>0, <1>3 DEF FlushClaim, NextCopy, Flusher
  <2> QED BY <1>0, <2>1, <2>2, FlushStrands DEF ClaimedByFlusher
<1>4. CASE FlushRegister(f)
  <2>1. flusher[Ticker].pc = "register" /\ UNCHANGED <<jobs, now, worker>>
    BY <1>0, <1>4 DEF FlushRegister, storeVars
  <2>2. /\ flusher'[Ticker].rest = flusher[Ticker].rest
        /\ \/ flusher'[Ticker].pc = "check" /\ IsActive(flusher[Ticker].cur.id)
           \/ flusher'[Ticker].pc = "acquire" /\ flusher'[Ticker].cur = flusher[Ticker].cur
        /\ flusher'[Ticker].ctxDone = flusher[Ticker].ctxDone
    BY <1>0, <1>4 DEF FlushRegister, NextCopy, Flusher
  <2>3. faults = 0 => flusher'[Ticker].pc = "acquire"
                      /\ flusher'[Ticker].cur = flusher[Ticker].cur
    BY <2>1, <2>2, NotRegistered DEF IsActive
  <2>4. faults = 0 => \A j \in Jobs : ClaimedByFlusher(Ticker, j) => j \in Held'
    BY <1>0, <2>3 DEF ClaimedByFlusher, Held
  <2> QED BY <1>0, <2>1, <2>2, <2>4, FlushStrands
<1>5. CASE FlushDispatch(f)
  <2>1. PICK w \in Workers : worker[w].pc = "idle" /\ worker' = [worker EXCEPT ![w] = Started(f)]
    BY <1>5 DEF FlushDispatch
  <2>2. /\ worker'[w].pc = "start" /\ worker'[w].copy = flusher[Ticker].cur
        /\ \A v \in Workers \ {w} : worker'[v] = worker[v]
    BY <1>0, <2>1, StartedTyped DEF Prompt
  <2>3. /\ flusher[Ticker].pc = "acquire" /\ UNCHANGED <<jobs, now>>
        /\ flusher'[Ticker].pc = "check" /\ flusher'[Ticker].rest = flusher[Ticker].rest
        /\ flusher'[Ticker].ctxDone = flusher[Ticker].ctxDone
    BY <1>0, <1>5 DEF FlushDispatch, NextCopy, storeVars, Flusher
  <2>4. \A j \in Jobs : ClaimedByFlusher(Ticker, j) => j \in Held'
    BY <2>2 DEF ClaimedByFlusher, ClaimedByWorker, Held
  <2> QED BY <1>0, <2>1, <2>2, <2>3, <2>4, FlushStrands
<1>6. CASE FlushAbort(f)
  BY <1>0, <1>6 DEF FlushAbort
<1>7. CASE FlushReturn(f)
  <2>1. /\ flusher[Ticker].pc = "check" /\ UNCHANGED <<jobs, now, worker>>
        /\ flusher'[Ticker] = IdleFlusher
    BY <1>0, <1>7 DEF FlushReturn, storeVars
  <2> QED BY <1>0, <2>1, FlushStrands DEF ClaimedByFlusher, IdleFlusher
<1> QED BY <1>1, <1>2, <1>3, <1>4, <1>5, <1>6, <1>7 DEF FlushStep

LEMMA ReachUnmoved ==
    ASSUME NEW j \in Jobs, OutOfReach(j), jobs'[j] = jobs[j], now' = now,
           /\ flusher'[Ticker].pc = flusher[Ticker].pc
           /\ flusher'[Ticker].cur = flusher[Ticker].cur
           /\ flusher'[Ticker].rest = flusher[Ticker].rest
    PROVE  OutOfReach(j)'
BY StillOutOfReach

\* A goroutine moves on without settling.
LEMMA GoroutineStrands ==
    ASSUME Prompt, Effect, NEW w \in Workers, UNCHANGED <<jobs, now, flusher, faults>>,
           \A v \in Workers \ {w} : worker'[v] = worker[v],
           worker'[w].pc # "teardown",
           worker'[w].pc = "settle" /\ worker'[w].failed /\ worker'[w].willRetry
              => now < worker'[w].next,
           \A j \in Jobs : ClaimedByWorker(w, j) => ClaimedByWorker(w, j)'
    PROVE  StrandInv'
<1>0. TypeOK /\ StrandInv
  BY DEF Prompt
<1>1. RetriesLater'
  BY <1>0 DEF RetriesLater, StrandInv
<1>2. ASSUME faults = 0 PROVE LeavesInTime'
  <2> SUFFICES ASSUME NEW v \in Workers, NEW j \in Jobs,
                      worker'[v].pc = "teardown", worker'[v].copy.id = j
               PROVE  OutOfReach(j)'
    BY DEF LeavesInTime
  <2>1. OutOfReach(j)
    BY <1>0, <1>2 DEF StrandInv, LeavesInTime
  <2> QED BY <2>1, ReachUnmoved
<1>3. ASSUME faults = 0 PROVE NoneStranded'
  <2>1. \A v \in Workers, j \in Jobs : ClaimedByWorker(v, j) => j \in Held'
    BY DEF ClaimedByWorker, Held
  <2>2. \A f \in Flushers, j \in Jobs : ClaimedByFlusher(f, j) => j \in Held'
    BY DEF ClaimedByFlusher, Held
  <2> QED BY <1>0, <1>3, <2>1, <2>2, NoneLost DEF StrandInv
<1> QED BY <1>0, <1>1, <1>2, <1>3 DEF StrandInv

\* What the goroutine leaves in the row puts it out of the flush's reach until the
\* clock moves, which it does not before the goroutine has left the active set.
LEMMA SettleStrands ==
    ASSUME Prompt, Effect, NEW w \in Workers, WorkerSettle(w), faults' = faults
    PROVE  StrandInv'
<1>p. PICK id \in Jobs : id = worker[w].copy.id
  BY DEF Prompt, TypeOK, PoolTypeOK, Worker, Copy
<1>0. /\ TypeOK /\ StrandInv /\ PoolInv /\ Flushers = {Ticker} /\ Ticker \in Flushers
      /\ worker \in [Workers -> Worker] /\ jobs \in [Jobs -> Row]
      /\ worker[w].pc = "settle" /\ flusher' = flusher
      /\ ClaimedByWorker(w, id) /\ id \in Held
      /\ worker[w].failed \in BOOLEAN /\ worker[w].willRetry \in BOOLEAN
  BY <1>p, TickerIsFlusher DEF Prompt, TickerInv, TypeOK, StoreTypeOK, PoolTypeOK,
     WorkerSettle, ClaimedByWorker, Held, Worker
<1>1. /\ worker'[w].pc = "teardown" /\ worker'[w].copy = worker[w].copy
      /\ \A v \in Workers \ {w} : worker'[v] = worker[v]
  BY <1>0 DEF WorkerSettle, Worker
<1>2. jobs[id].state = "running" /\ Exists(jobs[id])
  BY <1>0, HeldRuns DEF Exists
<1>3. /\ now' = now /\ \A j \in Jobs \ {id} : jobs'[j] = jobs[j]
      /\ \/ jobs'[id].state \in {"succeeded", "dead"}
         \/ jobs'[id].state = "pending" /\ now' < jobs'[id].runAt
  <2>1. CASE worker[w].failed
    <3>1. Fail(id, worker[w].willRetry, worker[w].next)
      BY <1>p, <2>1 DEF WorkerSettle
    <3>2. worker[w].willRetry => now < worker[w].next
      BY <1>0, <2>1 DEF StrandInv, RetriesLater
    <3> QED BY <1>0, <1>2, <3>1, <3>2 DEF Fail, SetRow
  <2>2. CASE ~worker[w].failed
    <3>1. Succeed(id)
      BY <1>p, <2>2 DEF WorkerSettle
    <3> QED BY <1>0, <1>2, <3>1 DEF Succeed, SetRow, Row
  <2> QED BY <2>1, <2>2
<1>4. OutOfReach(id)'
  <2>1. ListFresh(flusher[Ticker], jobs, Held)
    BY <1>0 DEF Prompt, TickerInv, FreshInv
  <2>2. ~ClaimedByFlusher(Ticker, id)
    BY <1>0 DEF PoolInv, Exclusive
  <2>3. \A c \in flusher'[Ticker].rest : c.id # id
    BY <1>0, <2>1 DEF ListFresh
  <2>4. flusher'[Ticker].pc \in {"claim", "register", "acquire"}
          => flusher'[Ticker].cur.id # id
    BY <1>0, <2>1, <2>2 DEF ListFresh, ClaimedByFlusher
  <2> QED BY <1>3, <2>3, <2>4 DEF OutOfReach
<1>5. RetriesLater'
  BY <1>0, <1>1, <1>3 DEF RetriesLater, StrandInv
<1>6. ASSUME faults = 0 PROVE LeavesInTime'
  <2> SUFFICES ASSUME NEW v \in Workers, NEW j \in Jobs, j # id,
                      worker'[v].pc = "teardown", worker'[v].copy.id = j
               PROVE  OutOfReach(j)'
    BY <1>4 DEF LeavesInTime
  <2>1. OutOfReach(j)
    BY <1>p, <1>0, <1>1, <1>6 DEF StrandInv, LeavesInTime
  <2>2. jobs'[j] = jobs[j]
    BY <1>3
  <2> QED BY <1>0, <1>3, <2>1, <2>2, ReachUnmoved
<1>7. ASSUME faults = 0 PROVE NoneStranded'
  <2>1. \A f \in Flushers, j \in Jobs : ClaimedByFlusher(f, j) => j \in Held'
    BY <1>0 DEF ClaimedByFlusher, Held
  <2>2. ASSUME NEW v \in Workers, NEW j \in Jobs, ClaimedByWorker(v, j)
        PROVE  j \in Held' \/ jobs'[j].state # "running"
    <3>1. CASE v = w
      BY <1>p, <1>3, <2>2, <3>1 DEF ClaimedByWorker
    <3>2. CASE v # w
      BY <1>1, <2>2, <3>2 DEF ClaimedByWorker, Held
    <3> QED BY <3>1, <3>2
  <2> QED BY <1>0, <1>7, <2>1, <2>2, NoneLost DEF StrandInv
<1> QED BY <1>0, <1>5, <1>6, <1>7 DEF StrandInv

LEMMA StrandWorker ==
    ASSUME Prompt, Effect, NEW w \in Workers, WorkerStep(w), faults' = faults
    PROVE  StrandInv'
<1>0. /\ worker \in [Workers -> Worker] /\ now \in Nat
      /\ worker[w].copy \in Copy
  BY DEF Prompt, TypeOK, StoreTypeOK, PoolTypeOK, Worker
<1>1. ASSUME UNCHANGED <<jobs, now, flusher>>,
             \A v \in Workers \ {w} : worker'[v] = worker[v],
             \/ /\ worker'[w].pc \in {"handle", "record", "count"}
                /\ worker'[w].copy = worker[w].copy
             \/ /\ worker[w].pc \in {"teardown", "release"}
                /\ worker'[w].pc \in {"release", "idle"}
      PROVE  StrandInv'
  BY <1>1, GoroutineStrands DEF ClaimedByWorker
<1>2. CASE WorkerStart(w)
  BY <1>0, <1>1, <1>2 DEF WorkerStart, storeVars, Worker
<1>3. CASE WorkerHandle(w)
  <2>1. PICK failed : worker' = [worker EXCEPT ![w].pc = "record", ![w].failed = failed]
    BY <1>3, Zenon DEF WorkerHandle
  <2>2. /\ worker'[w].pc = "record" /\ worker'[w].copy = worker[w].copy
        /\ \A v \in Workers \ {w} : worker'[v] = worker[v]
    BY <1>0, <2>1 DEF Worker
  <2> QED BY <1>1, <1>3, <2>2 DEF WorkerHandle, storeVars
<1>4. CASE WorkerRecord(w)
  BY <1>0, <1>1, <1>4 DEF WorkerRecord, RecordAttempt, Worker
<1>5. CASE WorkerCount(w)
  <2>1. PICK retry \in BOOLEAN : retry = (worker[w].failed /\ WillRetry(worker[w].copy))
    OBVIOUS
  <2>2. worker' = [worker EXCEPT ![w].pc = "settle", ![w].willRetry = retry,
                     ![w].next = IF retry THEN NextRunAt(worker[w].copy) ELSE 0]
    BY <1>5, <2>1, Zenon DEF WorkerCount
  <2>3. /\ worker'[w].pc = "settle" /\ worker'[w].copy = worker[w].copy
        /\ worker'[w].willRetry = retry
        /\ retry => worker'[w].next = NextRunAt(worker[w].copy)
        /\ \A v \in Workers \ {w} : worker'[v] = worker[v]
    BY <1>0, <2>2 DEF Worker
  <2>4. now < NextRunAt(worker[w].copy)
    BY <1>0, NextRunAtTyped
  <2>5. worker[w].pc = "count" /\ UNCHANGED <<jobs, now, flusher>>
    BY <1>5 DEF WorkerCount, storeVars
  <2>6. \A j \in Jobs : ClaimedByWorker(w, j) => ClaimedByWorker(w, j)'
    BY <2>3 DEF ClaimedByWorker
  <2> QED BY <2>3, <2>4, <2>5, <2>6, GoroutineStrands
<1>6. CASE WorkerSettle(w)
  BY <1>6, SettleStrands
<1>7. CASE WorkerTeardown(w)
  BY <1>0, <1>1, <1>7 DEF WorkerTeardown, storeVars, Worker
<1>8. CASE WorkerRelease(w)
  BY <1>0, <1>1, <1>8 DEF WorkerRelease, storeVars, IdleWorker
<1> QED BY <1>2, <1>3, <1>4, <1>5, <1>6, <1>7, <1>8 DEF WorkerStep

\* A step of somebody else leaves the claims as they are.
LEMMA NoneLostElsewhere ==
    ASSUME TypeOK, Effect, NoneStranded, UNCHANGED <<flusher, worker>>
    PROVE  NoneStranded'
<1>1. /\ \A f \in Flushers, j \in Jobs : ClaimedByFlusher(f, j) => j \in Held'
      /\ \A w \in Workers, j \in Jobs : ClaimedByWorker(w, j) => j \in Held'
  BY DEF ClaimedByFlusher, ClaimedByWorker, Held
<1> QED BY <1>1, NoneLost

\* Requests insert rows, and nothing else that matters here.
LEMMA RequestStrands ==
    ASSUME Prompt, Effect, UNCHANGED <<now, flusher, worker, faults>>,
           \A j \in Jobs : jobs'[j] = jobs[j] \/ ~Exists(jobs[j])
    PROVE  StrandInv'
<1>0. TypeOK /\ StrandInv
  BY DEF Prompt
<1>1. RetriesLater'
  BY <1>0 DEF RetriesLater, StrandInv
<1>2. ASSUME faults = 0 PROVE LeavesInTime'
  <2> SUFFICES ASSUME NEW v \in Workers, NEW j \in Jobs,
                      worker'[v].pc = "teardown", worker'[v].copy.id = j
               PROVE  OutOfReach(j)'
    BY DEF LeavesInTime
  <2>1. OutOfReach(j)
    BY <1>0, <1>2 DEF StrandInv, LeavesInTime
  <2>2. jobs'[j] = jobs[j]
    BY <2>1 DEF OutOfReach, Exists
  <2> QED BY <2>1, <2>2, ReachUnmoved
<1> QED BY <1>0, <1>1, <1>2, NoneLostElsewhere DEF StrandInv

LEMMA StrandClient ==
    ASSUME Prompt, TypeOK', Effect, NEW c \in Clients, ClientStep(c), faults' = faults
    PROVE  StrandInv'
<1>0. TypeOK /\ PoolInv
  BY DEF Prompt
<1>1. ClientMoves(c)
  BY <1>0, ClientMovesOnly
<1>2. UNCHANGED <<now, flusher, worker, faults>>
  BY <1>1 DEF ClientMoves, poolVars
<1>3. \A j \in Jobs : jobs'[j] = jobs[j] \/ ~Exists(jobs[j])
  <2>1. ASSUME NEW k \in Jobs, NEW row \in Row, Inserts(k, row)
        PROVE  \A j \in Jobs : jobs'[j] = jobs[j] \/ ~Exists(jobs[j])
    BY <1>0, <2>1 DEF Inserts, TypeOK, StoreTypeOK
  <2> QED BY <1>1, <2>1 DEF ClientMoves
<1> QED BY <1>2, <1>3, RequestStrands

\* A call that fails ends what is promised of the rows; the rest stands.
LEMMA StrandFault ==
    ASSUME Prompt, TypeOK', FaultStep
    PROVE  StrandInv'
<1>0. /\ flusher \in [Flushers -> Flusher] /\ worker \in [Workers -> Worker]
      /\ faults \in Nat /\ faults' = faults + 1
      /\ TypeOK /\ PoolInv /\ Flushers = {Ticker} /\ Ticker \in Flushers
      /\ flusher[Ticker].ctxDone = FALSE /\ RetriesLater
  BY TickerIsFlusher DEF Prompt, TickerInv, TypeOK, PoolTypeOK, FaultStep, StrandInv
<1>1. ASSUME now' = now, flusher'[Ticker].ctxDone = FALSE,
             \A w \in Workers : worker'[w] = worker[w] \/ worker'[w].pc # "settle"
      PROVE  StrandInv'
  <2>1. RetriesLater' /\ faults' # 0
    BY <1>0, <1>1, RetriesLaterKept
  <2>2. PromptTeardown
    BY DEF Prompt, StrandInv
  <2> QED BY <1>1, <2>1, <2>2, Zenon DEF StrandInv
<1>2. ASSUME NEW f \in Flushers, FlushCheckFails(f) PROVE StrandInv'
  <2>1. PICK c \in flusher[f].rest :
          flusher' = [flusher EXCEPT ![f].rest = @ \ {c}, ![f].pc = "claim",
                                     ![f].cur = c]
    BY <1>2 DEF FlushCheckFails
  <2>2. flusher'[Ticker].ctxDone = flusher[Ticker].ctxDone
    BY <1>0, <2>1 DEF Flusher
  <2> QED BY <1>0, <1>1, <1>2, <2>2 DEF FlushCheckFails, storeVars
<1>3. ASSUME NEW f \in Flushers, FlushClaimFails(f) PROVE StrandInv'
  <2>1. flusher'[Ticker].ctxDone = flusher[Ticker].ctxDone
    BY <1>0, <1>3 DEF FlushClaimFails, Flusher
  <2> QED BY <1>0, <1>1, <1>3, <2>1 DEF FlushClaimFails, storeVars
<1>4. ASSUME NEW w \in Workers, WorkerCallFails(w) PROVE StrandInv'
  <2>1. /\ worker'[w].pc \in {"count", "teardown"}
        /\ \A v \in Workers \ {w} : worker'[v] = worker[v]
        /\ UNCHANGED <<now, flusher>>
    BY <1>0, <1>4, CallFailed DEF storeVars
  <2> QED BY <1>0, <1>1, <2>1
<1>5. ASSUME NEW c \in Clients, ApiCallFails(c) PROVE StrandInv'
  <2>1. UNCHANGED <<now, flusher, worker>>
    BY <1>5 DEF ApiCallFails, storeVars, poolVars
  <2> QED BY <1>0, <1>1, <2>1
<1> QED BY <1>2, <1>3, <1>4, <1>5 DEF FaultStep

LEMMA StrandRestart == ASSUME Prompt, Restart PROVE StrandInv'
<1>0. Ticker \in Flushers /\ jobs \in [Jobs -> Row]
  BY TickerIsFlusher DEF Prompt, TickerInv, TypeOK, StoreTypeOK
<1>1. /\ flusher'[Ticker] = IdleFlusher
      /\ \A w \in Workers : worker'[w] = IdleWorker
      /\ jobs' = RecoverInterrupted(RecoverOnOpen(jobs, now), now)
  BY <1>0 DEF Restart, PoolReset
<1>2. \A j \in Jobs : jobs'[j].state # "running"
  <2> TAKE j \in Jobs
  <2>1. jobs'[j] = IF jobs[j].state = "running" THEN RequeueAt(jobs[j], now) ELSE jobs[j]
    BY <1>0, <1>1 DEF RecoverInterrupted, RecoverOnOpen, RequeueAt, Row
  <2> QED BY <1>0, <2>1 DEF RequeueAt, Row
<1>3. /\ flusher'[Ticker].ctxDone = FALSE
      /\ RetriesLater' /\ LeavesInTime' /\ NoneStranded'
  BY <1>1, <1>2 DEF IdleFlusher, IdleWorker, RetriesLater, LeavesInTime, NoneStranded,
     Stranded
<1> QED BY <1>3 DEF Prompt, StrandInv

LEMMA StrandTick == ASSUME Prompt, Effect, Tick PROVE StrandInv'
<1>0. TypeOK /\ StrandInv /\ PromptTeardown
  BY DEF Prompt, StrandInv
<1>t. /\ UNCHANGED <<flusher, worker, faults>>
      /\ \A w \in Workers : worker[w].pc \notin {"settle", "teardown"}
  BY <1>0, Zenon DEF Tick, poolVars, badLuck
<1>1. RetriesLater' /\ LeavesInTime'
  BY <1>t DEF RetriesLater, LeavesInTime
<1> QED BY <1>0, <1>t, <1>1, NoneLostElsewhere DEF StrandInv

LEMMA StrandStep ==
    ASSUME Prompt, TypeOK', [Next]_vars
    PROVE  StrandInv'
<1>0. TypeOK /\ PoolInv /\ TickerAlone /\ Effect
  BY PoolStep DEF Prompt, TickerInv
<1>1. CASE PollTick
  BY <1>0, <1>1, PoolAssumption, StrandFlush DEF PollTick, badLuck
<1>2. ASSUME NEW f \in Flushers, FlushStepOf(f) PROVE StrandInv'
  BY <1>0, <1>2, StrandFlush DEF FlushStepOf, badLuck
<1>3. ASSUME NEW w \in Workers, WorkerStepOf(w) PROVE StrandInv'
  BY <1>0, <1>3, StrandWorker DEF WorkerStepOf, badLuck
<1>4. ASSUME NEW c \in Clients, ClientStepOf(c) PROVE StrandInv'
  BY <1>0, <1>4, StrandClient DEF ClientStepOf, badLuck
<1>5. CASE RequestStep
  <2>1. ASSUME NEW j \in Jobs PROVE ~ApiRequeueDead(j)
    BY <1>0 DEF ApiRequeueDead, NewRequest, TickerAlone, PoolOnly
  <2>2. ASSUME NEW f \in Flushers PROVE ~ApiFlush(f) /\ ~ApiDisconnect(f)
    BY <1>0 DEF ApiFlush, ApiDisconnect, TickerAlone
  <2>3. UNCHANGED <<jobs, now, flusher, worker, faults>>
    BY <1>5, <2>1, <2>2 DEF RequestStep, ApiPause, ApiResume, SetPaused, poolVars, badLuck
  <2> QED BY <1>0, <2>3, RequestStrands
<1>6. CASE FaultStep
  BY <1>6, StrandFault
<1>7. CASE Restart
  BY <1>7, StrandRestart
<1>8. CASE Tick
  BY <1>0, <1>8, StrandTick
<1>9. CASE UNCHANGED vars
  <2>1. UNCHANGED <<jobs, now, flusher, worker, faults>>
    BY <1>9 DEF vars, storeVars, poolVars, badLuck
  <2> QED BY <1>0, <2>1, RequestStrands
<1> QED BY <1>1, <1>2, <1>3, <1>4, <1>5, <1>6, <1>7, <1>8, <1>9 DEF Next

LEMMA StrandInit == PromptTeardown /\ Init => StrandInv
<1> SUFFICES ASSUME PromptTeardown, Init PROVE StrandInv
  OBVIOUS
<1>1. \A j \in Jobs : jobs[j].state # "running"
  BY DEF Init, AbsentRow
<1> QED BY <1>1, PoolAssumption DEF Init, PoolInit, IdleFlusher, IdleWorker, StrandInv,
        RetriesLater, LeavesInTime, NoneStranded, Stranded

\* With the ticker as the only flush, and goroutines that leave the active set
\* within the second they settle in, nobody drops a claimed job: FlushRegister never
\* skips one, and only a statement that failed leaves a row running for nobody.
THEOREM StrandingTakesAFault ==
    TickerAlone /\ PromptTeardown /\ Spec => []StrandedOnlyByFault
<1>1. TypeOK /\ StrandInv => StrandedOnlyByFault
  BY DEF TypeOK, StrandInv, NoneStranded, StrandedOnlyByFault
<1>2. TypeOK /\ TypeOK' /\ PoolInv /\ TickerInv /\ Ownership /\ StrandInv /\ [Next]_vars
        => StrandInv'
  BY StrandStep DEF Prompt
<1> QED BY <1>1, <1>2, StrandInit, TickerInvariant, OwnershipInvariant, PTL DEF Spec
=============================================================================
