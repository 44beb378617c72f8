---------------------------- MODULE MetricsProofs ----------------------------
(***************************************************************************)
(* The counters of package metrics against the table, while the pool alone *)
(* rewrites rows.                                                          *)
(***************************************************************************)
EXTENDS PoolOnlyProofs

-----------------------------------------------------------------------------
(* The sets the counters are compared with. *)

Succeeded == {j \in Jobs : jobs[j].state = "succeeded"}

Dead == {j \in Jobs : jobs[j].state = "dead"}

CountedOk == Counted(FALSE)

CountedFailed == Counted(TRUE)

Buried == {w \in CountedFailed : ~worker[w].willRetry}

LEMMA FailureOf ==
    ASSUME \A j \in Jobs : jobs[j].attempts \in Nat
    PROVE  \A p : p \in Failures <=>
                    \E j \in Jobs, i \in Nat : p = <<j, i>> /\ i < jobs[j].attempts
<1>1. ASSUME NEW j \in Jobs, NEW i
      PROVE  i \in 0 .. jobs[j].attempts - 1 <=> i \in Nat /\ i < jobs[j].attempts
  <2>1. jobs[j].attempts \in Nat
    OBVIOUS
  <2> QED BY <2>1
<1>2. ASSUME NEW p
      PROVE  p \in Failures <=>
               \E j \in Jobs : \E i \in 0 .. jobs[j].attempts - 1 : p = <<j, i>>
  BY DEF Failures
<1> QED BY <1>1, <1>2

LEMMA BooksFinite ==
    ASSUME TypeOK
    PROVE  /\ IsFiniteSet(Succeeded) /\ IsFiniteSet(Dead) /\ IsFiniteSet(Failures)
           /\ IsFiniteSet(CountedOk) /\ IsFiniteSet(CountedFailed) /\ IsFiniteSet(Buried)
<1>1. IsFiniteSet(Succeeded) /\ IsFiniteSet(Dead)
  BY StoreAssumption, FS_Subset DEF Succeeded, Dead
<1>2. IsFiniteSet(CountedOk) /\ IsFiniteSet(CountedFailed)
  <2>1. CountedOk \in SUBSET Workers /\ CountedFailed \in SUBSET Workers
    BY DEF CountedOk, CountedFailed, Counted
  <2> QED BY <2>1, PoolAssumption, FS_Subset
<1>3. IsFiniteSet(Buried)
  BY <1>2, FS_Subset DEF Buried
<1>4. IsFiniteSet(Failures)
  <2> DEFINE Of(j) == {j} \X (0 .. jobs[j].attempts - 1)
             Parts == {Of(j) : j \in Jobs}
  <2>1. ASSUME NEW j \in Jobs PROVE IsFiniteSet(Of(j))
    <3>1. 0 \in Int /\ jobs[j].attempts - 1 \in Int
      BY DEF TypeOK, StoreTypeOK, Row
    <3>2. IsFiniteSet(0 .. jobs[j].attempts - 1) /\ IsFiniteSet({j})
      BY <3>1, FS_Interval, FS_Singleton
    <3> QED BY <3>2, FS_Product
  <2> HIDE DEF Of
  <2>2. IsFiniteSet(Parts)
    <3> DEFINE F == [j \in Jobs |-> Of(j)]
    <3>1. F \in Surjection(Jobs, Parts)
      BY DEF Surjection
    <3> HIDE DEF F, Parts
    <3> QED BY <3>1, StoreAssumption, FS_Surjection
  <2>3. \A part \in Parts : IsFiniteSet(part)
    BY <2>1
  <2>4. Failures = UNION Parts
    BY DEF Failures, Of
  <2> HIDE DEF Parts
  <2> QED BY <2>2, <2>3, <2>4, FS_UNION
<1> QED BY <1>1, <1>2, <1>3, <1>4

BooksNat ==
    /\ Cardinality(Succeeded) \in Nat /\ Cardinality(Dead) \in Nat
    /\ Cardinality(Failures) \in Nat /\ Cardinality(Buried) \in Nat
    /\ Cardinality(CountedFailed) \in Nat /\ Cardinality(CountedOk) \in Nat
    /\ metrics.succeeded \in Nat /\ metrics.failed \in Nat
    /\ metrics.retried \in Nat /\ metrics.dead \in Nat
    /\ crashes \in Nat /\ faults \in Nat

LEMMA BooksAreNat == TypeOK => BooksNat
BY BooksFinite, FS_CardinalityType DEF TypeOK, PoolTypeOK, BooksNat

LEMMA Plus ==
    ASSUME NEW S, IsFiniteSet(S), NEW x
    PROVE  /\ x \notin S => Cardinality(S \cup {x}) = Cardinality(S) + 1
           /\ x \in S => Cardinality(S \ {x}) + 1 = Cardinality(S)
<1>1. Cardinality(S) \in Nat
  BY FS_CardinalityType
<1>2. Cardinality(S \cup {x}) = IF x \in S THEN Cardinality(S) ELSE Cardinality(S) + 1
  BY FS_AddElement
<1>3. Cardinality(S \ {x}) = IF x \in S THEN Cardinality(S) - 1 ELSE Cardinality(S)
  BY FS_RemoveElement
<1> QED BY <1>1, <1>2, <1>3

-----------------------------------------------------------------------------
(* What moves the balance. *)

\* The property in terms of the named sets.
Balanced ==
    /\ metrics.succeeded <= Cardinality(Succeeded) + Cardinality(CountedOk) + faults
    /\ metrics.dead <= Cardinality(Dead) + Cardinality(Buried) + faults
    /\ metrics.failed <= Cardinality(Failures) + Cardinality(CountedFailed) + faults
    /\ metrics.failed = metrics.retried + metrics.dead
    /\ crashes = 0 /\ faults = 0 =>
         /\ metrics.succeeded = Cardinality(Succeeded) + Cardinality(CountedOk)
         /\ metrics.dead = Cardinality(Dead) + Cardinality(Buried)
         /\ metrics.failed = Cardinality(Failures) + Cardinality(CountedFailed)

LEMMA BalancedIsMatch == Balanced <=> MetricsMatchStore
BY DEF Balanced, MetricsMatchStore, Succeeded, Dead, Buried, CountedOk, CountedFailed

RowsStand ==
    \A j \in Jobs : /\ jobs'[j].state = "succeeded" <=> jobs[j].state = "succeeded"
                    /\ jobs'[j].state = "dead" <=> jobs[j].state = "dead"
                    /\ jobs'[j].attempts = jobs[j].attempts

Stands(x, y) ==
    \/ x.pc # "settle" /\ y.pc # "settle"
    \/ y.pc = x.pc /\ y.failed = x.failed /\ y.willRetry = x.willRetry

LuckMoves == faults <= faults' /\ crashes <= crashes'

LEMMA RowSetsStand ==
    ASSUME TypeOK, TypeOK', RowsStand
    PROVE  Succeeded' = Succeeded /\ Dead' = Dead /\ Failures' = Failures
<1>1. /\ \A j \in Jobs : jobs[j].attempts \in Nat
      /\ \A j \in Jobs : jobs'[j].attempts \in Nat
  BY DEF TypeOK, StoreTypeOK, Row
<1>2. Failures' = Failures
  <2>1. \A j \in Jobs : {j} \X (0 .. jobs'[j].attempts - 1) = {j} \X (0 .. jobs[j].attempts - 1)
    BY DEF RowsStand
  <2> QED BY <2>1 DEF Failures
<1> QED BY <1>2 DEF RowsStand, Succeeded, Dead

LEMMA CountedStands ==
    ASSUME \A w \in Workers : Stands(worker[w], worker'[w])
    PROVE  /\ CountedFailed' = CountedFailed /\ CountedOk' = CountedOk
           /\ Buried' = Buried
<1>1. \A w \in Workers : /\ worker'[w].pc = "settle" <=> worker[w].pc = "settle"
                         /\ worker[w].pc = "settle" =>
                              /\ worker'[w].failed = worker[w].failed
                              /\ worker'[w].willRetry = worker[w].willRetry
  BY DEF Stands
<1> QED BY <1>1 DEF Counted, CountedOk, CountedFailed, Buried

\* A step that is no concern of the counters.
LEMMA BalanceStands ==
    ASSUME TypeOK, TypeOK', Balanced, metrics' = metrics, RowsStand, LuckMoves,
           \A w \in Workers : Stands(worker[w], worker'[w])
    PROVE  Balanced'
<1>1. /\ Succeeded' = Succeeded /\ Dead' = Dead /\ Failures' = Failures
      /\ CountedFailed' = CountedFailed /\ CountedOk' = CountedOk
      /\ Buried' = Buried
  BY RowSetsStand, CountedStands
<1>2. /\ faults' \in Nat /\ crashes' \in Nat
      /\ faults' = 0 /\ crashes' = 0 => faults = 0 /\ crashes = 0
  BY DEF TypeOK, LuckMoves
<1> QED BY <1>1, <1>2, BooksAreNat DEF Balanced, BooksNat, LuckMoves

\* finish counts the outcome before the row shows it.
LEMMA CountBalances ==
    ASSUME TypeOK, TypeOK', Balanced, NEW w \in Workers, WorkerCount(w),
           UNCHANGED <<crashes, faults>>
    PROVE  Balanced'
<1>0. worker \in [Workers -> Worker]
      /\ metrics \in [succeeded : Nat, failed : Nat, retried : Nat, dead : Nat]
  BY DEF TypeOK, PoolTypeOK
<1> DEFINE retry == worker[w].failed /\ WillRetry(worker[w].copy)
<1>1. /\ worker[w].pc = "count" /\ worker'[w].pc = "settle"
      /\ worker'[w].failed = worker[w].failed /\ worker'[w].willRetry = retry
      /\ \A v \in Workers \ {w} : worker'[v] = worker[v]
      /\ jobs' = jobs
  BY <1>0 DEF WorkerCount, Worker, storeVars
<1>2. metrics' = Bump(metrics, IF worker[w].failed
                               THEN {"failed", IF retry THEN "retried" ELSE "dead"}
                               ELSE {"succeeded"})
  BY DEF WorkerCount
<1> HIDE DEF retry
<1>3. /\ Succeeded' = Succeeded /\ Dead' = Dead /\ Failures' = Failures
  BY <1>1 DEF Succeeded, Dead, Failures
<1>4. w \notin CountedOk /\ w \notin CountedFailed /\ w \notin Buried
  BY <1>1 DEF CountedOk, CountedFailed, Counted, Buried
<1>5. CASE ~worker[w].failed
  <2>0. worker[w].failed = FALSE
    BY <1>0, <1>5 DEF Worker
  <2>1. CountedOk' = CountedOk \cup {w} /\ CountedFailed' = CountedFailed
    BY <1>1, <2>0, Zenon DEF CountedOk, CountedFailed, Counted
  <2>2. Buried' = Buried
    BY <1>1, <1>4, <2>1 DEF Buried, CountedFailed, Counted
  <2>3. /\ metrics'.succeeded = metrics.succeeded + 1 /\ metrics'.failed = metrics.failed
        /\ metrics'.retried = metrics.retried /\ metrics'.dead = metrics.dead
    BY <1>0, <1>2, <1>5 DEF Bump
  <2>4. Cardinality(CountedOk') = Cardinality(CountedOk) + 1
    BY <1>4, <2>1, BooksFinite, Plus
  <2> QED BY <1>3, <2>1, <2>2, <2>3, <2>4, BooksAreNat DEF Balanced, BooksNat
<1>6. CASE worker[w].failed
  <2>1. CountedOk' = CountedOk /\ CountedFailed' = CountedFailed \cup {w}
    BY <1>1, <1>6, Zenon DEF CountedOk, CountedFailed, Counted
  <2>2. /\ metrics'.succeeded = metrics.succeeded
        /\ metrics'.failed = metrics.failed + 1
        /\ retry => metrics'.retried = metrics.retried + 1 /\ metrics'.dead = metrics.dead
        /\ ~retry => metrics'.retried = metrics.retried /\ metrics'.dead = metrics.dead + 1
    BY <1>0, <1>2, <1>6 DEF Bump
  <2>3. Cardinality(CountedFailed') = Cardinality(CountedFailed) + 1
    BY <1>4, <2>1, BooksFinite, Plus
  <2>4. CASE retry
    <3>1. Buried' = Buried
      BY <1>1, <1>4, <2>1, <2>4 DEF Buried, CountedFailed, Counted
    <3> QED BY <1>3, <2>1, <2>2, <2>3, <2>4, <3>1, BooksAreNat DEF Balanced, BooksNat
  <2>5. CASE ~retry
    <3>1. Buried' = Buried \cup {w}
      BY <1>1, <1>4, <2>1, <2>5 DEF Buried, CountedFailed, Counted
    <3>2. Cardinality(Buried') = Cardinality(Buried) + 1
      BY <1>4, <3>1, BooksFinite, Plus
    <3> QED BY <1>3, <2>1, <2>2, <2>3, <2>5, <3>1, <3>2, BooksAreNat DEF Balanced, BooksNat
  <2> QED BY <2>4, <2>5
<1> QED BY <1>5, <1>6

\* A goroutine leaves "settle".
LEMMA LeavesCounted ==
    ASSUME TypeOK, NEW w \in Workers, worker[w].pc = "settle",
           worker'[w].pc = "teardown", \A v \in Workers \ {w} : worker'[v] = worker[v]
    PROVE  /\ worker[w].failed =>
                /\ CountedOk' = CountedOk
                /\ Cardinality(CountedFailed') + 1 = Cardinality(CountedFailed)
                /\ worker[w].willRetry => Buried' = Buried
                /\ ~worker[w].willRetry =>
                      Cardinality(Buried') + 1 = Cardinality(Buried)
           /\ ~worker[w].failed =>
                /\ Cardinality(CountedOk') + 1 = Cardinality(CountedOk)
                /\ CountedFailed' = CountedFailed /\ Buried' = Buried
<1>0. worker[w].failed \in BOOLEAN /\ worker[w].willRetry \in BOOLEAN
  BY DEF TypeOK, PoolTypeOK, Worker
<1>1. CountedOk' = CountedOk \ {w} /\ CountedFailed' = CountedFailed \ {w}
  <2>1. ASSUME NEW v \in Workers
        PROVE  worker'[v].pc = "settle" <=> worker[v].pc = "settle" /\ v # w
    BY <2>1
  <2>2. ASSUME NEW v
        PROVE  /\ v \in CountedOk' <=> v \in CountedOk /\ v # w
               /\ v \in CountedFailed' <=> v \in CountedFailed /\ v # w
    <3>1. CASE v \notin Workers
      BY <3>1 DEF CountedOk, CountedFailed, Counted
    <3>2. CASE v = w
      BY <2>1, <3>2 DEF CountedOk, CountedFailed, Counted
    <3>3. CASE v \in Workers /\ v # w
      <4>1. worker'[v] = worker[v]
        BY <3>3
      <4> QED BY <3>3, <4>1 DEF CountedOk, CountedFailed, Counted
    <3> QED BY <3>1, <3>2, <3>3
  <2> QED BY <2>2
<1>2. Buried' = Buried \ {w}
  <2>1. \A v \in CountedFailed' : v # w /\ worker'[v] = worker[v]
    BY <1>1 DEF CountedFailed, Counted
  <2> QED BY <1>1, <2>1 DEF Buried
<1>3. CASE worker[w].failed
  <2>1. w \in CountedFailed /\ w \notin CountedOk
    BY <1>0, <1>3 DEF CountedOk, CountedFailed, Counted
  <2>2. worker[w].willRetry <=> w \notin Buried
    BY <2>1 DEF Buried
  <2>3. CountedOk' = CountedOk
    BY <1>1, <2>1
  <2>4. Cardinality(CountedFailed') + 1 = Cardinality(CountedFailed)
    BY <1>1, <2>1, BooksFinite, Plus
  <2>5. worker[w].willRetry => Buried' = Buried
    BY <1>2, <2>2
  <2>6. ~worker[w].willRetry => Cardinality(Buried') + 1 = Cardinality(Buried)
    BY <1>2, <2>2, BooksFinite, Plus
  <2> QED BY <1>3, <2>3, <2>4, <2>5, <2>6
<1>4. CASE ~worker[w].failed
  <2>1. w \in CountedOk /\ w \notin CountedFailed
    BY <1>0, <1>4, Zenon DEF CountedOk, CountedFailed, Counted
  <2>2. w \notin Buried
    BY <2>1 DEF Buried
  <2>3. Cardinality(CountedOk') + 1 = Cardinality(CountedOk)
    BY <1>1, <2>1, BooksFinite, Plus
  <2> QED BY <1>1, <1>2, <1>4, <2>1, <2>2, <2>3
<1> QED BY <1>3, <1>4

\* A row counts one more failure.
LEMMA FailureAdded ==
    ASSUME TypeOK, TypeOK', NEW j \in Jobs, jobs'[j].attempts = jobs[j].attempts + 1,
           \A k \in Jobs \ {j} : jobs'[k] = jobs[k]
    PROVE  Cardinality(Failures') = Cardinality(Failures) + 1
<1> DEFINE p == <<j, jobs[j].attempts>>
<1>0. /\ \A k \in Jobs : jobs[k].attempts \in Nat
      /\ \A k \in Jobs : jobs'[k].attempts \in Nat
  BY DEF TypeOK, StoreTypeOK, Row
<1>1. \A q : q \in Failures <=>
               \E k \in Jobs, i \in Nat : q = <<k, i>> /\ i < jobs[k].attempts
  BY <1>0, FailureOf
<1>2. ASSUME NEW q
      PROVE  q \in Failures' <=>
               \E k \in Jobs, i \in Nat : q = <<k, i>> /\ i < jobs'[k].attempts
  <2>1. ASSUME NEW k \in Jobs, NEW i
        PROVE  i \in 0 .. jobs'[k].attempts - 1 <=> i \in Nat /\ i < jobs'[k].attempts
    BY <1>0
  <2>2. q \in Failures' <=>
          \E k \in Jobs : \E i \in 0 .. jobs'[k].attempts - 1 : q = <<k, i>>
    BY DEF Failures
  <2> QED BY <2>1, <2>2
<1>3. ASSUME NEW k \in Jobs, NEW i \in Nat
      PROVE  i < jobs'[k].attempts <=> i < jobs[k].attempts \/ <<k, i>> = p
  BY <1>0
<1>4. p \notin Failures
  BY <1>0, <1>1
<1>5. ASSUME NEW q PROVE q \in Failures' <=> q \in Failures \/ q = p
  <2>1. q = p => \E k \in Jobs, i \in Nat : q = <<k, i>>
    BY <1>0
  <2> HIDE DEF p
  <2> QED BY <1>1, <1>2, <1>3, <2>1
<1>6. Failures' = Failures \cup {p}
  BY <1>5
<1> HIDE DEF p
<1> QED BY <1>4, <1>6, BooksFinite, Plus

\* The row takes over what was counted.
LEMMA SettleBalances ==
    ASSUME TypeOK, TypeOK', BooksNat', PoolInv, Balanced, NEW w \in Workers, WorkerSettle(w),
           UNCHANGED <<crashes, faults>>
    PROVE  Balanced'
<1>p. PICK id \in Jobs : id = worker[w].copy.id
  BY DEF TypeOK, PoolTypeOK, Worker, Copy
<1>0. /\ worker \in [Workers -> Worker] /\ jobs \in [Jobs -> Row]
      /\ worker[w].pc = "settle" /\ metrics' = metrics
      /\ ClaimedByWorker(w, id) /\ id \in Held
  BY <1>p DEF TypeOK, StoreTypeOK, PoolTypeOK, WorkerSettle, ClaimedByWorker, Held
<1>1. /\ worker'[w].pc = "teardown"
      /\ \A v \in Workers \ {w} : worker'[v] = worker[v]
  BY <1>0 DEF WorkerSettle, Worker
<1>2. jobs[id].state = "running" /\ Exists(jobs[id])
  BY <1>0, HeldRuns DEF Exists
<1>3. id \notin Succeeded /\ id \notin Dead
  BY <1>2 DEF Succeeded, Dead
<1>4. CASE ~worker[w].failed
  <2>1. Succeed(id)
    BY <1>p, <1>4 DEF WorkerSettle
  <2>2. /\ jobs'[id].state = "succeeded" /\ jobs'[id].attempts = jobs[id].attempts
        /\ \A j \in Jobs \ {id} : jobs'[j] = jobs[j]
    BY <1>0, <1>2, <2>1 DEF Succeed, SetRow, Row
  <2>3. Succeeded' = Succeeded \cup {id} /\ Dead' = Dead
    BY <1>3, <2>2 DEF Succeeded, Dead
  <2>4. Failures' = Failures
    <3>1. \A j \in Jobs : {j} \X (0 .. jobs'[j].attempts - 1)
                            = {j} \X (0 .. jobs[j].attempts - 1)
      BY <2>2
    <3> QED BY <3>1 DEF Failures
  <2>5. Cardinality(Succeeded') = Cardinality(Succeeded) + 1
    BY <1>3, <2>3, BooksFinite, Plus
  <2>6. /\ Cardinality(CountedOk') + 1 = Cardinality(CountedOk)
        /\ CountedFailed' = CountedFailed /\ Buried' = Buried
    BY <1>0, <1>1, <1>4, LeavesCounted
  <2>7. Cardinality(CountedOk') \in Nat
    BY DEF BooksNat
  <2> QED BY <1>0, <2>3, <2>4, <2>5, <2>6, <2>7, BooksAreNat DEF Balanced, BooksNat
<1>5. CASE worker[w].failed
  <2>1. Fail(id, worker[w].willRetry, worker[w].next)
    BY <1>p, <1>5 DEF WorkerSettle
  <2>2. /\ jobs'[id].state = (IF worker[w].willRetry THEN "pending" ELSE "dead")
        /\ jobs'[id].attempts = jobs[id].attempts + 1
        /\ \A j \in Jobs \ {id} : jobs'[j] = jobs[j]
    BY <1>0, <1>2, <2>1 DEF Fail, SetRow
  <2>3. Succeeded' = Succeeded
    BY <1>3, <2>2 DEF Succeeded
  <2>4. Cardinality(Failures') = Cardinality(Failures) + 1
    BY <2>2, FailureAdded
  <2>5. /\ CountedOk' = CountedOk
        /\ Cardinality(CountedFailed') + 1 = Cardinality(CountedFailed)
        /\ worker[w].willRetry => Buried' = Buried
        /\ ~worker[w].willRetry => Cardinality(Buried') + 1 = Cardinality(Buried)
    BY <1>0, <1>1, <1>5, LeavesCounted
  <2>6. Cardinality(CountedFailed') \in Nat /\ Cardinality(Buried') \in Nat
    BY DEF BooksNat
  <2>7. CASE worker[w].willRetry
    <3>1. Dead' = Dead
      BY <1>3, <2>2, <2>7 DEF Dead
    <3> QED BY <1>0, <2>3, <2>4, <2>5, <2>6, <2>7, <3>1, BooksAreNat DEF Balanced, BooksNat
  <2>8. CASE ~worker[w].willRetry
    <3>1. Dead' = Dead \cup {id}
      BY <1>3, <2>2, <2>8 DEF Dead
    <3>2. Cardinality(Dead') = Cardinality(Dead) + 1
      BY <1>3, <3>1, BooksFinite, Plus
    <3> QED BY <1>0, <2>3, <2>4, <2>5, <2>6, <2>8, <3>2, BooksAreNat DEF Balanced, BooksNat
  <2> QED BY <2>7, <2>8
<1> QED BY <1>4, <1>5

\* The UPDATE that fails loses an outcome the counters have.
LEMMA LossBalances ==
    ASSUME TypeOK, TypeOK', BooksNat', Balanced, NEW w \in Workers, worker[w].pc = "settle",
           worker'[w].pc = "teardown", \A v \in Workers \ {w} : worker'[v] = worker[v],
           UNCHANGED <<jobs, metrics, crashes>>, faults' = faults + 1
    PROVE  Balanced'
<1>1. Succeeded' = Succeeded /\ Dead' = Dead /\ Failures' = Failures
  BY DEF Succeeded, Dead, Failures
<1>2. /\ Cardinality(CountedOk') \in Nat /\ Cardinality(CountedFailed') \in Nat
      /\ Cardinality(Buried') \in Nat
  BY DEF BooksNat
<1>3. /\ Cardinality(CountedOk) <= Cardinality(CountedOk') + 1
      /\ Cardinality(CountedFailed) <= Cardinality(CountedFailed') + 1
      /\ Cardinality(Buried) <= Cardinality(Buried') + 1
  BY <1>2, LeavesCounted, BooksAreNat DEF BooksNat
<1> QED BY <1>1, <1>2, <1>3, BooksAreNat DEF Balanced, BooksNat

\* A restart forgets the counters and keeps the rows.
LEMMA RestartBalances ==
    ASSUME TypeOK, TypeOK', BooksNat', Restart
    PROVE  Balanced'
<1>1. /\ metrics'.succeeded = 0 /\ metrics'.failed = 0 /\ metrics'.retried = 0
      /\ metrics'.dead = 0 /\ crashes' # 0
  BY DEF Restart, PoolReset, NoMetrics, TypeOK
<1>2. /\ Cardinality(CountedOk') \in Nat /\ Cardinality(CountedFailed') \in Nat
      /\ Cardinality(Buried') \in Nat
      /\ Cardinality(Succeeded') \in Nat /\ Cardinality(Dead') \in Nat
      /\ Cardinality(Failures') \in Nat /\ faults' \in Nat
  BY DEF TypeOK, BooksNat
<1> QED BY <1>1, <1>2 DEF Balanced

-----------------------------------------------------------------------------
(* The steps of Next. *)

LEMMA FlushBalances ==
    ASSUME TypeOK, TypeOK', Balanced, NEW f \in Flushers,
           FlushStep(f) \/ FlushBegin(f) \/ FlushCheckFails(f) \/ FlushClaimFails(f)
             \/ ApiDisconnect(f),
           LuckMoves
    PROVE  Balanced'
<1>0. worker \in [Workers -> Worker] /\ jobs \in [Jobs -> Row]
      /\ flusher \in [Flushers -> Flusher]
  BY DEF TypeOK, StoreTypeOK, PoolTypeOK
<1>1. metrics' = metrics
  BY DEF FlushStep, FlushBegin, FlushCheckFails, FlushClaimFails, ApiDisconnect,
     FlushCheck, FlushClaim, FlushRegister, FlushDispatch, FlushAbort, FlushReturn
<1>2. RowsStand
  <2>1. CASE FlushClaim(f)
    <3> DEFINE id == flusher[f].cur.id
    <3>1. id \in Jobs
      BY <1>0 DEF Flusher, Copy
    <3>2. \/ jobs' = jobs
          \/ Claimable(id) /\ jobs' = [jobs EXCEPT ![id] = [jobs[id] EXCEPT !.state = "running"]]
      BY <2>1 DEF FlushClaim, Claim, SetRow, NoRowMatches, storeVars
    <3> HIDE DEF id
    <3> QED BY <1>0, <3>1, <3>2 DEF RowsStand, Row, Claimable
  <2>2. CASE ~FlushClaim(f)
    <3>1. jobs' = jobs
      BY <2>2 DEF FlushStep, FlushBegin, FlushCheckFails, FlushClaimFails, ApiDisconnect,
         FlushCheck, FlushRegister, FlushDispatch, FlushAbort, FlushReturn, storeVars
    <3> QED BY <3>1 DEF RowsStand
  <2> QED BY <2>1, <2>2
<1>3. ASSUME NEW w \in Workers PROVE Stands(worker[w], worker'[w])
  <2>1. CASE FlushDispatch(f)
    <3>1. PICK v \in Workers : worker[v].pc = "idle"
                               /\ worker' = [worker EXCEPT ![v] = Started(f)]
      BY <2>1 DEF FlushDispatch
    <3>2. CASE w = v
      BY <1>0, <3>1, <3>2 DEF Started, IdleWorker, Stands
    <3>3. CASE w # v
      BY <1>0, <3>1, <3>3 DEF Stands
    <3> QED BY <3>2, <3>3
  <2>2. CASE worker' = CancelChildren(f) \/ worker' = worker
    BY <1>0, <2>2 DEF CancelChildren, Stands, Worker
  <2>3. CASE ~FlushDispatch(f)
    <3>1. worker' = CancelChildren(f) \/ worker' = worker
      BY <2>3 DEF FlushStep, FlushBegin, FlushCheckFails, FlushClaimFails, ApiDisconnect,
         FlushCheck, FlushClaim, FlushRegister, FlushAbort, FlushReturn
    <3> QED BY <2>2, <3>1
  <2> QED BY <2>1, <2>3
<1> QED BY <1>1, <1>2, <1>3, BalanceStands

LEMMA WorkerBalances ==
    ASSUME TypeOK, TypeOK', BooksNat', PoolInv, Balanced, NEW w \in Workers,
           \/ WorkerStep(w) /\ UNCHANGED <<crashes, faults>>
           \/ WorkerCallFails(w) /\ crashes' = crashes /\ faults' = faults + 1
    PROVE  Balanced'
<1>0. worker \in [Workers -> Worker] /\ crashes \in Nat /\ faults \in Nat
  BY DEF TypeOK, PoolTypeOK
<1>1. LuckMoves
  BY <1>0 DEF LuckMoves
<1>2. ASSUME UNCHANGED <<jobs, metrics>>, worker[w].pc # "settle", worker'[w].pc # "settle",
             \A v \in Workers \ {w} : worker'[v] = worker[v]
      PROVE  Balanced'
  BY <1>1, <1>2, BalanceStands DEF RowsStand, Stands
<1>3. CASE WorkerCallFails(w) /\ crashes' = crashes /\ faults' = faults + 1
  <2>1. UNCHANGED <<jobs, metrics>>
    BY <1>3 DEF WorkerCallFails, storeVars
  <2>2. CASE worker[w].pc = "record"
    BY <1>0, <1>2, <1>3, <2>1, <2>2 DEF WorkerCallFails, Worker
  <2>3. CASE worker[w].pc = "settle"
    <3>1. worker'[w].pc = "teardown" /\ \A v \in Workers \ {w} : worker'[v] = worker[v]
      BY <1>0, <1>3, <2>3 DEF WorkerCallFails, Worker
    <3> QED BY <1>3, <2>1, <2>3, <3>1, LossBalances
  <2> QED BY <1>3, <2>2, <2>3 DEF WorkerCallFails
<1>4. CASE WorkerStart(w)
  BY <1>0, <1>2, <1>4 DEF WorkerStart, storeVars, Worker
<1>5. CASE WorkerHandle(w)
  <2>1. PICK failed : worker' = [worker EXCEPT ![w].pc = "record", ![w].failed = failed]
    BY <1>5, Zenon DEF WorkerHandle
  <2>2. worker'[w].pc = "record" /\ \A v \in Workers \ {w} : worker'[v] = worker[v]
    BY <1>0, <2>1 DEF Worker
  <2> QED BY <1>2, <1>5, <2>2 DEF WorkerHandle, storeVars
<1>6. CASE WorkerRecord(w)
  BY <1>0, <1>2, <1>6 DEF WorkerRecord, RecordAttempt, Worker
<1>7. CASE WorkerCount(w) /\ UNCHANGED <<crashes, faults>>
  BY <1>7, CountBalances
<1>8. CASE WorkerSettle(w) /\ UNCHANGED <<crashes, faults>>
  BY <1>8, SettleBalances
<1>9. CASE WorkerTeardown(w)
  BY <1>0, <1>2, <1>9 DEF WorkerTeardown, storeVars, Worker
<1>10. CASE WorkerRelease(w)
  BY <1>0, <1>2, <1>10 DEF WorkerRelease, storeVars, IdleWorker
<1> QED BY <1>3, <1>4, <1>5, <1>6, <1>7, <1>8, <1>9, <1>10 DEF WorkerStep

LEMMA ClientBalances ==
    ASSUME TypeOK, TypeOK', PoolInv, PlainRows, Balanced, NEW c \in Clients,
           ClientStep(c) \/ ApiCallFails(c), LuckMoves
    PROVE  Balanced'
<1>1. ClientMoves(c) /\ jobs \in [Jobs -> Row]
  BY ClientMovesOnly DEF TypeOK, StoreTypeOK
<1>2. metrics' = metrics /\ worker' = worker
  BY <1>1 DEF ClientMoves, poolVars
<1>3. RowsStand
  <2>1. CASE jobs' = jobs
    BY <2>1 DEF RowsStand
  <2>2. ASSUME NEW j \in Jobs, NEW row \in Row, Inserts(j, row) PROVE RowsStand
    BY <1>1, <2>2 DEF Inserts, PlainRows, RowsStand, Exists
  <2> QED BY <1>1, <2>1, <2>2 DEF ClientMoves
<1>4. \A w \in Workers : Stands(worker[w], worker'[w])
  BY <1>2 DEF Stands
<1> QED BY <1>2, <1>3, <1>4, BalanceStands

LEMMA BalanceStep ==
    ASSUME TypeOK, TypeOK', BooksNat', PoolInv, PlainRows, Balanced, [Next]_vars
    PROVE  Balanced'
<1>0. crashes \in Nat /\ faults \in Nat
  BY DEF TypeOK
<1>1. CASE PollTick
  BY <1>0, <1>1, PoolAssumption, FlushBalances DEF PollTick, badLuck, LuckMoves
<1>2. ASSUME NEW f \in Flushers, FlushStepOf(f) PROVE Balanced'
  BY <1>0, <1>2, FlushBalances DEF FlushStepOf, badLuck, LuckMoves
<1>3. ASSUME NEW w \in Workers, WorkerStepOf(w) PROVE Balanced'
  BY <1>3, WorkerBalances DEF WorkerStepOf, badLuck
<1>4. ASSUME NEW c \in Clients, ClientStepOf(c) PROVE Balanced'
  BY <1>0, <1>4, ClientBalances DEF ClientStepOf, badLuck, LuckMoves
<1>5. CASE RequestStep
  <2>1. LuckMoves
    BY <1>0, <1>5 DEF RequestStep, badLuck, LuckMoves
  <2>2. ASSUME NEW j \in Jobs PROVE ~ApiRequeueDead(j)
    BY DEF PoolInv, PoolOnly, ApiRequeueDead, NewRequest
  <2>3. ASSUME NEW q \in Queues, ApiPause(q) \/ ApiResume(q) PROVE Balanced'
    <3>1. UNCHANGED <<jobs, worker, metrics>>
      BY <2>3 DEF ApiPause, ApiResume, SetPaused, poolVars
    <3> QED BY <2>1, <3>1, BalanceStands DEF RowsStand, Stands
  <2>4. ASSUME NEW f \in Flushers, ApiFlush(f) \/ ApiDisconnect(f) PROVE Balanced'
    BY <2>1, <2>4, FlushBalances DEF ApiFlush
  <2> QED BY <1>5, <2>2, <2>3, <2>4 DEF RequestStep
<1>6. CASE FaultStep
  <2>1. crashes' = crashes /\ faults' = faults + 1 /\ LuckMoves
    BY <1>0, <1>6 DEF FaultStep, LuckMoves
  <2>2. ASSUME NEW f \in Flushers, FlushCheckFails(f) \/ FlushClaimFails(f) PROVE Balanced'
    BY <2>1, <2>2, FlushBalances
  <2>3. ASSUME NEW w \in Workers, WorkerCallFails(w) PROVE Balanced'
    BY <2>1, <2>3, WorkerBalances
  <2>4. ASSUME NEW c \in Clients, ApiCallFails(c) PROVE Balanced'
    BY <2>1, <2>4, ClientBalances
  <2> QED BY <1>6, <2>2, <2>3, <2>4 DEF FaultStep
<1>7. CASE Restart
  BY <1>7, RestartBalances
<1>8. CASE Tick \/ UNCHANGED vars
  <2>1. UNCHANGED <<jobs, worker, metrics, crashes, faults>>
    BY <1>8 DEF Tick, vars, storeVars, poolVars, apiVars, badLuck
  <2> QED BY <1>0, <2>1, BalanceStands DEF RowsStand, Stands, LuckMoves
<1> QED BY <1>1, <1>2, <1>3, <1>4, <1>5, <1>6, <1>7, <1>8 DEF Next

LEMMA BalancedInit == TypeOK /\ Init => Balanced
<1> SUFFICES ASSUME TypeOK, Init PROVE Balanced
  OBVIOUS
<1>1. Succeeded = {} /\ Dead = {} /\ CountedOk = {} /\ CountedFailed = {} /\ Buried = {}
  BY DEF Init, PoolInit, IdleWorker, AbsentRow, Succeeded, Dead, CountedOk, CountedFailed,
     Counted, Buried
<1>2. Failures = {}
  <2>1. \A j \in Jobs : jobs[j].attempts = 0
    BY DEF Init, AbsentRow
  <2> QED BY <2>1, FailureOf
<1>3. /\ metrics.succeeded = 0 /\ metrics.failed = 0 /\ metrics.retried = 0
      /\ metrics.dead = 0 /\ faults = 0
  BY DEF Init, PoolInit, NoMetrics
<1> QED BY <1>1, <1>2, <1>3, FS_EmptySet DEF Balanced

\* Whatever flushes, goroutines, inserts, failing statements and restarts do, no
\* outcome is counted without its row but those on their way to it or lost to an
\* error, every failure counted was either retried or buried, and until the first
\* error or restart the counters are exact.
THEOREM MetricsAgree == PoolOnly /\ Spec => []MetricsMatchStore
<1>1. TypeOK /\ Init => Balanced
  BY BalancedInit
<1>2. TypeOK /\ TypeOK' /\ BooksNat' /\ PoolInv /\ PlainRows /\ Balanced /\ [Next]_vars
        => Balanced'
  BY BalanceStep
<1>3. TypeOK => BooksNat
  BY BooksAreNat
<1>4. Balanced => MetricsMatchStore
  BY BalancedIsMatch
<1> QED BY <1>1, <1>2, <1>3, <1>4, PoolInvariant, PlainRowsHold, TypeCorrect, PTL DEF Spec
=============================================================================
