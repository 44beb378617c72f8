-------------------------- MODULE TickerAloneProofs --------------------------
(***************************************************************************)
(* Theorems about JobSched while the ticker runs the only Flush: requests  *)
(* insert jobs, pause and resume queues and nothing else.  What the copies *)
(* of its list say is then still true when the loop comes to them, which   *)
(* is what the limit on attempts and the wait for run_at rest on.          *)
(***************************************************************************)
EXTENDS PoolOnlyProofs

TickerAlone == PoolOnly /\ Flushers = {Ticker}

\* The copies a flush has yet to claim are of jobs nobody has claimed since, and
\* no copy it holds, claimed or not, has missed a failure.
ListFresh(x, table, held) ==
    /\ \A c \in x.rest : c.id \notin held /\ c.row.attempts = table[c.id].attempts
    /\ \A c, d \in x.rest : c.id = d.id => c = d
    /\ x.pc \in {"claim", "register", "acquire"} =>
         /\ x.cur.row.attempts = table[x.cur.id].attempts
         /\ \A c \in x.rest : c.id # x.cur.id
    /\ x.pc = "claim" => x.cur.id \notin held

CopyFresh(x, table) ==
    x.pc \in {"start", "handle", "record", "count", "settle"} =>
        /\ x.copy.row.attempts = table[x.copy.id].attempts
        /\ x.pc = "settle" /\ x.failed /\ x.willRetry
             => x.copy.row.attempts + 1 < MaxAttemptsOf[x.copy.id]

WithinMax ==
    \A j \in Jobs :
        /\ jobs[j].state # "dead" => jobs[j].attempts < MaxAttemptsOf[j]
        /\ jobs[j].state = "dead" => jobs[j].attempts = MaxAttemptsOf[j]

FreshInv ==
    /\ \A f \in Flushers : ListFresh(flusher[f], jobs, Held)
    /\ \A w \in Workers : CopyFresh(worker[w], jobs)
    /\ WithinMax

TickerInv == TickerAlone /\ FreshInv

LEMMA FreshInit == Init => FreshInv
<1> SUFFICES ASSUME Init PROVE FreshInv
  OBVIOUS
<1>1. \A j \in Jobs : MaxAttemptsOf[j] \in Nat \ {0}
  BY StoreAssumption
<1>2. WithinMax
  BY <1>1 DEF Init, WithinMax, AbsentRow
<1> QED BY <1>2 DEF Init, PoolInit, IdleFlusher, IdleWorker, FreshInv, ListFresh, CopyFresh

\* A step that writes no row can only end claims.
LEMMA ClaimsOnlyEnd == ASSUME TypeOK, Effect, jobs' = jobs PROVE Held' \subseteq Held
<1>1. ASSUME NEW f \in Flushers, NEW j \in Jobs, Claims(f, j) PROVE FALSE
  <2>1. jobs'[j].state = "running" /\ jobs[j].state # "running"
    BY <1>1 DEF Claims, Claimable, TypeOK, StoreTypeOK, Row
  <2> QED BY <2>1
<1> QED BY <1>1 DEF Effect, Quiet, Inserts, Loses, Settles, Recovers

LEMMA FreshKept ==
    ASSUME TypeOK, FreshInv, Effect, jobs' = jobs,
           \A f \in Flushers : \/ flusher'[f] = flusher[f]
                               \/ ListFresh(flusher'[f], jobs, Held),
           \A w \in Workers : \/ worker'[w] = worker[w]
                              \/ CopyFresh(worker'[w], jobs)
    PROVE  FreshInv'
<1>1. Held' \subseteq Held
  BY ClaimsOnlyEnd
<1>2. ASSUME NEW f \in Flushers PROVE ListFresh(flusher'[f], jobs', Held')
  <2>1. ListFresh(flusher'[f], jobs, Held)
    BY DEF FreshInv
  <2> QED BY <1>1, <2>1 DEF ListFresh
<1>3. ASSUME NEW w \in Workers PROVE CopyFresh(worker'[w], jobs')
  BY DEF FreshInv
<1>4. WithinMax'
  BY DEF FreshInv, WithinMax
<1> QED BY <1>2, <1>3, <1>4 DEF FreshInv

\* A step that writes no row and changes nobody's place or copy.
LEMMA FreshUnmoved ==
    ASSUME TypeOK, FreshInv, Effect, jobs' = jobs,
           \A f \in Flushers : /\ flusher'[f].pc = flusher[f].pc
                               /\ flusher'[f].cur = flusher[f].cur
                               /\ flusher'[f].rest = flusher[f].rest,
           \A w \in Workers : /\ worker'[w].pc = worker[w].pc
                              /\ worker'[w].copy = worker[w].copy
                              /\ worker'[w].failed = worker[w].failed
                              /\ worker'[w].willRetry = worker[w].willRetry
    PROVE  FreshInv'
<1>1. ASSUME NEW f \in Flushers PROVE ListFresh(flusher'[f], jobs, Held)
  <2>1. ListFresh(flusher[f], jobs, Held)
    BY DEF FreshInv
  <2> QED BY <2>1 DEF ListFresh
<1>2. ASSUME NEW w \in Workers PROVE CopyFresh(worker'[w], jobs)
  <2>1. CopyFresh(worker[w], jobs)
    BY DEF FreshInv
  <2> QED BY <2>1 DEF CopyFresh
<1> QED BY <1>1, <1>2, FreshKept

-----------------------------------------------------------------------------
(* Flush. *)

LEMMA FreshBegin ==
    ASSUME TypeOK, PoolInv, FreshInv, Effect, NEW f \in Flushers, FlushBegin(f)
    PROVE  FreshInv'
<1>0. flusher \in [Flushers -> Flusher]
  BY DEF TypeOK, PoolTypeOK
<1>1. /\ flusher'[f].pc = "check" /\ flusher'[f].rest = ScanDue(ScanSize, now)
      /\ \A g \in Flushers \ {f} : flusher'[g] = flusher[g]
      /\ UNCHANGED <<jobs, worker>>
  BY <1>0 DEF FlushBegin, Flusher, storeVars
<1>2. ListFresh(flusher'[f], jobs, Held)
  BY <1>1, ScanFresh DEF ListFresh
<1> QED BY <1>1, <1>2, FreshKept

\* The loop takes its next copy, or skips it.
LEMMA FreshTaken ==
    ASSUME TypeOK, FreshInv, Effect, NEW f \in Flushers, NEW c \in flusher[f].rest,
           UNCHANGED <<jobs, worker>>,
           flusher'[f].rest = flusher[f].rest \ {c},
           \/ flusher'[f].pc = "check"
           \/ flusher'[f].pc = "claim" /\ flusher'[f].cur = c,
           \A g \in Flushers \ {f} : flusher'[g] = flusher[g]
    PROVE  FreshInv'
<1>1. ListFresh(flusher[f], jobs, Held)
  BY DEF FreshInv
<1>2. ListFresh(flusher'[f], jobs, Held)
  BY <1>1 DEF ListFresh
<1> QED BY <1>2, FreshKept

\* The loop goes back to its head with nothing added to its list.
LEMMA FreshBack ==
    ASSUME TypeOK, FreshInv, Effect, NEW f \in Flushers, UNCHANGED <<jobs, worker>>,
           flusher'[f].rest \subseteq flusher[f].rest,
           flusher'[f].pc \in {"check", "idle"},
           \A g \in Flushers \ {f} : flusher'[g] = flusher[g]
    PROVE  FreshInv'
<1>1. ListFresh(flusher[f], jobs, Held)
  BY DEF FreshInv
<1>2. ListFresh(flusher'[f], jobs, Held)
  BY <1>1 DEF ListFresh
<1> QED BY <1>2, FreshKept

LEMMA FreshClaim ==
    ASSUME TypeOK, TypeOK', PoolInv, FreshInv, Effect,
           NEW f \in Flushers, Flushers = {f}, FlushClaim(f)
    PROVE  FreshInv'
<1> DEFINE id == flusher[f].cur.id
<1>0. /\ flusher \in [Flushers -> Flusher] /\ jobs \in [Jobs -> Row] /\ id \in Jobs
      /\ flusher[f].pc = "claim" /\ worker' = worker
      /\ ListFresh(flusher[f], jobs, Held)
  BY DEF TypeOK, StoreTypeOK, PoolTypeOK, Flusher, Copy, FlushClaim, FreshInv
<1>1. CASE ~Claimable(id)
  <2>1. jobs' = jobs /\ flusher' = NextCopy(f)
    BY <1>1 DEF FlushClaim, Claim, NoRowMatches, storeVars
  <2>2. /\ flusher'[f].pc = "check" /\ flusher'[f].rest = flusher[f].rest
        /\ \A g \in Flushers \ {f} : flusher'[g] = flusher[g]
    BY <1>0, <2>1 DEF NextCopy, Flusher
  <2> QED BY <1>0, <2>1, <2>2, FreshBack
<1>2. CASE Claimable(id)
  <2>1. /\ jobs' = [jobs EXCEPT ![id] = [jobs[id] EXCEPT !.state = "running"]]
        /\ flusher' = [flusher EXCEPT ![f].pc = "register"]
    BY <1>2 DEF FlushClaim, Claim, SetRow
  <2>2. /\ flusher'[f].pc = "register" /\ flusher'[f].rest = flusher[f].rest
        /\ flusher'[f].cur = flusher[f].cur
    BY <1>0, <2>1 DEF Flusher
  <2>3. /\ \A j \in Jobs : jobs'[j].attempts = jobs[j].attempts
        /\ jobs'[id].state = "running"
        /\ \A j \in Jobs \ {id} : jobs'[j] = jobs[j]
    BY <1>0, <2>1 DEF Row
  <2>4. Held' \subseteq Held \cup {id}
    BY <1>0 DEF Effect, Quiet, Inserts, Claims, Loses, Settles, Recovers
  <2>5. ListFresh(flusher'[f], jobs', Held')
    <3>1. \A c \in flusher[f].rest : c.id \in Jobs
      BY <1>0 DEF Flusher, Copy
    <3> QED BY <1>0, <2>2, <2>3, <2>4, <3>1 DEF ListFresh
  <2>6. \A w \in Workers : CopyFresh(worker'[w], jobs')
    <3>1. \A w \in Workers : CopyFresh(worker[w], jobs) /\ worker[w].copy.id \in Jobs
      BY DEF FreshInv, TypeOK, PoolTypeOK, Worker, Copy
    <3> QED BY <1>0, <2>3, <3>1 DEF CopyFresh
  <2>7. WithinMax'
    <3>1. jobs[id].state # "dead"
      BY <1>2 DEF Claimable
    <3> QED BY <2>3, <3>1 DEF FreshInv, WithinMax
  <2> QED BY <2>5, <2>6, <2>7 DEF FreshInv
<1> QED BY <1>1, <1>2

LEMMA FreshDispatch ==
    ASSUME TypeOK, TypeOK', FreshInv, Effect, NEW f \in Flushers, FlushDispatch(f)
    PROVE  FreshInv'
<1>0. /\ flusher \in [Flushers -> Flusher] /\ worker \in [Workers -> Worker]
      /\ jobs' = jobs /\ flusher[f].pc = "acquire" /\ flusher' = NextCopy(f)
      /\ ListFresh(flusher[f], jobs, Held)
  BY DEF TypeOK, PoolTypeOK, FlushDispatch, storeVars, FreshInv
<1>1. PICK w \in Workers : worker' = [worker EXCEPT ![w] = Started(f)]
  BY DEF FlushDispatch
<1>2. /\ worker'[w].pc = "start" /\ worker'[w].copy = flusher[f].cur
      /\ \A v \in Workers \ {w} : worker'[v] = worker[v]
  BY <1>0, <1>1, StartedTyped
<1>3. /\ flusher'[f].pc = "check" /\ flusher'[f].rest = flusher[f].rest
      /\ \A g \in Flushers \ {f} : flusher'[g] = flusher[g]
  BY <1>0 DEF NextCopy, Flusher
<1>4. ListFresh(flusher'[f], jobs, Held)
  BY <1>0, <1>3 DEF ListFresh
<1>5. CopyFresh(worker'[w], jobs)
  BY <1>0, <1>2 DEF ListFresh, CopyFresh
<1> QED BY <1>0, <1>2, <1>3, <1>4, <1>5, FreshKept

LEMMA FreshFlush ==
    ASSUME TypeOK, TypeOK', PoolInv, FreshInv, Effect,
           NEW f \in Flushers, Flushers = {f}, FlushStep(f)
    PROVE  FreshInv'
<1>0. /\ flusher \in [Flushers -> Flusher] /\ worker \in [Workers -> Worker]
      /\ ListFresh(flusher[f], jobs, Held)
  BY DEF TypeOK, PoolTypeOK, FreshInv
<1>1. CASE FlushCheck(f)
  <2>1. PICK c \in flusher[f].rest :
          flusher' = IF IsPaused(QueueOf[c.id])
                     THEN [flusher EXCEPT ![f].rest = @ \ {c}]
                     ELSE [flusher EXCEPT ![f].rest = @ \ {c}, ![f].pc = "claim",
                                          ![f].cur = c]
    BY <1>1 DEF FlushCheck
  <2>2. flusher[f].pc = "check" /\ UNCHANGED <<jobs, worker>>
    BY <1>1 DEF FlushCheck, storeVars
  <2>3. /\ flusher'[f].rest = flusher[f].rest \ {c}
        /\ \/ flusher'[f].pc = "check"
           \/ flusher'[f].pc = "claim" /\ flusher'[f].cur = c
        /\ \A g \in Flushers \ {f} : flusher'[g] = flusher[g]
    <3>1. CASE IsPaused(QueueOf[c.id])
      <4>1. flusher' = [flusher EXCEPT ![f].rest = @ \ {c}]
        BY <2>1, <3>1
      <4> QED BY <1>0, <2>2, <4>1 DEF Flusher
    <3>2. CASE ~IsPaused(QueueOf[c.id])
      <4>1. flusher' = [flusher EXCEPT ![f].rest = @ \ {c}, ![f].pc = "claim",
                                       ![f].cur = c]
        BY <2>1, <3>2
      <4> QED BY <1>0, <4>1 DEF Flusher
    <3> QED BY <3>1, <3>2
  <2> QED BY <2>1, <2>2, <2>3, FreshTaken
<1>2. CASE FlushClaim(f)
  BY <1>2, FreshClaim
<1>3. CASE FlushRegister(f)
  <2>1. flusher[f].pc = "register" /\ UNCHANGED <<jobs, worker>>
    BY <1>3 DEF FlushRegister, storeVars
  <2>2. CASE IsActive(flusher[f].cur.id)
    <3>1. flusher' = NextCopy(f)
      BY <1>3, <2>2 DEF FlushRegister
    <3>2. /\ flusher'[f].pc = "check" /\ flusher'[f].rest = flusher[f].rest
          /\ \A g \in Flushers \ {f} : flusher'[g] = flusher[g]
      BY <1>0, <3>1 DEF NextCopy, Flusher
    <3> QED BY <2>1, <3>2, FreshBack
  <2>3. CASE ~IsActive(flusher[f].cur.id)
    <3>1. flusher' = [flusher EXCEPT ![f].pc = "acquire"]
      BY <1>3, <2>3 DEF FlushRegister
    <3>2. /\ flusher'[f].pc = "acquire" /\ flusher'[f].rest = flusher[f].rest
          /\ flusher'[f].cur = flusher[f].cur
          /\ \A g \in Flushers \ {f} : flusher'[g] = flusher[g]
      BY <1>0, <3>1 DEF Flusher
    <3>3. ListFresh(flusher'[f], jobs, Held)
      BY <1>0, <2>1, <3>2 DEF ListFresh
    <3> QED BY <2>1, <3>2, <3>3, FreshKept
  <2> QED BY <2>2, <2>3
<1>4. CASE FlushDispatch(f)
  BY <1>4, FreshDispatch
<1>5. CASE FlushAbort(f)
  <2>1. /\ UNCHANGED <<jobs, worker>>
        /\ flusher'[f].pc = "check" /\ flusher'[f].rest = {}
        /\ \A g \in Flushers \ {f} : flusher'[g] = flusher[g]
    BY <1>0, <1>5 DEF FlushAbort, storeVars, Flusher
  <2> QED BY <2>1, FreshBack
<1>6. CASE FlushReturn(f)
  <2>1. /\ jobs' = jobs /\ flusher'[f] = IdleFlusher
        /\ \A g \in Flushers \ {f} : flusher'[g] = flusher[g]
        /\ worker' = worker
    BY <1>0, <1>6, PoolAssumption DEF FlushReturn, storeVars
  <2> QED BY <2>1, FreshBack DEF IdleFlusher
<1> QED BY <1>1, <1>2, <1>3, <1>4, <1>5, <1>6 DEF FlushStep

-----------------------------------------------------------------------------
(* The goroutine of a job. *)

\* A goroutine moves on, the decision on a retry aside.
LEMMA FreshMoved ==
    ASSUME TypeOK, FreshInv, Effect, NEW w \in Workers, UNCHANGED <<jobs, flusher>>,
           \A v \in Workers \ {w} : worker'[v] = worker[v],
           \/ /\ worker[w].pc \in {"start", "handle", "record"}
              /\ worker'[w].pc \in {"handle", "record", "count"}
              /\ worker'[w].copy = worker[w].copy
           \/ worker'[w].pc \in {"teardown", "release", "idle"}
    PROVE  FreshInv'
<1>1. CopyFresh(worker[w], jobs)
  BY DEF FreshInv
<1>2. CopyFresh(worker'[w], jobs)
  BY <1>1 DEF CopyFresh
<1> QED BY <1>2, FreshKept

LEMMA FreshCount ==
    ASSUME TypeOK, FreshInv, Effect, NEW w \in Workers, WorkerCount(w)
    PROVE  FreshInv'
<1> DEFINE c == worker[w].copy
           retry == worker[w].failed /\ WillRetry(c)
<1>0. /\ worker \in [Workers -> Worker] /\ CopyFresh(worker[w], jobs)
      /\ worker[w].pc = "count" /\ UNCHANGED <<jobs, flusher>>
  BY DEF TypeOK, PoolTypeOK, FreshInv, WorkerCount, storeVars
<1>1. PICK n : worker' = [worker EXCEPT ![w].pc = "settle", ![w].willRetry = retry,
                                        ![w].next = n]
  BY DEF WorkerCount
<1>2. retry => c.row.attempts + 1 < MaxAttemptsOf[c.id]
  BY DEF WillRetry
<1> HIDE DEF retry
<1>3. /\ worker'[w].pc = "settle" /\ worker'[w].copy = c /\ worker'[w].willRetry = retry
      /\ \A v \in Workers \ {w} : worker'[v] = worker[v]
  BY <1>0, <1>1 DEF Worker
<1>4. CopyFresh(worker'[w], jobs)
  BY <1>0, <1>2, <1>3 DEF CopyFresh
<1> QED BY <1>0, <1>3, <1>4, FreshKept

LEMMA FreshSettle ==
    ASSUME TypeOK, TypeOK', PoolInv, FreshInv, NEW w \in Workers, WorkerSettle(w),
           client' = client
    PROVE  FreshInv'
<1> DEFINE id == worker[w].copy.id
<1>0. /\ worker \in [Workers -> Worker] /\ jobs \in [Jobs -> Row]
      /\ id \in Jobs /\ worker[w].copy.row.attempts \in Nat
      /\ jobs[id].attempts \in Nat /\ MaxAttemptsOf[id] \in Nat
      /\ WorkerFine(worker[w], jobs) /\ CopyFresh(worker[w], jobs)
      /\ worker[w].pc = "settle" /\ flusher' = flusher
      /\ ClaimedByWorker(w, id) /\ id \in Held
  BY StoreAssumption DEF TypeOK, StoreTypeOK, PoolTypeOK, Worker, Copy, Row, PoolInv,
     CopiesInv, FreshInv, WorkerSettle, Held, ClaimedByWorker
<1>1. /\ worker'[w].pc = "teardown"
      /\ \A v \in Workers \ {w} : worker'[v] = worker[v]
  BY <1>0 DEF WorkerSettle, Worker
<1>2. jobs[id].state = "running" /\ Exists(jobs[id])
  BY <1>0, HeldRuns DEF Exists
<1>3. /\ \A j \in Jobs \ {id} : jobs'[j] = jobs[j]
      /\ jobs'[id].state # "dead" => jobs'[id].attempts < MaxAttemptsOf[id]
      /\ jobs'[id].state = "dead" => jobs'[id].attempts = MaxAttemptsOf[id]
  <2>0. jobs[id].attempts < MaxAttemptsOf[id]
    BY <1>0, <1>2 DEF FreshInv, WithinMax
  <2>1. CASE worker[w].failed
    <3>1. Fail(id, worker[w].willRetry, worker[w].next)
      BY <2>1 DEF WorkerSettle
    <3>2. /\ jobs'[id].attempts = jobs[id].attempts + 1
          /\ jobs'[id].state = IF worker[w].willRetry THEN "pending" ELSE "dead"
          /\ \A j \in Jobs \ {id} : jobs'[j] = jobs[j]
      BY <1>0, <1>2, <3>1 DEF Fail, SetRow
    <3>3. worker[w].willRetry => jobs[id].attempts + 1 < MaxAttemptsOf[id]
      BY <1>0, <2>1 DEF CopyFresh
    <3>4. ~worker[w].willRetry => jobs[id].attempts + 1 >= MaxAttemptsOf[id]
      BY <1>0, <2>1 DEF WorkerFine, Behind
    <3> QED BY <1>0, <2>0, <3>2, <3>3, <3>4
  <2>2. CASE ~worker[w].failed
    <3>1. Succeed(id)
      BY <2>2 DEF WorkerSettle
    <3>2. /\ jobs'[id].attempts = jobs[id].attempts /\ jobs'[id].state = "succeeded"
          /\ \A j \in Jobs \ {id} : jobs'[j] = jobs[j]
      BY <1>0, <1>2, <3>1 DEF Succeed, SetRow, Row
    <3> QED BY <2>0, <3>2
  <2> QED BY <2>1, <2>2
<1>4. Held' \subseteq Held
  BY SettleEffect DEF Settles
<1>5. ASSUME NEW f \in Flushers PROVE ListFresh(flusher'[f], jobs', Held')
  <2>1. /\ ListFresh(flusher[f], jobs, Held)
        /\ flusher[f].cur.id \in Jobs /\ \A c \in flusher[f].rest : c.id \in Jobs
    BY DEF FreshInv, TypeOK, PoolTypeOK, Flusher, Copy
  <2>2. flusher[f].pc \in {"register", "acquire"} => flusher[f].cur.id # id
    <3>1. ~ClaimedByFlusher(f, id)
      BY <1>0 DEF PoolInv, Exclusive
    <3> QED BY <3>1 DEF ClaimedByFlusher
  <2>3. flusher[f].pc = "claim" => flusher[f].cur.id # id
    BY <1>0, <2>1 DEF ListFresh
  <2>4. \A c \in flusher[f].rest : c.id # id
    BY <1>0, <2>1 DEF ListFresh
  <2> QED BY <1>0, <1>3, <1>4, <2>1, <2>2, <2>3, <2>4 DEF ListFresh
<1>6. ASSUME NEW v \in Workers PROVE CopyFresh(worker'[v], jobs')
  <2>1. CASE v = w
    BY <1>1, <2>1 DEF CopyFresh
  <2>2. CASE v # w
    <3>1. CopyFresh(worker[v], jobs) /\ worker[v].copy.id \in Jobs
      BY DEF FreshInv, TypeOK, PoolTypeOK, Worker, Copy
    <3>2. ~ClaimedByWorker(v, id)
      BY <1>0, <2>2 DEF PoolInv, Exclusive
    <3> QED BY <1>1, <1>3, <2>2, <3>1, <3>2 DEF CopyFresh, ClaimedByWorker
  <2> QED BY <2>1, <2>2
<1>7. WithinMax'
  BY <1>3 DEF FreshInv, WithinMax
<1> QED BY <1>5, <1>6, <1>7 DEF FreshInv

LEMMA FreshWorker ==
    ASSUME TypeOK, TypeOK', PoolInv, FreshInv, Effect, NEW w \in Workers, WorkerStep(w),
           client' = client
    PROVE  FreshInv'
<1>0. worker \in [Workers -> Worker]
  BY DEF TypeOK, PoolTypeOK
<1>1. CASE WorkerStart(w)
  BY <1>0, <1>1, FreshMoved DEF WorkerStart, storeVars, Worker
<1>2. CASE WorkerHandle(w)
  <2>1. PICK failed : worker' = [worker EXCEPT ![w].pc = "record", ![w].failed = failed]
    BY <1>2, Zenon DEF WorkerHandle
  <2>2. /\ worker'[w].pc = "record" /\ worker'[w].copy = worker[w].copy
        /\ \A v \in Workers \ {w} : worker'[v] = worker[v]
    BY <1>0, <2>1 DEF Worker
  <2>3. worker[w].pc = "handle" /\ UNCHANGED <<jobs, flusher>>
    BY <1>2 DEF WorkerHandle, storeVars
  <2> QED BY <2>2, <2>3, FreshMoved
<1>3. CASE WorkerRecord(w)
  <2>1. worker[w].pc = "record" /\ UNCHANGED <<jobs, flusher>>
        /\ worker' = [worker EXCEPT ![w].pc = "count"]
    BY <1>3 DEF WorkerRecord, RecordAttempt
  <2>2. /\ worker'[w].pc = "count" /\ worker'[w].copy = worker[w].copy
        /\ \A v \in Workers \ {w} : worker'[v] = worker[v]
    BY <1>0, <2>1 DEF Worker
  <2> QED BY <2>1, <2>2, FreshMoved
<1>4. CASE WorkerCount(w)
  BY <1>4, FreshCount
<1>5. CASE WorkerSettle(w)
  BY <1>5, FreshSettle
<1>6. CASE WorkerTeardown(w)
  BY <1>0, <1>6, FreshMoved DEF WorkerTeardown, storeVars, Worker
<1>7. CASE WorkerRelease(w)
  BY <1>0, <1>7, FreshMoved DEF WorkerRelease, storeVars, IdleWorker
<1> QED BY <1>1, <1>2, <1>3, <1>4, <1>5, <1>6, <1>7 DEF WorkerStep

-----------------------------------------------------------------------------
(* Requests that insert jobs. *)

LEMMA FreshInsert ==
    ASSUME TypeOK, TypeOK', PoolInv, FreshInv, NEW j \in Jobs, NEW row \in Row,
           Inserts(j, row), UNCHANGED <<flusher, worker>>
    PROVE  FreshInv'
<1>0. jobs \in [Jobs -> Row] /\ MaxAttemptsOf[j] \in Nat \ {0}
  BY StoreAssumption DEF TypeOK, StoreTypeOK
<1>1. /\ \A k \in Jobs \ {j} : jobs'[k] = jobs[k]
      /\ jobs'[j].state = "pending" /\ jobs'[j].attempts = 0 /\ ~Exists(jobs[j])
      /\ Held' = Held
  BY <1>0 DEF Inserts
<1>2. ASSUME NEW f \in Flushers PROVE ListFresh(flusher'[f], jobs', Held')
  <2>1. /\ ListFresh(flusher[f], jobs, Held) /\ FlusherFine(flusher[f], jobs, now)
        /\ flusher[f].cur.id \in Jobs /\ \A c \in flusher[f].rest : c.id \in Jobs
    BY DEF FreshInv, PoolInv, CopiesInv, TypeOK, PoolTypeOK, Flusher, Copy
  <2>2. /\ \A c \in flusher[f].rest : c.id # j
        /\ flusher[f].pc \in {"claim", "register", "acquire"} => flusher[f].cur.id # j
    BY <1>1, <2>1 DEF FlusherFine, DueOrStale, Behind
  <2> QED BY <1>1, <2>1, <2>2 DEF ListFresh
<1>3. ASSUME NEW w \in Workers PROVE CopyFresh(worker'[w], jobs')
  <2>1. /\ CopyFresh(worker[w], jobs) /\ WorkerFine(worker[w], jobs)
        /\ worker[w].copy.id \in Jobs
    BY DEF FreshInv, PoolInv, CopiesInv, TypeOK, PoolTypeOK, Worker, Copy
  <2> QED BY <1>1, <2>1 DEF CopyFresh, WorkerFine, Behind
<1>4. WithinMax'
  BY <1>0, <1>1 DEF FreshInv, WithinMax
<1> QED BY <1>2, <1>3, <1>4 DEF FreshInv

\* No request that PoolOnly leaves touches a list or a goroutine, but an insert
\* may give it a row.
LEMMA FreshClient ==
    ASSUME TypeOK, TypeOK', PoolInv, FreshInv, Effect, NEW c \in Clients,
           ClientStep(c) \/ ApiCallFails(c)
    PROVE  FreshInv'
<1>1. ClientMoves(c)
  BY ClientMovesOnly
<1>2. UNCHANGED <<flusher, worker>>
  BY <1>1 DEF ClientMoves, poolVars
<1>3. CASE jobs' = jobs
  BY <1>2, <1>3, FreshUnmoved
<1>4. ASSUME NEW j \in Jobs, NEW row \in Row, Inserts(j, row) PROVE FreshInv'
  BY <1>2, <1>4, FreshInsert
<1> QED BY <1>1, <1>3, <1>4 DEF ClientMoves

-----------------------------------------------------------------------------
(* Store errors, restarts, and the rest of Next. *)

LEMMA FreshFault ==
    ASSUME TypeOK, TypeOK', PoolInv, FreshInv, Effect, FaultStep
    PROVE  FreshInv'
<1>0. flusher \in [Flushers -> Flusher] /\ worker \in [Workers -> Worker]
  BY DEF TypeOK, PoolTypeOK
<1>1. ASSUME NEW f \in Flushers, FlushCheckFails(f) PROVE FreshInv'
  <2>1. PICK c \in flusher[f].rest :
          flusher' = [flusher EXCEPT ![f].rest = @ \ {c}, ![f].pc = "claim",
                                     ![f].cur = c]
    BY <1>1 DEF FlushCheckFails
  <2>2. /\ flusher'[f].rest = flusher[f].rest \ {c}
        /\ flusher'[f].pc = "claim" /\ flusher'[f].cur = c
        /\ \A g \in Flushers \ {f} : flusher'[g] = flusher[g]
    BY <1>0, <2>1 DEF Flusher
  <2> QED BY <1>1, <2>1, <2>2, FreshTaken DEF FlushCheckFails, storeVars
<1>2. ASSUME NEW f \in Flushers, FlushClaimFails(f) PROVE FreshInv'
  <2>1. /\ UNCHANGED <<jobs, worker>>
        /\ flusher'[f].pc = "check" /\ flusher'[f].rest = {}
        /\ \A g \in Flushers \ {f} : flusher'[g] = flusher[g]
    BY <1>0, <1>2 DEF FlushClaimFails, storeVars, Flusher
  <2> QED BY <2>1, FreshBack
<1>3. ASSUME NEW w \in Workers, WorkerCallFails(w) PROVE FreshInv'
  <2>1. UNCHANGED <<jobs, flusher>>
    BY <1>3 DEF WorkerCallFails, storeVars
  <2>2. /\ \/ worker[w].pc = "record" /\ worker'[w].pc = "count"
           \/ worker'[w].pc = "teardown"
        /\ worker'[w].copy = worker[w].copy
        /\ \A v \in Workers \ {w} : worker'[v] = worker[v]
    BY <1>0, <1>3 DEF WorkerCallFails, Worker
  <2> QED BY <2>1, <2>2, FreshMoved
<1>4. ASSUME NEW c \in Clients, ApiCallFails(c) PROVE FreshInv'
  BY <1>4, FreshClient
<1> QED BY <1>1, <1>2, <1>3, <1>4 DEF FaultStep

LEMMA FreshRestart == ASSUME TypeOK, FreshInv, Restart PROVE FreshInv'
<1>0. jobs \in [Jobs -> Row]
  BY DEF TypeOK, StoreTypeOK
<1>1. /\ \A f \in Flushers : flusher'[f] = IdleFlusher
      /\ \A w \in Workers : worker'[w] = IdleWorker
      /\ jobs' = RecoverInterrupted(RecoverOnOpen(jobs, now), now)
  BY DEF Restart, PoolReset
<1>2. ASSUME NEW j \in Jobs
      PROVE  /\ jobs'[j].attempts = jobs[j].attempts
             /\ jobs'[j].state = "dead" <=> jobs[j].state = "dead"
  <2>1. jobs'[j] = IF jobs[j].state = "running" THEN RequeueAt(jobs[j], now) ELSE jobs[j]
    BY <1>0, <1>1 DEF RecoverInterrupted, RecoverOnOpen, RequeueAt, Row
  <2> QED BY <1>0, <2>1 DEF RequeueAt, Row
<1>3. WithinMax'
  BY <1>2 DEF FreshInv, WithinMax
<1> QED BY <1>1, <1>3 DEF FreshInv, ListFresh, CopyFresh, IdleFlusher, IdleWorker

LEMMA FreshStep ==
    ASSUME TypeOK, TypeOK', PoolInv, TickerInv, [Next]_vars
    PROVE  TickerInv'
<1>0. /\ FreshInv /\ Effect /\ Flushers = {Ticker} /\ PoolOnly
      /\ flusher \in [Flushers -> Flusher]
  BY PoolStep DEF TickerInv, TickerAlone, TypeOK, PoolTypeOK
<1> SUFFICES FreshInv'
  BY DEF TickerInv, TickerAlone, PoolOnly
<1>1. CASE PollTick
  BY <1>0, <1>1, PoolAssumption, FreshBegin DEF PollTick
<1>2. ASSUME NEW f \in Flushers, FlushStepOf(f) PROVE FreshInv'
  <2>1. Flushers = {f}
    BY <1>0
  <2> QED BY <1>0, <1>2, <2>1, FreshFlush DEF FlushStepOf
<1>3. ASSUME NEW w \in Workers, WorkerStepOf(w) PROVE FreshInv'
  BY <1>0, <1>3, FreshWorker DEF WorkerStepOf, apiVars
<1>4. ASSUME NEW c \in Clients, ClientStepOf(c) PROVE FreshInv'
  BY <1>0, <1>4, FreshClient DEF ClientStepOf
<1>5. CASE RequestStep
  <2>1. ASSUME NEW j \in Jobs PROVE ~ApiRequeueDead(j)
    BY <1>0 DEF ApiRequeueDead, NewRequest, PoolOnly
  <2>2. ASSUME NEW f \in Flushers PROVE ~ApiFlush(f) /\ ~ApiDisconnect(f)
    BY <1>0 DEF ApiFlush, ApiDisconnect
  <2>3. UNCHANGED <<jobs, flusher, worker>>
    BY <1>5, <2>1, <2>2 DEF RequestStep, ApiPause, ApiResume, SetPaused, poolVars
  <2> QED BY <1>0, <2>3, FreshUnmoved
<1>6. CASE FaultStep
  BY <1>0, <1>6, FreshFault
<1>7. CASE Restart
  BY <1>0, <1>7, FreshRestart
<1>8. CASE Tick \/ UNCHANGED vars
  <2>1. UNCHANGED <<jobs, flusher, worker>>
    BY <1>8 DEF Tick, vars, storeVars, poolVars
  <2> QED BY <1>0, <2>1, FreshUnmoved
<1> QED BY <1>1, <1>2, <1>3, <1>4, <1>5, <1>6, <1>7, <1>8 DEF Next

LEMMA TickerInvariant == TickerAlone /\ Spec => [](TypeOK /\ PoolInv /\ TickerInv)
<1>1. TypeOK /\ TypeOK' /\ PoolInv /\ TickerInv /\ [Next]_vars => TickerInv'
  BY FreshStep
<1>2. TickerAlone /\ Init => TickerInv
  BY FreshInit DEF TickerInv
<1>3. TickerAlone => PoolOnly
  BY DEF TickerAlone
<1> QED BY <1>1, <1>2, <1>3, TypeCorrect, PoolInvariant, PTL DEF Spec

-----------------------------------------------------------------------------

\* With the ticker alone max_attempts is exact: a job never counts more attempts,
\* and is a dead letter as soon as it has counted that many, restarts and failing
\* calls included.
THEOREM AttemptsAreExact ==
    TickerAlone /\ Spec => [](AttemptsBounded /\ WithinMax)
<1>1. TypeOK /\ TickerInv => AttemptsBounded /\ WithinMax
  <2> SUFFICES ASSUME TypeOK, TickerInv PROVE AttemptsBounded
    BY DEF TickerInv, FreshInv
  <2>1. Cardinality(Flushers) = 1
    BY FS_Singleton DEF TickerInv, TickerAlone
  <2>2. ASSUME NEW j \in Jobs
        PROVE  /\ jobs[j].state = "dead" => jobs[j].attempts >= MaxAttemptsOf[j]
               /\ jobs[j].attempts <= MaxAttemptsOf[j]
    <3>1. jobs[j].attempts \in Nat /\ MaxAttemptsOf[j] \in Nat
      BY StoreAssumption DEF TypeOK, StoreTypeOK, Row
    <3> QED BY <3>1 DEF TickerInv, FreshInv, WithinMax
  <2>3. \A j \in Jobs : /\ jobs[j].attempts \in Nat /\ MaxAttemptsOf[j] \in Nat
                        /\ MaxAttemptsOf[j] + Cardinality(Flushers) - 1 = MaxAttemptsOf[j]
    BY <2>1, StoreAssumption DEF TypeOK, StoreTypeOK, Row
  <2> QED BY <2>2, <2>3 DEF AttemptsBounded
<1> QED BY <1>1, TickerInvariant, PTL

\* With the ticker alone no job is claimed before its run_at, although Claim does
\* not ask for it: what ScanDue saw due is still due when the loop comes to it.
THEOREM ClaimsWaitForRunAt == TickerAlone /\ Spec => NotBeforeRunAt
<1> DEFINE OnTime(j) == jobs[j].state = "pending" /\ jobs'[j].state = "running"
                            => jobs[j].runAt <= now
<1>1. TypeOK /\ PoolInv /\ TickerInv /\ Effect => \A j \in Jobs : OnTime(j)
  <2> SUFFICES ASSUME TypeOK, PoolInv, TickerInv, Effect, NEW j \in Jobs,
                      jobs[j].state = "pending", jobs'[j].state = "running"
               PROVE  jobs[j].runAt <= now
    OBVIOUS
  <2>1. PICK f \in Flushers : Claims(f, j)
    BY RowMoves DEF Exists
  <2>2. DueOrStale(flusher[f].cur, jobs, now) /\ flusher[f].cur.id = j
    BY <2>1 DEF PoolInv, CopiesInv, FlusherFine, Claims
  <2>3. flusher[f].cur.row.attempts = jobs[j].attempts
    BY <2>1 DEF TickerInv, FreshInv, ListFresh, Claims
  <2>4. jobs[j].attempts \in Nat
    BY DEF TypeOK, StoreTypeOK, Row
  <2> QED BY <2>2, <2>3, <2>4 DEF DueOrStale
<1>2. TickerAlone => PoolOnly
  BY DEF TickerAlone
<1> QED BY <1>1, <1>2, TickerInvariant, PoolInvariant, PTL DEF NotBeforeRunAt
=============================================================================
