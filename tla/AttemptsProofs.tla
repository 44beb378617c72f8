---------------------------- MODULE AttemptsProofs ----------------------------
(***************************************************************************)
(* How far the attempts of a job can exceed max_attempts when several      *)
(* flushes run at once.  finish decides on a retry from the copy its flush *)
(* scanned, so a stale copy can grant a retry too many; but every such     *)
(* retry uses up the copy, and a flush that scans the row again sees it at *)
(* its limit.                                                              *)
(***************************************************************************)
EXTENDS PoolOnlyProofs

-----------------------------------------------------------------------------
(* The inductive invariant. *)

\* finish would retry a job by this copy.
Hopeful(c) == c.row.attempts + 1 < MaxAttemptsOf[c.id]

HasCurrent(x) == x.pc \in {"claim", "register", "acquire"}

\* The copies a flush has yet to hand to a goroutine.
Listed(x, c) == c \in x.rest \/ (HasCurrent(x) /\ c = x.cur)

Claiming(x) == x.pc \in {"start", "handle", "record", "count", "settle"}

\* A copy of j by which f, or a goroutine it started, may still retry j.
Hopes(f, j) ==
    \/ \E c \in Copy : Listed(flusher[f], c) /\ c.id = j /\ Hopeful(c)
    \/ \E w \in Workers : /\ Claiming(worker[w]) /\ worker[w].copy.id = j
                          /\ worker[w].parent = f /\ Hopeful(worker[w].copy)

Hoping(j) == {f \in Flushers : Hopes(f, j)}

\* A flush lists a job once.
ListSingle(x) ==
    /\ \A c, d \in x.rest : c.id = d.id => c = d
    /\ HasCurrent(x) => \A c \in x.rest : c.id # x.cur.id

RetryFine(x) == x.pc = "settle" /\ x.failed /\ x.willRetry => Hopeful(x.copy)

\* While a goroutine claims a job, the flush that started it lists it no more.
Spent ==
    \A w \in Workers : Claiming(worker[w]) =>
        \A c \in Copy : Listed(flusher[worker[w].parent], c) => c.id # worker[w].copy.id

Flushes == Cardinality(Flushers)

\* At its limit a job has left no more attempts than there are flushes that have
\* not used up a copy of it.
HopeBounds(j) ==
    /\ jobs[j].state # "dead" /\ jobs[j].attempts + 1 >= MaxAttemptsOf[j]
         => jobs[j].attempts + Cardinality(Hoping(j)) + 2 <= MaxAttemptsOf[j] + Flushes
    /\ jobs[j].state = "dead"
         => /\ MaxAttemptsOf[j] <= jobs[j].attempts
            /\ jobs[j].attempts + 1 <= MaxAttemptsOf[j] + Flushes

ChainInv ==
    /\ \A f \in Flushers : ListSingle(flusher[f])
    /\ \A w \in Workers : RetryFine(worker[w])
    /\ Spent
    /\ \A j \in Jobs : HopeBounds(j)

-----------------------------------------------------------------------------
(* Counting the flushes that hope. *)

LEMMA HopingFinite ==
    \A j : /\ IsFiniteSet(Hoping(j)) /\ Cardinality(Hoping(j)) \in Nat
           /\ Cardinality(Hoping(j)) <= Flushes
<1>1. \A j : Hoping(j) \in SUBSET Flushers
  BY DEF Hoping
<1> QED BY <1>1, PoolAssumption, FS_Subset, FS_CardinalityType DEF Flushes

LEMMA FlushesPositive == Flushes \in Nat /\ Flushes >= 1
<1>1. Flushes \in Nat /\ Flushers # {}
  BY PoolAssumption, FS_CardinalityType DEF Flushes
<1>2. Flushes # 0
  BY <1>1, PoolAssumption, FS_EmptySet DEF Flushes
<1> QED BY <1>1, <1>2

LEMMA HopingShrinks ==
    ASSUME NEW j, \A f \in Flushers : Hopes(f, j)' => Hopes(f, j)
    PROVE  /\ Cardinality(Hoping(j)') <= Cardinality(Hoping(j))
           /\ Cardinality(Hoping(j)') \in Nat
<1>1. Hoping(j)' \in SUBSET Hoping(j)
  BY DEF Hoping
<1> QED BY <1>1, HopingFinite, FS_Subset, FS_CardinalityType

\* A flush that hoped, or might have, hopes no more.
LEMMA HopingLoses ==
    ASSUME NEW j, NEW f \in Flushers, ~Hopes(f, j)',
           \A g \in Flushers : Hopes(g, j)' => Hopes(g, j)
    PROVE  /\ Cardinality(Hoping(j)') \in Nat
           /\ Cardinality(Hoping(j)') + 1 <= Flushes
           /\ Hopes(f, j) => Cardinality(Hoping(j)') + 1 <= Cardinality(Hoping(j))
<1>1. Hoping(j)' \in SUBSET (Flushers \ {f}) /\ Hoping(j)' \in SUBSET (Hoping(j) \ {f})
  BY DEF Hoping
<1>2. /\ IsFiniteSet(Flushers \ {f}) /\ Cardinality(Flushers \ {f}) = Flushes - 1
      /\ Flushes \in Nat
  BY PoolAssumption, FS_RemoveElement, FS_CardinalityType DEF Flushes
<1>3. /\ IsFiniteSet(Hoping(j) \ {f}) /\ Cardinality(Hoping(j)) \in Nat
      /\ Hopes(f, j) => Cardinality(Hoping(j) \ {f}) = Cardinality(Hoping(j)) - 1
  <2>1. Hopes(f, j) => f \in Hoping(j)
    BY DEF Hoping
  <2> QED BY <2>1, HopingFinite, FS_RemoveElement
<1>4. /\ Cardinality(Hoping(j)') <= Cardinality(Flushers \ {f})
      /\ Cardinality(Hoping(j)') <= Cardinality(Hoping(j) \ {f})
      /\ Cardinality(Hoping(j)') \in Nat
  BY <1>1, <1>2, <1>3, FS_Subset, FS_CardinalityType
<1> QED BY <1>2, <1>3, <1>4

-----------------------------------------------------------------------------
(* Steps that use up copies, or leave them. *)

Lessens(x, y) == ListSingle(y) /\ \A c \in Copy : Listed(y, c) => Listed(x, c)

GoesOn(x, y) ==
    Claiming(y) => /\ Claiming(x) /\ y.copy = x.copy /\ y.parent = x.parent
                   /\ RetryFine(y)

LEMMA ChainKept ==
    ASSUME TypeOK, TypeOK', ChainInv,
           \A f \in Flushers : Lessens(flusher[f], flusher'[f]),
           \A w \in Workers : GoesOn(worker[w], worker'[w]),
           \A j \in Jobs : /\ jobs'[j].attempts = jobs[j].attempts
                           /\ jobs'[j].state = "dead" <=> jobs[j].state = "dead"
    PROVE  ChainInv'
<1>1. \A f \in Flushers : ListSingle(flusher'[f])
  BY DEF Lessens
<1>2. \A w \in Workers : RetryFine(worker'[w])
  BY DEF GoesOn, RetryFine, Claiming
<1>3. Spent'
  <2>1. \A w \in Workers : worker[w].parent \in Flushers
    BY DEF TypeOK, PoolTypeOK, Worker
  <2> QED BY <2>1 DEF Spent, ChainInv, GoesOn, Lessens
<1>4. ASSUME NEW j \in Jobs PROVE HopeBounds(j)'
  <2>1. \A f \in Flushers : Hopes(f, j)' => Hopes(f, j)
    BY DEF Hopes, Lessens, GoesOn
  <2>2. /\ Cardinality(Hoping(j)') <= Cardinality(Hoping(j))
        /\ Cardinality(Hoping(j)') \in Nat
    BY <2>1, HopingShrinks
  <2>3. /\ jobs[j].attempts \in Nat /\ MaxAttemptsOf[j] \in Nat
        /\ Cardinality(Hoping(j)) \in Nat
    BY StoreAssumption, HopingFinite DEF TypeOK, StoreTypeOK, Row
  <2>4. HopeBounds(j)
    BY DEF ChainInv
  <2> QED BY <2>2, <2>3, <2>4, FlushesPositive DEF HopeBounds, Flushes
<1> QED BY <1>1, <1>2, <1>3, <1>4 DEF ChainInv

\* Only flush f moves, and no row.
LEMMA ListLessened ==
    ASSUME TypeOK, TypeOK', ChainInv, NEW f \in Flushers, UNCHANGED <<jobs, worker>>,
           \A g \in Flushers \ {f} : flusher'[g] = flusher[g],
           Lessens(flusher[f], flusher'[f])
    PROVE  ChainInv'
<1>1. \A g \in Flushers : Lessens(flusher[g], flusher'[g])
  BY DEF Lessens, ChainInv
<1>2. \A w \in Workers : GoesOn(worker[w], worker'[w])
  BY DEF GoesOn, ChainInv
<1> QED BY <1>1, <1>2, ChainKept

LEMMA GoroutineGoesOn ==
    ASSUME TypeOK, TypeOK', ChainInv, NEW w \in Workers, UNCHANGED <<jobs, flusher>>,
           \A v \in Workers \ {w} : worker'[v] = worker[v],
           GoesOn(worker[w], worker'[w])
    PROVE  ChainInv'
<1>1. \A g \in Flushers : Lessens(flusher[g], flusher'[g])
  BY DEF Lessens, ChainInv
<1>2. \A v \in Workers : GoesOn(worker[v], worker'[v])
  BY DEF GoesOn, ChainInv
<1> QED BY <1>1, <1>2, ChainKept

\* A step that changes nobody's place or copy.
LEMMA ChainUnmoved ==
    ASSUME TypeOK, TypeOK', ChainInv, jobs' = jobs,
           \A f \in Flushers : /\ flusher'[f].pc = flusher[f].pc
                               /\ flusher'[f].cur = flusher[f].cur
                               /\ flusher'[f].rest = flusher[f].rest,
           \A w \in Workers : /\ worker'[w].pc = worker[w].pc
                              /\ worker'[w].copy = worker[w].copy
                              /\ worker'[w].parent = worker[w].parent
                              /\ worker'[w].failed = worker[w].failed
                              /\ worker'[w].willRetry = worker[w].willRetry
    PROVE  ChainInv'
<1>1. \A f \in Flushers : Lessens(flusher[f], flusher'[f])
  BY DEF Lessens, ListSingle, Listed, HasCurrent, ChainInv
<1>2. \A w \in Workers : GoesOn(worker[w], worker'[w])
  BY DEF GoesOn, Claiming, RetryFine, ChainInv
<1> QED BY <1>1, <1>2, ChainKept

-----------------------------------------------------------------------------
(* Flush. *)

\* A scan lists nothing claimed, and a row at its limit without hope.
LEMMA ChainBegin ==
    ASSUME TypeOK, TypeOK', PoolInv, ChainInv, NEW f \in Flushers, FlushBegin(f)
    PROVE  ChainInv'
<1>0. /\ flusher \in [Flushers -> Flusher] /\ \A j \in Jobs : jobs[j].attempts \in Nat
      /\ \A w \in Workers : worker[w].copy.id \in Jobs
  BY DEF TypeOK, StoreTypeOK, PoolTypeOK, Row, Worker, Copy
<1>1. /\ flusher[f].pc = "idle" /\ flusher'[f].pc = "check"
      /\ flusher'[f].rest = ScanDue(ScanSize, now)
      /\ \A g \in Flushers \ {f} : flusher'[g] = flusher[g]
      /\ UNCHANGED <<jobs, worker>>
  BY <1>0 DEF FlushBegin, Flusher, storeVars
<1>2. /\ \A c \in ScanDue(ScanSize, now) :
           c.id \notin Held /\ c.row.attempts = jobs[c.id].attempts
      /\ \A c, d \in ScanDue(ScanSize, now) : c.id = d.id => c = d
  BY ScanFresh
<1>3. \A c : Listed(flusher'[f], c) <=> c \in ScanDue(ScanSize, now)
  BY <1>1 DEF Listed, HasCurrent
<1>4. \A g \in Flushers : ListSingle(flusher'[g])
  BY <1>1, <1>2 DEF ListSingle, HasCurrent, ChainInv
<1>5. \A w \in Workers : RetryFine(worker'[w])
  BY <1>1 DEF ChainInv
<1>6. Spent'
  <2>1. ASSUME NEW w \in Workers, Claiming(worker[w]), NEW c \in Copy,
               Listed(flusher'[worker[w].parent], c)
        PROVE  c.id # worker[w].copy.id
    <3>1. worker[w].copy.id \in Held
      BY <1>0, <2>1 DEF Held, ClaimedByWorker, Claiming
    <3>2. worker[w].parent \in Flushers
      BY DEF TypeOK, PoolTypeOK, Worker
    <3>3. CASE worker[w].parent = f
      BY <1>2, <1>3, <2>1, <3>1, <3>3
    <3>4. CASE worker[w].parent # f
      BY <1>1, <2>1, <3>2, <3>4 DEF ChainInv, Spent
    <3> QED BY <3>3, <3>4
  <2> QED BY <1>1, <2>1 DEF Spent
<1>7. ASSUME NEW j \in Jobs PROVE HopeBounds(j)'
  <2>1. CASE jobs[j].attempts + 1 >= MaxAttemptsOf[j]
    <3>1. ASSUME NEW c \in ScanDue(ScanSize, now), c.id = j PROVE ~Hopeful(c)
      <4>1. MaxAttemptsOf[j] \in Nat /\ c.row.attempts = jobs[j].attempts
        BY <1>2, <3>1, StoreAssumption
      <4> QED BY <1>0, <2>1, <3>1, <4>1 DEF Hopeful
    <3>2. \A g \in Flushers : Hopes(g, j)' => Hopes(g, j)
      BY <1>1, <1>3, <3>1 DEF Hopes
    <3>3. /\ Cardinality(Hoping(j)') <= Cardinality(Hoping(j))
          /\ Cardinality(Hoping(j)') \in Nat
      BY <3>2, HopingShrinks
    <3>4. MaxAttemptsOf[j] \in Nat /\ Cardinality(Hoping(j)) \in Nat
      BY StoreAssumption, HopingFinite
    <3> QED BY <1>0, <1>1, <3>3, <3>4, FlushesPositive DEF ChainInv, HopeBounds, Flushes
  <2>2. CASE ~(jobs[j].attempts + 1 >= MaxAttemptsOf[j])
    BY <1>1, <2>2 DEF ChainInv, HopeBounds, Flushes
  <2> QED BY <2>1, <2>2
<1> QED BY <1>4, <1>5, <1>6, <1>7 DEF ChainInv

\* The loop takes its next copy, or skips it.
LEMMA ChainTaken ==
    ASSUME TypeOK, TypeOK', ChainInv, NEW f \in Flushers, NEW c \in flusher[f].rest,
           UNCHANGED <<jobs, worker>>,
           flusher'[f].rest = flusher[f].rest \ {c},
           \/ flusher'[f].pc = "check"
           \/ flusher'[f].pc = "claim" /\ flusher'[f].cur = c,
           \A g \in Flushers \ {f} : flusher'[g] = flusher[g]
    PROVE  ChainInv'
<1>1. ListSingle(flusher[f])
  BY DEF ChainInv
<1>2. Lessens(flusher[f], flusher'[f])
  BY <1>1 DEF Lessens, ListSingle, Listed, HasCurrent
<1> QED BY <1>2, ListLessened

\* The loop goes back to its head with nothing added to its list.
LEMMA ChainBack ==
    ASSUME TypeOK, TypeOK', ChainInv, NEW f \in Flushers, UNCHANGED <<jobs, worker>>,
           flusher'[f].rest \subseteq flusher[f].rest,
           flusher'[f].pc = "check",
           \A g \in Flushers \ {f} : flusher'[g] = flusher[g]
    PROVE  ChainInv'
<1>1. ListSingle(flusher[f])
  BY DEF ChainInv
<1>2. Lessens(flusher[f], flusher'[f])
  BY <1>1 DEF Lessens, ListSingle, Listed, HasCurrent
<1> QED BY <1>2, ListLessened

LEMMA ChainClaim ==
    ASSUME TypeOK, TypeOK', ChainInv, NEW f \in Flushers, FlushClaim(f)
    PROVE  ChainInv'
<1> DEFINE id == flusher[f].cur.id
<1>0. /\ flusher \in [Flushers -> Flusher] /\ jobs \in [Jobs -> Row] /\ id \in Jobs
      /\ flusher[f].pc = "claim" /\ worker' = worker /\ ListSingle(flusher[f])
  BY DEF TypeOK, StoreTypeOK, PoolTypeOK, Flusher, Copy, FlushClaim, ChainInv
<1>1. CASE ~Claimable(id)
  <2>1. jobs' = jobs /\ flusher' = NextCopy(f)
    BY <1>1 DEF FlushClaim, Claim, NoRowMatches, storeVars
  <2>2. /\ flusher'[f].pc = "check" /\ flusher'[f].rest = flusher[f].rest
        /\ \A g \in Flushers \ {f} : flusher'[g] = flusher[g]
    BY <1>0, <2>1 DEF NextCopy, Flusher
  <2> QED BY <1>0, <2>1, <2>2, ChainBack
<1>2. CASE Claimable(id)
  <2>1. /\ jobs' = [jobs EXCEPT ![id] = [jobs[id] EXCEPT !.state = "running"]]
        /\ flusher' = [flusher EXCEPT ![f].pc = "register"]
    BY <1>2 DEF FlushClaim, Claim, SetRow
  <2>2. /\ flusher'[f].pc = "register" /\ flusher'[f].rest = flusher[f].rest
        /\ flusher'[f].cur = flusher[f].cur
        /\ \A g \in Flushers \ {f} : flusher'[g] = flusher[g]
    BY <1>0, <2>1 DEF Flusher
  <2>3. ASSUME NEW j \in Jobs
        PROVE  /\ jobs'[j].attempts = jobs[j].attempts
               /\ jobs'[j].state = "dead" <=> jobs[j].state = "dead"
    BY <1>0, <1>2, <2>1 DEF Row, Claimable
  <2>4. \A g \in Flushers : Lessens(flusher[g], flusher'[g])
    BY <1>0, <2>2 DEF Lessens, ListSingle, Listed, HasCurrent, ChainInv
  <2>5. \A w \in Workers : GoesOn(worker[w], worker'[w])
    BY <1>0 DEF GoesOn, ChainInv
  <2> QED BY <2>3, <2>4, <2>5, ChainKept
<1> QED BY <1>1, <1>2

\* The copy passes from the list to the goroutine.
LEMMA ChainDispatch ==
    ASSUME TypeOK, TypeOK', ChainInv, NEW f \in Flushers, FlushDispatch(f)
    PROVE  ChainInv'
<1>0. /\ flusher \in [Flushers -> Flusher] /\ worker \in [Workers -> Worker]
      /\ jobs' = jobs /\ flusher[f].pc = "acquire" /\ flusher' = NextCopy(f)
      /\ ListSingle(flusher[f]) /\ flusher[f].cur \in Copy
  BY DEF TypeOK, PoolTypeOK, Flusher, FlushDispatch, storeVars, ChainInv
<1>1. PICK w \in Workers : worker[w].pc = "idle" /\ worker' = [worker EXCEPT ![w] = Started(f)]
  BY DEF FlushDispatch
<1>2. /\ worker'[w].pc = "start" /\ worker'[w].copy = flusher[f].cur
      /\ worker'[w].parent = f
      /\ \A v \in Workers \ {w} : worker'[v] = worker[v]
  <2>1. worker'[w] = Started(f)
    BY <1>0, <1>1
  <2>2. Started(f).parent = f
    BY DEF Started, IdleWorker
  <2> QED BY <1>0, <1>1, <2>1, <2>2, StartedTyped
<1>3. /\ flusher'[f].pc = "check" /\ flusher'[f].rest = flusher[f].rest
      /\ \A g \in Flushers \ {f} : flusher'[g] = flusher[g]
  BY <1>0 DEF NextCopy, Flusher
<1>4. /\ Lessens(flusher[f], flusher'[f])
      /\ \A c : Listed(flusher'[f], c) <=> c \in flusher[f].rest
      /\ Listed(flusher[f], flusher[f].cur)
      /\ \A c \in flusher[f].rest : c.id # flusher[f].cur.id
  BY <1>0, <1>3 DEF Lessens, ListSingle, Listed, HasCurrent
<1>5. \A g \in Flushers : Lessens(flusher[g], flusher'[g])
  BY <1>3, <1>4 DEF Lessens, ChainInv
<1>6. \A v \in Workers : RetryFine(worker'[v])
  BY <1>2 DEF RetryFine, ChainInv
<1>7. Spent'
  <2>1. ASSUME NEW v \in Workers, Claiming(worker'[v]), NEW c \in Copy,
               Listed(flusher'[worker'[v].parent], c)
        PROVE  c.id # worker'[v].copy.id
    <3>1. CASE v = w
      BY <1>2, <1>4, <2>1, <3>1
    <3>2. CASE v # w
      <4>1. worker'[v] = worker[v] /\ worker[v].parent \in Flushers
        BY <1>0, <1>2, <3>2 DEF Worker
      <4> QED BY <1>5, <2>1, <4>1 DEF Spent, ChainInv, Lessens
    <3> QED BY <3>1, <3>2
  <2> QED BY <2>1 DEF Spent
<1>8. ASSUME NEW j \in Jobs PROVE HopeBounds(j)'
  <2>1. ASSUME NEW g \in Flushers, Hopes(g, j)' PROVE Hopes(g, j)
    <3>1. CASE \E c \in Copy : Listed(flusher'[g], c) /\ c.id = j /\ Hopeful(c)
      BY <1>5, <3>1 DEF Hopes, Lessens
    <3>2. ASSUME NEW v \in Workers, Claiming(worker'[v]), worker'[v].copy.id = j,
                 worker'[v].parent = g, Hopeful(worker'[v].copy)
          PROVE  Hopes(g, j)
      <4>1. CASE v = w
        BY <1>0, <1>2, <1>4, <3>2, <4>1 DEF Hopes
      <4>2. CASE v # w
        BY <1>2, <3>2, <4>2 DEF Hopes
      <4> QED BY <4>1, <4>2
    <3> QED BY <2>1, <3>1, <3>2 DEF Hopes
  <2>2. /\ Cardinality(Hoping(j)') <= Cardinality(Hoping(j))
        /\ Cardinality(Hoping(j)') \in Nat
    BY <2>1, HopingShrinks
  <2>3. /\ jobs[j].attempts \in Nat /\ MaxAttemptsOf[j] \in Nat
        /\ Cardinality(Hoping(j)) \in Nat /\ HopeBounds(j)
    BY StoreAssumption, HopingFinite DEF TypeOK, StoreTypeOK, Row, ChainInv
  <2> QED BY <1>0, <2>2, <2>3, FlushesPositive DEF HopeBounds, Flushes
<1> QED BY <1>5, <1>6, <1>7, <1>8 DEF ChainInv, Lessens

LEMMA ChainFlush ==
    ASSUME TypeOK, TypeOK', ChainInv, NEW f \in Flushers, FlushStep(f)
    PROVE  ChainInv'
<1>0. /\ flusher \in [Flushers -> Flusher] /\ worker \in [Workers -> Worker]
      /\ ListSingle(flusher[f])
  BY DEF TypeOK, PoolTypeOK, ChainInv
<1>1. CASE FlushCheck(f)
  <2>1. PICK c \in flusher[f].rest :
          flusher' = IF IsPaused(QueueOf[c.id])
                     THEN [flusher EXCEPT ![f].rest = @ \ {c}]
                     ELSE [flusher EXCEPT ![f].rest = @ \ {c}, ![f].pc = "claim",
                                          ![f].cur = c]
    BY <1>1 DEF FlushCheck
  <2>2. flusher[f].pc = "check" /\ UNCHANGED <<jobs, worker>>
    BY <1>1 DEF FlushCheck, storeVars
  <2>3. /\ flusher'[f].rest = flusher[f].rest \ {c}
        /\ \/ flusher'[f].pc = "check"
           \/ flusher'[f].pc = "claim" /\ flusher'[f].cur = c
        /\ \A g \in Flushers \ {f} : flusher'[g] = flusher[g]
    <3>1. CASE IsPaused(QueueOf[c.id])
      <4>1. flusher' = [flusher EXCEPT ![f].rest = @ \ {c}]
        BY <2>1, <3>1
      <4> QED BY <1>0, <2>2, <4>1 DEF Flusher
    <3>2. CASE ~IsPaused(QueueOf[c.id])
      <4>1. flusher' = [flusher EXCEPT ![f].rest = @ \ {c}, ![f].pc = "claim",
                                       ![f].cur = c]
        BY <2>1, <3>2
      <4> QED BY <1>0, <4>1 DEF Flusher
    <3> QED BY <3>1, <3>2
  <2> QED BY <2>1, <2>2, <2>3, ChainTaken
<1>2. CASE FlushClaim(f)
  BY <1>2, ChainClaim
<1>3. CASE FlushRegister(f)
  <2>1. flusher[f].pc = "register" /\ UNCHANGED <<jobs, worker>>
    BY <1>3 DEF FlushRegister, storeVars
  <2>2. CASE IsActive(flusher[f].cur.id)
    <3>1. flusher' = NextCopy(f)
      BY <1>3, <2>2 DEF FlushRegister
    <3>2. /\ flusher'[f].pc = "check" /\ flusher'[f].rest = flusher[f].rest
          /\ \A g \in Flushers \ {f} : flusher'[g] = flusher[g]
      BY <1>0, <3>1 DEF NextCopy, Flusher
    <3> QED BY <2>1, <3>2, ChainBack
  <2>3. CASE ~IsActive(flusher[f].cur.id)
    <3>1. flusher' = [flusher EXCEPT ![f].pc = "acquire"]
      BY <1>3, <2>3 DEF FlushRegister
    <3>2. /\ flusher'[f].pc = "acquire" /\ flusher'[f].rest = flusher[f].rest
          /\ flusher'[f].cur = flusher[f].cur
          /\ \A g \in Flushers \ {f} : flusher'[g] = flusher[g]
      BY <1>0, <3>1 DEF Flusher
    <3>3. Lessens(flusher[f], flusher'[f])
      BY <1>0, <2>1, <3>2 DEF Lessens, ListSingle, Listed, HasCurrent
    <3> QED BY <2>1, <3>2, <3>3, ListLessened
  <2> QED BY <2>2, <2>3
<1>4. CASE FlushDispatch(f)
  BY <1>4, ChainDispatch
<1>5. CASE FlushAbort(f)
  <2>1. /\ UNCHANGED <<jobs, worker>>
        /\ flusher'[f].pc = "check" /\ flusher'[f].rest = {}
        /\ \A g \in Flushers \ {f} : flusher'[g] = flusher[g]
    BY <1>0, <1>5 DEF FlushAbort, storeVars, Flusher
  <2> QED BY <2>1, ChainBack
<1>6. CASE FlushReturn(f)
  <2>1. /\ jobs' = jobs /\ flusher'[f] = IdleFlusher
        /\ \A g \in Flushers \ {f} : flusher'[g] = flusher[g]
    BY <1>0, <1>6 DEF FlushReturn, storeVars
  <2>2. \A w \in Workers : /\ worker'[w].pc = worker[w].pc
                           /\ worker'[w].copy = worker[w].copy
                           /\ worker'[w].parent = worker[w].parent
                           /\ worker'[w].failed = worker[w].failed
                           /\ worker'[w].willRetry = worker[w].willRetry
    BY <1>0, <1>6 DEF FlushReturn, CancelChildren, Worker
  <2>3. \A g \in Flushers : Lessens(flusher[g], flusher'[g])
    BY <2>1 DEF Lessens, ListSingle, Listed, HasCurrent, IdleFlusher, ChainInv
  <2>4. \A w \in Workers : GoesOn(worker[w], worker'[w])
    BY <2>2 DEF GoesOn, Claiming, RetryFine, ChainInv
  <2> QED BY <2>1, <2>3, <2>4, ChainKept
<1> QED BY <1>1, <1>2, <1>3, <1>4, <1>5, <1>6 DEF FlushStep

-----------------------------------------------------------------------------
(* The goroutine of a job. *)

LEMMA ChainCount ==
    ASSUME TypeOK, TypeOK', ChainInv, NEW w \in Workers, WorkerCount(w)
    PROVE  ChainInv'
<1> DEFINE c == worker[w].copy
           retry == worker[w].failed /\ WillRetry(c)
<1>0. /\ worker \in [Workers -> Worker]
      /\ worker[w].pc = "count" /\ UNCHANGED <<jobs, flusher>>
  BY DEF TypeOK, PoolTypeOK, WorkerCount, storeVars
<1>1. PICK n : worker' = [worker EXCEPT ![w].pc = "settle", ![w].willRetry = retry,
                                        ![w].next = n]
  BY DEF WorkerCount
<1>2. retry => Hopeful(c)
  BY DEF WillRetry, Hopeful
<1> HIDE DEF retry
<1>3. /\ worker'[w].pc = "settle" /\ worker'[w].copy = c /\ worker'[w].willRetry = retry
      /\ worker'[w].parent = worker[w].parent
      /\ \A v \in Workers \ {w} : worker'[v] = worker[v]
  BY <1>0, <1>1 DEF Worker
<1>4. GoesOn(worker[w], worker'[w])
  BY <1>0, <1>2, <1>3 DEF GoesOn, Claiming, RetryFine
<1> QED BY <1>0, <1>3, <1>4, GoroutineGoesOn

\* A retry uses up the copy that granted it.
LEMMA ChainSettle ==
    ASSUME TypeOK, TypeOK', PoolInv, ChainInv, NEW w \in Workers, WorkerSettle(w)
    PROVE  ChainInv'
<1>p. PICK id \in Jobs, parent \in Flushers :
        id = worker[w].copy.id /\ parent = worker[w].parent
  BY DEF TypeOK, PoolTypeOK, Worker, Copy
<1> USE <1>p
<1>0. /\ worker \in [Workers -> Worker] /\ jobs \in [Jobs -> Row] /\ id \in Jobs
      /\ jobs[id].attempts \in Nat /\ MaxAttemptsOf[id] \in Nat
      /\ worker[w].copy.row.attempts \in Nat /\ parent \in Flushers
      /\ worker[w].pc = "settle" /\ flusher' = flusher
      /\ WorkerFine(worker[w], jobs)
      /\ ClaimedByWorker(w, id) /\ id \in Held
  BY StoreAssumption DEF TypeOK, StoreTypeOK, PoolTypeOK, Worker, Copy, Row, PoolInv,
     CopiesInv, WorkerSettle, ClaimedByWorker, Held
<1>1. /\ worker'[w].pc = "teardown"
      /\ \A v \in Workers \ {w} : worker'[v] = worker[v]
  BY <1>0 DEF WorkerSettle, Worker
<1>2. jobs[id].state = "running" /\ Exists(jobs[id])
  BY <1>0, HeldRuns DEF Exists
<1>3. /\ \A f \in Flushers : Lessens(flusher[f], flusher'[f])
      /\ \A v \in Workers : GoesOn(worker[v], worker'[v])
  BY <1>0, <1>1 DEF Lessens, GoesOn, Claiming, ChainInv
<1>4. CASE ~worker[w].failed
  <2>1. Succeed(id)
    BY <1>4 DEF WorkerSettle
  <2>2. \A j \in Jobs : /\ jobs'[j].attempts = jobs[j].attempts
                        /\ jobs'[j].state = "dead" <=> jobs[j].state = "dead"
    BY <1>0, <1>2, <2>1 DEF Succeed, SetRow, Row
  <2> QED BY <1>3, <2>2, ChainKept
<1>5. CASE worker[w].failed
  <2>1. Fail(id, worker[w].willRetry, worker[w].next)
    BY <1>5 DEF WorkerSettle
  <2>2. /\ jobs'[id].attempts = jobs[id].attempts + 1
        /\ jobs'[id].state = IF worker[w].willRetry THEN "pending" ELSE "dead"
        /\ \A j \in Jobs \ {id} : jobs'[j] = jobs[j]
    BY <1>0, <1>2, <2>1 DEF Fail, SetRow
  <2>3. /\ \A f \in Flushers : ListSingle(flusher'[f])
        /\ \A v \in Workers : RetryFine(worker'[v])
    BY <1>0, <1>1 DEF ChainInv, RetryFine
  <2>4. Spent'
    BY <1>0, <1>1 DEF Spent, ChainInv, Claiming
  <2>5. \A j \in Jobs, f \in Flushers : Hopes(f, j)' => Hopes(f, j)
    BY <1>3 DEF Hopes, Lessens, GoesOn
  <2>6. ASSUME NEW j \in Jobs \ {id} PROVE HopeBounds(j)'
    <3>1. /\ Cardinality(Hoping(j)') <= Cardinality(Hoping(j))
          /\ Cardinality(Hoping(j)') \in Nat
      BY <2>5, HopingShrinks
    <3>2. /\ jobs[j].attempts \in Nat /\ MaxAttemptsOf[j] \in Nat
          /\ Cardinality(Hoping(j)) \in Nat /\ HopeBounds(j)
      BY <1>0, StoreAssumption, HopingFinite DEF Row, ChainInv
    <3> QED BY <2>2, <3>1, <3>2, FlushesPositive DEF HopeBounds, Flushes
  <2>7. ~Hopes(parent, id)'
    <3>1. \A c \in Copy : Listed(flusher'[parent], c) => c.id # id
      BY <1>0 DEF ChainInv, Spent, Claiming
    <3>2. ASSUME NEW v \in Workers, Claiming(worker'[v]) PROVE worker'[v].copy.id # id
      <4>1. v # w
        BY <1>1, <3>2 DEF Claiming
      <4>2. ~ClaimedByWorker(v, id)
        BY <1>0, <4>1 DEF PoolInv, Exclusive
      <4> QED BY <1>1, <3>2, <4>1, <4>2 DEF ClaimedByWorker, Claiming
    <3> QED BY <3>1, <3>2 DEF Hopes
  <2>8. /\ Cardinality(Hoping(id)') \in Nat
        /\ Cardinality(Hoping(id)') + 1 <= Flushes
        /\ Hopes(parent, id) => Cardinality(Hoping(id)') + 1 <= Cardinality(Hoping(id))
    BY <1>0, <2>5, <2>7, HopingLoses
  <2>9. Cardinality(Hoping(id)) \in Nat /\ HopeBounds(id)
    BY <1>0, HopingFinite DEF ChainInv
  <2>10. HopeBounds(id)'
    <3>1. CASE worker[w].willRetry
      <4>1. Hopes(parent, id)
        BY <1>0, <1>5, <3>1 DEF Hopes, Claiming, RetryFine, ChainInv
      <4>2. jobs'[id].state = "pending"
        BY <2>2, <3>1
      <4>3. CASE jobs[id].attempts + 1 >= MaxAttemptsOf[id]
        BY <1>0, <1>2, <2>2, <2>8, <2>9, <4>1, <4>2, <4>3, FlushesPositive
           DEF HopeBounds, Flushes
      <4>4. CASE jobs[id].attempts + 1 < MaxAttemptsOf[id]
        BY <1>0, <2>2, <2>8, <4>2, <4>4, FlushesPositive DEF HopeBounds, Flushes
      <4> QED BY <1>0, <4>3, <4>4
    <3>2. CASE ~worker[w].willRetry
      <4>1. jobs'[id].state = "dead"
        BY <2>2, <3>2
      <4>2. jobs[id].attempts + 1 >= MaxAttemptsOf[id]
        BY <1>0, <1>5, <3>2 DEF WorkerFine, Behind
      <4> QED BY <1>0, <1>2, <2>2, <2>9, <4>1, <4>2, FlushesPositive
             DEF HopeBounds, Flushes
    <3> QED BY <3>1, <3>2
  <2> QED BY <2>3, <2>4, <2>6, <2>10 DEF ChainInv
<1> QED BY <1>4, <1>5

LEMMA ChainWorker ==
    ASSUME TypeOK, TypeOK', PoolInv, ChainInv, NEW w \in Workers, WorkerStep(w)
    PROVE  ChainInv'
<1>0. worker \in [Workers -> Worker]
  BY DEF TypeOK, PoolTypeOK
<1>1. ASSUME UNCHANGED <<jobs, flusher>>,
             \A v \in Workers \ {w} : worker'[v] = worker[v],
             \/ /\ worker[w].pc \in {"start", "handle", "record"}
                /\ worker'[w].pc \in {"handle", "record", "count"}
                /\ worker'[w].copy = worker[w].copy
                /\ worker'[w].parent = worker[w].parent
             \/ worker'[w].pc \in {"release", "idle"}
      PROVE  ChainInv'
  <2>1. GoesOn(worker[w], worker'[w])
    BY <1>1 DEF GoesOn, Claiming, RetryFine
  <2> QED BY <1>1, <2>1, GoroutineGoesOn
<1>2. CASE WorkerStart(w)
  BY <1>0, <1>1, <1>2 DEF WorkerStart, storeVars, Worker
<1>3. CASE WorkerHandle(w)
  <2>1. PICK failed : worker' = [worker EXCEPT ![w].pc = "record", ![w].failed = failed]
    BY <1>3, Zenon DEF WorkerHandle
  <2>2. /\ worker'[w].pc = "record" /\ worker'[w].copy = worker[w].copy
        /\ worker'[w].parent = worker[w].parent
        /\ \A v \in Workers \ {w} : worker'[v] = worker[v]
    BY <1>0, <2>1 DEF Worker
  <2>3. worker[w].pc = "handle" /\ UNCHANGED <<jobs, flusher>>
    BY <1>3 DEF WorkerHandle, storeVars
  <2> QED BY <1>1, <2>2, <2>3
<1>4. CASE WorkerRecord(w)
  <2>1. worker[w].pc = "record" /\ UNCHANGED <<jobs, flusher>>
        /\ worker' = [worker EXCEPT ![w].pc = "count"]
    BY <1>4 DEF WorkerRecord, RecordAttempt
  <2>2. /\ worker'[w].pc = "count" /\ worker'[w].copy = worker[w].copy
        /\ worker'[w].parent = worker[w].parent
        /\ \A v \in Workers \ {w} : worker'[v] = worker[v]
    BY <1>0, <2>1 DEF Worker
  <2> QED BY <1>1, <2>1, <2>2
<1>5. CASE WorkerCount(w)
  BY <1>5, ChainCount
<1>6. CASE WorkerSettle(w)
  BY <1>6, ChainSettle
<1>7. CASE WorkerTeardown(w)
  BY <1>0, <1>1, <1>7 DEF WorkerTeardown, storeVars, Worker
<1>8. CASE WorkerRelease(w)
  BY <1>0, <1>1, <1>8 DEF WorkerRelease, storeVars, IdleWorker
<1> QED BY <1>2, <1>3, <1>4, <1>5, <1>6, <1>7, <1>8 DEF WorkerStep

-----------------------------------------------------------------------------
(* Requests, store errors, restarts, and the rest of Next. *)

\* An insert is a row nobody has a copy of.
LEMMA ChainClient ==
    ASSUME TypeOK, TypeOK', PoolInv, ChainInv, NEW c \in Clients,
           ClientStep(c) \/ ApiCallFails(c)
    PROVE  ChainInv'
<1>0. ClientMoves(c)
  BY ClientMovesOnly
<1>1. UNCHANGED <<flusher, worker>>
  BY <1>0 DEF ClientMoves, poolVars
<1>2. CASE jobs' = jobs
  BY <1>1, <1>2, ChainUnmoved
<1>3. ASSUME NEW j \in Jobs, NEW row \in Row, Inserts(j, row) PROVE ChainInv'
  <2>1. /\ jobs \in [Jobs -> Row]
        /\ \A k \in Jobs \ {j} : jobs'[k] = jobs[k]
        /\ jobs'[j].attempts = 0 /\ jobs'[j].state = "pending" /\ ~Exists(jobs[j])
    BY <1>3 DEF Inserts, TypeOK, StoreTypeOK
  <2>2. /\ \A f \in Flushers : ListSingle(flusher'[f])
        /\ \A w \in Workers : RetryFine(worker'[w])
        /\ Spent'
    BY <1>1 DEF ChainInv, Spent
  <2>3. \A k : Hoping(k)' = Hoping(k)
    BY <1>1 DEF Hoping, Hopes
  <2>4. \A k \in Jobs \ {j} : HopeBounds(k)'
    BY <2>1, <2>3 DEF ChainInv, HopeBounds, Flushes
  <2>5. Hoping(j) = {}
    <3>1. ASSUME NEW f \in Flushers, NEW d \in Copy, Listed(flusher[f], d), d.id = j
          PROVE  FALSE
      <4>1. FlusherFine(flusher[f], jobs, now)
        BY DEF PoolInv, CopiesInv
      <4> QED BY <2>1, <3>1, <4>1 DEF FlusherFine, DueOrStale, Behind, Listed, HasCurrent
    <3>2. ASSUME NEW w \in Workers, Claiming(worker[w]), worker[w].copy.id = j
          PROVE  FALSE
      <4>1. WorkerFine(worker[w], jobs)
        BY DEF PoolInv, CopiesInv
      <4> QED BY <2>1, <3>2, <4>1 DEF WorkerFine, Behind, Claiming
    <3> QED BY <3>1, <3>2 DEF Hoping, Hopes
  <2>6. HopeBounds(j)'
    <3>1. MaxAttemptsOf[j] \in Nat \ {0} /\ Cardinality(Hoping(j)') = 0
      BY <2>3, <2>5, StoreAssumption, FS_EmptySet
    <3> QED BY <2>1, <3>1, FlushesPositive DEF HopeBounds, Flushes
  <2> QED BY <2>2, <2>4, <2>6 DEF ChainInv
<1> QED BY <1>0, <1>2, <1>3 DEF ClientMoves

LEMMA ChainRequest ==
    ASSUME TypeOK, TypeOK', PoolInv, ChainInv, RequestStep
    PROVE  ChainInv'
<1>0. flusher \in [Flushers -> Flusher] /\ worker \in [Workers -> Worker]
  BY DEF TypeOK, PoolTypeOK
<1>1. ASSUME NEW j \in Jobs PROVE ~ApiRequeueDead(j)
  BY DEF ApiRequeueDead, NewRequest, PoolInv, PoolOnly
<1>2. ASSUME NEW q \in Queues, ApiPause(q) \/ ApiResume(q) PROVE ChainInv'
  BY <1>2, ChainUnmoved DEF ApiPause, ApiResume, SetPaused, poolVars
<1>3. ASSUME NEW f \in Flushers, ApiFlush(f) PROVE ChainInv'
  BY <1>3, ChainBegin DEF ApiFlush
<1>4. ASSUME NEW f \in Flushers, ApiDisconnect(f) PROVE ChainInv'
  <2>1. jobs' = jobs
    BY <1>4 DEF ApiDisconnect, storeVars
  <2>2. \A g \in Flushers : /\ flusher'[g].pc = flusher[g].pc
                            /\ flusher'[g].cur = flusher[g].cur
                            /\ flusher'[g].rest = flusher[g].rest
    BY <1>0, <1>4 DEF ApiDisconnect, Flusher
  <2>3. \A w \in Workers : /\ worker'[w].pc = worker[w].pc
                           /\ worker'[w].copy = worker[w].copy
                           /\ worker'[w].parent = worker[w].parent
                           /\ worker'[w].failed = worker[w].failed
                           /\ worker'[w].willRetry = worker[w].willRetry
    BY <1>0, <1>4 DEF ApiDisconnect, CancelChildren, Worker
  <2> QED BY <2>1, <2>2, <2>3, ChainUnmoved
<1> QED BY <1>1, <1>2, <1>3, <1>4 DEF RequestStep

LEMMA ChainFault ==
    ASSUME TypeOK, TypeOK', PoolInv, ChainInv, FaultStep
    PROVE  ChainInv'
<1>0. flusher \in [Flushers -> Flusher] /\ worker \in [Workers -> Worker]
  BY DEF TypeOK, PoolTypeOK
<1>1. ASSUME NEW f \in Flushers, FlushCheckFails(f) PROVE ChainInv'
  <2>1. PICK c \in flusher[f].rest :
          flusher' = [flusher EXCEPT ![f].rest = @ \ {c}, ![f].pc = "claim",
                                     ![f].cur = c]
    BY <1>1 DEF FlushCheckFails
  <2>2. /\ flusher'[f].rest = flusher[f].rest \ {c}
        /\ flusher'[f].pc = "claim" /\ flusher'[f].cur = c
        /\ \A g \in Flushers \ {f} : flusher'[g] = flusher[g]
    BY <1>0, <2>1 DEF Flusher
  <2> QED BY <1>1, <2>1, <2>2, ChainTaken DEF FlushCheckFails, storeVars
<1>2. ASSUME NEW f \in Flushers, FlushClaimFails(f) PROVE ChainInv'
  <2>1. /\ UNCHANGED <<jobs, worker>>
        /\ flusher'[f].pc = "check" /\ flusher'[f].rest = {}
        /\ \A g \in Flushers \ {f} : flusher'[g] = flusher[g]
    BY <1>0, <1>2 DEF FlushClaimFails, storeVars, Flusher
  <2> QED BY <2>1, ChainBack
<1>3. ASSUME NEW w \in Workers, WorkerCallFails(w) PROVE ChainInv'
  <2>1. UNCHANGED <<jobs, flusher>>
    BY <1>3 DEF WorkerCallFails, storeVars
  <2>2. /\ \/ worker[w].pc = "record" /\ worker'[w].pc = "count"
           \/ worker'[w].pc = "teardown"
        /\ worker'[w].copy = worker[w].copy /\ worker'[w].parent = worker[w].parent
        /\ \A v \in Workers \ {w} : worker'[v] = worker[v]
    BY <1>0, <1>3 DEF WorkerCallFails, Worker
  <2>3. GoesOn(worker[w], worker'[w])
    BY <2>2 DEF GoesOn, Claiming, RetryFine
  <2> QED BY <2>1, <2>2, <2>3, GoroutineGoesOn
<1>4. ASSUME NEW c \in Clients, ApiCallFails(c) PROVE ChainInv'
  BY <1>4, ChainClient
<1> QED BY <1>1, <1>2, <1>3, <1>4 DEF FaultStep

LEMMA ChainRestart == ASSUME TypeOK, TypeOK', ChainInv, Restart PROVE ChainInv'
<1>0. jobs \in [Jobs -> Row]
  BY DEF TypeOK, StoreTypeOK
<1>1. /\ \A f \in Flushers : flusher'[f] = IdleFlusher
      /\ \A w \in Workers : worker'[w] = IdleWorker
      /\ jobs' = RecoverInterrupted(RecoverOnOpen(jobs, now), now)
  BY DEF Restart, PoolReset
<1>2. ASSUME NEW j \in Jobs
      PROVE  /\ jobs'[j].attempts = jobs[j].attempts
             /\ jobs'[j].state = "dead" <=> jobs[j].state = "dead"
  <2>1. jobs'[j] = IF jobs[j].state = "running" THEN RequeueAt(jobs[j], now) ELSE jobs[j]
    BY <1>0, <1>1 DEF RecoverInterrupted, RecoverOnOpen, RequeueAt, Row
  <2> QED BY <1>0, <2>1 DEF RequeueAt, Row
<1>3. \A f \in Flushers : Lessens(flusher[f], flusher'[f])
  BY <1>1 DEF Lessens, ListSingle, Listed, HasCurrent, IdleFlusher
<1>4. \A w \in Workers : GoesOn(worker[w], worker'[w])
  BY <1>1 DEF GoesOn, Claiming, IdleWorker
<1> QED BY <1>2, <1>3, <1>4, ChainKept

LEMMA ChainStep ==
    ASSUME TypeOK, TypeOK', PoolInv, ChainInv, [Next]_vars
    PROVE  ChainInv'
<1>1. CASE PollTick
  BY <1>1, PoolAssumption, ChainBegin DEF PollTick
<1>2. ASSUME NEW f \in Flushers, FlushStepOf(f) PROVE ChainInv'
  BY <1>2, ChainFlush DEF FlushStepOf
<1>3. ASSUME NEW w \in Workers, WorkerStepOf(w) PROVE ChainInv'
  BY <1>3, ChainWorker DEF WorkerStepOf
<1>4. ASSUME NEW c \in Clients, ClientStepOf(c) PROVE ChainInv'
  BY <1>4, ChainClient DEF ClientStepOf
<1>5. CASE RequestStep
  BY <1>5, ChainRequest
<1>6. CASE FaultStep
  BY <1>6, ChainFault
<1>7. CASE Restart
  BY <1>7, ChainRestart
<1>8. CASE Tick \/ UNCHANGED vars
  <2>1. UNCHANGED <<jobs, flusher, worker>>
    BY <1>8 DEF Tick, vars, storeVars, poolVars
  <2> QED BY <2>1, ChainUnmoved
<1> QED BY <1>1, <1>2, <1>3, <1>4, <1>5, <1>6, <1>7, <1>8 DEF Next

LEMMA ChainInit == ASSUME Init, TypeOK PROVE ChainInv
<1>1. /\ \A f \in Flushers : flusher[f] = IdleFlusher
      /\ \A w \in Workers : worker[w] = IdleWorker
  BY DEF Init, PoolInit
<1>2. /\ \A f \in Flushers : ListSingle(flusher[f])
      /\ \A w \in Workers : RetryFine(worker[w])
      /\ Spent
  BY <1>1 DEF ListSingle, RetryFine, Spent, HasCurrent, Claiming, IdleFlusher, IdleWorker
<1>3. ASSUME NEW j \in Jobs PROVE HopeBounds(j)
  <2>1. Hoping(j) = {}
    BY <1>1 DEF Hoping, Hopes, Listed, HasCurrent, Claiming, IdleFlusher, IdleWorker
  <2>2. jobs[j].attempts = 0 /\ jobs[j].state # "dead"
    BY DEF Init, AbsentRow
  <2>3. MaxAttemptsOf[j] \in Nat \ {0} /\ Cardinality(Hoping(j)) = 0
    BY <2>1, StoreAssumption, FS_EmptySet
  <2> QED BY <2>2, <2>3, FlushesPositive DEF HopeBounds
<1> QED BY <1>2, <1>3 DEF ChainInv

-----------------------------------------------------------------------------

LEMMA ChainHolds == PoolOnly /\ Spec => [](TypeOK /\ PoolInv /\ ChainInv)
<1>1. TypeOK /\ Init => ChainInv
  BY ChainInit
<1>2. TypeOK /\ TypeOK' /\ PoolInv /\ ChainInv /\ [Next]_vars => ChainInv'
  BY ChainStep
<1> QED BY <1>1, <1>2, TypeCorrect, PoolInvariant, PTL DEF Spec

\* However many flushes work through however old lists, with inserts, restarts,
\* disconnections and failing statements between their steps, a job counts at most
\* one attempt beyond max_attempts for each flush but one, and no job is buried
\* before it has counted max_attempts of them.
THEOREM AttemptsAreBounded == PoolOnly /\ Spec => []AttemptsBounded
<1>1. TypeOK /\ ChainInv => AttemptsBounded
  <2> SUFFICES ASSUME TypeOK, ChainInv, NEW j \in Jobs
               PROVE  /\ jobs[j].state = "dead" => jobs[j].attempts >= MaxAttemptsOf[j]
                      /\ jobs[j].attempts <= MaxAttemptsOf[j] + Cardinality(Flushers) - 1
    BY DEF AttemptsBounded
  <2>1. /\ jobs[j].attempts \in Nat /\ MaxAttemptsOf[j] \in Nat
        /\ Cardinality(Hoping(j)) \in Nat /\ HopeBounds(j)
    BY StoreAssumption, HopingFinite DEF TypeOK, StoreTypeOK, Row, ChainInv
  <2> QED BY <2>1, FlushesPositive DEF HopeBounds, Flushes
<1> QED BY <1>1, ChainHolds, PTL
=============================================================================
