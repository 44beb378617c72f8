--------------------------- MODULE JobSchedProofs ---------------------------
(***************************************************************************)
(* Theorems about JobSched, for any number of jobs, queues, goroutines,    *)
(* flushes, requests and restarts.                                         *)
(***************************************************************************)
EXTENDS JobSched, FiniteSetTheorems, TLAPS

-----------------------------------------------------------------------------
(* The delay of a retry. *)

LEMMA NextDelayTyped ==
    ASSUME NEW strategy \in Strategy, NEW attempt \in Int, NEW base \in Nat
    PROVE  NextDelay(strategy, attempt, base) \in Int
<1> DEFINE n == IF attempt < 0 THEN 0 ELSE attempt
           grown == GrowByPowersOfTwo(n, base)
<1>1. n \in Nat
  OBVIOUS
<1> HIDE DEF n
<1>2. grown \in Int
  <2> DEFINE power == 2^n
             exact == base * power
  <2>1. power \in Int
    BY <1>1
  <2>2. grown = IF exact <= MaxDuration THEN exact ELSE OutOfRange
    BY DEF GrowByPowersOfTwo
  <2> HIDE DEF power, grown
  <2>3. exact \in Int
    BY <2>1
  <2> HIDE DEF exact
  <2> QED BY <2>2, <2>3, BackoffAssumption
<1>3. ASSUME NEW d \in Int PROVE WrapDuration(d) \in Int
  <2> DEFINE half == MaxDuration + 1
  <2>1. half \in Nat \ {0} /\ d + MaxDuration + 1 \in Int
    BY BackoffAssumption
  <2>2. (d + MaxDuration + 1) % (2 * half) \in Int
    BY <2>1
  <2>3. WrapDuration(d) = ((d + MaxDuration + 1) % (2 * half)) - half
    BY DEF WrapDuration
  <2> HIDE DEF half
  <2> QED BY <2>1, <2>2, <2>3
<1>4. CASE strategy.kind = "constant"
  BY <1>4 DEF NextDelay, Strategy
<1>5. CASE strategy.kind = "linear"
  <2>1. strategy.step \in Nat
    BY <1>5 DEF Strategy
  <2>2. n * strategy.step \in Int
    BY <1>1, <2>1
  <2>3. base + n * strategy.step \in Int
    BY <2>2
  <2>4. NextDelay(strategy, attempt, base) = WrapDuration(base + n * strategy.step)
    BY <1>5 DEF NextDelay, n
  <2> QED BY <1>3, <2>3, <2>4
<1>6. CASE strategy.kind = "exponential"
  <2>1. strategy.max \in Nat
    BY <1>6 DEF Strategy
  <2>2. NextDelay(strategy, attempt, base) =
          IF strategy.max > 0 /\ grown > strategy.max THEN strategy.max ELSE grown
    BY <1>6 DEF NextDelay, n
  <2> HIDE DEF grown
  <2> QED BY <1>2, <2>1, <2>2
<1>7. strategy.kind \in {"constant", "linear", "exponential"}
  BY DEF Strategy
<1> QED BY <1>4, <1>5, <1>6, <1>7

\* Whatever the strategy, and whatever int64 or the build make of a delay out of
\* range, the delay before a retry lies between the base delay and the given
\* maximum: Clamp repairs every overflow.
THEOREM WindowBounds ==
    ASSUME NEW strategy \in Strategy, NEW attempt \in Int, NEW base \in Nat,
           NEW max \in Nat, base <= max, max > 0
    PROVE  /\ Window(strategy, attempt, base, max) \in Nat
           /\ base <= Window(strategy, attempt, base, max)
           /\ Window(strategy, attempt, base, max) <= max
<1> DEFINE next == NextDelay(strategy, attempt, base)
<1>1. next \in Int
  BY NextDelayTyped
<1>2. Window(strategy, attempt, base, max) =
        IF next < base THEN base ELSE IF max > 0 /\ next > max THEN max ELSE next
  BY DEF Window, Clamp
<1> HIDE DEF next
<1> QED BY <1>1, <1>2

\* "capped at Max" does not hold once the product leaves int64 on a build that
\* converts to the smallest int64: the delay falls back from the cap to the base.
THEOREM OverflowFallsBackToBase ==
    ASSUME NEW attempt \in Nat, NEW base \in Nat \ {0},
           base * 2^attempt > MaxDuration, OutOfRange = -MaxDuration - 1
    PROVE  Window(New("exponential", base), attempt, base, 16 * base) = base
<1> DEFINE next == NextDelay(New("exponential", base), attempt, base)
<1>1. GrowByPowersOfTwo(attempt, base) = OutOfRange /\ OutOfRange \in Int
      /\ OutOfRange < 0
  <2> DEFINE exact == base * 2^attempt
  <2>1. exact \in Int
    <3> DEFINE power == 2^attempt
    <3>1. power \in Int
      OBVIOUS
    <3>2. exact = base * power
      OBVIOUS
    <3> HIDE DEF power, exact
    <3> QED BY <3>1, <3>2
  <2>2. exact > MaxDuration
    OBVIOUS
  <2>3. GrowByPowersOfTwo(attempt, base) = IF exact <= MaxDuration THEN exact ELSE OutOfRange
    BY DEF GrowByPowersOfTwo
  <2> HIDE DEF exact
  <2> QED BY <2>1, <2>2, <2>3, BackoffAssumption
<1>2. New("exponential", base).kind = "exponential" /\ New("exponential", base).max = 16 * base
  BY DEF New, Exponential
<1>3. next = OutOfRange
  <2>1. next = IF 16 * base > 0 /\ GrowByPowersOfTwo(attempt, base) > 16 * base
               THEN 16 * base ELSE GrowByPowersOfTwo(attempt, base)
    BY <1>2 DEF NextDelay
  <2> QED BY <1>1, <2>1
<1> HIDE DEF next
<1> QED BY <1>1, <1>3 DEF Window, Clamp, next

-----------------------------------------------------------------------------
(* The order of a scan, and what its limit leaves out. *)

\* Copies of different rows.
OneEach(S) == \A c, d \in S : c.id = d.id => c = d

Before(c, S) == {d \in S : Precedes(d, c)}

\* Priority, run_at and id order copies of different rows, whatever they hold.
LEMMA PrecedesOrders ==
    ASSUME NEW a \in Copy, NEW b \in Copy, NEW c \in Copy
    PROVE  /\ ~Precedes(a, a)
           /\ Precedes(a, b) => ~Precedes(b, a)
           /\ Precedes(a, b) /\ Precedes(b, c) => Precedes(a, c)
           /\ a.id # b.id => Precedes(a, b) \/ Precedes(b, a)
<1>1. /\ PriorityOf[a.id] \in Int /\ PriorityOf[b.id] \in Int /\ PriorityOf[c.id] \in Int
      /\ a.row.runAt \in Nat /\ b.row.runAt \in Nat /\ c.row.runAt \in Nat
      /\ a.id \in Nat /\ b.id \in Nat /\ c.id \in Nat
  BY StoreAssumption DEF Copy, Row
<1> QED BY <1>1 DEF Precedes

LEMMA BeforeGrows ==
    ASSUME NEW S, S \subseteq Copy, NEW a \in S, NEW b \in S, Precedes(a, b)
    PROVE  Before(a, S) \subseteq Before(b, S) /\ a \in Before(b, S) /\ a \notin Before(a, S)
<1>1. \A d \in S : Precedes(d, a) => Precedes(d, b)
  BY PrecedesOrders
<1>2. ~Precedes(a, a)
  BY PrecedesOrders
<1> QED BY <1>1, <1>2 DEF Before

LEMMA FirstOf ==
    ASSUME NEW S, S \subseteq Copy, IsFiniteSet(S), OneEach(S), S # {}
    PROVE  \E c \in S : \A d \in S \ {c} : Precedes(c, d)
<1> DEFINE R == StrictSubsetOrdering(S)
           T == {Before(c, S) : c \in S}
<1>1. IsWellFoundedOn(R, SUBSET S)
  BY FS_StrictSubsetOrderingWellFounded, FS_FiniteSubsetsOfFinite
<1>2. T \subseteq SUBSET S /\ T # {}
  BY DEF Before
<1>3. \A x, y \in SUBSET S : x \subseteq y /\ x # y => <<x, y>> \in R
  BY DEF StrictSubsetOrdering
<1> HIDE DEF R
<1>4. PICK x \in T : \A y \in T : ~(<<y, x>> \in R)
  <2> HIDE DEF T
  <2> QED BY <1>1, <1>2, WFMin
<1>5. PICK c \in S : x = Before(c, S)
  OBVIOUS
<1>6. ASSUME NEW d \in S \ {c} PROVE Precedes(c, d)
  <2>1. c.id # d.id /\ c \in Copy /\ d \in Copy
    BY DEF OneEach
  <2>2. ~Precedes(d, c)
    <3>1. Before(d, S) \in T /\ x \in T
      OBVIOUS
    <3>2. ~(Before(d, S) \subseteq x /\ Before(d, S) # x)
      BY <1>2, <1>3, <1>4, <3>1
    <3> QED BY <1>5, <3>2, BeforeGrows
  <2> QED BY <2>1, <2>2, PrecedesOrders
<1> QED BY <1>6

LEMMA DueCopies ==
    ASSUME StoreTypeOK, NEW D, D \subseteq Jobs
    PROVE  LET due == {CopyOf(j) : j \in D}
           IN  due \subseteq Copy /\ IsFiniteSet(due) /\ OneEach(due)
<1> DEFINE due == {CopyOf(j) : j \in D}
           copying == [j \in D |-> CopyOf(j)]
<1>1. due \subseteq Copy /\ OneEach(due)
  BY DEF CopyOf, Copy, StoreTypeOK, OneEach
<1>2. IsFiniteSet(D)
  BY StoreAssumption, FS_Subset
<1>3. copying \in Surjection(D, due)
  BY DEF Surjection
<1>4. IsFiniteSet(due)
  BY <1>2, <1>3, FS_Surjection
<1> QED BY <1>1, <1>4

\* ScanDue is ORDER BY ... LIMIT: at most limit copies, each before every due row
\* left out, and a due row is left out only by a full scan.
THEOREM ScanTakesTheFirst ==
    ASSUME StoreTypeOK, NEW limit \in Nat, NEW at
    PROVE  LET due == {CopyOf(j) : j \in {k \in Jobs : IsDue(jobs[k], at)}}
               scan == ScanDue(limit, at)
           IN  /\ scan \subseteq due
               /\ Cardinality(scan) <= limit
               /\ \A c \in scan, d \in due \ scan : Precedes(c, d)
               /\ scan # due => Cardinality(scan) = limit
<1> DEFINE D == {k \in Jobs : IsDue(jobs[k], at)}
           due == {CopyOf(j) : j \in D}
           scan == ScanDue(limit, at)
           rank(c) == Cardinality(Before(c, due))
           ranking == [c \in scan |-> rank(c)]
<1>1. due \subseteq Copy /\ IsFiniteSet(due) /\ OneEach(due)
  <2>1. D \subseteq Jobs
    OBVIOUS
  <2> HIDE DEF D
  <2> QED BY <2>1, DueCopies
<1>2. scan = {c \in due : rank(c) < limit}
  BY DEF ScanDue, Before
<1> HIDE DEF D, due, scan
<1>3. /\ \A c \in due : rank(c) \in Nat /\ IsFiniteSet(Before(c, due))
      /\ \A c, d \in due : Precedes(c, d) => rank(c) < rank(d)
  <2>1. ASSUME NEW c \in due
        PROVE  rank(c) \in Nat /\ IsFiniteSet(Before(c, due))
    <3>1. Before(c, due) \in SUBSET due
      BY DEF Before
    <3> QED BY <1>1, <3>1, FS_Subset, FS_CardinalityType
  <2>2. ASSUME NEW c \in due, NEW d \in due, Precedes(c, d) PROVE rank(c) < rank(d)
    <3>1. /\ Before(c, due) \in SUBSET Before(d, due)
          /\ Before(c, due) # Before(d, due)
      BY <1>1, <2>2, BeforeGrows
    <3>2. /\ rank(c) <= rank(d)
          /\ rank(d) = rank(c) => Before(d, due) = Before(c, due)
      BY <2>1, <3>1, FS_Subset
    <3> QED BY <2>1, <3>1, <3>2
  <2> QED BY <2>1, <2>2
<1>4. \A c, d \in due : c # d => Precedes(c, d) \/ Precedes(d, c)
  BY <1>1, PrecedesOrders DEF OneEach
<1> HIDE DEF rank
<1>5. IsFiniteSet(scan) /\ Cardinality(scan) \in Nat /\ scan \in SUBSET due
  BY <1>1, <1>2, FS_Subset, FS_CardinalityType
<1>6. Cardinality(scan) <= limit
  <2>1. ranking \in [scan -> 0 .. limit - 1]
    BY <1>2, <1>3
  <2>2. \A c, d \in scan : ranking[c] = ranking[d] => c = d
    BY <1>2, <1>3, <1>4
  <2>3. ranking \in Injection(scan, 0 .. limit - 1)
    BY <2>1, <2>2 DEF Injection, IsInjective
  <2>4. /\ IsFiniteSet(0 .. limit - 1)
        /\ Cardinality(0 .. limit - 1) = IF 0 > limit - 1 THEN 0 ELSE limit - 1 - 0 + 1
    BY FS_Interval
  <2>5. Cardinality(scan) <= Cardinality(0 .. limit - 1)
    BY <2>3, <2>4, FS_Injection
  <2> QED BY <2>4, <2>5
<1>7. \A c \in scan, d \in due \ scan : Precedes(c, d)
  BY <1>2, <1>3, <1>4
<1>8. ASSUME scan # due PROVE Cardinality(scan) = limit
  <2>1. /\ due \ scan \subseteq Copy /\ OneEach(due \ scan) /\ due \ scan # {}
        /\ IsFiniteSet(due \ scan)
    BY <1>1, <1>2, <1>8, FS_Subset DEF OneEach
  <2>2. PICK c \in due \ scan : \A d \in (due \ scan) \ {c} : Precedes(c, d)
    BY <2>1, FirstOf
  <2>3. Before(c, due) \in SUBSET scan
    <3> SUFFICES ASSUME NEW d \in due, Precedes(d, c), d \notin scan PROVE FALSE
      BY DEF Before
    <3>1. c \in Copy /\ d \in Copy
      BY <1>1
    <3>2. d # c /\ ~Precedes(c, d)
      BY <3>1, PrecedesOrders
    <3> QED BY <2>2, <3>2
  <2>4. rank(c) <= Cardinality(scan)
    BY <1>5, <2>3, FS_Subset DEF rank
  <2>5. limit <= rank(c) /\ rank(c) \in Nat
    BY <1>2, <1>3
  <2> QED BY <1>5, <1>6, <2>4, <2>5
<1> QED BY <1>5, <1>6, <1>7, <1>8 DEF D, due, scan

-----------------------------------------------------------------------------
(* Typing. *)

LEMMA DefaultsTyped ==
    /\ AbsentRow \in Row
    /\ NoCopy \in Copy
    /\ IdleFlusher \in Flusher
    /\ IdleWorker \in Worker
    /\ IdleClient \in Client
<1>1. AbsentRow \in Row
  BY DEF AbsentRow, Row
<1>2. (CHOOSE j \in Jobs : TRUE) \in Jobs
  BY StoreAssumption
<1>3. NoCopy \in Copy
  BY <1>1, <1>2 DEF NoCopy, Copy
<1> QED
  BY <1>1, <1>3, PoolAssumption DEF IdleFlusher, Flusher, IdleWorker, Worker,
     IdleClient, Client

LEMMA ScanTyped ==
    ASSUME StoreTypeOK, NEW limit, NEW at
    PROVE  ScanDue(limit, at) \in SUBSET Copy
BY DEF ScanDue, CopyOf, Copy, StoreTypeOK

LEMMA SetRowTyped ==
    ASSUME StoreTypeOK, NEW j \in Jobs, NEW row \in Row, SetRow(j, row)
    PROVE  StoreTypeOK'
BY DEF StoreTypeOK, SetRow

LEMMA RequeueAtTyped ==
    ASSUME NEW row \in Row, NEW at \in Nat
    PROVE  RequeueAt(row, at) \in Row
BY DEF RequeueAt, Row, ValidStates

\* A retry waits for the base delay at least.
LEMMA NextRunAtTyped ==
    ASSUME NEW c \in Copy, now \in Nat
    PROVE  NextRunAt(c) \in Nat /\ now < NextRunAt(c)
<1> DEFINE delay == Window(New("exponential", BackoffBase), c.row.attempts, BackoffBase,
                           16 * BackoffBase)
<1>1. delay \in Nat /\ BackoffBase <= delay
  <2>1. c.row.attempts \in Nat
    BY DEF Copy, Row
  <2>1a. New("exponential", BackoffBase) \in Strategy
    BY PoolAssumption DEF New, Exponential, Strategy
  <2>2. /\ BackoffBase \in Nat /\ 16 * BackoffBase \in Nat
        /\ BackoffBase <= 16 * BackoffBase /\ 16 * BackoffBase > 0
    BY PoolAssumption
  <2> DEFINE strategy == New("exponential", BackoffBase)
             n == c.row.attempts
  <2>3. strategy \in Strategy /\ n \in Int
    BY <2>1, <2>1a
  <2> HIDE DEF strategy, n
  <2>4. /\ Window(strategy, n, BackoffBase, 16 * BackoffBase) \in Nat
        /\ BackoffBase <= Window(strategy, n, BackoffBase, 16 * BackoffBase)
    BY <2>2, <2>3, WindowBounds
  <2> QED BY <2>4 DEF strategy, n
<1>2. NextRunAt(c) = now + delay
  BY DEF NextRunAt
<1> HIDE DEF delay
<1> QED BY <1>1, <1>2, PoolAssumption

LEMMA ClaimTyped ==
    ASSUME StoreTypeOK, NEW j \in Jobs, Claim(j) PROVE StoreTypeOK'
<1>1. CASE Claimable(j)
  <2>1. [jobs[j] EXCEPT !.state = "running"] \in Row
    BY DEF StoreTypeOK, Row, ValidStates
  <2> QED BY <1>1, <2>1, SetRowTyped DEF Claim
<1>2. CASE ~Claimable(j)
  BY <1>2 DEF Claim, NoRowMatches, storeVars, StoreTypeOK
<1> QED BY <1>1, <1>2

LEMMA SucceedTyped ==
    ASSUME StoreTypeOK, NEW j \in Jobs, Succeed(j) PROVE StoreTypeOK'
<1>1. CASE Exists(jobs[j])
  <2>1. [jobs[j] EXCEPT !.state = "succeeded"] \in Row
    BY DEF StoreTypeOK, Row, ValidStates
  <2> QED BY <1>1, <2>1, SetRowTyped DEF Succeed
<1>2. CASE ~Exists(jobs[j])
  BY <1>2 DEF Succeed, NoRowMatches, storeVars, StoreTypeOK
<1> QED BY <1>1, <1>2

LEMMA FailTyped ==
    ASSUME StoreTypeOK, NEW j \in Jobs, NEW willRetry \in BOOLEAN,
           NEW next \in Nat, Fail(j, willRetry, next)
    PROVE  StoreTypeOK'
<1>1. CASE Exists(jobs[j])
  <2>1. [state    |-> IF willRetry THEN "pending" ELSE "dead",
         runAt    |-> IF willRetry THEN next ELSE jobs[j].runAt,
         attempts |-> jobs[j].attempts + 1] \in Row
    BY DEF StoreTypeOK, Row, ValidStates
  <2> QED BY <1>1, <2>1, SetRowTyped DEF Fail
<1>2. CASE ~Exists(jobs[j])
  BY <1>2 DEF Fail, NoRowMatches, storeVars, StoreTypeOK
<1> QED BY <1>1, <1>2

LEMMA UpdateJobTyped ==
    ASSUME StoreTypeOK, NEW c \in Copy, UpdateJob(c) PROVE StoreTypeOK'
<1>1. c.id \in Jobs /\ c.row \in Row
  BY DEF Copy
<1>2. CASE Exists(jobs[c.id])
  BY <1>1, <1>2, SetRowTyped DEF UpdateJob
<1>3. CASE ~Exists(jobs[c.id])
  BY <1>3 DEF UpdateJob, NoRowMatches, storeVars, StoreTypeOK
<1> QED BY <1>2, <1>3

LEMMA StartedTyped ==
    ASSUME TypeOK, NEW f \in Flushers
    PROVE  /\ Started(f) \in Worker
           /\ Started(f).pc = "start"
           /\ Started(f).copy = flusher[f].cur
<1>1. flusher[f].cur \in Copy /\ flusher[f].ctxDone \in BOOLEAN
  BY DEF TypeOK, PoolTypeOK, Flusher
<1> QED BY <1>1, DefaultsTyped DEF Started, IdleWorker, Worker

LEMMA FlushStepTyped ==
    ASSUME TypeOK, NEW f \in Flushers, FlushStep(f)
    PROVE  StoreTypeOK' /\ PoolTypeOK'
<1> USE DefaultsTyped
<1>0. /\ StoreTypeOK /\ PoolTypeOK
      /\ flusher[f] \in Flusher /\ flusher[f].cur \in Copy
      /\ flusher[f].cur.id \in Jobs
      /\ NextCopy(f) \in [Flushers -> Flusher]
  BY DEF TypeOK, PoolTypeOK, Flusher, Copy, NextCopy
<1>1. CASE FlushCheck(f)
  <2>1. PICK c \in flusher[f].rest :
          flusher' = IF IsPaused(QueueOf[c.id])
                     THEN [flusher EXCEPT ![f].rest = @ \ {c}]
                     ELSE [flusher EXCEPT ![f].rest = @ \ {c}, ![f].pc = "claim",
                                          ![f].cur = c]
    BY <1>1 DEF FlushCheck
  <2>2. c \in Copy /\ flusher[f].rest \ {c} \in SUBSET Copy
    BY <1>0 DEF Flusher
  <2>3. CASE IsPaused(QueueOf[c.id])
    <3>1. flusher' = [flusher EXCEPT ![f].rest = @ \ {c}]
      BY <2>1, <2>3
    <3>2. flusher' \in [Flushers -> Flusher]
      BY <1>0, <2>2, <3>1 DEF PoolTypeOK, Flusher
    <3> QED BY <1>0, <1>1, <3>2 DEF FlushCheck, PoolTypeOK, StoreTypeOK, storeVars
  <2>4. CASE ~IsPaused(QueueOf[c.id])
    <3>1. flusher' = [flusher EXCEPT ![f].rest = @ \ {c}, ![f].pc = "claim",
                                     ![f].cur = c]
      BY <2>1, <2>4
    <3>2. flusher' \in [Flushers -> Flusher]
      BY <1>0, <2>2, <3>1 DEF PoolTypeOK, Flusher
    <3> QED BY <1>0, <1>1, <3>2 DEF FlushCheck, PoolTypeOK, StoreTypeOK, storeVars
  <2> QED BY <2>3, <2>4
<1>2. CASE FlushClaim(f)
  <2>1. StoreTypeOK'
    BY <1>0, <1>2, ClaimTyped DEF FlushClaim
  <2>2. QueueOf[flusher[f].cur.id] \in Queues
    BY <1>0, StoreAssumption
  <2>3. flusher' \in [Flushers -> Flusher]
    BY <1>0, <1>2 DEF FlushClaim, PoolTypeOK, Flusher
  <2>4. slips' \in [Flushers -> [Queues -> Nat]]
    BY <1>0, <1>2, <2>2 DEF FlushClaim, PoolTypeOK
  <2> QED BY <1>0, <1>2, <2>1, <2>3, <2>4 DEF FlushClaim, PoolTypeOK
<1>3. CASE FlushRegister(f)
  <2>1. flusher' \in [Flushers -> Flusher] /\ active' \in SUBSET Jobs
    <3>1. CASE IsActive(flusher[f].cur.id)
      <4>1. flusher' = NextCopy(f) /\ active' = active
        BY <1>3, <3>1 DEF FlushRegister
      <4> QED BY <1>0, <4>1 DEF PoolTypeOK
    <3>2. CASE ~IsActive(flusher[f].cur.id)
      <4>1. /\ flusher' = [flusher EXCEPT ![f].pc = "acquire"]
            /\ active' = active \cup {flusher[f].cur.id}
        BY <1>3, <3>2 DEF FlushRegister
      <4> QED BY <1>0, <4>1 DEF PoolTypeOK, Flusher
    <3> QED BY <3>1, <3>2
  <2> QED BY <1>0, <1>3, <2>1 DEF FlushRegister, PoolTypeOK, StoreTypeOK, storeVars
<1>4. CASE FlushDispatch(f)
  BY <1>0, <1>4, StartedTyped DEF FlushDispatch, PoolTypeOK, StoreTypeOK, storeVars,
     Flusher
<1>5. CASE FlushAbort(f)
  BY <1>0, <1>5 DEF FlushAbort, PoolTypeOK, StoreTypeOK, storeVars, Flusher
<1>6. CASE FlushReturn(f)
  BY <1>0, <1>6 DEF FlushReturn, CancelChildren, PoolTypeOK, StoreTypeOK, storeVars,
     Worker
<1> QED BY <1>1, <1>2, <1>3, <1>4, <1>5, <1>6 DEF FlushStep

\* A goroutine that has not ended holds one of the tokens.
LEMMA SlotTaken ==
    ASSUME TypeOK, SlotsAccounted, NEW w \in Workers, worker[w].pc # "idle"
    PROVE  sem \in Nat \ {0}
<1>1. IsFiniteSet(Busy)
  BY PoolAssumption, FS_Subset DEF Busy
<1>2. w \in Busy
  BY DEF Busy
<1>3. Cardinality(Busy) # 0
  BY <1>1, <1>2, FS_EmptySet
<1> QED BY <1>3 DEF TypeOK, PoolTypeOK, SlotsAccounted

LEMMA WorkerStepTyped ==
    ASSUME TypeOK, SlotsAccounted, NEW w \in Workers, WorkerStep(w)
    PROVE  StoreTypeOK' /\ PoolTypeOK'
<1> USE DefaultsTyped
<1>0. /\ StoreTypeOK /\ PoolTypeOK
      /\ worker[w] \in Worker /\ worker[w].copy \in Copy
      /\ worker[w].copy.id \in Jobs
      /\ worker[w].copy.row \in Row
  BY DEF TypeOK, PoolTypeOK, Worker, Copy
<1>1. CASE WorkerStart(w)
  BY <1>0, <1>1 DEF WorkerStart, PoolTypeOK, StoreTypeOK, storeVars, Worker
<1>2. CASE WorkerHandle(w)
  <2>1. PICK failed \in BOOLEAN :
          worker' = [worker EXCEPT ![w].pc = "record", ![w].failed = failed]
    BY <1>2, Zenon DEF WorkerHandle
  <2>2. worker' \in [Workers -> Worker]
    BY <1>0, <2>1 DEF PoolTypeOK, Worker
  <2> QED BY <1>0, <1>2, <2>2 DEF WorkerHandle, PoolTypeOK, StoreTypeOK, storeVars
<1>3. CASE WorkerRecord(w)
  <2>1. [idx |-> worker[w].copy.row.attempts, ok |-> ~worker[w].failed] \in Attempt
    BY <1>0 DEF Attempt, Row, Worker
  <2>2. attempts' \in [Jobs -> Seq(Attempt)]
    BY <1>0, <1>3, <2>1 DEF WorkerRecord, RecordAttempt, StoreTypeOK
  <2> QED BY <1>0, <1>3, <2>2 DEF WorkerRecord, RecordAttempt, PoolTypeOK, StoreTypeOK,
             Worker
<1>4. CASE WorkerSettle(w)
  <2>1. StoreTypeOK'
    <3>1. worker[w].next \in Nat /\ worker[w].willRetry \in BOOLEAN
      BY <1>0 DEF Worker
    <3> QED BY <1>0, <1>4, <3>1, FailTyped, SucceedTyped DEF WorkerSettle
  <2>2. worker' \in [Workers -> Worker]
    BY <1>0, <1>4 DEF WorkerSettle, PoolTypeOK, Worker
  <2> QED BY <1>0, <1>4, <2>1, <2>2 DEF WorkerSettle, PoolTypeOK
<1>4a. CASE WorkerCount(w)
  <2> DEFINE retry == worker[w].failed /\ WillRetry(worker[w].copy)
             next == IF retry THEN NextRunAt(worker[w].copy) ELSE 0
  <2>1. next \in Nat
    BY <1>0, NextRunAtTyped DEF StoreTypeOK
  <2>2. retry \in BOOLEAN
    OBVIOUS
  <2>3. worker' = [worker EXCEPT ![w].pc = "settle", ![w].willRetry = retry,
                                 ![w].next = next]
    BY <1>4a DEF WorkerCount
  <2> HIDE DEF retry, next
  <2>4. worker' \in [Workers -> Worker]
    BY <1>0, <2>1, <2>2, <2>3 DEF PoolTypeOK, Worker
  <2>5. metrics' \in [succeeded : Nat, failed : Nat, retried : Nat, dead : Nat]
    BY <1>0, <1>4a DEF WorkerCount, Bump, PoolTypeOK
  <2> QED BY <1>0, <1>4a, <2>4, <2>5 DEF WorkerCount, PoolTypeOK, StoreTypeOK, storeVars
<1>5. CASE WorkerTeardown(w)
  BY <1>0, <1>5 DEF WorkerTeardown, PoolTypeOK, StoreTypeOK, storeVars, Worker
<1>6. CASE WorkerRelease(w)
  <2>1. sem \in Nat \ {0}
    BY <1>6, SlotTaken DEF WorkerRelease
  <2> QED BY <1>0, <1>6, <2>1 DEF WorkerRelease, PoolTypeOK, StoreTypeOK, storeVars
<1> QED BY <1>1, <1>2, <1>3, <1>4, <1>4a, <1>5, <1>6 DEF WorkerStep

LEMMA FlushBeginTyped ==
    ASSUME TypeOK, NEW f \in Flushers, FlushBegin(f)
    PROVE  StoreTypeOK' /\ PoolTypeOK'
<1>1. ScanDue(ScanSize, now) \in SUBSET Copy
  BY ScanTyped DEF TypeOK
<1> QED BY <1>1 DEF FlushBegin, TypeOK, PoolTypeOK, StoreTypeOK, storeVars, Flusher

LEMMA ClientStepTyped ==
    ASSUME TypeOK, NEW c \in Clients, ClientStep(c)
    PROVE  StoreTypeOK' /\ PoolTypeOK' /\ ApiTypeOK'
<1> USE DefaultsTyped
<1>0. /\ StoreTypeOK /\ PoolTypeOK /\ ApiTypeOK
      /\ client[c] \in Client /\ client[c].copy \in Copy
      /\ client[c].copy.id \in Jobs
      /\ ops \in Nat
  BY DEF TypeOK, ApiTypeOK, Client, Copy
<1>1. ASSUME UNCHANGED poolVars PROVE PoolTypeOK'
  BY <1>0, <1>1 DEF poolVars, PoolTypeOK
<1>2. ASSUME UNCHANGED storeVars PROVE StoreTypeOK'
  BY <1>0, <1>2 DEF storeVars, StoreTypeOK
<1>3. ASSUME Reply(c), UNCHANGED ops PROVE ApiTypeOK'
  BY <1>0, <1>3 DEF Reply, ApiTypeOK
<1>4. ASSUME NEW op, NewRequest(op), NEW pc \in {"retry", "signal", "cancel", "delete"},
             NEW copy \in Copy, Serve(c, pc, copy)
      PROVE  ApiTypeOK'
  <2>1. client' = [client EXCEPT ![c].pc = pc, ![c].copy = copy]
    BY <1>4 DEF Serve
  <2>2. client' \in [Clients -> Client]
    BY <1>0, <1>4, <2>1 DEF ApiTypeOK, Client
  <2>3. ops' \in Nat
    BY <1>0, <1>4 DEF NewRequest
  <2> QED BY <2>2, <2>3 DEF ApiTypeOK
<1>5. CASE ApiCreate(c)
  <2>1. ApiTypeOK'
    <3>1. PICK ids \in Batches :
            client' = [client EXCEPT ![c].pc = "create", ![c].todo = ids]
      BY <1>5 DEF ApiCreate
    <3>2. client' \in [Clients -> Client]
      BY <1>0, <3>1, ApiAssumption DEF ApiTypeOK, Client
    <3>3. ops' \in Nat
      BY <1>0, <1>5 DEF ApiCreate, NewRequest
    <3> QED BY <3>2, <3>3 DEF ApiTypeOK
  <2> QED BY <1>5, <1>1, <1>2, <2>1 DEF ApiCreate, storeVars, poolVars
<1>6. CASE ApiInsert(c)
  <2>1. PICK j \in client[c].todo :
          IF Exists(jobs[j])
          THEN NoRowMatches /\ Reply(c)
          ELSE /\ \E runAt \in RunAtInputs : CreateJob(j, runAt)
               /\ IF client[c].todo = {j}
                  THEN Reply(c)
                  ELSE client' = [client EXCEPT ![c].todo = @ \ {j}]
    BY <1>6 DEF ApiInsert
  <2>2. j \in Jobs
    BY <1>0 DEF Client
  <2>3. StoreTypeOK'
    <3>1. CASE Exists(jobs[j])
      BY <2>1, <3>1, <1>2 DEF NoRowMatches
    <3>2. CASE ~Exists(jobs[j])
      <4>1. PICK runAt \in RunAtInputs : CreateJob(j, runAt)
        BY <2>1, <3>2
      <4>2. runAt \in Nat
        BY <1>0, <4>1 DEF RunAtInputs, StoreTypeOK
      <4>3. [state |-> "pending", runAt |-> runAt, attempts |-> 0] \in Row
        BY <4>2 DEF Row, ValidStates
      <4> QED BY <1>0, <2>2, <4>1, <4>3, SetRowTyped DEF CreateJob
    <3> QED BY <3>1, <3>2
  <2>4. ApiTypeOK'
    <3>1. CASE Reply(c)
      BY <1>3, <1>6, <3>1 DEF ApiInsert
    <3>2. CASE client' = [client EXCEPT ![c].todo = @ \ {j}]
      BY <1>0, <1>6, <3>2 DEF ApiInsert, ApiTypeOK, Client
    <3> QED BY <2>1, <3>1, <3>2
  <2> QED BY <1>1, <1>6, <2>3, <2>4 DEF ApiInsert, poolVars
<1>7. ASSUME NEW j \in Jobs, ApiRetryRead(c, j)
      PROVE  StoreTypeOK' /\ PoolTypeOK' /\ ApiTypeOK'
  <2>1. [id |-> j, row |-> RequeueAt(jobs[j], now)] \in Copy
    BY <1>0, RequeueAtTyped DEF Copy, StoreTypeOK
  <2>2. ApiTypeOK'
    BY <1>4, <1>7, <2>1 DEF ApiRetryRead
  <2> QED BY <1>1, <1>2, <1>7, <2>2 DEF ApiRetryRead, storeVars, poolVars
<1>8. CASE ApiRetryWrite(c)
  BY <1>0, <1>1, <1>3, <1>8, UpdateJobTyped DEF ApiRetryWrite, poolVars
<1>9. ASSUME NEW j \in Jobs, ApiCancelRead(c, j)
      PROVE  StoreTypeOK' /\ PoolTypeOK' /\ ApiTypeOK'
  <2>1. [id |-> j, row |-> [jobs[j] EXCEPT !.state = "cancelled"]] \in Copy
    BY <1>0 DEF Copy, Row, ValidStates, StoreTypeOK
  <2>2. ApiTypeOK'
    BY <1>4, <1>9, <2>1 DEF ApiCancelRead
  <2> QED BY <1>1, <1>2, <1>9, <2>2 DEF ApiCancelRead, storeVars, poolVars
<1>10. CASE ApiCancelSignal(c)
  <2>1. worker' \in [Workers -> Worker]
    BY <1>0, <1>10 DEF ApiCancelSignal, CancelledBy, PoolTypeOK, Worker
  <2>2. ApiTypeOK'
    BY <1>0, <1>10 DEF ApiCancelSignal, ApiTypeOK, Client
  <2> QED BY <1>0, <1>2, <1>10, <2>1, <2>2 DEF ApiCancelSignal, PoolTypeOK, storeVars
<1>11. CASE ApiCancelWrite(c)
  BY <1>0, <1>1, <1>3, <1>11, UpdateJobTyped DEF ApiCancelWrite, poolVars
<1>12. ASSUME NEW j \in Jobs, ApiDeleteAttempts(c, j)
       PROVE  StoreTypeOK' /\ PoolTypeOK' /\ ApiTypeOK'
  <2>1. StoreTypeOK'
    BY <1>0, <1>12 DEF ApiDeleteAttempts, DeleteAttempts, StoreTypeOK
  <2>2. [id |-> j, row |-> AbsentRow] \in Copy
    BY DEF Copy
  <2>3. ApiTypeOK'
    BY <1>4, <1>12, <2>2 DEF ApiDeleteAttempts
  <2> QED BY <1>1, <1>12, <2>1, <2>3 DEF ApiDeleteAttempts, poolVars
<1>13. CASE ApiDeleteRow(c)
  BY <1>0, <1>1, <1>3, <1>13, SetRowTyped DEF ApiDeleteRow, DeleteRow, poolVars
<1> QED
  BY <1>5, <1>6, <1>7, <1>8, <1>9, <1>10, <1>11, <1>12, <1>13 DEF ClientStep

LEMMA RequestStepTyped ==
    ASSUME TypeOK, RequestStep
    PROVE  StoreTypeOK' /\ PoolTypeOK' /\ ApiTypeOK'
<1>0. StoreTypeOK /\ PoolTypeOK /\ ApiTypeOK
  BY DEF TypeOK
<1>1. ASSUME NEW op, NewRequest(op), UNCHANGED client PROVE ApiTypeOK'
  BY <1>0, <1>1 DEF NewRequest, ApiTypeOK
<1>2. ASSUME UNCHANGED poolVars PROVE PoolTypeOK'
  BY <1>0, <1>2 DEF poolVars, PoolTypeOK
<1>3. ASSUME NEW j \in Jobs, ApiRequeueDead(j)
      PROVE  StoreTypeOK' /\ PoolTypeOK' /\ ApiTypeOK'
  <2>1. [jobs[j] EXCEPT !.state = "pending", !.runAt = now] \in Row
    BY <1>0 DEF StoreTypeOK, Row, ValidStates
  <2>2. StoreTypeOK'
    BY <1>0, <1>3, <2>1, SetRowTyped DEF ApiRequeueDead, RequeueDead
  <2> QED BY <1>1, <1>2, <1>3, <2>2 DEF ApiRequeueDead, poolVars
<1>4. ASSUME NEW q \in Queues, ApiPause(q)
      PROVE  StoreTypeOK' /\ PoolTypeOK' /\ ApiTypeOK'
  <2>1. StoreTypeOK'
    BY <1>0, <1>4 DEF ApiPause, SetPaused, StoreTypeOK
  <2> QED BY <1>1, <1>2, <1>4, <2>1 DEF ApiPause, poolVars
<1>5. ASSUME NEW q \in Queues, ApiResume(q)
      PROVE  StoreTypeOK' /\ PoolTypeOK' /\ ApiTypeOK'
  <2>1. StoreTypeOK'
    BY <1>0, <1>5 DEF ApiResume, SetPaused, StoreTypeOK
  <2>2. PoolTypeOK'
    BY <1>0, <1>5 DEF ApiResume, PoolTypeOK
  <2> QED BY <1>1, <1>5, <2>1, <2>2 DEF ApiResume
<1>6. ASSUME NEW f \in Flushers, ApiFlush(f)
      PROVE  StoreTypeOK' /\ PoolTypeOK' /\ ApiTypeOK'
  BY <1>1, <1>6, FlushBeginTyped DEF ApiFlush
<1>7. ASSUME NEW f \in Flushers, ApiDisconnect(f)
      PROVE  StoreTypeOK' /\ PoolTypeOK' /\ ApiTypeOK'
  <2>1. flusher' \in [Flushers -> Flusher]
    BY <1>0, <1>7 DEF ApiDisconnect, PoolTypeOK, Flusher
  <2>2. worker' \in [Workers -> Worker]
    BY <1>0, <1>7 DEF ApiDisconnect, CancelChildren, PoolTypeOK, Worker
  <2>3. PoolTypeOK' /\ StoreTypeOK'
    BY <1>0, <1>7, <2>1, <2>2 DEF ApiDisconnect, PoolTypeOK, StoreTypeOK, storeVars
  <2> QED BY <1>1, <1>7, <2>3 DEF ApiDisconnect
<1> QED BY <1>3, <1>4, <1>5, <1>6, <1>7 DEF RequestStep

\* A goroutine whose call fails moves on, and changes nothing else.
LEMMA CallFailed ==
    ASSUME TypeOK, NEW w \in Workers, WorkerCallFails(w)
    PROVE  /\ worker[w].pc \in {"record", "settle"}
           /\ worker'[w].pc \in {"count", "teardown"}
           /\ worker'[w].copy = worker[w].copy
           /\ worker' \in [Workers -> Worker]
           /\ \A v \in Workers \ {w} : worker'[v] = worker[v]
           /\ UNCHANGED <<storeVars, active, cancels, sem, flusher, metrics, slips>>
<1>1. PICK pc \in {"count", "teardown"} : worker' = [worker EXCEPT ![w].pc = pc]
  BY DEF WorkerCallFails
<1>2. worker \in [Workers -> Worker] /\ worker[w] \in Worker
  BY DEF TypeOK, PoolTypeOK
<1>3. /\ worker' \in [Workers -> Worker]
      /\ worker'[w].pc = pc /\ worker'[w].copy = worker[w].copy
      /\ \A v \in Workers \ {w} : worker'[v] = worker[v]
  BY <1>1, <1>2 DEF Worker
<1> QED BY <1>1, <1>3 DEF WorkerCallFails

LEMMA FaultStepTyped ==
    ASSUME TypeOK, FaultStep
    PROVE  StoreTypeOK' /\ PoolTypeOK' /\ ApiTypeOK'
<1> USE DefaultsTyped
<1>0. StoreTypeOK /\ PoolTypeOK /\ ApiTypeOK
  BY DEF TypeOK
<1>1. ASSUME NEW f \in Flushers, FlushCheckFails(f), UNCHANGED apiVars
      PROVE  StoreTypeOK' /\ PoolTypeOK' /\ ApiTypeOK'
  <2>1. flusher[f] \in Flusher
    BY <1>0 DEF PoolTypeOK
  <2>2. PICK c \in flusher[f].rest :
          flusher' = [flusher EXCEPT ![f].rest = @ \ {c}, ![f].pc = "claim",
                                     ![f].cur = c]
    BY <1>1 DEF FlushCheckFails
  <2>3. flusher' \in [Flushers -> Flusher]
    BY <1>0, <2>1, <2>2 DEF PoolTypeOK, Flusher
  <2> QED BY <1>0, <1>1, <2>3 DEF FlushCheckFails, PoolTypeOK, StoreTypeOK, ApiTypeOK,
             storeVars, apiVars
<1>2. ASSUME NEW f \in Flushers, FlushClaimFails(f), UNCHANGED apiVars
      PROVE  StoreTypeOK' /\ PoolTypeOK' /\ ApiTypeOK'
  BY <1>0, <1>2 DEF FlushClaimFails, PoolTypeOK, StoreTypeOK, ApiTypeOK, storeVars,
     apiVars, Flusher
<1>3. ASSUME NEW w \in Workers, WorkerCallFails(w), UNCHANGED apiVars
      PROVE  StoreTypeOK' /\ PoolTypeOK' /\ ApiTypeOK'
  BY <1>0, <1>3, CallFailed DEF PoolTypeOK, StoreTypeOK, ApiTypeOK, storeVars, apiVars
<1>4. ASSUME NEW c \in Clients, ApiCallFails(c)
      PROVE  StoreTypeOK' /\ PoolTypeOK' /\ ApiTypeOK'
  BY <1>0, <1>4 DEF ApiCallFails, Reply, PoolTypeOK, StoreTypeOK, ApiTypeOK, storeVars,
     poolVars
<1> QED BY <1>1, <1>2, <1>3, <1>4 DEF FaultStep

LEMMA RestartTyped ==
    ASSUME TypeOK, Restart
    PROVE  TypeOK'
<1>1. jobs' \in [Jobs -> Row]
  <2>1. \A j \in Jobs : jobs[j] \in Row /\ RequeueAt(jobs[j], now) \in Row
    BY RequeueAtTyped DEF TypeOK, StoreTypeOK
  <2>2. RecoverOnOpen(jobs, now) \in [Jobs -> Row]
    BY <2>1 DEF RecoverOnOpen
  <2>3. \A j \in Jobs : RequeueAt(RecoverOnOpen(jobs, now)[j], now) \in Row
    BY <2>2, RequeueAtTyped DEF TypeOK, StoreTypeOK
  <2> QED BY <2>2, <2>3 DEF Restart, RecoverInterrupted
<1>2. StoreTypeOK'
  BY <1>1 DEF Restart, TypeOK, StoreTypeOK
<1>3. PoolTypeOK'
  BY DefaultsTyped DEF Restart, PoolReset, NoMetrics, TypeOK, PoolTypeOK
<1>4. ApiTypeOK' /\ crashes' \in Nat /\ faults' \in Nat
  BY DefaultsTyped DEF Restart, TypeOK, ApiTypeOK
<1> QED BY <1>2, <1>3, <1>4 DEF TypeOK

LEMMA InitTyped == Init => TypeOK
<1> SUFFICES ASSUME Init PROVE TypeOK
  OBVIOUS
<1>1. StoreTypeOK
  BY DefaultsTyped DEF Init, StoreTypeOK, Row, ValidStates
<1>2. PoolTypeOK
  BY DefaultsTyped DEF Init, PoolInit, NoMetrics, PoolTypeOK
<1>3. ApiTypeOK /\ crashes \in Nat /\ faults \in Nat
  BY DefaultsTyped DEF Init, ApiInit, ApiTypeOK
<1> QED BY <1>1, <1>2, <1>3 DEF TypeOK

LEMMA NextTyped == TypeOK /\ SlotsAccounted /\ [Next]_vars => TypeOK'
<1> SUFFICES ASSUME TypeOK, SlotsAccounted, [Next]_vars PROVE TypeOK'
  OBVIOUS
<1>0. StoreTypeOK /\ PoolTypeOK /\ ApiTypeOK /\ crashes \in Nat /\ faults \in Nat
  BY DEF TypeOK
<1>1. ASSUME UNCHANGED <<apiVars, badLuck>>
      PROVE  ApiTypeOK' /\ crashes' \in Nat /\ faults' \in Nat
  BY <1>0, <1>1 DEF apiVars, badLuck, ApiTypeOK
<1>2. CASE PollTick
  BY <1>1, <1>2, FlushBeginTyped, PoolAssumption DEF PollTick, TypeOK
<1>3. ASSUME NEW f \in Flushers, FlushStepOf(f) PROVE TypeOK'
  BY <1>1, <1>3, FlushStepTyped DEF FlushStepOf, TypeOK
<1>4. ASSUME NEW w \in Workers, WorkerStepOf(w) PROVE TypeOK'
  BY <1>1, <1>4, WorkerStepTyped DEF WorkerStepOf, TypeOK
<1>5. ASSUME NEW c \in Clients, ClientStepOf(c) PROVE TypeOK'
  BY <1>0, <1>5, ClientStepTyped DEF ClientStepOf, badLuck, TypeOK
<1>6. CASE RequestStep
  <2>1. crashes' \in Nat /\ faults' \in Nat
    BY <1>0, <1>6 DEF RequestStep, badLuck
  <2> QED BY <1>6, <2>1, RequestStepTyped DEF TypeOK
<1>6a. CASE FaultStep
  <2>1. crashes' \in Nat /\ faults' \in Nat
    BY <1>0, <1>6a DEF FaultStep
  <2> QED BY <1>6a, <2>1, FaultStepTyped DEF TypeOK
<1>7. CASE Restart
  BY <1>7, RestartTyped
<1>8. CASE Tick
  BY <1>0, <1>8 DEF Tick, TypeOK, StoreTypeOK, PoolTypeOK, ApiTypeOK, poolVars, apiVars,
     badLuck
<1>9. CASE UNCHANGED vars
  BY <1>0, <1>9 DEF vars, TypeOK, StoreTypeOK, PoolTypeOK, ApiTypeOK, storeVars,
     poolVars, apiVars, badLuck
<1> QED BY <1>2, <1>3, <1>4, <1>5, <1>6, <1>6a, <1>7, <1>8, <1>9 DEF Next

-----------------------------------------------------------------------------
(* The semaphore. *)

LEMMA BusyIsFinite == IsFiniteSet(Busy)
BY PoolAssumption, FS_Subset DEF Busy

LEMMA SlotsKept ==
    ASSUME SlotsAccounted, sem' = sem,
           \A w \in Workers : worker'[w].pc = "idle" <=> worker[w].pc = "idle"
    PROVE  SlotsAccounted'
<1>1. Busy' = Busy
  BY DEF Busy
<1> QED BY <1>1 DEF SlotsAccounted

LEMMA SlotsInit == Init => SlotsAccounted
<1> SUFFICES ASSUME Init PROVE SlotsAccounted
  OBVIOUS
<1>1. Busy = {}
  BY DEF Init, PoolInit, Busy, IdleWorker
<1> QED BY <1>1, FS_EmptySet, PoolAssumption DEF Init, PoolInit, SlotsAccounted

LEMMA SlotsNext == TypeOK /\ SlotsAccounted /\ [Next]_vars => SlotsAccounted'
<1> SUFFICES ASSUME TypeOK, SlotsAccounted, [Next]_vars PROVE SlotsAccounted'
  OBVIOUS
<1>0. /\ worker \in [Workers -> Worker]
      /\ \A w \in Workers : worker[w] \in Worker
      /\ sem = Cardinality(Busy) /\ sem \in Nat /\ sem <= PoolSize
  BY DEF TypeOK, PoolTypeOK, SlotsAccounted
<1>1. ASSUME worker' = worker, sem' = sem PROVE SlotsAccounted'
  BY <1>1, SlotsKept
<1>2. ASSUME NEW f \in Flushers, FlushBegin(f) PROVE SlotsAccounted'
  BY <1>1, <1>2 DEF FlushBegin
<1>3. ASSUME NEW f \in Flushers, FlushStepOf(f) PROVE SlotsAccounted'
  <2>1. CASE FlushCheck(f)
    BY <1>1, <2>1 DEF FlushCheck
  <2>2. CASE FlushClaim(f)
    BY <1>1, <2>2 DEF FlushClaim
  <2>3. CASE FlushRegister(f)
    BY <1>1, <2>3 DEF FlushRegister
  <2>4. CASE FlushDispatch(f)
    <3>1. PICK w \in Workers :
            /\ worker[w].pc = "idle"
            /\ worker' = [worker EXCEPT ![w] = Started(f)]
      BY <2>4 DEF FlushDispatch
    <3>2. Busy' = Busy \cup {w} /\ w \notin Busy
      BY <1>0, <3>1, StartedTyped DEF Busy
    <3>3. Cardinality(Busy') = Cardinality(Busy) + 1
      BY <3>2, BusyIsFinite, FS_AddElement
    <3>4. sem' = sem + 1 /\ sem < PoolSize
      BY <2>4 DEF FlushDispatch, SlotFree
    <3> QED BY <1>0, <3>3, <3>4, PoolAssumption DEF SlotsAccounted
  <2>5. CASE FlushAbort(f)
    BY <1>1, <2>5 DEF FlushAbort
  <2>6. CASE FlushReturn(f)
    <3>1. \A w \in Workers : worker'[w].pc = "idle" <=> worker[w].pc = "idle"
      BY <1>0, <2>6 DEF FlushReturn, CancelChildren, Worker
    <3> QED BY <2>6, <3>1, SlotsKept DEF FlushReturn
  <2> QED BY <1>3, <2>1, <2>2, <2>3, <2>4, <2>5, <2>6 DEF FlushStepOf, FlushStep
<1>4. ASSUME NEW w \in Workers, WorkerStepOf(w) PROVE SlotsAccounted'
  <2>1. ASSUME NEW pc \in {"handle", "record", "count", "settle", "teardown", "release"},
               worker[w].pc # "idle", worker'[w].pc = pc, sem' = sem,
               \A v \in Workers \ {w} : worker'[v] = worker[v]
        PROVE  SlotsAccounted'
    BY <2>1, SlotsKept
  <2>2. CASE WorkerStart(w)
    BY <1>0, <2>1, <2>2 DEF WorkerStart
  <2>3. CASE WorkerHandle(w)
    <3>1. PICK failed \in BOOLEAN :
            worker' = [worker EXCEPT ![w].pc = "record", ![w].failed = failed]
      BY <2>3, Zenon DEF WorkerHandle
    <3> QED BY <1>0, <2>1, <2>3, <3>1 DEF WorkerHandle, Worker
  <2>4. CASE WorkerRecord(w)
    BY <1>0, <2>1, <2>4 DEF WorkerRecord
  <2>5. CASE WorkerSettle(w)
    BY <1>0, <2>1, <2>5 DEF WorkerSettle
  <2>5a. CASE WorkerCount(w)
    <3>1. /\ worker[w].pc = "count" /\ worker'[w].pc = "settle"
          /\ \A v \in Workers \ {w} : worker'[v] = worker[v]
      BY <1>0, <2>5a DEF WorkerCount, Worker
    <3> QED BY <2>1, <2>5a, <3>1 DEF WorkerCount
  <2>6. CASE WorkerTeardown(w)
    BY <1>0, <2>1, <2>6 DEF WorkerTeardown
  <2>7. CASE WorkerRelease(w)
    <3>1. Busy' = Busy \ {w} /\ w \in Busy
      BY <1>0, <2>7 DEF WorkerRelease, Busy, IdleWorker
    <3>2. Cardinality(Busy') = Cardinality(Busy) - 1
      BY <3>1, BusyIsFinite, FS_RemoveElement
    <3>3. sem' = sem - 1
      BY <2>7 DEF WorkerRelease
    <3> QED BY <1>0, <3>2, <3>3, PoolAssumption DEF SlotsAccounted
  <2> QED BY <1>4, <2>2, <2>3, <2>4, <2>5, <2>5a, <2>6, <2>7
          DEF WorkerStepOf, WorkerStep
<1>5. ASSUME NEW c \in Clients, ClientStepOf(c) PROVE SlotsAccounted'
  <2>1. CASE ApiCancelSignal(c)
    <3>1. \A w \in Workers : worker'[w].pc = "idle" <=> worker[w].pc = "idle"
      BY <1>0, <2>1 DEF ApiCancelSignal, CancelledBy, Worker
    <3> QED BY <2>1, <3>1, SlotsKept DEF ApiCancelSignal
  <2>2. CASE ~ApiCancelSignal(c)
    <3>1. UNCHANGED poolVars
      BY <1>5, <2>2 DEF ClientStepOf, ClientStep, ApiCreate, ApiInsert, ApiRetryRead,
         ApiRetryWrite, ApiCancelRead, ApiCancelWrite, ApiDeleteAttempts, ApiDeleteRow
    <3> QED BY <1>1, <3>1 DEF poolVars
  <2> QED BY <2>1, <2>2
<1>6. CASE RequestStep
  <2>1. ASSUME NEW f \in Flushers, ApiDisconnect(f) PROVE SlotsAccounted'
    <3>1. \A w \in Workers : worker'[w].pc = "idle" <=> worker[w].pc = "idle"
      BY <1>0, <2>1 DEF ApiDisconnect, CancelChildren, Worker
    <3> QED BY <2>1, <3>1, SlotsKept DEF ApiDisconnect
  <2>2. ASSUME NEW f \in Flushers, ApiFlush(f) PROVE SlotsAccounted'
    BY <1>2, <2>2 DEF ApiFlush
  <2>3. ASSUME NEW j \in Jobs, ApiRequeueDead(j) PROVE SlotsAccounted'
    BY <1>1, <2>3 DEF ApiRequeueDead, poolVars
  <2>4. ASSUME NEW q \in Queues, ApiPause(q) \/ ApiResume(q) PROVE SlotsAccounted'
    BY <1>1, <2>4 DEF ApiPause, ApiResume, poolVars
  <2> QED BY <1>6, <2>1, <2>2, <2>3, <2>4 DEF RequestStep
<1>6a. CASE FaultStep
  <2>1. ASSUME NEW f \in Flushers, FlushCheckFails(f) \/ FlushClaimFails(f)
        PROVE  SlotsAccounted'
    BY <1>1, <2>1 DEF FlushCheckFails, FlushClaimFails
  <2>2. ASSUME NEW w \in Workers, WorkerCallFails(w) PROVE SlotsAccounted'
    <3>1. \A v \in Workers : worker'[v].pc = "idle" <=> worker[v].pc = "idle"
      BY <2>2, CallFailed
    <3> QED BY <2>2, <3>1, CallFailed, SlotsKept
  <2>3. ASSUME NEW c \in Clients, ApiCallFails(c) PROVE SlotsAccounted'
    BY <1>1, <2>3 DEF ApiCallFails, poolVars
  <2> QED BY <1>6a, <2>1, <2>2, <2>3 DEF FaultStep
<1>7. CASE Restart
  <2>1. Busy' = {} /\ sem' = 0
    BY <1>7 DEF Restart, PoolReset, Busy, IdleWorker
  <2> QED BY <2>1, FS_EmptySet, PoolAssumption DEF SlotsAccounted
<1>8. CASE Tick
  BY <1>1, <1>8 DEF Tick, poolVars
<1>9. CASE UNCHANGED vars
  BY <1>1, <1>9 DEF vars, poolVars
<1>10. CASE PollTick
  BY <1>2, <1>10, PoolAssumption DEF PollTick
<1> QED BY <1>3, <1>4, <1>5, <1>6, <1>6a, <1>7, <1>8, <1>9, <1>10 DEF Next

\* In every reachable state every variable has its type, and the semaphore holds
\* one token for each goroutine that has not ended and never more than PoolSize.
\* Neither is inductive alone: that <-p.sem never finds the channel empty is
\* part of the typing of sem.
THEOREM SlotsAreAccounted == Spec => [](TypeOK /\ SlotsAccounted)
<1>1. Init => TypeOK /\ SlotsAccounted
  BY InitTyped, SlotsInit
<1>2. TypeOK /\ SlotsAccounted /\ [Next]_vars => (TypeOK /\ SlotsAccounted)'
  BY NextTyped, SlotsNext
<1> QED BY <1>1, <1>2, PTL DEF Spec

\* Every variable of the service keeps its type.
THEOREM TypeCorrect == Spec => []TypeOK
BY SlotsAreAccounted, PTL

-----------------------------------------------------------------------------
(* Who answers for a registered id, and whose CancelFunc is under it. *)

Ownership == ActiveIsOwned /\ OneOwnerPerJob /\ CancelReachesHandler

\* A step that moves nobody in or out of the registered region.
LEMMA OwnershipKept ==
    ASSUME Ownership, active' = active, cancels' = cancels,
           \A f \in Flushers, j \in Jobs : FlusherOwns(f, j)' <=> FlusherOwns(f, j),
           \A w \in Workers, j \in Jobs :
              /\ WorkerOwns(w, j)' <=> WorkerOwns(w, j)
              /\ Registered(w, j)' <=> Registered(w, j)
    PROVE  Ownership'
<1>1. ActiveIsOwned'
  BY DEF Ownership, ActiveIsOwned
<1>2. OneOwnerPerJob'
  BY DEF Ownership, OneOwnerPerJob
<1>3. CancelReachesHandler'
  BY DEF Ownership, CancelReachesHandler
<1> QED BY <1>1, <1>2, <1>3 DEF Ownership

\* In particular one that changes no program counter and no copy.
LEMMA OwnershipUnmoved ==
    ASSUME Ownership, active' = active, cancels' = cancels,
           \A f \in Flushers : /\ flusher'[f].pc = "acquire" <=> flusher[f].pc = "acquire"
                               /\ flusher[f].pc = "acquire"
                                    => flusher'[f].cur = flusher[f].cur,
           \A w \in Workers : /\ worker'[w].pc = worker[w].pc
                              /\ worker'[w].copy = worker[w].copy
    PROVE  Ownership'
BY OwnershipKept DEF FlusherOwns, WorkerOwns, Executing, Registered

LEMMA OwnershipInit == Init => Ownership
BY DEF Init, PoolInit, IdleFlusher, IdleWorker, Ownership, ActiveIsOwned, OneOwnerPerJob,
   CancelReachesHandler, FlusherOwns, WorkerOwns, Executing, Registered

LEMMA OwnershipRestart == ASSUME Restart PROVE Ownership'
BY DEF Restart, PoolReset, IdleFlusher, IdleWorker, Ownership, ActiveIsOwned,
   OneOwnerPerJob, CancelReachesHandler, FlusherOwns, WorkerOwns, Executing, Registered

LEMMA OwnershipFlush ==
    ASSUME TypeOK, Ownership, NEW f \in Flushers, FlushStep(f)
    PROVE  Ownership'
<1>0. /\ flusher \in [Flushers -> Flusher] /\ worker \in [Workers -> Worker]
      /\ flusher[f].cur.id \in Jobs
  BY DEF TypeOK, PoolTypeOK, Flusher, Copy
<1> DEFINE id == flusher[f].cur.id
<1>1. CASE FlushCheck(f)
  <2>1. /\ flusher[f].pc = "check" /\ flusher'[f].pc # "acquire"
        /\ \A g \in Flushers \ {f} : flusher'[g] = flusher[g]
    BY <1>0, <1>1 DEF FlushCheck
  <2> QED BY <1>1, <2>1, OwnershipUnmoved DEF FlushCheck
<1>2. CASE FlushClaim(f)
  <2>1. /\ flusher[f].pc = "claim" /\ flusher'[f].pc # "acquire"
        /\ \A g \in Flushers \ {f} : flusher'[g] = flusher[g]
    BY <1>0, <1>2 DEF FlushClaim, NextCopy
  <2> QED BY <1>2, <2>1, OwnershipUnmoved DEF FlushClaim
<1>3. CASE FlushRegister(f)
  <2>1. CASE IsActive(id)
    <3>1. /\ flusher[f].pc = "register" /\ flusher'[f].pc # "acquire"
          /\ \A g \in Flushers \ {f} : flusher'[g] = flusher[g]
          /\ active' = active
      <4>1. /\ flusher[f].pc = "register"
            /\ flusher' = NextCopy(f) /\ active' = active
        BY <1>3, <2>1 DEF FlushRegister
      <4> QED BY <1>0, <4>1 DEF NextCopy
    <3> QED BY <1>3, <3>1, OwnershipUnmoved DEF FlushRegister
  <2>2. CASE ~IsActive(id)
    <3>1. /\ flusher[f].pc = "register" /\ active' = active \cup {id}
          /\ flusher' = [flusher EXCEPT ![f].pc = "acquire"]
          /\ worker' = worker /\ cancels' = cancels
      BY <1>3, <2>2 DEF FlushRegister
    <3>2. \A g \in Flushers, j \in Jobs :
            FlusherOwns(g, j)' <=> FlusherOwns(g, j) \/ (g = f /\ j = id)
      BY <1>0, <3>1 DEF FlusherOwns
    <3>3. \A w \in Workers, j \in Jobs :
            /\ WorkerOwns(w, j)' <=> WorkerOwns(w, j)
            /\ Registered(w, j)' <=> Registered(w, j)
      BY <3>1 DEF WorkerOwns, Executing, Registered
    <3>4. /\ \A g \in Flushers : ~FlusherOwns(g, id)
          /\ \A w \in Workers : ~WorkerOwns(w, id)
      BY <1>0, <2>2 DEF IsActive, Ownership, ActiveIsOwned
    <3>5. ActiveIsOwned'
      BY <1>0, <3>1, <3>2, <3>3 DEF Ownership, ActiveIsOwned
    <3>6. OneOwnerPerJob'
      BY <3>2, <3>3, <3>4 DEF Ownership, OneOwnerPerJob
    <3>7. CancelReachesHandler'
      BY <3>1, <3>3 DEF Ownership, CancelReachesHandler
    <3> QED BY <3>5, <3>6, <3>7 DEF Ownership
  <2> QED BY <2>1, <2>2
<1>4. CASE FlushDispatch(f)
  <2>1. PICK w \in Workers :
          /\ worker[w].pc = "idle"
          /\ worker' = [worker EXCEPT ![w] = Started(f)]
    BY <1>4 DEF FlushDispatch
  <2>2. /\ flusher[f].pc = "acquire" /\ flusher'[f].pc = "check"
        /\ \A g \in Flushers \ {f} : flusher'[g] = flusher[g]
        /\ active' = active /\ cancels' = cancels
    BY <1>0, <1>4 DEF FlushDispatch, NextCopy
  <2>3. /\ worker'[w].pc = "start" /\ worker'[w].copy = flusher[f].cur
        /\ \A v \in Workers \ {w} : worker'[v] = worker[v]
    BY <1>0, <2>1, StartedTyped
  <2>4. \A g \in Flushers, j \in Jobs :
          FlusherOwns(g, j)' <=> FlusherOwns(g, j) /\ g # f
    BY <2>2 DEF FlusherOwns
  <2>5. \A v \in Workers, j \in Jobs :
          WorkerOwns(v, j)' <=> WorkerOwns(v, j) \/ (v = w /\ j = id)
    BY <2>1, <2>3 DEF WorkerOwns, Executing
  <2>6. \A v \in Workers, j \in Jobs : Registered(v, j)' <=> Registered(v, j)
    BY <2>1, <2>3 DEF WorkerOwns, Executing, Registered
  <2>7. \A j \in Jobs : FlusherOwns(f, j) <=> j = id
    BY <2>2 DEF FlusherOwns
  <2>8. ActiveIsOwned'
    BY <2>2, <2>4, <2>5, <2>7 DEF Ownership, ActiveIsOwned
  <2>9. OneOwnerPerJob'
    BY <2>4, <2>5, <2>7 DEF Ownership, OneOwnerPerJob
  <2>10. CancelReachesHandler'
    BY <2>2, <2>6 DEF Ownership, CancelReachesHandler
  <2> QED BY <2>8, <2>9, <2>10 DEF Ownership
<1>5. CASE FlushAbort(f)
  <2>1. /\ flusher[f].pc = "acquire" /\ flusher'[f].pc = "check"
        /\ \A g \in Flushers \ {f} : flusher'[g] = flusher[g]
        /\ active' = active \ {id} /\ cancels' = cancels /\ worker' = worker
    BY <1>0, <1>5 DEF FlushAbort
  <2>2. \A g \in Flushers, j \in Jobs :
          FlusherOwns(g, j)' <=> FlusherOwns(g, j) /\ g # f
    BY <2>1 DEF FlusherOwns
  <2>3. \A w \in Workers, j \in Jobs :
          /\ WorkerOwns(w, j)' <=> WorkerOwns(w, j)
          /\ Registered(w, j)' <=> Registered(w, j)
    BY <2>1 DEF WorkerOwns, Executing, Registered
  <2>4. \A j \in Jobs : FlusherOwns(f, j) <=> j = id
    BY <2>1 DEF FlusherOwns
  <2>5. ActiveIsOwned'
    BY <2>1, <2>2, <2>3, <2>4 DEF Ownership, ActiveIsOwned, OneOwnerPerJob
  <2>6. OneOwnerPerJob'
    BY <2>2, <2>3 DEF Ownership, OneOwnerPerJob
  <2>7. CancelReachesHandler'
    BY <2>1, <2>3 DEF Ownership, CancelReachesHandler
  <2> QED BY <2>5, <2>6, <2>7 DEF Ownership
<1>6. CASE FlushReturn(f)
  <2>1. /\ flusher[f].pc = "check" /\ flusher'[f].pc = "idle"
        /\ \A g \in Flushers \ {f} : flusher'[g] = flusher[g]
    BY <1>0, <1>6 DEF FlushReturn, IdleFlusher
  <2>2. \A w \in Workers : worker'[w].pc = worker[w].pc /\ worker'[w].copy = worker[w].copy
    BY <1>0, <1>6 DEF FlushReturn, CancelChildren, Worker
  <2> QED BY <1>6, <2>1, <2>2, OwnershipUnmoved DEF FlushReturn
<1> QED BY <1>1, <1>2, <1>3, <1>4, <1>5, <1>6 DEF FlushStep

LEMMA OwnershipWorker ==
    ASSUME TypeOK, Ownership, NEW w \in Workers, WorkerStep(w)
    PROVE  Ownership'
<1>0. /\ worker \in [Workers -> Worker] /\ cancels \in [Jobs -> SUBSET Workers]
      /\ worker[w].copy.id \in Jobs
  BY DEF TypeOK, PoolTypeOK, Worker, Copy
<1> DEFINE id == worker[w].copy.id
\* Moving on within the region from handle to settle.
<1>1. ASSUME worker[w].pc \in {"handle", "record", "count", "settle"},
             worker'[w].pc \in {"record", "count", "settle", "teardown"},
             worker'[w].copy = worker[w].copy,
             \A v \in Workers \ {w} : worker'[v] = worker[v],
             UNCHANGED <<active, cancels, flusher>>
      PROVE  Ownership'
  <2>1. \A f \in Flushers, j \in Jobs : FlusherOwns(f, j)' <=> FlusherOwns(f, j)
    BY <1>1 DEF FlusherOwns
  <2>2. \A v \in Workers, j \in Jobs :
          /\ WorkerOwns(v, j)' <=> WorkerOwns(v, j)
          /\ Registered(v, j)' <=> Registered(v, j)
    BY <1>1 DEF WorkerOwns, Executing, Registered
  <2> QED BY <1>1, <2>1, <2>2, OwnershipKept
<1>2. CASE WorkerStart(w)
  <2>1. /\ worker[w].pc = "start" /\ worker'[w].pc = "handle"
        /\ worker'[w].copy = worker[w].copy
        /\ \A v \in Workers \ {w} : worker'[v] = worker[v]
        /\ active' = active /\ flusher' = flusher
        /\ cancels' = [cancels EXCEPT ![id] = {w}]
    BY <1>0, <1>2 DEF WorkerStart, Worker
  <2>2. \A f \in Flushers, j \in Jobs : FlusherOwns(f, j)' <=> FlusherOwns(f, j)
    BY <2>1 DEF FlusherOwns
  <2>3. \A v \in Workers, j \in Jobs : WorkerOwns(v, j)' <=> WorkerOwns(v, j)
    BY <2>1 DEF WorkerOwns, Executing
  <2>4. \A v \in Workers, j \in Jobs :
          Registered(v, j)' <=> Registered(v, j) \/ (v = w /\ j = id)
    BY <2>1 DEF WorkerOwns, Executing, Registered
  <2>5. \A v \in Workers : WorkerOwns(v, id) => v = w
    BY <1>0, <2>1 DEF Ownership, OneOwnerPerJob, WorkerOwns, Executing
  <2>6. ActiveIsOwned' /\ OneOwnerPerJob'
    BY <2>1, <2>2, <2>3 DEF Ownership, ActiveIsOwned, OneOwnerPerJob
  <2>7. CancelReachesHandler'
    <3>1. ASSUME NEW j \in Jobs
          PROVE  cancels'[j] = {v \in Workers : Registered(v, j)'}
      <4>1. CASE j = id
        BY <1>0, <2>1, <2>4, <2>5, <4>1 DEF Registered
      <4>2. CASE j # id
        BY <1>0, <2>1, <2>4, <4>2 DEF Ownership, CancelReachesHandler
      <4> QED BY <4>1, <4>2
    <3> QED BY <3>1 DEF CancelReachesHandler
  <2> QED BY <2>6, <2>7 DEF Ownership
<1>3. CASE WorkerHandle(w)
  <2>1. PICK failed \in BOOLEAN :
          worker' = [worker EXCEPT ![w].pc = "record", ![w].failed = failed]
    BY <1>3, Zenon DEF WorkerHandle
  <2>2. /\ worker'[w].pc = "record" /\ worker'[w].copy = worker[w].copy
        /\ \A v \in Workers \ {w} : worker'[v] = worker[v]
    BY <1>0, <2>1 DEF Worker
  <2> QED BY <1>1, <1>3, <2>2 DEF WorkerHandle
<1>4. CASE WorkerRecord(w)
  <2>1. /\ worker'[w].pc = "count" /\ worker'[w].copy = worker[w].copy
        /\ \A v \in Workers \ {w} : worker'[v] = worker[v]
    BY <1>0, <1>4 DEF WorkerRecord, Worker
  <2> QED BY <1>1, <1>4, <2>1 DEF WorkerRecord
<1>4a. CASE WorkerCount(w)
  <2>1. /\ worker'[w].pc = "settle" /\ worker'[w].copy = worker[w].copy
        /\ \A v \in Workers \ {w} : worker'[v] = worker[v]
    BY <1>0, <1>4a DEF WorkerCount, Worker
  <2> QED BY <1>1, <1>4a, <2>1 DEF WorkerCount
<1>5. CASE WorkerSettle(w)
  <2>1. /\ worker'[w].pc = "teardown" /\ worker'[w].copy = worker[w].copy
        /\ \A v \in Workers \ {w} : worker'[v] = worker[v]
    BY <1>0, <1>5 DEF WorkerSettle, Worker
  <2> QED BY <1>1, <1>5, <2>1 DEF WorkerSettle
<1>6. CASE WorkerTeardown(w)
  <2>1. /\ worker[w].pc = "teardown" /\ worker'[w].pc = "release"
        /\ \A v \in Workers \ {w} : worker'[v] = worker[v]
        /\ active' = active \ {id} /\ flusher' = flusher
        /\ cancels' = [cancels EXCEPT ![id] = {}]
    BY <1>0, <1>6 DEF WorkerTeardown, Worker
  <2>2. \A f \in Flushers, j \in Jobs : FlusherOwns(f, j)' <=> FlusherOwns(f, j)
    BY <2>1 DEF FlusherOwns
  <2>3. \A v \in Workers, j \in Jobs :
          /\ WorkerOwns(v, j)' <=> WorkerOwns(v, j) /\ v # w
          /\ Registered(v, j)' <=> Registered(v, j) /\ v # w
    BY <2>1 DEF WorkerOwns, Executing, Registered
  <2>4. \A j \in Jobs : WorkerOwns(w, j) <=> j = id
    BY <2>1 DEF WorkerOwns, Executing
  <2>5. /\ \A v \in Workers : WorkerOwns(v, id) => v = w
        /\ \A f \in Flushers : ~FlusherOwns(f, id)
    BY <1>0, <2>4 DEF Ownership, OneOwnerPerJob
  <2>6. ActiveIsOwned'
    BY <2>1, <2>2, <2>3, <2>4, <2>5 DEF Ownership, ActiveIsOwned
  <2>7. OneOwnerPerJob'
    BY <2>2, <2>3 DEF Ownership, OneOwnerPerJob
  <2>8. CancelReachesHandler'
    <3>1. ASSUME NEW j \in Jobs
          PROVE  cancels'[j] = {v \in Workers : Registered(v, j)'}
      <4>1. CASE j = id
        BY <1>0, <2>1, <2>3, <2>5, <4>1 DEF Registered
      <4>2. CASE j # id
        <5>1. ~Registered(w, j)
          BY <2>4, <4>2 DEF Registered
        <5> QED BY <1>0, <2>1, <2>3, <4>2, <5>1 DEF Ownership, CancelReachesHandler
      <4> QED BY <4>1, <4>2
    <3> QED BY <3>1 DEF CancelReachesHandler
  <2> QED BY <2>6, <2>7, <2>8 DEF Ownership
<1>7. CASE WorkerRelease(w)
  <2>1. /\ worker[w].pc = "release" /\ worker'[w].pc = "idle"
        /\ \A v \in Workers \ {w} : worker'[v] = worker[v]
        /\ UNCHANGED <<active, cancels, flusher>>
    BY <1>0, <1>7 DEF WorkerRelease, IdleWorker
  <2>2. \A f \in Flushers, j \in Jobs : FlusherOwns(f, j)' <=> FlusherOwns(f, j)
    BY <2>1 DEF FlusherOwns
  <2>3. \A v \in Workers, j \in Jobs :
          /\ WorkerOwns(v, j)' <=> WorkerOwns(v, j)
          /\ Registered(v, j)' <=> Registered(v, j)
    BY <2>1 DEF WorkerOwns, Executing, Registered
  <2> QED BY <2>1, <2>2, <2>3, OwnershipKept
<1> QED BY <1>2, <1>3, <1>4, <1>4a, <1>5, <1>6, <1>7 DEF WorkerStep

LEMMA OwnershipFault ==
    ASSUME TypeOK, Ownership, FaultStep PROVE Ownership'
<1>0. /\ flusher \in [Flushers -> Flusher] /\ worker \in [Workers -> Worker]
  BY DEF TypeOK, PoolTypeOK
<1>1. ASSUME NEW f \in Flushers, FlushCheckFails(f) \/ FlushClaimFails(f)
      PROVE  Ownership'
  <2>1. /\ flusher[f].pc # "acquire" /\ flusher'[f].pc # "acquire"
        /\ \A g \in Flushers \ {f} : flusher'[g] = flusher[g]
    <3>1. CASE FlushCheckFails(f)
      <4>1. PICK c \in flusher[f].rest :
              flusher' = [flusher EXCEPT ![f].rest = @ \ {c}, ![f].pc = "claim",
                                         ![f].cur = c]
        BY <3>1 DEF FlushCheckFails
      <4> QED BY <1>0, <3>1, <4>1 DEF FlushCheckFails, Flusher
    <3>2. CASE FlushClaimFails(f)
      BY <1>0, <3>2 DEF FlushClaimFails, Flusher
    <3> QED BY <1>1, <3>1, <3>2
  <2>2. UNCHANGED <<active, cancels, worker>>
    BY <1>1 DEF FlushCheckFails, FlushClaimFails
  <2> QED BY <2>1, <2>2, OwnershipUnmoved
<1>2. ASSUME NEW w \in Workers, WorkerCallFails(w) PROVE Ownership'
  <2>1. /\ worker[w].pc \in {"record", "settle"}
        /\ worker'[w].pc \in {"count", "teardown"}
        /\ worker'[w].copy = worker[w].copy
        /\ \A v \in Workers \ {w} : worker'[v] = worker[v]
        /\ UNCHANGED <<active, cancels, flusher>>
    BY <1>2, CallFailed
  <2>2. \A f \in Flushers, j \in Jobs : FlusherOwns(f, j)' <=> FlusherOwns(f, j)
    BY <2>1 DEF FlusherOwns
  <2>3. \A v \in Workers, j \in Jobs :
          /\ WorkerOwns(v, j)' <=> WorkerOwns(v, j)
          /\ Registered(v, j)' <=> Registered(v, j)
    BY <2>1 DEF WorkerOwns, Executing, Registered
  <2> QED BY <2>1, <2>2, <2>3, OwnershipKept
<1>3. ASSUME NEW c \in Clients, ApiCallFails(c) PROVE Ownership'
  BY <1>3, OwnershipUnmoved DEF ApiCallFails, poolVars
<1> QED BY <1>1, <1>2, <1>3 DEF FaultStep

LEMMA OwnershipNext == TypeOK /\ Ownership /\ [Next]_vars => Ownership'
<1> SUFFICES ASSUME TypeOK, Ownership, [Next]_vars PROVE Ownership'
  OBVIOUS
<1>0. /\ flusher \in [Flushers -> Flusher] /\ worker \in [Workers -> Worker]
  BY DEF TypeOK, PoolTypeOK
<1>1. ASSUME UNCHANGED <<active, cancels, flusher, worker>> PROVE Ownership'
  BY <1>1, OwnershipUnmoved
<1>2. ASSUME NEW f \in Flushers, FlushBegin(f) PROVE Ownership'
  <2>1. /\ flusher[f].pc = "idle" /\ flusher'[f].pc = "check"
        /\ \A g \in Flushers \ {f} : flusher'[g] = flusher[g]
    BY <1>0, <1>2 DEF FlushBegin, Flusher
  <2> QED BY <1>2, <2>1, OwnershipUnmoved DEF FlushBegin
<1>3. CASE PollTick
  BY <1>2, <1>3, PoolAssumption DEF PollTick
<1>4. ASSUME NEW f \in Flushers, FlushStepOf(f) PROVE Ownership'
  BY <1>4, OwnershipFlush DEF FlushStepOf
<1>5. ASSUME NEW w \in Workers, WorkerStepOf(w) PROVE Ownership'
  BY <1>5, OwnershipWorker DEF WorkerStepOf
<1>6. ASSUME NEW c \in Clients, ClientStepOf(c) PROVE Ownership'
  <2>1. CASE ApiCancelSignal(c)
    <3>1. \A w \in Workers : /\ worker'[w].pc = worker[w].pc
                             /\ worker'[w].copy = worker[w].copy
      BY <1>0, <2>1 DEF ApiCancelSignal, CancelledBy, Worker
    <3> QED BY <2>1, <3>1, OwnershipUnmoved DEF ApiCancelSignal
  <2>2. CASE ~ApiCancelSignal(c)
    <3>1. UNCHANGED poolVars
      BY <1>6, <2>2 DEF ClientStepOf, ClientStep, ApiCreate, ApiInsert, ApiRetryRead,
         ApiRetryWrite, ApiCancelRead, ApiCancelWrite, ApiDeleteAttempts, ApiDeleteRow
    <3> QED BY <1>1, <3>1 DEF poolVars
  <2> QED BY <2>1, <2>2
<1>7. CASE RequestStep
  <2>1. ASSUME NEW f \in Flushers, ApiDisconnect(f) PROVE Ownership'
    <3>1. \A w \in Workers : /\ worker'[w].pc = worker[w].pc
                             /\ worker'[w].copy = worker[w].copy
      BY <1>0, <2>1 DEF ApiDisconnect, CancelChildren, Worker
    <3>2. \A g \in Flushers : /\ flusher'[g].pc = flusher[g].pc
                              /\ flusher'[g].cur = flusher[g].cur
      BY <1>0, <2>1 DEF ApiDisconnect, Flusher
    <3> QED BY <2>1, <3>1, <3>2, OwnershipUnmoved DEF ApiDisconnect
  <2>2. ASSUME NEW f \in Flushers, ApiFlush(f) PROVE Ownership'
    BY <1>2, <2>2 DEF ApiFlush
  <2>3. ASSUME NEW j \in Jobs, ApiRequeueDead(j) PROVE Ownership'
    BY <1>1, <2>3 DEF ApiRequeueDead, poolVars
  <2>4. ASSUME NEW q \in Queues, ApiPause(q) \/ ApiResume(q) PROVE Ownership'
    BY <1>1, <2>4 DEF ApiPause, ApiResume, poolVars
  <2> QED BY <1>7, <2>1, <2>2, <2>3, <2>4 DEF RequestStep
<1>7a. CASE FaultStep
  BY <1>7a, OwnershipFault
<1>8. CASE Restart
  BY <1>8, OwnershipRestart
<1>9. CASE Tick
  BY <1>1, <1>9 DEF Tick, poolVars
<1>10. CASE UNCHANGED vars
  BY <1>1, <1>10 DEF vars, poolVars
<1> QED BY <1>3, <1>4, <1>5, <1>6, <1>7, <1>7a, <1>8, <1>9, <1>10 DEF Next

\* The inductive invariant behind the next three: who owns a job, what the active
\* set says and what the cancel map says agree in every reachable state.
THEOREM OwnershipInvariant == Spec => []Ownership
<1>1. Init => Ownership
  BY OwnershipInit
<1>2. TypeOK /\ Ownership /\ [Next]_vars => Ownership'
  BY OwnershipNext
<1> QED BY <1>1, <1>2, TypeCorrect, PTL DEF Spec

\* No two goroutines ever execute one job, and no flush hands over a job somebody
\* executes, whatever requests do to its row meanwhile.
THEOREM ExecutionIsExclusive == Spec => []OneOwnerPerJob
<1>1. Ownership => OneOwnerPerJob
  BY DEF Ownership
<1> QED BY <1>1, OwnershipInvariant, PTL

\* No exit path of Flush or of the goroutine leaks or drops a registration.
THEOREM RegistrationsAreOwned == Spec => []ActiveIsOwned
<1>1. Ownership => ActiveIsOwned
  BY DEF Ownership
<1> QED BY <1>1, OwnershipInvariant, PTL

\* The CancelFunc under an id is that of the goroutine executing the job.
THEOREM CancelFindsItsHandler == Spec => []CancelReachesHandler
<1>1. Ownership => CancelReachesHandler
  BY DEF Ownership
<1> QED BY <1>1, OwnershipInvariant, PTL

-----------------------------------------------------------------------------
(* How many claims can slip past a pause. *)

\* A flush that has used up its one slip beyond the failed calls is past the claim,
\* and the pause still holds: its next IsPaused stops it, unless that call fails.
SlipInv ==
    \A f \in Flushers, q \in Queues :
        \/ slips[f][q] <= faults
        \/ /\ slips[f][q] = 1 + faults
           /\ q \in paused
           /\ ~(flusher[f].pc = "claim" /\ QueueOf[flusher[f].cur.id] = q)

\* A step that neither slips, resumes a queue nor reaches a claim.
LEMMA SlipKept ==
    ASSUME SlipInv, slips' = slips, faults' = faults, paused \subseteq paused',
           \A f \in Flushers : flusher'[f].pc = "claim" =>
                                  flusher[f].pc = "claim" /\ flusher'[f].cur = flusher[f].cur
    PROVE  SlipInv'
BY DEF SlipInv

LEMMA SlipInit == Init => SlipInv
BY DEF Init, PoolInit, SlipInv

\* A failed call raises the bound by the slip it may lead to.
LEMMA SlipFault == ASSUME TypeOK, SlipInv, FaultStep PROVE SlipInv'
<1>1. slips' = slips /\ faults' = faults + 1
  BY DEF FaultStep, FlushCheckFails, FlushClaimFails, WorkerCallFails, ApiCallFails,
     poolVars
<1>2. faults \in Nat /\ slips \in [Flushers -> [Queues -> Nat]]
  BY DEF TypeOK, PoolTypeOK
<1> QED BY <1>1, <1>2 DEF SlipInv

LEMMA SlipFlush ==
    ASSUME TypeOK, SlipInv, NEW f \in Flushers, FlushStep(f), faults' = faults
    PROVE  SlipInv'
<1>0. /\ flusher \in [Flushers -> Flusher] /\ slips \in [Flushers -> [Queues -> Nat]]
      /\ faults \in Nat
      /\ flusher[f].cur.id \in Jobs
      /\ QueueOf[flusher[f].cur.id] \in Queues
  BY StoreAssumption DEF TypeOK, PoolTypeOK, Flusher, Copy
<1>1. CASE FlushCheck(f)
  <2>1. PICK c \in flusher[f].rest :
          flusher' = IF IsPaused(QueueOf[c.id])
                     THEN [flusher EXCEPT ![f].rest = @ \ {c}]
                     ELSE [flusher EXCEPT ![f].rest = @ \ {c}, ![f].pc = "claim",
                                          ![f].cur = c]
    BY <1>1 DEF FlushCheck
  <2>2. UNCHANGED <<storeVars, slips>> /\ flusher[f].pc = "check"
    BY <1>1 DEF FlushCheck
  <2>3. CASE IsPaused(QueueOf[c.id])
    <3>1. flusher' = [flusher EXCEPT ![f].rest = @ \ {c}]
      BY <2>1, <2>3
    <3>2. \A g \in Flushers : flusher'[g].pc = flusher[g].pc /\ flusher'[g].cur = flusher[g].cur
      BY <1>0, <3>1 DEF Flusher
    <3> QED BY <2>2, <3>2, SlipKept DEF storeVars
  <2>4. CASE ~IsPaused(QueueOf[c.id])
    <3>1. flusher' = [flusher EXCEPT ![f].rest = @ \ {c}, ![f].pc = "claim",
                                     ![f].cur = c]
      BY <2>1, <2>4
    <3>2. /\ flusher'[f].cur = c /\ QueueOf[c.id] \notin paused
          /\ \A g \in Flushers \ {f} : flusher'[g] = flusher[g]
      BY <1>0, <2>4, <3>1 DEF Flusher, IsPaused
    <3> QED BY <2>2, <3>2 DEF SlipInv, storeVars
  <2> QED BY <2>3, <2>4
<1>2. CASE FlushClaim(f)
  <2> DEFINE q == QueueOf[flusher[f].cur.id]
  <2>1. /\ flusher[f].pc = "claim" /\ flusher'[f].pc # "claim"
        /\ \A g \in Flushers \ {f} : flusher'[g] = flusher[g]
        /\ paused' = paused
    BY <1>0, <1>2 DEF FlushClaim, NextCopy, Claim, SetRow, NoRowMatches, storeVars
  <2>2. CASE slips' = slips
    BY <2>1, <2>2, SlipKept
  <2>3. CASE q \in paused /\ slips' = [slips EXCEPT ![f][q] = @ + 1]
    <3>1. slips[f][q] <= faults
      BY <1>0, <2>1 DEF SlipInv
    <3>2. /\ slips'[f][q] = slips[f][q] + 1
          /\ \A g \in Flushers, r \in Queues :
               ~(g = f /\ r = q) => slips'[g][r] = slips[g][r]
      BY <1>0, <2>3, <3>1
    <3>3. ASSUME NEW g \in Flushers, NEW r \in Queues
          PROVE  \/ slips'[g][r] <= faults
                 \/ /\ slips'[g][r] = 1 + faults
                    /\ r \in paused'
                    /\ ~(flusher'[g].pc = "claim" /\ QueueOf[flusher'[g].cur.id] = r)
      <4>1. CASE g = f /\ r = q
        BY <1>0, <2>1, <2>3, <3>1, <3>2, <4>1
      <4>2. CASE g = f /\ r # q
        BY <2>1, <3>2, <4>2 DEF SlipInv
      <4>3. CASE g # f
        BY <2>1, <3>2, <4>3 DEF SlipInv
      <4> QED BY <4>1, <4>2, <4>3
    <3> QED BY <3>3 DEF SlipInv
  <2> QED BY <1>2, <2>2, <2>3 DEF FlushClaim
<1>3. CASE FlushRegister(f)
  <2>1. flusher'[f].pc # "claim" /\ \A g \in Flushers \ {f} : flusher'[g] = flusher[g]
    <3>1. \/ flusher' = NextCopy(f)
          \/ flusher' = [flusher EXCEPT ![f].pc = "acquire"]
      BY <1>3 DEF FlushRegister
    <3> QED BY <1>0, <3>1 DEF NextCopy, Flusher
  <2> QED BY <1>3, <2>1, SlipKept DEF FlushRegister, storeVars
<1>4. CASE FlushDispatch(f) \/ FlushAbort(f) \/ FlushReturn(f)
  <2>1. flusher'[f].pc # "claim" /\ \A g \in Flushers \ {f} : flusher'[g] = flusher[g]
    BY <1>0, <1>4 DEF FlushDispatch, FlushAbort, FlushReturn, NextCopy, IdleFlusher, Flusher
  <2> QED BY <1>4, <2>1, SlipKept DEF FlushDispatch, FlushAbort, FlushReturn, storeVars
<1> QED BY <1>1, <1>2, <1>3, <1>4 DEF FlushStep

LEMMA SlipNext == TypeOK /\ SlipInv /\ [Next]_vars => SlipInv'
<1> SUFFICES ASSUME TypeOK, SlipInv, [Next]_vars PROVE SlipInv'
  OBVIOUS
<1>0. /\ flusher \in [Flushers -> Flusher] /\ slips \in [Flushers -> [Queues -> Nat]]
      /\ faults \in Nat
  BY DEF TypeOK, PoolTypeOK
<1>1. ASSUME UNCHANGED <<slips, paused, flusher, faults>> PROVE SlipInv'
  BY <1>1 DEF SlipInv
<1>2. ASSUME NEW f \in Flushers, FlushBegin(f), faults' = faults PROVE SlipInv'
  <2>1. flusher'[f].pc # "claim" /\ \A g \in Flushers \ {f} : flusher'[g] = flusher[g]
    BY <1>0, <1>2 DEF FlushBegin, Flusher
  <2> QED BY <1>2, <2>1, SlipKept DEF FlushBegin, storeVars
<1>3. CASE PollTick
  BY <1>2, <1>3, PoolAssumption DEF PollTick, badLuck
<1>4. ASSUME NEW f \in Flushers, FlushStepOf(f) PROVE SlipInv'
  BY <1>4, SlipFlush DEF FlushStepOf, badLuck
<1>5. ASSUME NEW w \in Workers, WorkerStepOf(w) PROVE SlipInv'
  <2>1. UNCHANGED <<slips, flusher, faults>>
    BY <1>5 DEF badLuck, WorkerStepOf, WorkerStep, WorkerStart, WorkerHandle, WorkerRecord,
       WorkerCount, WorkerSettle, WorkerTeardown, WorkerRelease
  <2>2. paused' = paused
    BY <1>5 DEF WorkerStepOf, WorkerStep, WorkerStart, WorkerHandle, WorkerRecord,
       WorkerCount, WorkerSettle, WorkerTeardown, WorkerRelease, RecordAttempt, Succeed, Fail,
       SetRow, NoRowMatches, storeVars
  <2> QED BY <1>1, <2>1, <2>2
<1>6. ASSUME NEW c \in Clients, ClientStepOf(c) PROVE SlipInv'
  <2>1. UNCHANGED <<slips, flusher, faults>>
    BY <1>6 DEF badLuck, ClientStepOf, ClientStep, ApiCreate, ApiInsert, ApiRetryRead,
       ApiRetryWrite, ApiCancelRead, ApiCancelSignal, ApiCancelWrite,
       ApiDeleteAttempts, ApiDeleteRow, poolVars
  <2>2. paused' = paused
    BY <1>6 DEF ClientStepOf, ClientStep, ApiCreate, ApiInsert, ApiRetryRead,
       ApiRetryWrite, ApiCancelRead, ApiCancelSignal, ApiCancelWrite,
       ApiDeleteAttempts, ApiDeleteRow, CreateJob, UpdateJob, DeleteAttempts,
       DeleteRow, SetRow, NoRowMatches, storeVars
  <2> QED BY <1>1, <2>1, <2>2
<1>7. CASE RequestStep
  <2>0. faults' = faults
    BY <1>7 DEF RequestStep, badLuck
  <2>1. ASSUME NEW j \in Jobs, ApiRequeueDead(j) PROVE SlipInv'
    BY <1>1, <2>0, <2>1 DEF ApiRequeueDead, RequeueDead, SetRow, poolVars
  <2>2. ASSUME NEW q \in Queues, ApiPause(q) PROVE SlipInv'
    BY <2>0, <2>2, SlipKept DEF ApiPause, SetPaused, poolVars
  <2>3. ASSUME NEW q \in Queues, ApiResume(q) PROVE SlipInv'
    <3>1. /\ slips' = [f \in Flushers |-> [slips[f] EXCEPT ![q] = 0]]
          /\ paused' = paused \ {q} /\ flusher' = flusher
      BY <2>3 DEF ApiResume, SetPaused
    <3>2. \A f \in Flushers, r \in Queues :
            slips'[f][r] = IF r = q THEN 0 ELSE slips[f][r]
      BY <1>0, <3>1
    <3> QED BY <1>0, <2>0, <3>1, <3>2 DEF SlipInv
  <2>4. ASSUME NEW f \in Flushers, ApiFlush(f) PROVE SlipInv'
    BY <1>2, <2>0, <2>4 DEF ApiFlush
  <2>5. ASSUME NEW f \in Flushers, ApiDisconnect(f) PROVE SlipInv'
    <3>1. \A g \in Flushers : /\ flusher'[g].pc = flusher[g].pc
                              /\ flusher'[g].cur = flusher[g].cur
      BY <1>0, <2>5 DEF ApiDisconnect, Flusher
    <3> QED BY <2>0, <2>5, <3>1, SlipKept DEF ApiDisconnect, storeVars
  <2> QED BY <1>7, <2>1, <2>2, <2>3, <2>4, <2>5 DEF RequestStep
<1>7a. CASE FaultStep
  BY <1>7a, SlipFault
<1>8. CASE Restart
  <2>1. \A f \in Flushers : flusher'[f].pc = "idle"
    BY <1>8 DEF Restart, PoolReset, IdleFlusher
  <2> QED BY <1>8, <2>1, SlipKept DEF Restart
<1>9. CASE Tick
  BY <1>1, <1>9 DEF Tick, poolVars, badLuck
<1>10. CASE UNCHANGED vars
  BY <1>1, <1>10 DEF vars, poolVars, storeVars, badLuck
<1> QED BY <1>3, <1>4, <1>5, <1>6, <1>7, <1>7a, <1>8, <1>9, <1>10 DEF Next

\* However pauses and resumes interleave with any number of flushes, one flush
\* claims at most one job from a queue after it was paused, and one more for each
\* call of the store that fails.
THEOREM PauseSlipsAreBounded == Spec => []PauseSlipBound
<1>1. Init => SlipInv
  BY SlipInit
<1>2. TypeOK /\ SlipInv /\ [Next]_vars => SlipInv'
  BY SlipNext
<1>3. TypeOK /\ SlipInv => PauseSlipBound
  BY DEF SlipInv, PauseSlipBound, TypeOK, PoolTypeOK
<1> QED BY <1>1, <1>2, <1>3, TypeCorrect, PTL DEF Spec

-----------------------------------------------------------------------------
(* Finished jobs. *)

\* A statement of a row: no other row changes.
LEMMA SetRowElsewhere ==
    ASSUME TypeOK, NEW k, NEW row, SetRow(k, row), NEW j \in Jobs, j # k
    PROVE  jobs'[j] = jobs[j]
BY DEF SetRow, TypeOK, StoreTypeOK

\* Of all the statements on a row that has succeeded or was cancelled, only a
\* delete and the late write of a goroutine or a request that holds an older copy
\* change it, whatever requests are made.
THEOREM FinishedJobsAreFinal == Spec => FinalUnlessStale
<1> DEFINE Finished(j) == jobs[j].state \in {"succeeded", "cancelled"} /\ ~HoldsStale(j)
           Kept(j) == jobs'[j] \in {jobs[j], AbsentRow}
<1>1. ASSUME TypeOK, Next, NEW j \in Jobs, Finished(j) PROVE Kept(j)
  <2>0. /\ jobs \in [Jobs -> Row] /\ Exists(jobs[j]) /\ ~Claimable(j)
        /\ jobs[j].state # "running" /\ jobs[j].state # "dead"
    BY <1>1 DEF TypeOK, StoreTypeOK, Exists, Claimable
  <2>1. ASSUME jobs' = jobs PROVE Kept(j)
    BY <2>1
  <2>2. CASE PollTick
    BY <2>1, <2>2 DEF PollTick, FlushBegin, storeVars
  <2>3. ASSUME NEW f \in Flushers, FlushStepOf(f) PROVE Kept(j)
    <3>1. CASE FlushClaim(f)
      <4>1. CASE flusher[f].cur.id = j
        <5>1. NoRowMatches
          BY <2>0, <3>1, <4>1 DEF FlushClaim, Claim
        <5> QED BY <2>1, <5>1 DEF NoRowMatches, storeVars
      <4>2. CASE flusher[f].cur.id # j
        BY <1>1, <2>1, <3>1, <4>2, SetRowElsewhere DEF FlushClaim, Claim, NoRowMatches,
           storeVars
      <4> QED BY <4>1, <4>2
    <3>2. CASE ~FlushClaim(f)
      BY <2>1, <2>3, <3>2 DEF FlushStepOf, FlushStep, FlushCheck, FlushRegister,
         FlushDispatch, FlushAbort, FlushReturn, storeVars
    <3> QED BY <3>1, <3>2
  <2>4. ASSUME NEW w \in Workers, WorkerStepOf(w) PROVE Kept(j)
    <3>1. CASE WorkerSettle(w)
      <4>1. worker[w].copy.id # j
        BY <1>1, <3>1 DEF WorkerSettle, HoldsStale, ClaimedByWorker
      <4> QED BY <1>1, <2>1, <3>1, <4>1, SetRowElsewhere DEF WorkerSettle, Fail, Succeed,
                 NoRowMatches, storeVars
    <3>2. CASE ~WorkerSettle(w)
      BY <2>1, <2>4, <3>2 DEF WorkerStepOf, WorkerStep, WorkerStart, WorkerHandle,
         WorkerRecord, WorkerCount, WorkerTeardown, WorkerRelease, RecordAttempt, storeVars
    <3> QED BY <3>1, <3>2
  <2>5. ASSUME NEW c \in Clients, ClientStepOf(c) PROVE Kept(j)
    <3>1. CASE ApiInsert(c)
      <4>1. CASE UNCHANGED storeVars
        BY <2>1, <4>1 DEF storeVars
      <4>2. ASSUME NEW k \in Jobs, NEW runAt, CreateJob(k, runAt) PROVE Kept(j)
        <5>1. k # j
          BY <2>0, <4>2 DEF CreateJob
        <5> QED BY <1>1, <4>2, <5>1, SetRowElsewhere DEF CreateJob
      <4>3. client[c].todo \subseteq Jobs
        BY <1>1 DEF TypeOK, ApiTypeOK, Client
      <4> QED BY <3>1, <4>1, <4>2, <4>3 DEF ApiInsert, NoRowMatches
    <3>2. CASE ApiRetryWrite(c) \/ ApiCancelWrite(c)
      <4>1. client[c].copy.id # j
        BY <1>1, <3>2 DEF ApiRetryWrite, ApiCancelWrite, HoldsStale
      <4>2. UpdateJob(client[c].copy)
        BY <3>2 DEF ApiRetryWrite, ApiCancelWrite
      <4> QED BY <1>1, <2>1, <4>1, <4>2, SetRowElsewhere DEF UpdateJob, NoRowMatches, storeVars
    <3>3. CASE ApiDeleteRow(c)
      <4>1. SetRow(client[c].copy.id, AbsentRow)
        BY <3>3 DEF ApiDeleteRow, DeleteRow
      <4>2. CASE client[c].copy.id = j
        BY <2>0, <4>1, <4>2 DEF SetRow
      <4>3. CASE client[c].copy.id # j
        BY <1>1, <4>1, <4>3, SetRowElsewhere
      <4> QED BY <4>2, <4>3
    <3>4. CASE \/ ApiCreate(c) \/ ApiCancelSignal(c)
               \/ \E k \in Jobs : \/ ApiRetryRead(c, k) \/ ApiCancelRead(c, k)
                                  \/ ApiDeleteAttempts(c, k)
      BY <2>1, <3>4 DEF ApiCreate, ApiCancelSignal, ApiRetryRead, ApiCancelRead,
         ApiDeleteAttempts, DeleteAttempts, storeVars
    <3> QED BY <2>5, <3>1, <3>2, <3>3, <3>4 DEF ClientStepOf, ClientStep
  <2>6. CASE RequestStep
    <3>1. ASSUME NEW k \in Jobs, ApiRequeueDead(k) PROVE Kept(j)
      <4>1. k # j
        BY <2>0, <3>1 DEF ApiRequeueDead, RequeueDead
      <4> QED BY <1>1, <3>1, <4>1, SetRowElsewhere DEF ApiRequeueDead, RequeueDead
    <3>2. ASSUME ~\E k \in Jobs : ApiRequeueDead(k) PROVE jobs' = jobs
      BY <2>6, <3>2 DEF RequestStep, ApiPause, ApiResume, SetPaused, ApiFlush, FlushBegin,
         ApiDisconnect, storeVars
    <3> QED BY <2>1, <3>1, <3>2
  <2>7. CASE FaultStep
    BY <2>1, <2>7 DEF FaultStep, FlushCheckFails, FlushClaimFails, WorkerCallFails,
       ApiCallFails, storeVars
  <2>8. CASE Restart
    BY <2>0, <2>8 DEF Restart, RecoverInterrupted, RecoverOnOpen
  <2>9. CASE Tick
    BY <2>1, <2>9 DEF Tick
  <2> QED BY <1>1, <2>2, <2>3, <2>4, <2>5, <2>6, <2>7, <2>8, <2>9 DEF Next
<1>2. TypeOK /\ [Next]_vars => [\A j \in Jobs : Finished(j) => Kept(j)]_vars
  BY <1>1
<1> QED BY <1>2, TypeCorrect, PTL DEF Spec, FinalUnlessStale
-----------------------------------------------------------------------------
(* The loop of Flush over its list. *)

ListsSingle == \A f \in Flushers : OneEach(flusher[f].rest)

NextCopyIsOne ==
    \A f \in Flushers :
        flusher[f].rest # {} =>
            \E c \in flusher[f].rest : \A d \in Copy : IsNextCopy(f, d) <=> d = c

\* Lists only shrink, or are scanned anew.
LEMMA ListsKept ==
    ASSUME ListsSingle,
           \A f \in Flushers : \/ flusher'[f].rest \subseteq flusher[f].rest
                               \/ OneEach(flusher'[f].rest)
    PROVE  ListsSingle'
<1> SUFFICES ASSUME NEW f \in Flushers PROVE OneEach(flusher'[f].rest)
  BY DEF ListsSingle
<1>1. OneEach(flusher[f].rest)
  BY DEF ListsSingle
<1> QED BY <1>1 DEF OneEach

LEMMA ScanSingle == ASSUME NEW limit, NEW at PROVE OneEach(ScanDue(limit, at))
BY DEF ScanDue, CopyOf, OneEach

LEMMA ListsNext == TypeOK /\ ListsSingle /\ [Next]_vars => ListsSingle'
<1> SUFFICES ASSUME TypeOK, ListsSingle, [Next]_vars PROVE ListsSingle'
  OBVIOUS
<1>0. flusher \in [Flushers -> Flusher]
  BY DEF TypeOK, PoolTypeOK
<1>1. ASSUME flusher' = flusher PROVE ListsSingle'
  BY <1>1, ListsKept
\* A step of the flush f.
<1>2. ASSUME NEW f \in Flushers, \A g \in Flushers \ {f} : flusher'[g] = flusher[g],
             \/ flusher'[f].rest \subseteq flusher[f].rest
             \/ flusher'[f].rest = ScanDue(ScanSize, now)
      PROVE  ListsSingle'
  BY <1>2, ListsKept, ScanSingle
<1>3. ASSUME NEW f \in Flushers, FlushBegin(f) PROVE ListsSingle'
  <2>1. /\ flusher'[f].rest = ScanDue(ScanSize, now)
        /\ \A g \in Flushers \ {f} : flusher'[g] = flusher[g]
    BY <1>0, <1>3 DEF FlushBegin, Flusher
  <2> QED BY <1>2, <2>1
<1>4. ASSUME NEW f \in Flushers, FlushCheck(f) \/ FlushCheckFails(f) PROVE ListsSingle'
  <2>1. PICK c \in flusher[f].rest :
          \/ flusher' = [flusher EXCEPT ![f].rest = @ \ {c}]
          \/ flusher' = [flusher EXCEPT ![f].rest = @ \ {c}, ![f].pc = "claim", ![f].cur = c]
    BY <1>4 DEF FlushCheck, FlushCheckFails
  <2>2. /\ flusher'[f].rest \subseteq flusher[f].rest
        /\ \A g \in Flushers \ {f} : flusher'[g] = flusher[g]
    BY <1>0, <2>1 DEF Flusher
  <2> QED BY <1>2, <2>2
<1>5. ASSUME NEW f \in Flushers,
             \/ FlushClaim(f) \/ FlushRegister(f) \/ FlushDispatch(f)
             \/ FlushAbort(f) \/ FlushReturn(f) \/ FlushClaimFails(f) \/ ApiDisconnect(f)
      PROVE  ListsSingle'
  <2>1. /\ flusher'[f].rest \subseteq flusher[f].rest
        /\ \A g \in Flushers \ {f} : flusher'[g] = flusher[g]
    BY <1>0, <1>5 DEF FlushClaim, FlushRegister, FlushDispatch, FlushAbort, FlushReturn,
       FlushClaimFails, ApiDisconnect, NextCopy, IdleFlusher, Flusher
  <2> QED BY <1>2, <2>1
<1>6. CASE PollTick
  BY <1>3, <1>6, PoolAssumption DEF PollTick
<1>7. ASSUME NEW f \in Flushers, FlushStepOf(f) PROVE ListsSingle'
  BY <1>4, <1>5, <1>7 DEF FlushStepOf, FlushStep
<1>8. ASSUME NEW w \in Workers, WorkerStepOf(w) \/ WorkerCallFails(w) PROVE ListsSingle'
  <2>1. flusher' = flusher
    BY <1>8 DEF WorkerStepOf, WorkerStep, WorkerStart, WorkerHandle, WorkerRecord,
       WorkerCount, WorkerSettle, WorkerTeardown, WorkerRelease, WorkerCallFails
  <2> QED BY <1>1, <2>1
<1>9. ASSUME NEW c \in Clients, ClientStepOf(c) \/ ApiCallFails(c) PROVE ListsSingle'
  <2>1. flusher' = flusher
    BY <1>9 DEF ClientStepOf, ClientStep, ApiCreate, ApiInsert, ApiRetryRead,
       ApiRetryWrite, ApiCancelRead, ApiCancelSignal, ApiCancelWrite, ApiDeleteAttempts,
       ApiDeleteRow, ApiCallFails, poolVars
  <2> QED BY <1>1, <2>1
<1>10. CASE RequestStep
  BY <1>1, <1>3, <1>5, <1>10 DEF RequestStep, ApiRequeueDead, ApiPause, ApiResume, ApiFlush,
     poolVars
<1>11. CASE FaultStep
  BY <1>4, <1>5, <1>8, <1>9, <1>11 DEF FaultStep
<1>12. CASE Restart
  <2>1. \A f \in Flushers : OneEach(flusher'[f].rest)
    BY <1>12 DEF Restart, PoolReset, IdleFlusher, OneEach
  <2> QED BY <2>1, ListsKept
<1>13. CASE Tick \/ UNCHANGED vars
  BY <1>1, <1>13 DEF Tick, vars, poolVars
<1> QED BY <1>6, <1>7, <1>8, <1>9, <1>10, <1>11, <1>12, <1>13 DEF Next

\* While copies are left the loop has one to take, and no other choice: the order of
\* dispatch is that of the scan, and Flush does not hang between two copies.
THEOREM LoopHasItsNextCopy == Spec => []NextCopyIsOne
<1>1. Init => ListsSingle
  BY DEF Init, PoolInit, IdleFlusher, ListsSingle, OneEach
<1>2. TypeOK /\ ListsSingle => NextCopyIsOne
  <2> SUFFICES ASSUME TypeOK, ListsSingle, NEW f \in Flushers, flusher[f].rest # {}
               PROVE  \E c \in flusher[f].rest : \A d \in Copy : IsNextCopy(f, d) <=> d = c
    BY DEF NextCopyIsOne
  <2> DEFINE S == flusher[f].rest
             ids == [c \in S |-> c.id]
  <2>1. S \subseteq Copy /\ OneEach(S)
    BY DEF TypeOK, PoolTypeOK, Flusher, ListsSingle
  <2>2. IsFiniteSet(S)
    <3>1. ids \in Injection(S, Jobs)
      BY <2>1 DEF Copy, OneEach, Injection, IsInjective
    <3> QED BY <3>1, StoreAssumption, FS_Injection
  <2>3. PICK c \in S : \A d \in S \ {c} : Precedes(c, d)
    BY <2>1, <2>2, FirstOf
  <2>4. ASSUME NEW d \in Copy, IsNextCopy(f, d) PROVE d = c
    <3>1. d # c => Precedes(c, d) /\ Precedes(d, c)
      BY <2>3, <2>4 DEF IsNextCopy
    <3> QED BY <2>1, <3>1, PrecedesOrders
  <2> QED BY <2>3, <2>4 DEF IsNextCopy
<1> QED BY <1>1, <1>2, ListsNext, TypeCorrect, PTL DEF Spec
=============================================================================
