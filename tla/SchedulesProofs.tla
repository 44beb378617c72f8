--------------------------- MODULE SchedulesProofs ---------------------------
(***************************************************************************)
(* Theorems about Schedules, for any number of schedules, any intervals a  *)
(* client may ask for, any requests and any restarts.                      *)
(***************************************************************************)
EXTENDS Schedules, TLAPS

-----------------------------------------------------------------------------
(* Arithmetic. *)

LEMMA WrapInRange ==
    ASSUME NEW n \in Int
    PROVE  Wrap(n) \in Int /\ -(Word \div 2) <= Wrap(n)
BY ScheduleAssumption DEF Wrap

LEMMA WrapIsIdentity ==
    ASSUME NEW n \in Int, -(Word \div 2) <= n, n < Word \div 2
    PROVE  Wrap(n) = n
<1> DEFINE half == Word \div 2
<1>1. half \in Nat /\ 2 * half <= Word
  BY ScheduleAssumption
<1>2. -half <= n /\ n < half
  OBVIOUS
<1>3. (n + half) % Word = n + half
  <2> HIDE DEF half
  <2>1. 0 <= n + half /\ n + half < Word /\ n + half \in Int
    BY <1>1, <1>2, ScheduleAssumption
  <2> DEFINE m == n + half
  <2>2. 0 <= m /\ m < Word /\ m \in Int
    BY <2>1
  <2> HIDE DEF m
  <2>3. m % Word = m
    BY <2>2, ScheduleAssumption
  <2> QED BY <2>3 DEF m
<1> QED BY <1>1, <1>3 DEF Wrap

LEMMA DivBounds ==
    ASSUME NEW x \in Nat, NEW d \in Nat, d > 0
    PROVE  x \div d \in Nat /\ (x \div d) * d <= x /\ x < (x \div d) * d + d
OBVIOUS

-----------------------------------------------------------------------------
(* Typing.  A round counts its firings down, and the count keeps its type    *)
(* only because a firing under way has at least one to go.                   *)

Firing == recurring.pc \in {"insert", "touch"}

RoundBounded == Firing => recurring.runs \in 1 .. MaxCatchUp

LEMMA StoredIntervalTyped ==
    ASSUME NEW seconds \in Int, IsAccepted(seconds)
    PROVE  StoredInterval(IntervalOf(seconds)) \in Nat
<1> DEFINE i == IntervalOf(seconds)
<1>1. i \in Nat
  BY WrapInRange, ScheduleAssumption DEF IsAccepted, IntervalOf
<1> HIDE DEF i
<1>2. i \div Milli \in Nat
  BY <1>1, DivBounds, ScheduleAssumption
<1>3. \A x, y \in Nat : x * y \in Nat
  OBVIOUS
<1> QED BY <1>2, <1>3, ScheduleAssumption DEF StoredInterval, i

LEMMA RunsTyped ==
    ASSUME NEW c \in Copy, NEW at \in Nat, c.interval # 0
    PROVE  Clamped(MissedRuns(c, at)) \in 1 .. MaxCatchUp
<1>1. c.lastRun \in Int /\ c.interval \in Nat
  BY DEF Copy
<1>2. MaxInt \in Int
  BY ScheduleAssumption DEF MaxInt
<1>3. Sub(at, c.lastRun) \in Int
  BY <1>1, <1>2 DEF Sub
<1>4. Sub(at, c.lastRun) \div c.interval \in Int
  BY <1>1, <1>3
<1>5. MissedRuns(c, at) \in Int
  BY <1>4 DEF MissedRuns
<1> QED BY <1>5, ScheduleAssumption DEF Clamped

LEMMA DueTyped ==
    ASSUME TypeOK, NEW at
    PROVE  DueSchedules(at) \subseteq Copy
BY DEF TypeOK, DueSchedules, CopyOf, Copy, Row

LEMMA AsleepTyped == Asleep \in Recurring
BY ScheduleAssumption DEF Asleep, Recurring

LEMMA InitTyped == Init => TypeOK /\ RoundBounded
<1> SUFFICES ASSUME Init PROVE TypeOK /\ RoundBounded
  OBVIOUS
<1> USE DEF Init
<1>1. DOMAIN schedules = {}
  OBVIOUS
<1>2. TypeOK
  BY <1>1, AsleepTyped, ScheduleAssumption DEF TypeOK
<1>3. RoundBounded
  BY DEF RoundBounded, Firing, Asleep
<1> QED BY <1>2, <1>3

LEMMA FaultTyped ==
    ASSUME TypeOK, NEW statement \in {"insert", "touch"}, Failing(statement)
    PROVE  faults' \in [{"insert", "touch"} -> Nat]
<1>1. faults[statement] + 1 \in Nat
  BY DEF TypeOK
<1> QED BY <1>1 DEF Failing, TypeOK

\* The part of RecurringTouch and RecurringTouchFails they share.
LEMMA TouchCases ==
    ASSUME RecurringTouch \/ RecurringTouchFails
    PROVE  /\ recurring.pc = "touch" /\ recurring' = AfterTouch
           /\ UNCHANGED <<jobIds, now, up, historyVars, ops, crashes>>
           /\ \/ TouchSchedule(recurring.cur, recurring.runAt)
              \/ schedules' = schedules
BY DEF RecurringTouch, RecurringTouchFails, Failing, tableVars

LEMMA RecurringTyped ==
    ASSUME TypeOK, RoundBounded, RecurringStep \/ FaultStep
    PROVE  TypeOK' /\ RoundBounded'
<1> USE DEF TypeOK, tableVars, historyVars
<1>1. CASE RecurringBegin
  <2>1. recurring' \in Recurring /\ ~Firing'
    BY <1>1, DueTyped DEF RecurringBegin, Recurring, Firing
  <2> QED BY <1>1, <2>1 DEF RecurringBegin, RoundBounded
<1>2. CASE RecurringNext
  <2>1. PICK c \in recurring.due :
          /\ c.interval # 0
          /\ recurring' = [pc |-> "insert", due |-> recurring.due \ {c},
                           cur |-> c.id, interval |-> c.interval,
                           runs |-> Clamped(MissedRuns(c, now)), runAt |-> NextRun(c)]
    BY <1>2 DEF RecurringNext
  <2>2. c \in Copy /\ recurring.due \subseteq Copy
    BY DEF Recurring
  <2>3. recurring'.runs \in 1 .. MaxCatchUp
    BY <2>1, <2>2, RunsTyped
  <2>4. NextRun(c) \in Int
    BY <2>2 DEF NextRun, Copy
  <2>5. recurring' \in Recurring
    BY <2>1, <2>2, <2>3, <2>4, ScheduleAssumption DEF Recurring, Copy
  <2> QED BY <1>2, <2>3, <2>5 DEF RecurringNext, RoundBounded
<1>3. CASE RecurringPanic
  <2>1. ~Firing'
    BY <1>3 DEF RecurringPanic, Firing, Asleep
  <2> QED BY <1>3, <2>1, AsleepTyped DEF RecurringPanic, RoundBounded
<1>4. CASE RecurringDone
  <2>1. ~Firing'
    BY <1>4 DEF RecurringDone, Firing, Asleep
  <2> QED BY <1>4, <2>1, AsleepTyped DEF RecurringDone, RoundBounded
<1>5. CASE RecurringInsert
  <2>1. recurring' \in Recurring /\ RoundBounded'
    BY <1>5 DEF RecurringInsert, Recurring, NextDue, Firing, RoundBounded
  <2>2. recurring.cur \in Schedules /\ recurring.runAt \in Int
    BY DEF Recurring
  <2>3. fired' \in [Schedules -> Seq(Int)]
    <3>1. Append(fired[recurring.cur], recurring.runAt) \in Seq(Int)
      BY <2>2
    <3> QED BY <1>5, <3>1 DEF RecurringInsert
  <2>3a. late' \in [Schedules -> Nat]
    <3>1. late[recurring.cur] + 1 \in Nat
      BY <2>2
    <3> QED BY <1>5, <3>1 DEF RecurringInsert
  <2>4. jobIds' \subseteq Schedules \X Int
    BY <1>5, <2>2 DEF RecurringInsert, Slot
  <2> QED BY <1>5, <2>1, <2>3, <2>3a, <2>4 DEF RecurringInsert
<1>6. CASE RecurringTouch \/ RecurringTouchFails
  <2>1. recurring' = AfterTouch /\ recurring.pc = "touch"
    BY <1>6, TouchCases
  <2>2. recurring.runs \in 1 .. MaxCatchUp
    BY <2>1 DEF RoundBounded, Firing
  <2>3. recurring' \in Recurring /\ RoundBounded'
    <3>1. CASE recurring.runs = 1
      BY <2>1, <3>1 DEF Recurring, AfterTouch, NextDue, RoundBounded, Firing
    <3>2. CASE recurring.runs # 1
      <4>1. recurring' = [recurring EXCEPT !.pc = "insert", !.runs = @ - 1,
                                           !.runAt = @ + recurring.interval]
        BY <2>1, <3>2 DEF AfterTouch
      <4>2. recurring.runs - 1 \in 1 .. MaxCatchUp
        BY <2>2, <3>2, ScheduleAssumption
      <4>3. recurring.runAt + recurring.interval \in Int
        BY DEF Recurring
      <4>4. recurring.runs - 1 \in Nat
        BY <2>2
      <4>5. recurring' \in Recurring
        BY <4>1, <4>3, <4>4 DEF Recurring
      <4>6. recurring'.runs = recurring.runs - 1
        BY <4>1 DEF Recurring
      <4> QED BY <4>2, <4>5, <4>6 DEF RoundBounded
    <3> QED BY <3>1, <3>2
  <2>4. Wrap(recurring.runAt) \in Int
    BY WrapInRange DEF Recurring
  <2>5. /\ DOMAIN schedules' \subseteq Schedules
        /\ \A s \in DOMAIN schedules' : schedules'[s] \in Row
    <3>1. CASE TouchSchedule(recurring.cur, recurring.runAt)
      BY <2>4, <3>1 DEF TouchSchedule, Row
    <3> QED BY <1>6, <3>1, TouchCases
  <2>6. faults' \in [{"insert", "touch"} -> Nat]
    BY <1>6, FaultTyped DEF RecurringTouch, RecurringTouchFails
  <2> QED BY <1>6, <2>3, <2>5, <2>6, TouchCases
<1>7. CASE RecurringInsertFails
  <2>1. recurring' \in Recurring /\ ~Firing'
    BY <1>7 DEF RecurringInsertFails, Recurring, NextDue, Firing
  <2>2. faults' \in [{"insert", "touch"} -> Nat]
    BY <1>7, FaultTyped DEF RecurringInsertFails
  <2> QED BY <1>7, <2>1, <2>2 DEF RecurringInsertFails, Failing, RoundBounded
<1> QED BY <1>1, <1>2, <1>3, <1>4, <1>5, <1>6, <1>7 DEF RecurringStep, FaultStep

LEMMA RequestTyped ==
    ASSUME TypeOK, RoundBounded, RequestStep
    PROVE  TypeOK' /\ RoundBounded'
<1> USE DEF TypeOK, NewRequest
<1>1. ASSUME NEW s \in Schedules, NEW seconds \in Requests,
             CreateSchedule(s, seconds)
      PROVE  TypeOK' /\ RoundBounded'
  <2>1. seconds \in Int
    BY ScheduleAssumption
  <2>2. StoredInterval(IntervalOf(seconds)) \in Nat
    BY <1>1, <2>1, StoredIntervalTyped DEF CreateSchedule
  <2>3. NeverRun \in Int
    BY WrapInRange, ScheduleAssumption DEF NeverRun
  <2>4. /\ DOMAIN schedules' \subseteq Schedules
        /\ \A t \in DOMAIN schedules' : schedules'[t] \in Row
    BY <1>1, <2>2, <2>3 DEF CreateSchedule, Row
  <2>5. asked' \subseteq Int /\ born' \in [Schedules -> Nat]
    BY <1>1, <2>1 DEF CreateSchedule
  <2>6. births' \in [Schedules -> Nat] /\ late' \in [Schedules -> Nat]
    <3>1. births[s] + 1 \in Nat
      OBVIOUS
    <3> QED BY <1>1, <3>1 DEF CreateSchedule
  <2>7. RoundBounded'
    BY <1>1 DEF CreateSchedule, RoundBounded, Firing
  <2>8. ops' \in Nat /\ UNCHANGED <<now, recurring, up, fired, crashes, faults, jobIds>>
    BY <1>1 DEF CreateSchedule
  <2> QED BY <2>4, <2>5, <2>6, <2>7, <2>8
<1>2. ASSUME NEW s \in Schedules, DeleteSchedule(s)
      PROVE  TypeOK' /\ RoundBounded'
  BY <1>2 DEF DeleteSchedule, RoundBounded, Firing
<1>3. ASSUME NEW s \in Schedules, NEW op \in {"enable", "disable"},
             SetScheduleEnabled(s, op)
      PROVE  TypeOK' /\ RoundBounded'
  <2>1. /\ DOMAIN schedules' \subseteq Schedules
        /\ \A t \in DOMAIN schedules' : schedules'[t] \in Row
    BY <1>3 DEF SetScheduleEnabled, Row
  <2>2. late' \in [Schedules -> Nat]
    BY <1>3 DEF SetScheduleEnabled
  <2>3. RoundBounded'
    BY <1>3 DEF SetScheduleEnabled, RoundBounded, Firing
  <2>4. ops' \in Nat /\ UNCHANGED <<now, recurring, up, fired, crashes, faults, jobIds>>
    BY <1>3 DEF SetScheduleEnabled
  <2>5. UNCHANGED <<asked, born, births>>
    BY <1>3 DEF SetScheduleEnabled
  <2> QED BY <2>1, <2>2, <2>3, <2>4, <2>5
<1>4. ASSUME NEW id \in jobIds, DeleteJob(id)
      PROVE  TypeOK' /\ RoundBounded'
  BY <1>4 DEF DeleteJob, RoundBounded, Firing
<1> QED BY <1>1, <1>2, <1>3, <1>4 DEF RequestStep

LEMMA NextTyped ==
    TypeOK /\ RoundBounded /\ [Next]_vars => TypeOK' /\ RoundBounded'
<1> SUFFICES ASSUME TypeOK, RoundBounded, [Next]_vars
             PROVE  TypeOK' /\ RoundBounded'
  OBVIOUS
<1>1. CASE RecurringStep \/ FaultStep
  BY <1>1, RecurringTyped
<1>2. CASE RequestStep
  BY <1>2, RequestTyped
<1>3. CASE Restart
  <2>1. recurring' \in Recurring /\ ~Firing'
    BY <1>3, AsleepTyped DEF Restart, Firing, Asleep
  <2> QED BY <1>3, <2>1 DEF Restart, TypeOK, tableVars, historyVars, RoundBounded
<1>4. CASE Tick
  BY <1>4, ScheduleAssumption
     DEF Tick, TypeOK, tableVars, historyVars, RoundBounded, Firing
<1>5. CASE UNCHANGED vars
  BY <1>5 DEF vars, TypeOK, tableVars, historyVars, RoundBounded, Firing
<1> QED BY <1>1, <1>2, <1>3, <1>4, <1>5 DEF Next

\* Every variable keeps its type, and a round fires a schedule at most
\* MaxCatchUp times.
THEOREM RoundsAreBounded == Spec => [](TypeOK /\ RoundBounded)
<1>1. Init => TypeOK /\ RoundBounded
  BY InitTyped
<1>2. TypeOK /\ RoundBounded /\ [Next]_vars => (TypeOK /\ RoundBounded)'
  BY NextTyped
<1> QED BY <1>1, <1>2, PTL DEF Spec

\* The type invariant: no accepted request stores a negative interval.
THEOREM ScheduleTypeCorrect == Spec => []TypeOK
BY RoundsAreBounded, PTL

-----------------------------------------------------------------------------
(* Nothing is enqueued early.  Every last_run lies on the grid of            *)
(* milliseconds through year 1, which misses zero, so the clause last_run=0  *)
(* of DueSchedules never holds and every copy of a round is overdue; and the *)
(* slots a firing has left end before the time at which they were counted.   *)

IsMultiple(i) == \E k \in Nat : i = k * Milli

OnGrid(t) == \E n \in Nat : t = NeverRun + n * Milli

Gridded(c) == IsMultiple(c.interval) /\ OnGrid(c.lastRun)

Overran(c) == c.enabled /\ c.lastRun + c.interval <= now

SlotsInThePast ==
    /\ IsMultiple(recurring.interval) /\ OnGrid(recurring.runAt)
    /\ recurring.runAt + (recurring.runs - 1) * recurring.interval <= now

Timely ==
    /\ now <= MaxTime
    /\ \A s \in DOMAIN schedules : Gridded(schedules[s])
    /\ \A c \in recurring.due : Gridded(c) /\ Overran(c)
    /\ Firing => SlotsInThePast
    /\ NothingEnqueuedEarly

LEMMA WordIsWide == Word \div 2 \in Nat /\ 2 * (Word \div 2) <= Word /\ MaxInt \in Nat
BY ScheduleAssumption DEF MaxInt

LEMMA NeverRunTyped == NeverRun \in Int /\ -(Word \div 2) <= NeverRun
BY WrapInRange, ScheduleAssumption DEF NeverRun

LEMMA ProductGrows ==
    ASSUME NEW n \in Nat, NEW m \in Nat, NEW d \in Nat, m <= n
    PROVE  m * d <= n * d /\ m * d \in Nat
OBVIOUS

LEMMA GridMissesEpoch ==
    ASSUME NEW t, OnGrid(t)
    PROVE  t \in Int /\ t # 0 /\ NeverRun <= t
<1>1. PICK n \in Nat : t = NeverRun + n * Milli
  BY DEF OnGrid
<1>2. Milli \in Nat /\ Milli >= 1
  BY ScheduleAssumption
<1>3. n * Milli \in Nat /\ n <= n * Milli
  BY <1>2
<1>4. CASE n \in 0 .. Word
  BY <1>1, <1>3, <1>4, NeverRunTyped, EpochAssumption
<1>5. CASE n > Word
  <2>1. n * Milli > Word \div 2
    BY <1>3, <1>5, WordIsWide, ScheduleAssumption
  <2> QED BY <1>1, <1>3, <2>1, NeverRunTyped, WordIsWide
<1> QED BY <1>4, <1>5, ScheduleAssumption

LEMMA GridStep ==
    ASSUME NEW t, NEW i, OnGrid(t), IsMultiple(i)
    PROVE  OnGrid(t + i)
<1>1. PICK n \in Nat : t = NeverRun + n * Milli
  BY DEF OnGrid
<1>2. PICK k \in Nat : i = k * Milli
  BY DEF IsMultiple
<1>3. t + i = NeverRun + (n + k) * Milli
  BY <1>1, <1>2, NeverRunTyped, ScheduleAssumption
<1> QED BY <1>3 DEF OnGrid

LEMMA StoredIntervalIsMultiple ==
    ASSUME NEW seconds \in Int, IsAccepted(seconds)
    PROVE  IsMultiple(StoredInterval(IntervalOf(seconds)))
<1> DEFINE i == IntervalOf(seconds)
<1>1. i \in Nat
  BY WrapInRange, ScheduleAssumption DEF IsAccepted, IntervalOf
<1> HIDE DEF i
<1>2. i \div Milli \in Nat
  BY <1>1, DivBounds, ScheduleAssumption
<1> QED BY <1>2 DEF StoredInterval, IsMultiple, i

\* The intervals a round counts have all passed.
LEMMA MissedHavePassed ==
    ASSUME NEW c \in Copy, c.interval # 0, now \in Nat, Overran(c)
    PROVE  c.lastRun + Clamped(MissedRuns(c, now)) * c.interval <= now
<1> DEFINE i == c.interval
           gap == Sub(now, c.lastRun)
           q == gap \div i
<1>1. i \in Nat /\ i > 0 /\ c.lastRun \in Int
  BY DEF Copy
<1>2. c.lastRun + i <= now
  BY DEF Overran
<1>3. gap \in Nat /\ c.lastRun + gap <= now
  BY <1>1, <1>2, WordIsWide DEF Sub
<1>4. q \in Nat /\ q * i <= gap
  <2> HIDE DEF gap, i
  <2> QED BY <1>1, <1>3, DivBounds
<1>5. MissedRuns(c, now) = q
  BY <1>1, <1>2 DEF MissedRuns, Overran
<1> DEFINE r == Clamped(q)
<1>6. r \in Nat /\ (r = 1 \/ r <= q)
  <2> HIDE DEF q
  <2> QED BY <1>4, ScheduleAssumption DEF Clamped
<1>7. CASE r = 1
  BY <1>1, <1>2, <1>5, <1>7
<1>8. CASE r <= q
  <2> HIDE DEF q, r, i, gap
  <2>1. r * i <= q * i /\ r * i \in Nat /\ q * i \in Nat
    BY <1>1, <1>4, <1>6, <1>8, ProductGrows
  <2>2. c.lastRun + r * i <= now
    BY <1>1, <1>3, <1>4, <2>1, now \in Nat
  <2> QED BY <2>2, <1>5 DEF r, i
<1> QED BY <1>6, <1>7, <1>8

LEMMA DueOverran ==
    ASSUME TypeOK, Timely, NEW c \in DueSchedules(now)
    PROVE  Gridded(c) /\ Overran(c)
<1>1. PICK s \in DOMAIN schedules : IsDue(schedules[s], now) /\ c = CopyOf(s)
  BY DEF DueSchedules
<1>2. Gridded(c)
  BY <1>1 DEF Timely, Gridded, CopyOf
<1>3. c.lastRun # 0
  BY <1>2, GridMissesEpoch DEF Gridded
<1> QED BY <1>1, <1>2, <1>3 DEF IsDue, CopyOf, Overran

LEMMA SlotIsPast ==
    ASSUME TypeOK, RoundBounded, Firing, SlotsInThePast
    PROVE  recurring.runAt <= now
<1> DEFINE rest == (recurring.runs - 1) * recurring.interval
<1>1. recurring.runs - 1 \in Nat /\ recurring.interval \in Nat
  BY DEF TypeOK, Recurring, RoundBounded
<1>2. rest \in Nat
  BY <1>1, ProductGrows
<1>3. recurring.runAt \in Int /\ recurring.runAt + rest <= now /\ now \in Int
  BY DEF TypeOK, Recurring, SlotsInThePast
<1> HIDE DEF rest
<1> QED BY <1>2, <1>3

\* UnixNano of a slot loses nothing.
LEMMA SlotFitsWord ==
    ASSUME TypeOK, RoundBounded, Timely, Firing
    PROVE  Wrap(recurring.runAt) = recurring.runAt
<1> DEFINE t == recurring.runAt
<1>1. t \in Int /\ NeverRun <= t /\ t <= now /\ now \in Nat
  BY SlotIsPast, GridMissesEpoch DEF TypeOK, Timely, SlotsInThePast
<1> HIDE DEF t
<1>2. -(Word \div 2) <= t /\ t < Word \div 2
  BY <1>1, NeverRunTyped, WordIsWide, ScheduleAssumption DEF Timely
<1>3. Wrap(t) = t
  BY <1>1, <1>2, WrapIsIdentity
<1> QED BY <1>3 DEF t

LEMMA TimelyInit == Init => Timely
<1> SUFFICES ASSUME Init PROVE Timely
  OBVIOUS
<1> USE DEF Init
<1>1. DOMAIN schedules = {} /\ recurring.due = {} /\ ~Firing
  BY DEF Asleep, Firing
<1>2. NothingEnqueuedEarly
  BY DEF NothingEnqueuedEarly
<1>3. now <= MaxTime
  BY ScheduleAssumption
<1> QED BY <1>1, <1>2, <1>3 DEF Timely

LEMMA TimelyRecurring ==
    ASSUME TypeOK, RoundBounded, Timely, RecurringStep \/ FaultStep
    PROVE  Timely'
<1> USE DEF tableVars, historyVars
<1>1. CASE RecurringBegin
  <2>1. \A c \in recurring'.due : Gridded(c) /\ Overran(c)'
    BY <1>1, DueOverran DEF RecurringBegin, Overran, TypeOK, Recurring
  <2>2. ~Firing'
    BY <1>1 DEF RecurringBegin, Firing, TypeOK, Recurring
  <2> QED BY <1>1, <2>1, <2>2 DEF RecurringBegin, Timely, NothingEnqueuedEarly
<1>2. CASE RecurringNext
  <2>1. PICK c \in recurring.due :
          /\ c.interval # 0
          /\ recurring' = [pc |-> "insert", due |-> recurring.due \ {c},
                           cur |-> c.id, interval |-> c.interval,
                           runs |-> Clamped(MissedRuns(c, now)), runAt |-> NextRun(c)]
    BY <1>2 DEF RecurringNext
  <2>2. c \in Copy /\ Gridded(c) /\ Overran(c)
    BY DEF TypeOK, Recurring, Timely
  <2>3. c.lastRun + Clamped(MissedRuns(c, now)) * c.interval <= now
    BY <2>1, <2>2, MissedHavePassed DEF TypeOK
  <2>4. SlotsInThePast'
    <3>1. OnGrid(NextRun(c)) /\ IsMultiple(c.interval)
      BY <2>2, GridStep DEF Gridded, NextRun
    <3>2. Clamped(MissedRuns(c, now)) \in Nat
      BY <2>1, <2>2, RunsTyped, ScheduleAssumption DEF TypeOK
    <3> DEFINE r == Clamped(MissedRuns(c, now))
    <3>3. c.lastRun + c.interval + (r - 1) * c.interval <= now
      <4> HIDE DEF r
      <4>1. c.interval + (r - 1) * c.interval = r * c.interval
        BY <2>2, <3>2 DEF Copy, r
      <4>2. c.lastRun \in Int /\ c.interval \in Int /\ r * c.interval \in Int
            /\ (r - 1) * c.interval \in Int
        BY <2>2, <3>2 DEF Copy, r
      <4>3. c.lastRun + r * c.interval <= now
        BY <2>3 DEF r
      <4> QED BY <4>1, <4>2, <4>3
    <3> HIDE DEF r
    <3>4. /\ recurring'.runAt = c.lastRun + c.interval
          /\ recurring'.runs = r
          /\ recurring'.interval = c.interval
          /\ now' = now
      BY <1>2, <2>1 DEF r, NextRun, RecurringNext
    <3> QED BY <3>1, <3>3, <3>4 DEF SlotsInThePast, NextRun
  <2>5. \A d \in recurring'.due : Gridded(d) /\ Overran(d)'
    BY <1>2, <2>1 DEF Timely, Overran, RecurringNext
  <2> QED BY <1>2, <2>4, <2>5 DEF RecurringNext, Timely, NothingEnqueuedEarly
<1>3. CASE RecurringPanic
  <2>1. recurring'.due = {} /\ ~Firing'
    BY <1>3 DEF RecurringPanic, Asleep, Firing
  <2> QED BY <1>3, <2>1 DEF RecurringPanic, Timely, NothingEnqueuedEarly
<1>4. CASE RecurringDone
  <2>1. recurring'.due = {} /\ ~Firing'
    BY <1>4 DEF RecurringDone, Asleep, Firing
  <2> QED BY <1>4, <2>1 DEF RecurringDone, Timely, NothingEnqueuedEarly
<1>5. CASE RecurringInsert
  <2>1. recurring.runAt <= now
    BY <1>5, SlotIsPast DEF RecurringInsert, Firing, Timely
  <2>2. NothingEnqueuedEarly'
    <3> DEFINE s == recurring.cur
    <3>1. s \in Schedules /\ fired[s] \in Seq(Int) /\ recurring.runAt \in Int
      BY DEF TypeOK, Recurring
    <3>2. CASE fired' = fired
      BY <1>5, <3>2 DEF Timely, NothingEnqueuedEarly, RecurringInsert
    <3>3. CASE fired' = [fired EXCEPT ![s] = Append(@, recurring.runAt)]
      <4>1. \A k \in 1 .. Len(fired'[s]) : fired'[s][k] <= now
        <5>1. fired'[s] = Append(fired[s], recurring.runAt)
          BY <3>1, <3>3 DEF TypeOK
        <5>2. \A k \in 1 .. Len(fired[s]) : fired[s][k] <= now
          BY <3>1 DEF Timely, NothingEnqueuedEarly
        <5> HIDE DEF s
        <5> QED BY <2>1, <3>1, <5>1, <5>2
      <4>2. \A t \in Schedules \ {s} : fired'[t] = fired[t]
        BY <3>3 DEF TypeOK
      <4> HIDE DEF s
      <4> QED BY <1>5, <4>1, <4>2 DEF Timely, NothingEnqueuedEarly, RecurringInsert
    <3> QED BY <1>5, <3>2, <3>3 DEF RecurringInsert
  <2>3. /\ recurring'.due = recurring.due
        /\ Firing' => SlotsInThePast'
    BY <1>5 DEF RecurringInsert, NextDue, Firing, SlotsInThePast, Timely, TypeOK, Recurring
  <2> QED BY <1>5, <2>2, <2>3 DEF RecurringInsert, Timely, Overran
<1>6. CASE RecurringTouch \/ RecurringTouchFails
  <2> DEFINE t == recurring.runAt
             i == recurring.interval
             r == recurring.runs
  <2>1. Firing /\ SlotsInThePast /\ OnGrid(t) /\ IsMultiple(i)
    BY <1>6, TouchCases DEF Firing, Timely, SlotsInThePast
  <2>2. t \in Int /\ NeverRun <= t /\ t <= now /\ now \in Nat /\ i \in Nat /\ r \in Nat
    BY <2>1, SlotIsPast, GridMissesEpoch DEF TypeOK, Recurring
  <2>3. Wrap(t) = t
    BY <2>1, SlotFitsWord
  <2>4. \A s \in DOMAIN schedules' : Gridded(schedules'[s])
    <3>1. \/ schedules' = [schedules EXCEPT ![recurring.cur].lastRun = t]
          \/ schedules' = schedules
      BY <1>6, <2>3, TouchCases DEF TouchSchedule
    <3> HIDE DEF t
    <3>2. CASE schedules' = [schedules EXCEPT ![recurring.cur].lastRun = t]
      BY <2>1, <3>2 DEF Timely, Gridded, TypeOK, Row
    <3>3. CASE schedules' = schedules
      BY <3>3 DEF Timely
    <3> QED BY <3>1, <3>2, <3>3
  <2>5. recurring'.due = recurring.due
    BY <1>6, TouchCases DEF AfterTouch, NextDue, TypeOK, Recurring
  <2>6. Firing' => SlotsInThePast'
    <3>1. CASE r = 1
      BY <1>6, <3>1, TouchCases DEF AfterTouch, NextDue, Firing, TypeOK, Recurring
    <3>2. CASE r # 1
      <4>1. recurring'.runAt = t + i /\ recurring'.runs = r - 1
            /\ recurring'.interval = i /\ now' = now
        BY <1>6, <3>2, TouchCases DEF AfterTouch, TypeOK, Recurring
      <4>2. t + (r - 1) * i <= now
        BY <2>1 DEF SlotsInThePast
      <4>3. t + i + (r - 1 - 1) * i <= now
        <5> HIDE DEF t, r, i
        <5>1. i + (r - 1 - 1) * i = (r - 1) * i
          BY <2>2
        <5>2. (r - 1 - 1) * i \in Int /\ (r - 1) * i \in Int
          BY <2>2
        <5> QED BY <2>2, <4>2, <5>1, <5>2
      <4>4. OnGrid(t + i)
        BY <2>1, GridStep
      <4> HIDE DEF t, r, i
      <4> QED BY <2>1, <4>1, <4>3, <4>4 DEF SlotsInThePast
    <3> QED BY <3>1, <3>2
  <2> QED BY <1>6, <2>4, <2>5, <2>6, TouchCases
          DEF Timely, Overran, NothingEnqueuedEarly
<1>7. CASE RecurringInsertFails
  <2>1. recurring'.due = recurring.due /\ ~Firing'
    BY <1>7 DEF RecurringInsertFails, NextDue, Firing, TypeOK, Recurring
  <2> QED BY <1>7, <2>1
          DEF RecurringInsertFails, Failing, Timely, Overran, NothingEnqueuedEarly
<1> QED BY <1>1, <1>2, <1>3, <1>4, <1>5, <1>6, <1>7 DEF RecurringStep, FaultStep

LEMMA TimelyRequest ==
    ASSUME TypeOK, Timely, RequestStep
    PROVE  Timely'
<1>1. UNCHANGED <<now, recurring, fired>>
  BY DEF RequestStep, CreateSchedule, DeleteSchedule, SetScheduleEnabled,
         DeleteJob, NewRequest
<1>2. \A s \in DOMAIN schedules' : Gridded(schedules'[s])
  <2>1. ASSUME NEW s \in Schedules, NEW seconds \in Requests,
               CreateSchedule(s, seconds)
        PROVE  \A t \in DOMAIN schedules' : Gridded(schedules'[t])
    <3>1. IsMultiple(StoredInterval(IntervalOf(seconds)))
      BY <2>1, StoredIntervalIsMultiple, ScheduleAssumption DEF CreateSchedule
    <3>2. OnGrid(NeverRun)
      <4>1. NeverRun = NeverRun + 0 * Milli
        BY NeverRunTyped, ScheduleAssumption
      <4> QED BY <4>1 DEF OnGrid
    <3> QED BY <2>1, <3>1, <3>2 DEF CreateSchedule, Timely, Gridded
  <2>2. ASSUME NEW s \in Schedules, DeleteSchedule(s)
        PROVE  \A t \in DOMAIN schedules' : Gridded(schedules'[t])
    BY <2>2 DEF DeleteSchedule, Timely
  <2>3. ASSUME NEW s \in Schedules, NEW op \in {"enable", "disable"},
               SetScheduleEnabled(s, op)
        PROVE  \A t \in DOMAIN schedules' : Gridded(schedules'[t])
    BY <2>3 DEF SetScheduleEnabled, Timely, Gridded, TypeOK, Row
  <2>4. ASSUME NEW id \in jobIds, DeleteJob(id)
        PROVE  \A t \in DOMAIN schedules' : Gridded(schedules'[t])
    BY <2>4 DEF DeleteJob, Timely
  <2> QED BY <2>1, <2>2, <2>3, <2>4 DEF RequestStep
<1> QED BY <1>1, <1>2
        DEF Timely, Overran, Firing, SlotsInThePast, NothingEnqueuedEarly

LEMMA TimelyNext ==
    TypeOK /\ RoundBounded /\ Timely /\ [Next]_vars => Timely'
<1> SUFFICES ASSUME TypeOK, RoundBounded, Timely, [Next]_vars
             PROVE  Timely'
  OBVIOUS
<1> USE DEF tableVars, historyVars
<1>1. CASE RecurringStep \/ FaultStep
  BY <1>1, TimelyRecurring
<1>2. CASE RequestStep
  BY <1>2, TimelyRequest
<1>3. CASE Restart
  <2>1. recurring'.due = {} /\ ~Firing'
    BY <1>3 DEF Restart, Asleep, Firing
  <2> QED BY <1>3, <2>1 DEF Restart, Timely, NothingEnqueuedEarly
<1>4. CASE Tick
  <2>1. now' \in Nat /\ now <= now' /\ now' <= MaxTime /\ now \in Nat
    BY <1>4, ScheduleAssumption DEF Tick, TypeOK
  <2>2. NothingEnqueuedEarly'
    <3>1. \A s \in Schedules : \A k \in 1 .. Len(fired[s]) : fired[s][k] \in Int
      BY DEF TypeOK
    <3> QED BY <1>4, <2>1, <3>1 DEF Tick, Timely, NothingEnqueuedEarly
  <2>3. \A c \in recurring.due : Overran(c)'
    BY <1>4, <2>1 DEF Timely, Overran, TypeOK, Recurring, Copy
  <2>4. Firing => SlotsInThePast'
    <3> DEFINE last == recurring.runAt + (recurring.runs - 1) * recurring.interval
    <3>1. last \in Int
      BY DEF TypeOK, Recurring
    <3>2. ASSUME Firing PROVE last <= now'
      <4>1. last <= now
        BY <3>2 DEF Timely, SlotsInThePast
      <4> HIDE DEF last
      <4> QED BY <2>1, <3>1, <4>1
    <3> QED BY <1>4, <3>2 DEF Timely, SlotsInThePast, Tick
  <2> QED BY <1>4, <2>1, <2>2, <2>3, <2>4 DEF Tick, Timely, Firing
<1>5. CASE UNCHANGED vars
  BY <1>5 DEF vars, Timely, Overran, Firing, SlotsInThePast, NothingEnqueuedEarly
<1> QED BY <1>1, <1>2, <1>3, <1>4, <1>5 DEF Next

\* Whatever the delay between DueSchedules, the count of missed intervals and
\* the inserts, no job is enqueued before its slot.
THEOREM FiringsAreTimely == Spec => []NothingEnqueuedEarly
<1>1. Init => TypeOK /\ RoundBounded /\ Timely
  BY InitTyped, TimelyInit
<1>2. TypeOK /\ RoundBounded /\ Timely /\ [Next]_vars
        => (TypeOK /\ RoundBounded /\ Timely)'
  BY NextTyped, TimelyNext
<1>3. Timely => NothingEnqueuedEarly
  BY DEF Timely
<1> QED BY <1>1, <1>2, <1>3, PTL DEF Spec

-----------------------------------------------------------------------------
(* A disable or a delete stops a schedule after the round under way: what a  *)
(* round has still to fire and what it has fired late stay below the bound,  *)
(* and a later round takes up no schedule that is disabled.                  *)

Waiting(s) == \E c \in recurring.due : c.id = s

Spent(s) ==
    /\ late[s] <= MaxCatchUp
    /\ ~IsLate(s) => late[s] = 0
    /\ Waiting(s) => late[s] = 0 /\ ~(Firing /\ recurring.cur = s)
    /\ recurring.cur = s /\ recurring.pc = "insert"
          => late[s] + recurring.runs <= MaxCatchUp
    /\ recurring.cur = s /\ recurring.pc = "touch"
          => late[s] + recurring.runs <= MaxCatchUp + 1

OneCopyEach == \A c, d \in recurring.due : c.id = d.id => c = d

AllSpent == OneCopyEach /\ \A s \in Schedules : Spent(s)

LEMMA SpentInit == Init => AllSpent
BY ScheduleAssumption DEF Init, AllSpent, OneCopyEach, Spent, Waiting, Asleep, Firing, IsLate

LEMMA SpentRecurring ==
    ASSUME TypeOK, RoundBounded, AllSpent, RecurringStep \/ FaultStep
    PROVE  AllSpent'
<1> USE DEF tableVars, historyVars
<1>1. CASE RecurringBegin
  <2>1. OneCopyEach'
    <3>1. recurring'.due = DueSchedules(now)
      BY <1>1 DEF RecurringBegin, TypeOK, Recurring
    <3> QED BY <3>1 DEF DueSchedules, CopyOf, OneCopyEach
  <2>2. ASSUME NEW s \in Schedules PROVE Spent(s)'
    <3>1. Waiting(s)' => late[s] = 0
      <4>1. ASSUME NEW c \in DueSchedules(now), c.id = s PROVE ~IsLate(s)
        BY <4>1 DEF DueSchedules, CopyOf, IsDue, IsLate
      <4> QED BY <1>1, <4>1 DEF RecurringBegin, Waiting, AllSpent, Spent, TypeOK, Recurring
    <3>2. recurring'.pc = "next" /\ UNCHANGED <<late, schedules>>
      BY <1>1 DEF RecurringBegin, TypeOK, Recurring
    <3> QED BY <3>1, <3>2 DEF Spent, AllSpent, Firing, IsLate
  <2> QED BY <2>1, <2>2 DEF AllSpent
<1>2. CASE RecurringNext
  <2>1. PICK c \in recurring.due :
          /\ c.interval # 0
          /\ recurring' = [pc |-> "insert", due |-> recurring.due \ {c},
                           cur |-> c.id, interval |-> c.interval,
                           runs |-> Clamped(MissedRuns(c, now)), runAt |-> NextRun(c)]
    BY <1>2 DEF RecurringNext
  <2>2. recurring'.runs \in 1 .. MaxCatchUp
    BY <2>1, RunsTyped DEF TypeOK, Recurring
  <2>3. OneCopyEach'
    BY <2>1 DEF AllSpent, OneCopyEach
  <2>4. ASSUME NEW s \in Schedules PROVE Spent(s)'
    <3>1. UNCHANGED <<late, schedules>>
      BY <1>2 DEF RecurringNext
    <3>2. Waiting(s)' => Waiting(s) /\ s # c.id
      BY <2>1 DEF Waiting, AllSpent, OneCopyEach
    <3>3. c.id = s => late[s] = 0
      BY DEF AllSpent, Spent, Waiting
    <3>4. recurring'.cur = c.id /\ recurring'.pc = "insert"
      BY <2>1
    <3>5. late[s] <= MaxCatchUp /\ (~IsLate(s) => late[s] = 0)
          /\ (Waiting(s) => late[s] = 0)
      BY DEF AllSpent, Spent
    <3> QED BY <2>2, <3>1, <3>2, <3>3, <3>4, <3>5, ScheduleAssumption
            DEF Spent, IsLate
  <2> QED BY <2>3, <2>4 DEF AllSpent
<1>3. CASE RecurringPanic \/ RecurringDone
  <2>1. recurring' = Asleep /\ UNCHANGED <<late, schedules>>
    BY <1>3 DEF RecurringPanic, RecurringDone
  <2> QED BY <2>1 DEF Asleep, AllSpent, OneCopyEach, Spent, Waiting, Firing, IsLate
<1>4. CASE RecurringInsert
  <2> DEFINE s == recurring.cur
  <2>1. recurring'.due = recurring.due /\ recurring'.cur = s
        /\ recurring'.runs = recurring.runs /\ UNCHANGED schedules
    BY <1>4 DEF RecurringInsert, NextDue, TypeOK, Recurring
  <2>2. recurring.pc = "insert" /\ recurring.runs \in 1 .. MaxCatchUp
        /\ s \in Schedules /\ MaxCatchUp \in Nat
    BY <1>4, ScheduleAssumption DEF RecurringInsert, RoundBounded, Firing, TypeOK, Recurring
  <2>3. ASSUME NEW t \in Schedules PROVE Spent(t)'
    <3>1. Spent(t) /\ late[t] \in Nat
      BY DEF AllSpent, TypeOK
    <3>2. CASE recurring'.pc = "next" /\ late' = late
      BY <2>1, <2>2, <3>1, <3>2 DEF Spent, Waiting, Firing, IsLate
    <3>3. CASE recurring'.pc = "touch" /\ t # s /\ late'[t] = late[t]
      BY <2>1, <2>2, <3>1, <3>3 DEF Spent, Waiting, Firing, IsLate
    <3>4. CASE recurring'.pc = "touch" /\ t = s
               /\ late'[t] = IF IsLate(s) THEN late[s] + 1 ELSE late[s]
      BY <2>1, <2>2, <3>1, <3>4 DEF Spent, Waiting, Firing, IsLate
    <3> QED BY <1>4, <2>2, <3>2, <3>3, <3>4
            DEF RecurringInsert, NextDue, TypeOK, Recurring
  <2>4. OneCopyEach'
    BY <2>1 DEF AllSpent, OneCopyEach
  <2> QED BY <2>3, <2>4 DEF AllSpent
<1>5. CASE RecurringTouch \/ RecurringTouchFails
  <2> DEFINE s == recurring.cur
  <2>1. recurring'.due = recurring.due /\ recurring'.cur = s /\ UNCHANGED late
    BY <1>5, TouchCases DEF AfterTouch, NextDue, TypeOK, Recurring
  <2>2. recurring.pc = "touch" /\ recurring.runs \in 1 .. MaxCatchUp
        /\ s \in Schedules /\ MaxCatchUp \in Nat
    BY <1>5, TouchCases, ScheduleAssumption DEF RoundBounded, Firing, TypeOK, Recurring
  <2>3. \A t \in Schedules : IsLate(t)' = IsLate(t)
    <3>1. CASE TouchSchedule(s, recurring.runAt)
      BY <3>1 DEF TouchSchedule, IsLate, TypeOK, Row
    <3>2. CASE schedules' = schedules
      BY <3>2 DEF IsLate
    <3> QED BY <1>5, <3>1, <3>2, TouchCases
  <2>4. \/ recurring'.pc = "next"
        \/ recurring'.pc = "insert" /\ recurring'.runs = recurring.runs - 1
    BY <1>5, TouchCases DEF AfterTouch, NextDue, TypeOK, Recurring
  <2>5. ASSUME NEW t \in Schedules PROVE Spent(t)'
    <3>1. Spent(t) /\ late[t] \in Nat
      BY DEF AllSpent, TypeOK
    <3> QED BY <2>1, <2>2, <2>3, <2>4, <3>1 DEF Spent, Waiting, Firing
  <2>6. OneCopyEach'
    BY <2>1 DEF AllSpent, OneCopyEach
  <2> QED BY <2>5, <2>6 DEF AllSpent
<1>6. CASE RecurringInsertFails
  <2>1. recurring'.due = recurring.due /\ recurring'.pc = "next"
        /\ UNCHANGED <<late, schedules>>
    BY <1>6 DEF RecurringInsertFails, Failing, NextDue, TypeOK, Recurring
  <2> QED BY <2>1 DEF AllSpent, OneCopyEach, Spent, Waiting, Firing, IsLate
<1> QED BY <1>1, <1>2, <1>3, <1>4, <1>5, <1>6 DEF RecurringStep, FaultStep

LEMMA SpentRequest ==
    ASSUME TypeOK, RoundBounded, AllSpent, RequestStep
    PROVE  AllSpent'
<1>1. UNCHANGED recurring
  BY DEF RequestStep, CreateSchedule, DeleteSchedule, SetScheduleEnabled,
         DeleteJob, NewRequest
<1>2. ASSUME NEW s \in Schedules
      PROVE  \/ late'[s] = 0
             \/ late'[s] = late[s] /\ (IsLate(s) => IsLate(s)')
  <2>1. ASSUME NEW t \in Schedules, NEW seconds \in Requests,
               CreateSchedule(t, seconds)
        PROVE  \/ late'[s] = 0
               \/ late'[s] = late[s] /\ (IsLate(s) => IsLate(s)')
    BY <2>1 DEF CreateSchedule, IsLate, TypeOK
  <2>2. ASSUME NEW t \in Schedules, DeleteSchedule(t)
        PROVE  late'[s] = late[s] /\ (IsLate(s) => IsLate(s)')
    BY <2>2 DEF DeleteSchedule, IsLate
  <2>3. ASSUME NEW t \in Schedules, NEW op \in {"enable", "disable"},
               SetScheduleEnabled(t, op)
        PROVE  \/ late'[s] = 0
               \/ late'[s] = late[s] /\ (IsLate(s) => IsLate(s)')
    BY <2>3 DEF SetScheduleEnabled, IsLate, TypeOK, Row
  <2>4. ASSUME NEW id \in jobIds, DeleteJob(id)
        PROVE  late'[s] = late[s] /\ (IsLate(s) => IsLate(s)')
    BY <2>4 DEF DeleteJob, IsLate
  <2> QED BY <2>1, <2>2, <2>3, <2>4 DEF RequestStep
<1>3. ASSUME NEW s \in Schedules PROVE Spent(s)'
  <2>1. Spent(s) /\ late[s] \in Nat
    BY DEF AllSpent, TypeOK
  <2>2. Firing => recurring.runs \in 1 .. MaxCatchUp
    BY DEF RoundBounded
  <2> QED BY <1>1, <1>2, <2>1, <2>2, ScheduleAssumption DEF Spent, Waiting, Firing
<1> QED BY <1>1, <1>3 DEF AllSpent, OneCopyEach

LEMMA SpentNext ==
    TypeOK /\ RoundBounded /\ AllSpent /\ [Next]_vars => AllSpent'
<1> SUFFICES ASSUME TypeOK, RoundBounded, AllSpent, [Next]_vars
             PROVE  AllSpent'
  OBVIOUS
<1> USE DEF tableVars, historyVars
<1>1. CASE RecurringStep \/ FaultStep
  BY <1>1, SpentRecurring
<1>2. CASE RequestStep
  BY <1>2, SpentRequest
<1>3. CASE Restart
  BY <1>3 DEF Restart, Asleep, AllSpent, OneCopyEach, Spent, Waiting, Firing, IsLate
<1>4. CASE Tick \/ UNCHANGED vars
  BY <1>4 DEF Tick, vars, AllSpent, OneCopyEach, Spent, Waiting, Firing, IsLate
<1> QED BY <1>1, <1>2, <1>3, <1>4 DEF Next

\* A schedule that is disabled or deleted fires at most MaxCatchUp times more.
THEOREM LateFiringsAreBounded == Spec => []LateFiringsBounded
<1>1. Init => TypeOK /\ RoundBounded /\ AllSpent
  BY InitTyped, SpentInit
<1>2. TypeOK /\ RoundBounded /\ AllSpent /\ [Next]_vars
        => (TypeOK /\ RoundBounded /\ AllSpent)'
  BY NextTyped, SpentNext
<1>3. AllSpent => LateFiringsBounded
  BY DEF AllSpent, Spent, LateFiringsBounded
<1> QED BY <1>1, <1>2, <1>3, PTL DEF Spec

-----------------------------------------------------------------------------
(* The division by a zero interval.                                          *)

Overflowed == \E seconds \in asked : seconds * Second > MaxInt

ZeroByOverflow ==
    /\ \A s \in DOMAIN schedules : schedules[s].interval = 0 => Overflowed
    /\ \A c \in recurring.due : c.interval = 0 => Overflowed
    /\ ~up => Overflowed

\* An interval of a second or more that fits the word survives the column.
LEMMA ZeroNeedsOverflow ==
    ASSUME NEW seconds \in Int, IsAccepted(seconds),
           StoredInterval(IntervalOf(seconds)) = 0
    PROVE  seconds * Second > MaxInt
<1> DEFINE x == seconds * Second
<1>1. seconds \in Nat /\ seconds >= 1 /\ Second \in Nat /\ Milli \in Nat
      /\ Milli >= 1 /\ Milli <= Second
  BY ScheduleAssumption DEF IsAccepted
<1>2. x \in Nat /\ Second <= x
  <2>1. 1 * Second <= seconds * Second /\ seconds * Second \in Nat
    BY <1>1, ProductGrows
  <2> QED BY <1>1, <2>1
<1> HIDE DEF x
<1>3. SUFFICES ASSUME x <= MaxInt PROVE FALSE
  BY <1>2, WordIsWide DEF x
<1>4. Wrap(x) = x
  BY <1>2, <1>3, WordIsWide, WrapIsIdentity DEF MaxInt
<1>5. (x \div Milli) * Milli = 0
  BY <1>4 DEF StoredInterval, IntervalOf, x
<1>6. x < Milli
  BY <1>1, <1>2, <1>5, DivBounds
<1> QED BY <1>1, <1>2, <1>6

LEMMA ZeroNext == TypeOK /\ ZeroByOverflow /\ [Next]_vars => ZeroByOverflow'
<1> SUFFICES ASSUME TypeOK, ZeroByOverflow, [Next]_vars PROVE ZeroByOverflow'
  OBVIOUS
<1> USE DEF ZeroByOverflow, Overflowed, tableVars, historyVars
<1>1. CASE RecurringStep
  <2>1. CASE RecurringBegin
    <3>1. schedules' = schedules /\ asked' = asked /\ up' = up
          /\ recurring'.due = DueSchedules(now)
      BY <2>1 DEF RecurringBegin, TypeOK, Recurring
    <3>2. \A c \in DueSchedules(now) :
            \E s \in DOMAIN schedules : c.interval = schedules[s].interval
      BY DEF DueSchedules, CopyOf
    <3> QED BY <3>1, <3>2
  <2>2. CASE RecurringNext
    BY <2>2 DEF RecurringNext
  <2>3. CASE RecurringPanic
    BY <2>3 DEF RecurringPanic, Asleep
  <2>4. CASE RecurringDone
    BY <2>4 DEF RecurringDone, Asleep
  <2>5. CASE RecurringInsert
    BY <2>5 DEF RecurringInsert, NextDue, TypeOK, Recurring
  <2>6. CASE RecurringTouch
    BY <2>6 DEF RecurringTouch, AfterTouch, NextDue, TouchSchedule, TypeOK, Recurring, Row
  <2> QED BY <1>1, <2>1, <2>2, <2>3, <2>4, <2>5, <2>6 DEF RecurringStep
<1>2. CASE RequestStep
  <2>1. ASSUME NEW s \in Schedules, NEW seconds \in Requests,
               CreateSchedule(s, seconds)
        PROVE  ZeroByOverflow'
    <3>1. StoredInterval(IntervalOf(seconds)) = 0 => seconds * Second > MaxInt
      BY <2>1, ZeroNeedsOverflow, ScheduleAssumption DEF CreateSchedule
    <3> QED BY <2>1, <3>1 DEF CreateSchedule, NewRequest
  <2>2. ASSUME NEW s \in Schedules, DeleteSchedule(s) PROVE ZeroByOverflow'
    BY <2>2 DEF DeleteSchedule, NewRequest
  <2>3. ASSUME NEW s \in Schedules, NEW op \in {"enable", "disable"},
               SetScheduleEnabled(s, op)
        PROVE  ZeroByOverflow'
    BY <2>3 DEF SetScheduleEnabled, NewRequest, TypeOK, Row
  <2>4. ASSUME NEW id \in jobIds, DeleteJob(id) PROVE ZeroByOverflow'
    BY <2>4 DEF DeleteJob, NewRequest
  <2> QED BY <1>2, <2>1, <2>2, <2>3, <2>4 DEF RequestStep
<1>3. CASE Restart
  BY <1>3 DEF Restart, Asleep
<1>4. CASE FaultStep
  BY <1>4 DEF FaultStep, RecurringInsertFails, RecurringTouchFails, Failing,
              NextDue, AfterTouch, TypeOK, Recurring
<1>5. CASE Tick \/ UNCHANGED vars
  BY <1>5 DEF Tick, vars
<1> QED BY <1>1, <1>2, <1>3, <1>4, <1>5 DEF Next

\* The process panics only over an interval_seconds that overflowed int64.
THEOREM PanicsOnlyByOverflow == Spec => []PanicNeedsOverflow
<1>1. Init => TypeOK /\ RoundBounded /\ ZeroByOverflow
  BY InitTyped DEF Init, Asleep, ZeroByOverflow
<1>2. TypeOK /\ RoundBounded /\ ZeroByOverflow /\ [Next]_vars
        => (TypeOK /\ RoundBounded /\ ZeroByOverflow)'
  BY NextTyped, ZeroNext
<1>3. ZeroByOverflow => PanicNeedsOverflow
  BY DEF ZeroByOverflow, Overflowed, PanicNeedsOverflow
<1> QED BY <1>1, <1>2, <1>3, PTL DEF Spec

-----------------------------------------------------------------------------
(* No interval is lost.  In its one life a schedule keeps its interval, only *)
(* its own firings move last_run, and whatever the round holds of it agrees  *)
(* with its row.                                                             *)

Last(s) == IF fired[s] = <<>> THEN NeverRun ELSE fired[s][Len(fired[s])]

FiringOf(s) == Firing /\ recurring.cur = s

TouchIsDue(s) == (recurring.pc = "touch" /\ recurring.cur = s) \/ crashes > 0

InOrder(log, interval) ==
    \A k \in 2 .. Len(log) :
        \/ log[k] = log[k - 1] + interval
        \/ log[k] = log[k - 1] /\ crashes > 0

HasJobs(s) == \E t \in Int : <<s, t>> \in jobIds

Unborn(s) ==
    births[s] = 0 => /\ s \notin DOMAIN schedules /\ fired[s] = <<>>
                     /\ ~Waiting(s) /\ ~FiringOf(s) /\ ~HasJobs(s)

Tracked(s, interval, lastRun) ==
    /\ \A c \in recurring.due :
         c.id = s => c.interval = interval /\ c.lastRun = lastRun
    /\ FiringOf(s) => /\ recurring.interval = interval /\ interval > 0
                      /\ recurring.runAt = lastRun + interval
    /\ FiringOf(s) /\ recurring.pc = "touch" => Last(s) = recurring.runAt
    /\ \/ lastRun = Last(s)
       \/ TouchIsDue(s) /\ lastRun = Last(s) - interval
    /\ InOrder(fired[s], interval)
    /\ fired[s] # <<>> => interval > 0
    /\ fired[s] = <<>> => ~HasJobs(s)
    /\ \A t \in Int : <<s, t>> \in jobIds => t <= Last(s)

TrackedRow(s) == Tracked(s, schedules[s].interval, schedules[s].lastRun)

History == \A s \in Schedules : Unborn(s) /\ (s \in OneLife => TrackedRow(s))

\* A step that leaves the row, the log, the jobs and the round's copies of s
\* alone keeps its history.
LEMMA TrackedKept ==
    ASSUME NEW s \in Schedules, NEW interval, NEW lastRun,
           Tracked(s, interval, lastRun), fired'[s] = fired[s],
           crashes' = crashes, jobIds' \subseteq jobIds,
           recurring'.due \subseteq recurring.due, ~FiringOf(s)', ~FiringOf(s)
    PROVE  Tracked(s, interval, lastRun)'
<1>1. Last(s)' = Last(s)
  BY DEF Last
<1>2. InOrder(fired[s], interval)'
  BY DEF Tracked, InOrder
<1>3. HasJobs(s)' => HasJobs(s)
  BY DEF HasJobs
<1>4. TouchIsDue(s) => TouchIsDue(s)'
  BY DEF TouchIsDue, FiringOf, Firing
<1> QED BY <1>1, <1>2, <1>3, <1>4 DEF Tracked

LEMMA HistoryInit == Init => History
<1> SUFFICES ASSUME Init, NEW s \in Schedules PROVE Unborn(s) /\ s \notin OneLife
  BY DEF History
<1> QED BY DEF Init, Unborn, OneLife, Waiting, FiringOf, Firing, Asleep, HasJobs

LEMMA HistoryBegin ==
    ASSUME TypeOK, History, RecurringBegin
    PROVE  History'
<1>1. recurring'.due = DueSchedules(now) /\ recurring'.pc = "next" /\ ~Firing
      /\ UNCHANGED <<schedules, jobIds, fired, births, crashes>>
  BY DEF RecurringBegin, TypeOK, Recurring, Firing, tableVars, historyVars
<1>2. \A c \in recurring'.due :
         /\ c.id \in DOMAIN schedules
         /\ c.interval = schedules[c.id].interval
         /\ c.lastRun = schedules[c.id].lastRun
  BY <1>1 DEF DueSchedules, CopyOf
<1>3. ASSUME NEW s \in Schedules PROVE Unborn(s)'
  BY <1>1, <1>2 DEF History, Unborn, Waiting, FiringOf, Firing, HasJobs
<1>4. ASSUME NEW s \in Schedules, s \in OneLife' PROVE TrackedRow(s)'
  <2>1. TrackedRow(s)
    BY <1>1, <1>4 DEF History, OneLife
  <2>2. ~Firing' /\ Last(s)' = Last(s) /\ (HasJobs(s)' <=> HasJobs(s))
        /\ TouchIsDue(s)' = (crashes > 0) /\ TouchIsDue(s) = (crashes > 0)
    BY <1>1 DEF Firing, Last, HasJobs, TouchIsDue
  <2> QED BY <1>1, <1>2, <2>1, <2>2 DEF TrackedRow, Tracked, FiringOf, InOrder
<1> QED BY <1>3, <1>4 DEF History

LEMMA HistoryNext ==
    ASSUME TypeOK, RoundBounded, AllSpent, History, RecurringNext
    PROVE  History'
<1>1. PICK c \in recurring.due :
        /\ c.interval # 0
        /\ recurring' = [pc |-> "insert", due |-> recurring.due \ {c},
                         cur |-> c.id, interval |-> c.interval,
                         runs |-> Clamped(MissedRuns(c, now)), runAt |-> NextRun(c)]
  BY DEF RecurringNext
<1>2. ~Firing /\ UNCHANGED <<schedules, jobIds, fired, births, crashes>>
  BY DEF RecurringNext, Firing, historyVars, tableVars
<1>3. c \in Copy /\ recurring'.due \subseteq recurring.due
  BY <1>1 DEF TypeOK, Recurring
<1>4. ASSUME NEW s \in Schedules PROVE Unborn(s)'
  <2>1. Waiting(s)' \/ FiringOf(s)' => Waiting(s)
    BY <1>1 DEF Waiting, FiringOf
  <2> QED BY <1>2, <2>1 DEF History, Unborn, HasJobs
<1>5. ASSUME NEW s \in Schedules, s \in OneLife' PROVE TrackedRow(s)'
  <2>1. TrackedRow(s)
    BY <1>2, <1>5 DEF History, OneLife
  <2>2. CASE s # c.id
    BY <1>1, <1>2, <1>3, <2>1, <2>2, TrackedKept DEF TrackedRow, FiringOf
  <2>3. CASE s = c.id
    <3>1. /\ c.interval = schedules[s].interval /\ c.lastRun = schedules[s].lastRun
      BY <2>1, <2>3 DEF TrackedRow, Tracked
    <3>2. Last(s)' = Last(s) /\ (HasJobs(s)' <=> HasJobs(s))
          /\ TouchIsDue(s)' = (crashes > 0) /\ TouchIsDue(s) = (crashes > 0)
      BY <1>1, <1>2 DEF Firing, Last, HasJobs, TouchIsDue
    <3>3. recurring'.interval = c.interval /\ c.interval > 0
          /\ recurring'.runAt = c.lastRun + c.interval /\ recurring'.pc = "insert"
      BY <1>1, <1>3 DEF NextRun, Copy
    <3> QED BY <1>2, <1>3, <2>1, <3>1, <3>2, <3>3
            DEF TrackedRow, Tracked, FiringOf, InOrder
  <2> QED BY <2>2, <2>3
<1> QED BY <1>4, <1>5 DEF History

LEMMA HistoryInsert ==
    ASSUME TypeOK, RoundBounded, AllSpent, History, RecurringInsert
    PROVE  History'
<1>0a. PICK s \in Schedules : s = recurring.cur
  BY DEF TypeOK, Recurring
<1>0b. PICK t \in Int : t = recurring.runAt
  BY DEF TypeOK, Recurring
<1>1. recurring.pc = "insert" /\ s \in Schedules /\ t \in Int /\ FiringOf(s)
      /\ UNCHANGED <<schedules, births, crashes>>
      /\ recurring'.due = recurring.due /\ recurring'.cur = s
      /\ recurring'.runAt = t /\ recurring'.interval = recurring.interval
  BY <1>0a, <1>0b DEF RecurringInsert, NextDue, TypeOK, Recurring, FiringOf, Firing
<1>2. \/ recurring'.pc = "next" /\ jobIds' = jobIds /\ fired' = fired
      \/ /\ recurring'.pc = "touch" /\ jobIds' = jobIds \cup {<<s, t>>}
         /\ fired' = [fired EXCEPT ![s] = Append(@, t)]
  BY <1>0a, <1>0b DEF RecurringInsert, NextDue, Slot, TypeOK, Recurring
<1>3. \A u \in Schedules : FiringOf(u)' => u = s
  BY <1>1 DEF FiringOf
<1>4. \A u \in Schedules : Waiting(u)' <=> Waiting(u)
  BY <1>1 DEF Waiting
<1>5. births[s] # 0
  BY <1>1 DEF History, Unborn
<1>6. ASSUME NEW u \in Schedules, u # s
      PROVE  /\ fired'[u] = fired[u] /\ (HasJobs(u)' <=> HasJobs(u))
             /\ ~FiringOf(u) /\ ~FiringOf(u)'
             /\ \A x \in Int : <<u, x>> \in jobIds' <=> <<u, x>> \in jobIds
  BY <1>1, <1>2, <1>3, <1>6 DEF HasJobs, FiringOf, TypeOK
<1>7. ASSUME NEW u \in Schedules PROVE Unborn(u)'
  BY <1>1, <1>4, <1>5, <1>6 DEF History, Unborn
<1>8. ASSUME NEW u \in Schedules, u \in OneLife', u # s PROVE TrackedRow(u)'
  <2>1. TrackedRow(u)
    BY <1>1, <1>8 DEF History, OneLife
  <2>2. Last(u)' = Last(u) /\ TouchIsDue(u)' = (crashes > 0)
        /\ TouchIsDue(u) = (crashes > 0)
    BY <1>1, <1>6, <1>8 DEF Last, TouchIsDue
  <2> QED BY <1>1, <1>6, <1>8, <2>1, <2>2 DEF TrackedRow, Tracked, InOrder
<1>9. ASSUME s \in OneLife' PROVE TrackedRow(s)'
  <2> DEFINE i == schedules[s].interval
             l == schedules[s].lastRun
             log == fired[s]
  <2>1. TrackedRow(s) /\ s \in DOMAIN schedules
    BY <1>1, <1>9 DEF History, OneLife
  <2>2. i \in Nat /\ i > 0 /\ l \in Int /\ t = l + i /\ recurring.interval = i
    BY <1>0b, <1>1, <2>1 DEF TrackedRow, Tracked, TypeOK, Row
  <2>3. CASE recurring'.pc = "next" /\ jobIds' = jobIds /\ fired' = fired
    <3>1. ~FiringOf(s)' /\ Last(s)' = Last(s) /\ (HasJobs(s)' <=> HasJobs(s))
          /\ TouchIsDue(s)' = (crashes > 0) /\ TouchIsDue(s) = (crashes > 0)
      BY <1>1, <2>3 DEF FiringOf, Firing, Last, HasJobs, TouchIsDue
    <3> QED BY <1>1, <2>1, <2>3, <3>1 DEF TrackedRow, Tracked, InOrder
  <2>4. CASE /\ recurring'.pc = "touch" /\ jobIds' = jobIds \cup {<<s, t>>}
             /\ fired' = [fired EXCEPT ![s] = Append(@, t)]
    <3>1. log \in Seq(Int) /\ fired'[s] = Append(log, t)
      BY <1>1, <2>4 DEF TypeOK
    <3>2. fired'[s] # <<>> /\ Last(s)' = t
      BY <1>1, <3>1 DEF Last
    <3>3. l = Last(s) \/ (crashes > 0 /\ l = Last(s) - i)
      <4>1. TouchIsDue(s) => crashes > 0
        BY <1>1 DEF TouchIsDue
      <4>2. l = Last(s) \/ (TouchIsDue(s) /\ l = Last(s) - i)
        BY <2>1 DEF TrackedRow, Tracked
      <4> QED BY <4>1, <4>2
    <3>4. Last(s) \in Int
      BY <3>1, NeverRunTyped DEF Last
    <3>5. t = Last(s) + i \/ (crashes > 0 /\ t = Last(s))
      BY <2>2, <3>3, <3>4
    <3>6. InOrder(fired[s], i)'
      <4>1. ASSUME NEW k \in 2 .. Len(log) + 1
            PROVE  \/ fired'[s][k] = fired'[s][k - 1] + i
                   \/ fired'[s][k] = fired'[s][k - 1] /\ crashes > 0
        <5>1. CASE k = Len(log) + 1
          <6>1. fired'[s][k] = t /\ fired'[s][k - 1] = log[Len(log)] /\ log # <<>>
            BY <3>1, <5>1
          <6>2. log[Len(log)] = Last(s)
            BY <6>1 DEF Last
          <6> QED BY <3>5, <6>1, <6>2
        <5>2. CASE k \in 2 .. Len(log)
          <6>1. fired'[s][k] = log[k] /\ fired'[s][k - 1] = log[k - 1]
            BY <3>1, <5>2
          <6> QED BY <2>1, <5>2, <6>1 DEF TrackedRow, Tracked, InOrder
        <5> QED BY <3>1, <5>1, <5>2
      <4>2. Len(fired'[s]) = Len(log) + 1
        BY <3>1
      <4> QED BY <1>1, <4>1, <4>2 DEF InOrder
    <3>7. \A x \in Int : <<s, x>> \in jobIds' => x <= Last(s)'
      <4>1. \A x \in Int : <<s, x>> \in jobIds => x <= Last(s)
        BY <2>1 DEF TrackedRow, Tracked
      <4> QED BY <1>1, <2>2, <2>4, <3>2, <3>4, <3>5, <4>1
    <3>8. ~Waiting(s)
      BY <1>1 DEF AllSpent, Spent, FiringOf
    <3>9. TouchIsDue(s)' /\ l = t - i
      BY <1>1, <2>2, <2>4 DEF TouchIsDue
    <3> QED BY <1>1, <2>1, <2>2, <2>4, <3>2, <3>6, <3>7, <3>8, <3>9
            DEF TrackedRow, Tracked, Waiting
  <2> QED BY <1>2, <2>3, <2>4
<1> QED BY <1>7, <1>8, <1>9 DEF History

LEMMA HistoryTouch ==
    ASSUME TypeOK, RoundBounded, AllSpent, Timely, History, RecurringTouch
    PROVE  History'
<1>0a. PICK s \in Schedules : s = recurring.cur
  BY DEF TypeOK, Recurring
<1>0b. PICK t \in Int : t = recurring.runAt
  BY DEF TypeOK, Recurring
<1>1. recurring.pc = "touch" /\ s \in Schedules /\ t \in Int /\ FiringOf(s)
      /\ UNCHANGED <<jobIds, fired, births, crashes>>
      /\ recurring'.due = recurring.due /\ recurring'.cur = s
      /\ recurring'.interval = recurring.interval
  BY <1>0a, <1>0b
     DEF RecurringTouch, AfterTouch, NextDue, TypeOK, Recurring, FiringOf, Firing, historyVars
<1>2. \/ recurring'.pc = "next"
      \/ recurring'.pc = "insert" /\ recurring'.runAt = t + recurring.interval
  BY <1>0a, <1>0b DEF RecurringTouch, AfterTouch, NextDue, TypeOK, Recurring
<1>3. schedules' = IF s \in DOMAIN schedules
                   THEN [schedules EXCEPT ![s].lastRun = t]
                   ELSE schedules
  BY <1>0a, <1>0b, <1>1, SlotFitsWord DEF RecurringTouch, TouchSchedule, FiringOf
<1>4. DOMAIN schedules' = DOMAIN schedules
  BY <1>3
<1>5. ASSUME NEW u \in Schedules
      PROVE  /\ Waiting(u)' <=> Waiting(u)
             /\ HasJobs(u)' <=> HasJobs(u)
             /\ Last(u)' = Last(u)
  <2>1. Waiting(u)' <=> Waiting(u)
    BY <1>1 DEF Waiting
  <2>2. HasJobs(u)' <=> HasJobs(u)
    BY <1>1 DEF HasJobs
  <2>3. Last(u)' = Last(u)
    BY <1>1 DEF Last
  <2> QED BY <2>1, <2>2, <2>3
<1>6. births[s] # 0
  BY <1>1 DEF History, Unborn
<1>7. ASSUME NEW u \in Schedules PROVE Unborn(u)'
  <2>1. FiringOf(u)' => u = s
    BY <1>1 DEF FiringOf
  <2>2. Unborn(u)
    BY DEF History
  <2> QED BY <1>1, <1>4, <1>5, <1>6, <2>1, <2>2 DEF Unborn
<1>8. ASSUME NEW u \in Schedules, u \in OneLife', u # s PROVE TrackedRow(u)'
  <2>1. TrackedRow(u) /\ schedules'[u] = schedules[u]
    BY <1>1, <1>3, <1>4, <1>8 DEF History, OneLife
  <2>2. ~FiringOf(u) /\ ~FiringOf(u)'
    BY <1>1, <1>8 DEF FiringOf
  <2> QED BY <1>1, <2>1, <2>2, TrackedKept DEF TrackedRow
<1>9. ASSUME s \in OneLife' PROVE TrackedRow(s)'
  <2> DEFINE i == schedules[s].interval
  <2>1. TrackedRow(s) /\ s \in DOMAIN schedules
    BY <1>1, <1>4, <1>9 DEF History, OneLife
  <2>2. i > 0 /\ recurring.interval = i /\ Last(s) = t
    BY <1>0b, <1>1, <2>1 DEF TrackedRow, Tracked
  <2>3. schedules'[s].interval = i /\ schedules'[s].lastRun = t
    BY <1>3, <2>1 DEF TypeOK, Row
  <2>4. ~Waiting(s)
    BY <1>1 DEF AllSpent, Spent, FiringOf
  <2>5. FiringOf(s)' => recurring'.pc = "insert" /\ recurring'.runAt = t + i
    BY <1>2, <2>2 DEF FiringOf, Firing
  <2> QED BY <1>1, <1>5, <2>1, <2>2, <2>3, <2>4, <2>5
          DEF TrackedRow, Tracked, Waiting, InOrder
<1> QED BY <1>7, <1>8, <1>9 DEF History

LEMMA HistoryAsleep ==
    ASSUME TypeOK, History, recurring' = Asleep, crashes' \in {crashes, crashes + 1},
           UNCHANGED <<schedules, jobIds, fired, births>>,
           recurring.pc = "next" \/ crashes' = crashes + 1
    PROVE  History'
<1>1. recurring'.due = {} /\ ~Firing'
  BY DEF Asleep, Firing
<1>2. ASSUME NEW s \in Schedules
      PROVE  /\ ~Waiting(s)' /\ ~FiringOf(s)' /\ Last(s)' = Last(s)
             /\ HasJobs(s)' <=> HasJobs(s)
             /\ TouchIsDue(s) => TouchIsDue(s)'
             /\ \A i : InOrder(fired[s], i) => InOrder(fired[s], i)'
  <2>1. ~Waiting(s)' /\ ~FiringOf(s)'
    BY <1>1 DEF Waiting, FiringOf
  <2>2. Last(s)' = Last(s)
    BY DEF Last
  <2>3. HasJobs(s)' <=> HasJobs(s)
    BY DEF HasJobs
  <2>4. crashes > 0 => crashes' > 0
    BY DEF TypeOK
  <2>5. TouchIsDue(s) => TouchIsDue(s)'
    BY <2>4 DEF TouchIsDue, TypeOK
  <2>6. ASSUME NEW i, InOrder(fired[s], i) PROVE InOrder(fired[s], i)'
    BY <2>4, <2>6 DEF InOrder
  <2> QED BY <2>1, <2>2, <2>3, <2>5, <2>6
<1>3. ASSUME NEW s \in Schedules PROVE Unborn(s)'
  BY <1>2 DEF History, Unborn
<1>4. ASSUME NEW s \in Schedules, s \in OneLife' PROVE TrackedRow(s)'
  <2>1. TrackedRow(s)
    BY <1>4 DEF History, OneLife
  <2> QED BY <1>1, <1>2, <2>1 DEF TrackedRow, Tracked
<1> QED BY <1>3, <1>4 DEF History

\* What a request may do to the row of s and its count of births.
RequestMoves(s) ==
    \/ births[s] = 0 /\ births'[s] = 1 /\ schedules'[s].lastRun = NeverRun
    \/ births'[s] > 1
    \/ births'[s] = births[s] /\ s \notin DOMAIN schedules'
    \/ /\ births'[s] = births[s]
       /\ s \in DOMAIN schedules /\ s \in DOMAIN schedules'
       /\ schedules'[s].interval = schedules[s].interval
       /\ schedules'[s].lastRun = schedules[s].lastRun

LEMMA HistoryRequest ==
    ASSUME TypeOK, History, RequestStep
    PROVE  History'
<1>1. UNCHANGED <<recurring, fired, crashes>>
  BY DEF RequestStep, CreateSchedule, DeleteSchedule, SetScheduleEnabled,
         DeleteJob, NewRequest
<1>2. jobIds' \subseteq jobIds
  BY DEF RequestStep, CreateSchedule, DeleteSchedule, SetScheduleEnabled,
         DeleteJob, NewRequest
<1>3. ASSUME NEW s \in Schedules
      PROVE  /\ (Waiting(s)' <=> Waiting(s)) /\ (FiringOf(s)' <=> FiringOf(s))
             /\ Last(s)' = Last(s) /\ (HasJobs(s)' => HasJobs(s))
             /\ TouchIsDue(s)' = TouchIsDue(s)
  BY <1>1, <1>2 DEF Waiting, FiringOf, Firing, Last, HasJobs, TouchIsDue
<1>4. ASSUME NEW s \in Schedules, NEW interval, NEW lastRun,
             Tracked(s, interval, lastRun)
      PROVE  Tracked(s, interval, lastRun)'
  BY <1>1, <1>2, <1>3, <1>4 DEF Tracked, InOrder
<1>5. ASSUME NEW s \in Schedules PROVE RequestMoves(s)
  <2> USE DEF RequestMoves
  <2>1. ASSUME NEW u \in Schedules, NEW seconds \in Requests,
               CreateSchedule(u, seconds)
        PROVE  RequestMoves(s)
    <3>1. CASE u = s
      <4>1. births'[s] = births[s] + 1 /\ schedules'[s].lastRun = NeverRun
            /\ births[s] \in Nat
        BY <2>1, <3>1 DEF CreateSchedule, TypeOK
      <4> QED BY <4>1
    <3>2. CASE u # s
      BY <2>1, <3>2 DEF CreateSchedule, TypeOK
    <3> QED BY <3>1, <3>2
  <2>2. ASSUME NEW u \in Schedules, DeleteSchedule(u)
        PROVE  RequestMoves(s)
    BY <2>2 DEF DeleteSchedule
  <2>3. ASSUME NEW u \in Schedules, NEW op \in {"enable", "disable"},
               SetScheduleEnabled(u, op)
        PROVE  RequestMoves(s)
    BY <2>3 DEF SetScheduleEnabled, TypeOK, Row
  <2>4. ASSUME NEW id \in jobIds, DeleteJob(id)
        PROVE  RequestMoves(s)
    BY <2>4 DEF DeleteJob
  <2> QED BY <2>1, <2>2, <2>3, <2>4 DEF RequestStep
<1>6. ASSUME NEW s \in Schedules PROVE Unborn(s)'
  <2>1. Unborn(s) /\ births[s] \in Nat
    BY DEF History, TypeOK
  <2> QED BY <1>1, <1>3, <1>5, <2>1 DEF Unborn, RequestMoves
<1>7. ASSUME NEW s \in Schedules, s \in OneLife' PROVE TrackedRow(s)'
  <2>1. births'[s] = 1 /\ s \in DOMAIN schedules'
    BY <1>7 DEF OneLife
  <2>2. CASE births[s] = 0 /\ schedules'[s].lastRun = NeverRun
    <3>1. fired[s] = <<>> /\ ~Waiting(s) /\ ~FiringOf(s) /\ ~HasJobs(s)
      BY <2>2 DEF History, Unborn
    <3>2. Last(s)' = NeverRun
      BY <1>1, <3>1 DEF Last
    <3>3. InOrder(fired[s], schedules[s].interval)'
      BY <1>1, <3>1 DEF InOrder
    <3> QED BY <1>1, <1>2, <1>3, <2>2, <3>1, <3>2, <3>3
            DEF TrackedRow, Tracked, Waiting, HasJobs
  <2>3. CASE /\ births'[s] = births[s] /\ s \in DOMAIN schedules
             /\ schedules'[s].interval = schedules[s].interval
             /\ schedules'[s].lastRun = schedules[s].lastRun
    <3>1. TrackedRow(s)
      BY <2>1, <2>3 DEF History, OneLife
    <3> QED BY <1>4, <2>3, <3>1 DEF TrackedRow
  <2> QED BY <1>5, <2>1, <2>2, <2>3 DEF RequestMoves
<1> QED BY <1>6, <1>7 DEF History

LEMMA HistoryInsertFails ==
    ASSUME TypeOK, History, RecurringInsertFails
    PROVE  History'
<1>1. recurring.pc = "insert" /\ recurring'.pc = "next" /\ recurring'.due = recurring.due
      /\ UNCHANGED <<schedules, jobIds, fired, births, crashes>>
  BY DEF RecurringInsertFails, Failing, NextDue, TypeOK, Recurring, tableVars, historyVars
<1>2. ASSUME NEW s \in Schedules
      PROVE  /\ ~FiringOf(s)' /\ (Waiting(s)' <=> Waiting(s)) /\ Last(s)' = Last(s)
             /\ (HasJobs(s)' <=> HasJobs(s))
             /\ TouchIsDue(s)' = (crashes > 0) /\ TouchIsDue(s) = (crashes > 0)
  BY <1>1 DEF FiringOf, Firing, Waiting, Last, HasJobs, TouchIsDue
<1>3. ASSUME NEW s \in Schedules PROVE Unborn(s)'
  BY <1>1, <1>2 DEF History, Unborn
<1>4. ASSUME NEW s \in Schedules, s \in OneLife' PROVE TrackedRow(s)'
  <2>1. TrackedRow(s)
    BY <1>1, <1>4 DEF History, OneLife
  <2> QED BY <1>1, <1>2, <2>1 DEF TrackedRow, Tracked, InOrder
<1> QED BY <1>3, <1>4 DEF History

\* The history of a schedule is kept as long as no TouchSchedule fails.
TouchesKept == faults["touch"] = 0 => History

LEMMA HistoryStep ==
    TypeOK /\ RoundBounded /\ AllSpent /\ Timely /\ TouchesKept /\ [Next]_vars
      => TouchesKept'
<1> SUFFICES ASSUME TypeOK, RoundBounded, AllSpent, Timely, TouchesKept, [Next]_vars,
                    faults'["touch"] = 0
             PROVE  History'
  BY DEF TouchesKept
<1>0. History /\ ~RecurringTouchFails
  <2>1. faults["touch"] \in Nat
    BY DEF TypeOK
  <2>2. ~RecurringTouchFails
    BY <2>1 DEF RecurringTouchFails, Failing, TypeOK
  <2>3. CASE faults' = faults
    BY <2>2, <2>3 DEF TouchesKept
  <2>4. CASE RecurringInsertFails
    BY <2>2, <2>4 DEF RecurringInsertFails, Failing, TouchesKept, TypeOK
  <2>5. faults' = faults \/ FaultStep
    BY DEF Next, RecurringStep, RecurringBegin, RecurringNext, RecurringPanic,
           RecurringDone, RecurringInsert, RecurringTouch, RequestStep, CreateSchedule,
           DeleteSchedule, SetScheduleEnabled, DeleteJob, NewRequest, Restart, Tick, vars
  <2> QED BY <2>2, <2>3, <2>4, <2>5 DEF FaultStep
<1>1. CASE RecurringStep
  <2>1. CASE RecurringPanic \/ RecurringDone
    BY <1>0, <2>1, HistoryAsleep
       DEF RecurringPanic, RecurringDone, tableVars, historyVars
  <2> QED BY <1>0, <1>1, <2>1, HistoryBegin, HistoryNext, HistoryInsert, HistoryTouch
          DEF RecurringStep
<1>2. CASE RequestStep
  BY <1>0, <1>2, HistoryRequest
<1>3. CASE Restart
  BY <1>0, <1>3, HistoryAsleep DEF Restart, tableVars, historyVars
<1>4. CASE Tick \/ UNCHANGED vars
  BY <1>0, <1>4 DEF Tick, vars, tableVars, historyVars, History, Unborn, OneLife, TrackedRow,
              Tracked, InOrder, Waiting, FiringOf, Firing, Last, HasJobs, TouchIsDue
<1>5. CASE FaultStep
  BY <1>0, <1>5, HistoryInsertFails DEF FaultStep
<1> QED BY <1>1, <1>2, <1>3, <1>4, <1>5 DEF Next

HistoryInv == TypeOK /\ RoundBounded /\ AllSpent /\ Timely /\ TouchesKept

LEMMA HistoryInvariant == Spec => []HistoryInv
<1>1. Init => HistoryInv
  BY InitTyped, SpentInit, TimelyInit, HistoryInit DEF HistoryInv, TouchesKept
<1>2. HistoryInv /\ [Next]_vars => HistoryInv'
  BY NextTyped, SpentNext, TimelyNext, HistoryStep DEF HistoryInv
<1> QED BY <1>1, <1>2, PTL DEF Spec

\* As long as no TouchSchedule fails, and wherever a crash or a failed insert falls,
\* the slots of a schedule are enqueued in order, none is skipped, and last_run
\* trails the last one by at most one interval.
THEOREM IntervalsAreKept == Spec => []NoIntervalLost
<1>1. HistoryInv => NoIntervalLost
  <2> SUFFICES ASSUME HistoryInv, faults["touch"] = 0, NEW s \in OneLife
               PROVE  /\ InOrder(fired[s], schedules[s].interval)
                      /\ \/ schedules[s].lastRun = Last(s)
                         \/ /\ TouchIsDue(s)
                            /\ schedules[s].lastRun = Last(s) - schedules[s].interval
    BY DEF NoIntervalLost, InOrder, Last, TouchIsDue
  <2> QED BY DEF HistoryInv, TouchesKept, History, OneLife, TypeOK, TrackedRow, Tracked
<1> QED BY <1>1, HistoryInvariant, PTL

\* A schedule is blocked by a job of its own only while its TouchSchedule is under
\* way, after a crash or after a TouchSchedule that failed.
THEOREM BlocksComeFromLostTouches == Spec => []BlockedOnlyByLostTouch
<1>1. HistoryInv => BlockedOnlyByLostTouch
  <2> SUFFICES ASSUME HistoryInv, faults["touch"] = 0, NEW s \in OneLife, Blocked(s),
                      ~TouchIsDue(s)
               PROVE  FALSE
    BY DEF BlockedOnlyByLostTouch, TouchIsDue, HistoryInv, TypeOK
  <2> DEFINE i == schedules[s].interval
             l == schedules[s].lastRun
  <2>1. TrackedRow(s) /\ s \in Schedules /\ i \in Nat /\ l \in Int
    BY DEF HistoryInv, TouchesKept, History, OneLife, TypeOK, Row
  <2>2. l = Last(s)
    BY <2>1 DEF TrackedRow, Tracked
  <2>3. <<s, l + i>> \in jobIds /\ l + i \in Int
    BY <2>1 DEF Blocked
  <2>4. fired[s] # <<>>
    BY <2>1, <2>3 DEF TrackedRow, Tracked, HasJobs
  <2>5. i > 0 /\ l + i <= Last(s)
    BY <2>1, <2>3, <2>4 DEF TrackedRow, Tracked
  <2> QED BY <2>1, <2>2, <2>5
<1> QED BY <1>1, HistoryInvariant, PTL
=============================================================================
