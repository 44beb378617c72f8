--------------------------- MODULE PoolOnlyProofs ---------------------------
(***************************************************************************)
(* Theorems about JobSched while the pool alone rewrites rows: requests    *)
(* insert jobs, pause and resume queues, flush, and lose their clients,    *)
(* and nothing else.  Any number of flushes, goroutines, jobs, requests,   *)
(* failing calls and restarts.                                             *)
(***************************************************************************)
EXTENDS JobSchedProofs

PoolOnly == Ops \subseteq {"create", "pause", "flush", "disconnect"}

-----------------------------------------------------------------------------
(* The inductive invariant. *)

\* A copy that was scanned before the row was claimed, and possibly long ago.
Behind(c, table) ==
    /\ Exists(table[c.id])
    /\ c.row.state \in {"pending", "scheduled"}
    /\ c.row.attempts <= table[c.id].attempts

\* The copy's row is due, or out of reach, or has failed since the scan.
DueOrStale(c, table, at) ==
    /\ Behind(c, table)
    /\ \/ c.row.attempts < table[c.id].attempts
       \/ table[c.id].state # "pending"
       \/ table[c.id].runAt <= at

FlusherFine(x, table, at) ==
    /\ \A c \in x.rest : DueOrStale(c, table, at)
    /\ x.pc = "claim" => DueOrStale(x.cur, table, at)
    /\ x.pc \in {"register", "acquire"} => Behind(x.cur, table)

WorkerFine(x, table) ==
    x.pc \in {"start", "handle", "record", "count", "settle"} =>
        /\ Behind(x.copy, table)
        /\ x.pc = "settle" /\ x.failed /\ ~x.willRetry
             => x.copy.row.attempts + 1 >= MaxAttemptsOf[x.copy.id]

CopiesInv ==
    /\ \A f \in Flushers : FlusherFine(flusher[f], jobs, now)
    /\ \A w \in Workers : WorkerFine(worker[w], jobs)

Exclusive ==
    \A j \in Jobs :
        /\ \A f, g \in Flushers : ClaimedByFlusher(f, j) /\ ClaimedByFlusher(g, j) => f = g
        /\ \A v, w \in Workers : ClaimedByWorker(v, j) /\ ClaimedByWorker(w, j) => v = w
        /\ \A f \in Flushers, w \in Workers :
             ~(ClaimedByFlusher(f, j) /\ ClaimedByWorker(w, j))
        /\ j \in Held => jobs[j].state = "running"

ClientsInsert == \A c \in Clients : client[c].pc \in {"idle", "create"}

PoolInv == PoolOnly /\ ClientsInsert /\ Exclusive /\ CopiesInv

-----------------------------------------------------------------------------
(* What a step may do to the rows and to the claims on them. *)

Quiet == jobs' = jobs /\ Held' = Held

Inserts(j, row) ==
    /\ ~Exists(jobs[j])
    /\ row.state = "pending" /\ row.attempts = 0
    /\ jobs' = [jobs EXCEPT ![j] = row]
    /\ Held' = Held

Claims(f, j) ==
    /\ flusher[f].pc = "claim" /\ flusher[f].cur.id = j
    /\ Claimable(j)
    /\ jobs' = [jobs EXCEPT ![j] = [jobs[j] EXCEPT !.state = "running"]]
    /\ Held' = Held \cup {j}

Outcome(j, row) ==
    \/ row.state = "succeeded" /\ row.attempts = jobs[j].attempts
    \/ row.state = "pending" /\ row.attempts = jobs[j].attempts + 1
    \/ /\ row.state = "dead" /\ row.attempts = jobs[j].attempts + 1
       /\ row.attempts >= MaxAttemptsOf[j]

Settles(j, row) ==
    /\ j \in Held
    /\ jobs' = [jobs EXCEPT ![j] = row]
    /\ Outcome(j, row)
    /\ Held' = Held \ {j}

Loses(j) == j \in Held /\ jobs' = jobs /\ Held' = Held \ {j}

Recovers ==
    /\ jobs' = RecoverInterrupted(RecoverOnOpen(jobs, now), now)
    /\ Held' = {}

Effect ==
    \/ Quiet
    \/ \E f \in Flushers, j \in Jobs : Claims(f, j)
    \/ \E j \in Jobs : Loses(j) \/ \E row \in Row : Inserts(j, row) \/ Settles(j, row)
    \/ Recovers

-----------------------------------------------------------------------------
(* Copies stay fine while rows only advance. *)

Advances(old, new) ==
    \A j \in Jobs : Exists(old[j]) =>
        /\ Exists(new[j])
        /\ old[j].attempts <= new[j].attempts
        /\ new[j].state = "pending" => \/ new[j] = old[j]
                                       \/ old[j].attempts < new[j].attempts

LEMMA CopyKept ==
    ASSUME NEW old \in [Jobs -> Row], NEW new \in [Jobs -> Row], Advances(old, new),
           NEW at \in Nat, NEW later \in Nat, at <= later, NEW c \in Copy
    PROVE  /\ Behind(c, old) => Behind(c, new)
           /\ DueOrStale(c, old, at) => DueOrStale(c, new, later)
<1>1. /\ c.id \in Jobs /\ c.row.attempts \in Nat
      /\ old[c.id].attempts \in Nat /\ new[c.id].attempts \in Nat
      /\ old[c.id].runAt \in Nat /\ new[c.id].runAt \in Nat
  BY DEF Copy, Row
<1> QED BY <1>1 DEF Behind, DueOrStale, Advances

LEMMA FineKept ==
    ASSUME NEW old \in [Jobs -> Row], NEW new \in [Jobs -> Row], Advances(old, new),
           NEW at \in Nat, NEW later \in Nat, at <= later
    PROVE  /\ \A x \in Flusher : FlusherFine(x, old, at) => FlusherFine(x, new, later)
           /\ \A x \in Worker : WorkerFine(x, old) => WorkerFine(x, new)
<1>1. ASSUME NEW x \in Flusher, FlusherFine(x, old, at)
      PROVE  FlusherFine(x, new, later)
  <2>1. x.cur \in Copy /\ x.rest \subseteq Copy
    BY DEF Flusher
  <2> QED BY <1>1, <2>1, CopyKept DEF FlusherFine
<1>2. ASSUME NEW x \in Worker, WorkerFine(x, old) PROVE WorkerFine(x, new)
  <2>1. x.copy \in Copy
    BY DEF Worker
  <2> QED BY <1>2, <2>1, CopyKept DEF WorkerFine
<1> QED BY <1>1, <1>2

\* Enough that the flushers and goroutines a step touches are fine afterwards.
LEMMA CopiesKept ==
    ASSUME TypeOK, TypeOK', CopiesInv, Advances(jobs, jobs'), now <= now',
           \A f \in Flushers : \/ flusher'[f] = flusher[f]
                               \/ FlusherFine(flusher'[f], jobs', now'),
           \A w \in Workers : \/ worker'[w] = worker[w]
                              \/ WorkerFine(worker'[w], jobs')
    PROVE  CopiesInv'
<1>0. /\ jobs \in [Jobs -> Row] /\ jobs' \in [Jobs -> Row]
      /\ now \in Nat /\ now' \in Nat
      /\ \A f \in Flushers : flusher[f] \in Flusher
      /\ \A w \in Workers : worker[w] \in Worker
  BY DEF TypeOK, StoreTypeOK, PoolTypeOK
<1>1. /\ \A x \in Flusher : FlusherFine(x, jobs, now) => FlusherFine(x, jobs', now')
      /\ \A x \in Worker : WorkerFine(x, jobs) => WorkerFine(x, jobs')
  BY <1>0, FineKept
<1>2. ASSUME NEW f \in Flushers PROVE FlusherFine(flusher'[f], jobs', now')
  BY <1>0, <1>1 DEF CopiesInv
<1>3. ASSUME NEW w \in Workers PROVE WorkerFine(worker'[w], jobs')
  BY <1>0, <1>1 DEF CopiesInv
<1> QED BY <1>2, <1>3 DEF CopiesInv

LEMMA SameRowsAdvance == ASSUME TypeOK, jobs' = jobs PROVE Advances(jobs, jobs')
<1>1. \A j \in Jobs : jobs[j].attempts \in Nat
  BY DEF TypeOK, StoreTypeOK, Row
<1> QED BY <1>1 DEF Advances

\* A step that changes neither rows nor anybody's copy.
LEMMA CopiesUnmoved ==
    ASSUME TypeOK, TypeOK', CopiesInv, jobs' = jobs, now <= now',
           \A f \in Flushers : /\ flusher'[f].pc = flusher[f].pc
                               /\ flusher'[f].cur = flusher[f].cur
                               /\ flusher'[f].rest = flusher[f].rest,
           \A w \in Workers : /\ worker'[w].pc = worker[w].pc
                              /\ worker'[w].copy = worker[w].copy
                              /\ worker'[w].failed = worker[w].failed
                              /\ worker'[w].willRetry = worker[w].willRetry
    PROVE  CopiesInv'
<1>0. /\ jobs \in [Jobs -> Row] /\ now \in Nat /\ now' \in Nat
      /\ \A f \in Flushers : flusher[f] \in Flusher
      /\ \A w \in Workers : worker[w] \in Worker
  BY DEF TypeOK, StoreTypeOK, PoolTypeOK
<1>1. /\ \A x \in Flusher : FlusherFine(x, jobs, now) => FlusherFine(x, jobs, now')
      /\ \A x \in Worker : WorkerFine(x, jobs) => WorkerFine(x, jobs)
  BY <1>0, FineKept, SameRowsAdvance
<1>2. ASSUME NEW f \in Flushers PROVE FlusherFine(flusher'[f], jobs', now')
  <2>1. FlusherFine(flusher[f], jobs, now')
    BY <1>0, <1>1 DEF CopiesInv
  <2> QED BY <2>1 DEF FlusherFine
<1>3. ASSUME NEW w \in Workers PROVE WorkerFine(worker'[w], jobs')
  BY DEF CopiesInv, WorkerFine
<1> QED BY <1>2, <1>3 DEF CopiesInv

-----------------------------------------------------------------------------
(* Claims. *)

LEMMA HeldRuns == ASSUME PoolInv PROVE \A j \in Held : j \in Jobs /\ jobs[j].state = "running"
BY DEF PoolInv, Exclusive, Held

\* Claims only end, and a row that leaves running is no longer claimed.
LEMMA ExclusiveKept ==
    ASSUME Exclusive,
           \A f \in Flushers, j \in Jobs : ClaimedByFlusher(f, j)' => ClaimedByFlusher(f, j),
           \A w \in Workers, j \in Jobs : ClaimedByWorker(w, j)' => ClaimedByWorker(w, j),
           \A j \in Held' : jobs'[j].state = jobs[j].state
    PROVE  Exclusive' /\ Held' \subseteq Held
<1>1. Held' \subseteq Held
  BY DEF Held
<1> QED BY <1>1 DEF Exclusive

LEMMA HeldKept ==
    ASSUME \A f \in Flushers, j \in Jobs : ClaimedByFlusher(f, j)' <=> ClaimedByFlusher(f, j),
           \A w \in Workers, j \in Jobs : ClaimedByWorker(w, j)' <=> ClaimedByWorker(w, j)
    PROVE  Held' = Held
BY DEF Held

\* A step that leaves the rows alone and moves nobody in or out of a claim.
LEMMA NothingMoved ==
    ASSUME TypeOK, TypeOK', PoolInv, jobs' = jobs, now <= now', client' = client,
           \A f \in Flushers : /\ flusher'[f].pc = flusher[f].pc
                               /\ flusher'[f].cur = flusher[f].cur
                               /\ flusher'[f].rest = flusher[f].rest,
           \A w \in Workers : /\ worker'[w].pc = worker[w].pc
                              /\ worker'[w].copy = worker[w].copy
                              /\ worker'[w].failed = worker[w].failed
                              /\ worker'[w].willRetry = worker[w].willRetry
    PROVE  PoolInv' /\ Quiet
<1>1. CopiesInv'
  BY CopiesUnmoved DEF PoolInv
<1>2. /\ \A f \in Flushers, j \in Jobs : ClaimedByFlusher(f, j)' <=> ClaimedByFlusher(f, j)
      /\ \A w \in Workers, j \in Jobs : ClaimedByWorker(w, j)' <=> ClaimedByWorker(w, j)
  BY DEF ClaimedByFlusher, ClaimedByWorker
<1>3. Held' = Held /\ Exclusive'
  BY <1>2, HeldKept, ExclusiveKept DEF PoolInv
<1> QED BY <1>1, <1>3 DEF PoolInv, PoolOnly, ClientsInsert, Quiet

LEMMA PoolInvInit == PoolOnly /\ Init => PoolInv
<1> SUFFICES ASSUME PoolOnly, Init PROVE PoolInv
  OBVIOUS
<1>1. ClientsInsert
  BY DEF Init, ApiInit, IdleClient, ClientsInsert
<1>2. Exclusive
  BY DEF Init, PoolInit, IdleFlusher, IdleWorker, Exclusive, Held, ClaimedByFlusher,
     ClaimedByWorker
<1>3. CopiesInv
  BY DEF Init, PoolInit, IdleFlusher, IdleWorker, CopiesInv, FlusherFine, WorkerFine
<1> QED BY <1>1, <1>2, <1>3 DEF PoolInv

-----------------------------------------------------------------------------
(* Flush. *)

LEMMA ScanFine ==
    ASSUME TypeOK, NEW limit, NEW c \in ScanDue(limit, now)
    PROVE  DueOrStale(c, jobs, now)
<1>1. PICK j \in Jobs : c = CopyOf(j) /\ IsDue(jobs[j], now)
  BY DEF ScanDue
<1>2. jobs[j].attempts \in Nat
  BY DEF TypeOK, StoreTypeOK, Row
<1> QED BY <1>1, <1>2 DEF CopyOf, IsDue, DueOrStale, Behind, Exists

\* ScanDue returns one copy of each row, as the row is.
LEMMA ScanFresh ==
    ASSUME TypeOK, PoolInv, NEW limit
    PROVE  /\ \A c \in ScanDue(limit, now) :
                c.id \notin Held /\ c.row.attempts = jobs[c.id].attempts
           /\ \A c, d \in ScanDue(limit, now) : c.id = d.id => c = d
<1>1. \A c \in ScanDue(limit, now) : \E j \in Jobs : c = CopyOf(j) /\ IsDue(jobs[j], now)
  BY DEF ScanDue
<1> QED BY <1>1, HeldRuns DEF CopyOf, IsDue

\* A flush moves on without taking or dropping a claim.
LEMMA FlusherMoved ==
    ASSUME TypeOK, TypeOK', PoolInv, NEW f \in Flushers,
           UNCHANGED <<jobs, now, worker, client>>,
           \A g \in Flushers \ {f} : flusher'[g] = flusher[g],
           FlusherFine(flusher'[f], jobs, now),
           \A j \in Jobs : ClaimedByFlusher(f, j)' <=> ClaimedByFlusher(f, j)
    PROVE  PoolInv' /\ Quiet
<1>0. now \in Nat
  BY DEF TypeOK, StoreTypeOK
<1>1. CopiesInv'
  BY <1>0, SameRowsAdvance, CopiesKept DEF PoolInv
<1>2. /\ \A g \in Flushers, j \in Jobs : ClaimedByFlusher(g, j)' <=> ClaimedByFlusher(g, j)
      /\ \A w \in Workers, j \in Jobs : ClaimedByWorker(w, j)' <=> ClaimedByWorker(w, j)
  BY DEF ClaimedByFlusher, ClaimedByWorker
<1>3. Held' = Held /\ Exclusive'
  BY <1>2, HeldKept, ExclusiveKept DEF PoolInv
<1> QED BY <1>1, <1>3 DEF PoolInv, PoolOnly, ClientsInsert, Quiet

\* A flush gives up the claim it holds.
LEMMA ClaimDropped ==
    ASSUME TypeOK, TypeOK', PoolInv, NEW f \in Flushers,
           UNCHANGED <<jobs, now, worker, client>>,
           \A g \in Flushers \ {f} : flusher'[g] = flusher[g],
           flusher[f].pc \in {"register", "acquire"}, flusher'[f].pc = "check",
           flusher'[f].rest \subseteq flusher[f].rest
    PROVE  PoolInv' /\ Loses(flusher[f].cur.id)
<1> DEFINE id == flusher[f].cur.id
<1>0. now \in Nat /\ id \in Jobs
  BY DEF TypeOK, StoreTypeOK, PoolTypeOK, Flusher, Copy
<1>1. CopiesInv'
  <2>1. FlusherFine(flusher'[f], jobs, now)
    BY DEF PoolInv, CopiesInv, FlusherFine
  <2> QED BY <1>0, <2>1, SameRowsAdvance, CopiesKept DEF PoolInv
<1>2. /\ ClaimedByFlusher(f, id)
      /\ \A j \in Jobs : ClaimedByFlusher(f, j) => j = id
      /\ \A j \in Jobs : ~ClaimedByFlusher(f, j)'
      /\ \A g \in Flushers \ {f}, j \in Jobs :
           ClaimedByFlusher(g, j)' <=> ClaimedByFlusher(g, j)
      /\ \A w \in Workers, j \in Jobs : ClaimedByWorker(w, j)' <=> ClaimedByWorker(w, j)
  BY DEF ClaimedByFlusher, ClaimedByWorker
<1>3. Exclusive'
  BY <1>2, ExclusiveKept DEF PoolInv
<1>4. id \in Held
  BY <1>0, <1>2 DEF Held
<1>5. Held' = Held \ {id}
  <2>1. id \notin Held'
    BY <1>0, <1>2 DEF Held, PoolInv, Exclusive
  <2>2. \A j \in Jobs \ {id} : j \in Held' <=> j \in Held
    BY <1>2 DEF Held
  <2>3. Held \subseteq Jobs /\ Held' \subseteq Jobs
    BY DEF Held
  <2> QED BY <2>1, <2>2, <2>3
<1> QED BY <1>1, <1>3, <1>4, <1>5 DEF PoolInv, PoolOnly, ClientsInsert, Loses

LEMMA BeginEffect ==
    ASSUME TypeOK, TypeOK', PoolInv, NEW f \in Flushers, FlushBegin(f), client' = client
    PROVE  PoolInv' /\ Quiet
<1>0. flusher \in [Flushers -> Flusher]
  BY DEF TypeOK, PoolTypeOK
<1>1. /\ flusher[f].pc = "idle" /\ flusher'[f].pc = "check"
      /\ flusher'[f].rest = ScanDue(ScanSize, now)
      /\ \A g \in Flushers \ {f} : flusher'[g] = flusher[g]
      /\ UNCHANGED <<jobs, now, worker>>
  BY <1>0 DEF FlushBegin, Flusher, storeVars
<1>2. FlusherFine(flusher'[f], jobs, now)
  BY <1>1, ScanFine DEF FlusherFine
<1>3. \A j \in Jobs : ClaimedByFlusher(f, j)' <=> ClaimedByFlusher(f, j)
  BY <1>1 DEF ClaimedByFlusher
<1> QED BY <1>1, <1>2, <1>3, FlusherMoved

\* The claim of a row, and with it a new holder.
LEMMA ClaimEffect ==
    ASSUME TypeOK, TypeOK', PoolInv, NEW f \in Flushers, FlushClaim(f), client' = client
    PROVE  PoolInv' /\ Effect
<1> DEFINE id == flusher[f].cur.id
<1>0. /\ flusher \in [Flushers -> Flusher] /\ flusher' \in [Flushers -> Flusher]
      /\ jobs \in [Jobs -> Row] /\ now \in Nat
      /\ id \in Jobs
      /\ flusher[f].pc = "claim" /\ worker' = worker
  BY DEF TypeOK, StoreTypeOK, PoolTypeOK, Flusher, Copy, FlushClaim
<1>1. \A j \in Jobs : ~ClaimedByFlusher(f, j)
  BY <1>0 DEF ClaimedByFlusher
<1>2. DueOrStale(flusher[f].cur, jobs, now)
  BY <1>0 DEF PoolInv, CopiesInv, FlusherFine
<1>3. CASE ~Claimable(id)
  <2>1. UNCHANGED <<jobs, now>> /\ flusher' = NextCopy(f)
    BY <1>3 DEF FlushClaim, Claim, NoRowMatches, storeVars
  <2>2. /\ flusher'[f].pc = "check" /\ flusher'[f].rest = flusher[f].rest
        /\ \A g \in Flushers \ {f} : flusher'[g] = flusher[g]
    BY <1>0, <2>1 DEF NextCopy, Flusher
  <2>3. FlusherFine(flusher'[f], jobs, now)
    BY <2>2 DEF PoolInv, CopiesInv, FlusherFine
  <2>4. \A j \in Jobs : ClaimedByFlusher(f, j)' <=> ClaimedByFlusher(f, j)
    BY <1>1, <2>2 DEF ClaimedByFlusher
  <2> QED BY <1>0, <2>1, <2>2, <2>3, <2>4, FlusherMoved DEF Effect
<1>4. CASE Claimable(id)
  <2>1. /\ jobs' = [jobs EXCEPT ![id] = [jobs[id] EXCEPT !.state = "running"]]
        /\ now' = now
        /\ flusher' = [flusher EXCEPT ![f].pc = "register"]
    BY <1>4 DEF FlushClaim, Claim, SetRow
  <2>2. /\ flusher'[f].pc = "register" /\ flusher'[f].rest = flusher[f].rest
        /\ flusher'[f].cur = flusher[f].cur
        /\ \A g \in Flushers \ {f} : flusher'[g] = flusher[g]
    BY <1>0, <2>1 DEF Flusher
  <2>3. /\ jobs'[id].state = "running" /\ jobs'[id].attempts = jobs[id].attempts
        /\ jobs'[id].runAt = jobs[id].runAt
        /\ \A j \in Jobs \ {id} : jobs'[j] = jobs[j]
    BY <1>0, <2>1 DEF Row
  <2>4. Advances(jobs, jobs')
    BY <1>0, <2>3 DEF Advances, Row, Exists
  <2>5. CopiesInv'
    <3>1. FlusherFine(flusher[f], jobs, now) /\ flusher[f] \in Flusher
          /\ flusher[f].cur \in Copy
      BY <1>0 DEF PoolInv, CopiesInv, Flusher
    <3>2. FlusherFine(flusher[f], jobs', now)
      <4>1. jobs' \in [Jobs -> Row]
        BY DEF TypeOK, StoreTypeOK
      <4> QED BY <1>0, <2>4, <3>1, <4>1, FineKept
    <3>3. FlusherFine(flusher'[f], jobs', now)
      <4>1. Behind(flusher[f].cur, jobs')
        BY <1>0, <3>2 DEF FlusherFine, DueOrStale
      <4> QED BY <2>2, <3>2, <4>1 DEF FlusherFine
    <3>4. /\ now' = now /\ now <= now' /\ CopiesInv
          /\ \A w \in Workers : worker'[w] = worker[w]
      BY <1>0, <2>1 DEF PoolInv
    <3>5. ASSUME NEW g \in Flushers
          PROVE  flusher'[g] = flusher[g] \/ FlusherFine(flusher'[g], jobs', now')
      BY <2>2, <3>3, <3>4
    <3> QED BY <2>4, <3>4, <3>5, CopiesKept
  <2>6. id \notin Held
    <3>1. jobs[id].state # "running"
      BY <1>4 DEF Claimable
    <3> QED BY <3>1, HeldRuns
  <2>7. /\ \A j \in Jobs : ClaimedByFlusher(f, j)' <=> j = id
        /\ \A g \in Flushers \ {f}, j \in Jobs :
             ClaimedByFlusher(g, j)' <=> ClaimedByFlusher(g, j)
        /\ \A w \in Workers, j \in Jobs : ClaimedByWorker(w, j)' <=> ClaimedByWorker(w, j)
    BY <1>0, <2>2 DEF ClaimedByFlusher, ClaimedByWorker
  <2>8. Held' = Held \cup {id}
    <3>1. \A j \in Jobs : j \in Held' <=> j \in Held \/ j = id
      BY <1>1, <2>7 DEF Held
    <3>2. Held' \subseteq Jobs /\ Held \subseteq Jobs
      BY DEF Held
    <3> QED BY <1>0, <3>1, <3>2
  <2>9. Exclusive'
    <3>1. ASSUME NEW j \in Jobs
          PROVE  /\ \A g, h \in Flushers :
                      ClaimedByFlusher(g, j)' /\ ClaimedByFlusher(h, j)' => g = h
                 /\ \A v, w \in Workers :
                      ClaimedByWorker(v, j)' /\ ClaimedByWorker(w, j)' => v = w
                 /\ \A g \in Flushers, w \in Workers :
                      ~(ClaimedByFlusher(g, j)' /\ ClaimedByWorker(w, j)')
                 /\ j \in Held' => jobs'[j].state = "running"
      <4>1. CASE j = id
        <5>1. /\ \A g \in Flushers : ~ClaimedByFlusher(g, j)
              /\ \A w \in Workers : ~ClaimedByWorker(w, j)
          BY <2>6, <4>1 DEF Held
        <5> QED BY <2>3, <2>7, <4>1, <5>1
      <4>2. CASE j # id
        BY <1>1, <2>3, <2>7, <2>8, <4>2 DEF PoolInv, Exclusive
      <4> QED BY <4>1, <4>2
    <3> QED BY <3>1 DEF Exclusive
  <2>10. Claims(f, id)
    BY <1>0, <1>4, <2>1, <2>8 DEF Claims
  <2>11. Effect
    BY <1>0, <2>10 DEF Effect
  <2> QED BY <2>5, <2>9, <2>11 DEF PoolInv, PoolOnly, ClientsInsert
<1> QED BY <1>3, <1>4

\* The claim passes from the flush to the goroutine it starts.
LEMMA DispatchEffect ==
    ASSUME TypeOK, TypeOK', PoolInv, NEW f \in Flushers, FlushDispatch(f), client' = client
    PROVE  PoolInv' /\ Quiet
<1> DEFINE id == flusher[f].cur.id
<1>0. /\ flusher \in [Flushers -> Flusher] /\ worker \in [Workers -> Worker]
      /\ now \in Nat /\ id \in Jobs
      /\ UNCHANGED <<jobs, now>> /\ flusher[f].pc = "acquire"
  BY DEF TypeOK, StoreTypeOK, PoolTypeOK, Flusher, Copy, FlushDispatch, storeVars
<1>1. PICK w \in Workers :
        worker[w].pc = "idle" /\ worker' = [worker EXCEPT ![w] = Started(f)]
  BY DEF FlushDispatch
<1>2. /\ worker'[w].pc = "start" /\ worker'[w].copy = flusher[f].cur
      /\ \A v \in Workers \ {w} : worker'[v] = worker[v]
  BY <1>0, <1>1, StartedTyped
<1>3. /\ flusher'[f].pc = "check" /\ flusher'[f].rest = flusher[f].rest
      /\ \A g \in Flushers \ {f} : flusher'[g] = flusher[g]
  BY <1>0 DEF FlushDispatch, NextCopy, Flusher
<1>4. CopiesInv'
  <2>1. FlusherFine(flusher[f], jobs, now)
    BY DEF PoolInv, CopiesInv
  <2>2. FlusherFine(flusher'[f], jobs, now)
    BY <1>3, <2>1 DEF FlusherFine
  <2>3. WorkerFine(worker'[w], jobs)
    BY <1>0, <1>2, <2>1 DEF FlusherFine, WorkerFine
  <2>4. /\ jobs' = jobs /\ now' = now /\ now <= now' /\ CopiesInv
        /\ Advances(jobs, jobs')
    BY <1>0, SameRowsAdvance DEF PoolInv
  <2>5. ASSUME NEW g \in Flushers
        PROVE  flusher'[g] = flusher[g] \/ FlusherFine(flusher'[g], jobs', now')
    BY <1>3, <2>2, <2>4
  <2>6. ASSUME NEW v \in Workers
        PROVE  worker'[v] = worker[v] \/ WorkerFine(worker'[v], jobs')
    BY <1>2, <2>3, <2>4
  <2> QED BY <2>4, <2>5, <2>6, CopiesKept
<1>5. /\ \A j \in Jobs : ClaimedByFlusher(f, j) <=> j = id
      /\ \A j \in Jobs : ~ClaimedByFlusher(f, j)'
      /\ \A g \in Flushers \ {f}, j \in Jobs :
           ClaimedByFlusher(g, j)' <=> ClaimedByFlusher(g, j)
      /\ \A j \in Jobs : ~ClaimedByWorker(w, j)
      /\ \A j \in Jobs : ClaimedByWorker(w, j)' <=> j = id
      /\ \A v \in Workers \ {w}, j \in Jobs :
           ClaimedByWorker(v, j)' <=> ClaimedByWorker(v, j)
  BY <1>0, <1>1, <1>2, <1>3 DEF ClaimedByFlusher, ClaimedByWorker
<1>6. Held' = Held
  <2>1. \A j \in Jobs : j \in Held' <=> j \in Held
    BY <1>5 DEF Held
  <2>2. Held' \subseteq Jobs /\ Held \subseteq Jobs
    BY DEF Held
  <2> QED BY <2>1, <2>2
<1>7. Exclusive'
  <2>1. ASSUME NEW j \in Jobs
        PROVE  /\ \A g, h \in Flushers :
                    ClaimedByFlusher(g, j)' /\ ClaimedByFlusher(h, j)' => g = h
               /\ \A u, v \in Workers :
                    ClaimedByWorker(u, j)' /\ ClaimedByWorker(v, j)' => u = v
               /\ \A g \in Flushers, v \in Workers :
                    ~(ClaimedByFlusher(g, j)' /\ ClaimedByWorker(v, j)')
               /\ j \in Held' => jobs'[j].state = "running"
    <3>1. /\ \A g, h \in Flushers : ClaimedByFlusher(g, j) /\ ClaimedByFlusher(h, j) => g = h
          /\ \A u, v \in Workers : ClaimedByWorker(u, j) /\ ClaimedByWorker(v, j) => u = v
          /\ \A g \in Flushers, v \in Workers :
               ~(ClaimedByFlusher(g, j) /\ ClaimedByWorker(v, j))
          /\ j \in Held => jobs[j].state = "running"
      BY DEF PoolInv, Exclusive
    <3>2. CASE j = id
      BY <1>0, <1>5, <1>6, <3>1, <3>2
    <3>3. CASE j # id
      BY <1>0, <1>5, <1>6, <3>1, <3>3
    <3> QED BY <3>2, <3>3
  <2> QED BY <2>1 DEF Exclusive
<1> QED BY <1>0, <1>4, <1>6, <1>7 DEF PoolInv, PoolOnly, ClientsInsert, Quiet

LEMMA FlushEffect ==
    ASSUME TypeOK, TypeOK', PoolInv, NEW f \in Flushers, FlushStep(f), client' = client
    PROVE  PoolInv' /\ Effect
<1>0. /\ flusher \in [Flushers -> Flusher] /\ worker \in [Workers -> Worker]
      /\ now \in Nat /\ flusher[f].cur.id \in Jobs
      /\ FlusherFine(flusher[f], jobs, now)
  BY DEF TypeOK, StoreTypeOK, PoolTypeOK, Flusher, Copy, PoolInv, CopiesInv
<1>1. CASE FlushCheck(f)
  <2>1. PICK c \in flusher[f].rest :
          flusher' = IF IsPaused(QueueOf[c.id])
                     THEN [flusher EXCEPT ![f].rest = @ \ {c}]
                     ELSE [flusher EXCEPT ![f].rest = @ \ {c}, ![f].pc = "claim",
                                          ![f].cur = c]
    BY <1>1 DEF FlushCheck
  <2>2. flusher[f].pc = "check" /\ UNCHANGED <<jobs, now, worker>>
    BY <1>1 DEF FlushCheck, storeVars
  <2>3. /\ flusher'[f].rest = flusher[f].rest \ {c}
        /\ \/ flusher'[f].pc = "check"
           \/ flusher'[f].pc = "claim" /\ flusher'[f].cur = c
        /\ \A g \in Flushers \ {f} : flusher'[g] = flusher[g]
    <3>1. CASE IsPaused(QueueOf[c.id])
      <4>1. flusher' = [flusher EXCEPT ![f].rest = @ \ {c}]
        BY <2>1, <3>1
      <4> QED BY <1>0, <2>2, <4>1 DEF Flusher
    <3>2. CASE ~IsPaused(QueueOf[c.id])
      <4>1. flusher' = [flusher EXCEPT ![f].rest = @ \ {c}, ![f].pc = "claim",
                                       ![f].cur = c]
        BY <2>1, <3>2
      <4> QED BY <1>0, <4>1 DEF Flusher
    <3> QED BY <3>1, <3>2
  <2>4. FlusherFine(flusher'[f], jobs, now)
    BY <1>0, <2>1, <2>3 DEF FlusherFine
  <2>5. \A j \in Jobs : ClaimedByFlusher(f, j)' <=> ClaimedByFlusher(f, j)
    BY <2>2, <2>3 DEF ClaimedByFlusher
  <2> QED BY <2>2, <2>3, <2>4, <2>5, FlusherMoved DEF Effect
<1>2. CASE FlushClaim(f)
  BY <1>2, ClaimEffect
<1>3. CASE FlushRegister(f)
  <2>1. flusher[f].pc = "register" /\ UNCHANGED <<jobs, now, worker>>
    BY <1>3 DEF FlushRegister, storeVars
  <2>2. CASE IsActive(flusher[f].cur.id)
    <3>1. flusher' = NextCopy(f)
      BY <1>3, <2>2 DEF FlushRegister
    <3>2. /\ flusher'[f].pc = "check" /\ flusher'[f].rest = flusher[f].rest
          /\ \A g \in Flushers \ {f} : flusher'[g] = flusher[g]
      BY <1>0, <3>1 DEF NextCopy, Flusher
    <3> QED BY <1>0, <2>1, <3>2, ClaimDropped DEF Effect
  <2>3. CASE ~IsActive(flusher[f].cur.id)
    <3>1. flusher' = [flusher EXCEPT ![f].pc = "acquire"]
      BY <1>3, <2>3 DEF FlushRegister
    <3>2. /\ flusher'[f].pc = "acquire" /\ flusher'[f].rest = flusher[f].rest
          /\ flusher'[f].cur = flusher[f].cur
          /\ \A g \in Flushers \ {f} : flusher'[g] = flusher[g]
      BY <1>0, <3>1 DEF Flusher
    <3>3. FlusherFine(flusher'[f], jobs, now)
      BY <1>0, <2>1, <3>2 DEF FlusherFine
    <3>4. \A j \in Jobs : ClaimedByFlusher(f, j)' <=> ClaimedByFlusher(f, j)
      BY <2>1, <3>2 DEF ClaimedByFlusher
    <3> QED BY <2>1, <3>2, <3>3, <3>4, FlusherMoved DEF Effect
  <2> QED BY <2>2, <2>3
<1>4. CASE FlushDispatch(f)
  BY <1>4, DispatchEffect DEF Effect
<1>5. CASE FlushAbort(f)
  <2>1. /\ flusher[f].pc = "acquire" /\ UNCHANGED <<jobs, now, worker>>
        /\ flusher'[f].pc = "check" /\ flusher'[f].rest = {}
        /\ \A g \in Flushers \ {f} : flusher'[g] = flusher[g]
    BY <1>0, <1>5 DEF FlushAbort, storeVars, Flusher
  <2> QED BY <1>0, <2>1, ClaimDropped DEF Effect
<1>6. CASE FlushReturn(f)
  <2>1. /\ UNCHANGED <<jobs, now>> /\ flusher[f].pc = "check"
        /\ flusher'[f] = IdleFlusher
        /\ \A g \in Flushers \ {f} : flusher'[g] = flusher[g]
    BY <1>0, <1>6 DEF FlushReturn, storeVars
  <2>2. \A w \in Workers : /\ worker'[w].pc = worker[w].pc
                           /\ worker'[w].copy = worker[w].copy
                           /\ worker'[w].failed = worker[w].failed
                           /\ worker'[w].willRetry = worker[w].willRetry
    BY <1>0, <1>6 DEF FlushReturn, CancelChildren, Worker
  <2>3. CopiesInv'
    <3>1. /\ jobs' = jobs /\ now' = now /\ now <= now' /\ CopiesInv
          /\ Advances(jobs, jobs')
      BY <1>0, <2>1, SameRowsAdvance DEF PoolInv
    <3>2. ASSUME NEW g \in Flushers
          PROVE  flusher'[g] = flusher[g] \/ FlusherFine(flusher'[g], jobs', now')
      BY <2>1 DEF FlusherFine, IdleFlusher
    <3>3. ASSUME NEW w \in Workers
          PROVE  worker'[w] = worker[w] \/ WorkerFine(worker'[w], jobs')
      <4>1. WorkerFine(worker[w], jobs)
        BY <3>1 DEF CopiesInv
      <4> QED BY <2>2, <3>1, <4>1 DEF WorkerFine
    <3> QED BY <3>1, <3>2, <3>3, CopiesKept
  <2>4. /\ \A g \in Flushers, j \in Jobs : ClaimedByFlusher(g, j)' <=> ClaimedByFlusher(g, j)
        /\ \A w \in Workers, j \in Jobs : ClaimedByWorker(w, j)' <=> ClaimedByWorker(w, j)
    BY <2>1, <2>2 DEF ClaimedByFlusher, ClaimedByWorker, IdleFlusher
  <2>5. Held' = Held /\ Exclusive'
    BY <2>1, <2>4, HeldKept, ExclusiveKept DEF PoolInv
  <2> QED BY <2>1, <2>3, <2>5 DEF PoolInv, PoolOnly, ClientsInsert, Quiet, Effect
<1> QED BY <1>1, <1>2, <1>3, <1>4, <1>5, <1>6 DEF FlushStep

-----------------------------------------------------------------------------
(* The goroutine of a job. *)

\* A goroutine moves on and keeps its claim, or has none.
LEMMA WorkerMoved ==
    ASSUME TypeOK, TypeOK', PoolInv, NEW w \in Workers,
           UNCHANGED <<jobs, now, flusher, client>>,
           \A v \in Workers \ {w} : worker'[v] = worker[v],
           WorkerFine(worker'[w], jobs),
           \A j \in Jobs : ClaimedByWorker(w, j)' <=> ClaimedByWorker(w, j)
    PROVE  PoolInv' /\ Quiet
<1>0. now \in Nat
  BY DEF TypeOK, StoreTypeOK
<1>1. CopiesInv'
  BY <1>0, SameRowsAdvance, CopiesKept DEF PoolInv
<1>2. /\ \A f \in Flushers, j \in Jobs : ClaimedByFlusher(f, j)' <=> ClaimedByFlusher(f, j)
      /\ \A v \in Workers, j \in Jobs : ClaimedByWorker(v, j)' <=> ClaimedByWorker(v, j)
  BY DEF ClaimedByFlusher, ClaimedByWorker
<1>3. Held' = Held /\ Exclusive'
  BY <1>2, HeldKept, ExclusiveKept DEF PoolInv
<1> QED BY <1>1, <1>3 DEF PoolInv, PoolOnly, ClientsInsert, Quiet

\* A goroutine ends its claim, whatever that does to its own row.
LEMMA ClaimEnded ==
    ASSUME TypeOK, TypeOK', PoolInv, NEW w \in Workers,
           UNCHANGED <<now, flusher, client>>,
           \A v \in Workers \ {w} : worker'[v] = worker[v],
           worker[w].pc = "settle", worker'[w].pc = "teardown",
           \A j \in Jobs \ {worker[w].copy.id} : jobs'[j] = jobs[j],
           Advances(jobs, jobs')
    PROVE  /\ PoolInv'
           /\ worker[w].copy.id \in Held
           /\ Held' = Held \ {worker[w].copy.id}
<1> DEFINE id == worker[w].copy.id
<1>0. now \in Nat /\ id \in Jobs
  BY DEF TypeOK, StoreTypeOK, PoolTypeOK, Worker, Copy
<1>1. CopiesInv'
  <2>1. WorkerFine(worker'[w], jobs')
    BY DEF WorkerFine
  <2> QED BY <1>0, <2>1, CopiesKept DEF PoolInv
<1>2. /\ ClaimedByWorker(w, id)
      /\ \A j \in Jobs : ClaimedByWorker(w, j) => j = id
      /\ \A j \in Jobs : ~ClaimedByWorker(w, j)'
      /\ \A f \in Flushers, j \in Jobs : ClaimedByFlusher(f, j)' <=> ClaimedByFlusher(f, j)
      /\ \A v \in Workers \ {w}, j \in Jobs :
           ClaimedByWorker(v, j)' <=> ClaimedByWorker(v, j)
  BY DEF ClaimedByFlusher, ClaimedByWorker
<1>3. id \in Held
  BY <1>0, <1>2 DEF Held
<1>4. id \notin Held'
  BY <1>0, <1>2 DEF Held, PoolInv, Exclusive
<1>5. Held' = Held \ {id}
  <2>1. \A j \in Jobs \ {id} : j \in Held' <=> j \in Held
    BY <1>2 DEF Held
  <2>2. Held \subseteq Jobs /\ Held' \subseteq Jobs
    BY DEF Held
  <2> QED BY <1>4, <2>1, <2>2
<1>6. Exclusive'
  <2>1. \A j \in Held' : jobs'[j].state = jobs[j].state
    <3>1. Held' \subseteq Jobs
      BY DEF Held
    <3> QED BY <1>4, <3>1
  <2> QED BY <1>2, <2>1, ExclusiveKept DEF PoolInv
<1> QED BY <1>1, <1>3, <1>5, <1>6 DEF PoolInv, PoolOnly, ClientsInsert

\* finish decides on a burial only for a copy whose attempts are used up.
LEMMA CountMoves ==
    ASSUME TypeOK, TypeOK', PoolInv, NEW w \in Workers, WorkerCount(w), client' = client
    PROVE  PoolInv' /\ Quiet
<1> DEFINE c == worker[w].copy
           retry == worker[w].failed /\ WillRetry(c)
<1>0. /\ worker \in [Workers -> Worker] /\ c \in Copy
      /\ c.row.attempts \in Nat /\ MaxAttemptsOf[c.id] \in Nat
      /\ WorkerFine(worker[w], jobs)
      /\ worker[w].pc = "count" /\ UNCHANGED <<jobs, now, flusher>>
  BY StoreAssumption DEF TypeOK, StoreTypeOK, PoolTypeOK, Worker, Copy, Row, PoolInv,
     CopiesInv, WorkerCount, storeVars
<1>1. PICK n : worker' = [worker EXCEPT ![w].pc = "settle", ![w].willRetry = retry,
                                        ![w].next = n]
  BY DEF WorkerCount
<1> HIDE DEF retry
<1>2. /\ worker'[w].pc = "settle" /\ worker'[w].copy = c
      /\ worker'[w].failed = worker[w].failed /\ worker'[w].willRetry = retry
      /\ \A v \in Workers \ {w} : worker'[v] = worker[v]
  BY <1>0, <1>1 DEF Worker
<1>3. WorkerFine(worker'[w], jobs)
  <2>1. Behind(c, jobs)
    BY <1>0 DEF WorkerFine
  <2>2. ASSUME worker[w].failed, ~retry PROVE c.row.attempts + 1 >= MaxAttemptsOf[c.id]
    <3>1. ~WillRetry(c)
      BY <2>2 DEF retry
    <3>2. ~IsTerminal(c.row.state)
      BY <2>1 DEF Behind, IsTerminal
    <3> QED BY <1>0, <3>1, <3>2 DEF WillRetry, Retryable
  <2> QED BY <1>2, <2>1, <2>2 DEF WorkerFine
<1>4. \A j \in Jobs : ClaimedByWorker(w, j)' <=> ClaimedByWorker(w, j)
  BY <1>0, <1>2 DEF ClaimedByWorker
<1> QED BY <1>0, <1>2, <1>3, <1>4, WorkerMoved

\* The claim ends with the outcome of the execution.
LEMMA SettleEffect ==
    ASSUME TypeOK, TypeOK', PoolInv, NEW w \in Workers, WorkerSettle(w), client' = client
    PROVE  PoolInv' /\ \E j \in Jobs, row \in Row : Settles(j, row)
<1> DEFINE id == worker[w].copy.id
           row == jobs'[id]
<1>0. /\ worker \in [Workers -> Worker] /\ jobs \in [Jobs -> Row] /\ jobs' \in [Jobs -> Row]
      /\ id \in Jobs /\ worker[w].copy.row.attempts \in Nat
      /\ jobs[id].attempts \in Nat /\ MaxAttemptsOf[id] \in Nat
      /\ WorkerFine(worker[w], jobs)
      /\ worker[w].pc = "settle" /\ flusher' = flusher
  BY StoreAssumption DEF TypeOK, StoreTypeOK, PoolTypeOK, Worker, Copy, Row, PoolInv,
     CopiesInv, WorkerSettle
<1>1. /\ worker'[w].pc = "teardown"
      /\ \A v \in Workers \ {w} : worker'[v] = worker[v]
  BY <1>0 DEF WorkerSettle, Worker
<1>2. jobs[id].state = "running" /\ Exists(jobs[id])
  <2>1. id \in Held
    BY <1>0 DEF Held, ClaimedByWorker
  <2> QED BY <2>1, HeldRuns DEF Exists
<1>3. /\ now' = now /\ jobs' = [jobs EXCEPT ![id] = row]
      /\ Outcome(id, row) /\ (row.state = "pending" => jobs[id].attempts < row.attempts)
      /\ jobs[id].attempts <= row.attempts
  <2>1. CASE worker[w].failed
    <3>1. Fail(id, worker[w].willRetry, worker[w].next)
      BY <2>1 DEF WorkerSettle
    <3> DEFINE new == [state    |-> IF worker[w].willRetry THEN "pending" ELSE "dead",
                       runAt    |-> IF worker[w].willRetry THEN worker[w].next
                                                           ELSE jobs[id].runAt,
                       attempts |-> jobs[id].attempts + 1]
    <3>2. jobs' = [jobs EXCEPT ![id] = new] /\ now' = now
      BY <1>2, <3>1 DEF Fail, SetRow
    <3>3. row = new
      BY <1>0, <3>2
    <3>4. ~worker[w].willRetry => jobs[id].attempts + 1 >= MaxAttemptsOf[id]
      BY <1>0, <2>1 DEF WorkerFine, Behind
    <3>5. /\ row.attempts = jobs[id].attempts + 1
          /\ row.state = IF worker[w].willRetry THEN "pending" ELSE "dead"
      BY <3>3
    <3> HIDE DEF new, row
    <3>6. jobs' = [jobs EXCEPT ![id] = row] /\ now' = now
      BY <3>2, <3>3
    <3> QED BY <1>0, <3>4, <3>5, <3>6 DEF Outcome
  <2>2. CASE ~worker[w].failed
    <3>1. Succeed(id)
      BY <2>2 DEF WorkerSettle
    <3> DEFINE new == [jobs[id] EXCEPT !.state = "succeeded"]
    <3>2. jobs' = [jobs EXCEPT ![id] = new] /\ now' = now
      BY <1>2, <3>1 DEF Succeed, SetRow
    <3>3. row = new
      BY <1>0, <3>2
    <3>4. row.attempts = jobs[id].attempts /\ row.state = "succeeded"
      BY <1>0, <3>3 DEF Row
    <3> HIDE DEF new, row
    <3>5. jobs' = [jobs EXCEPT ![id] = row] /\ now' = now
      BY <3>2, <3>3
    <3> QED BY <1>0, <3>4, <3>5 DEF Outcome
  <2> QED BY <2>1, <2>2
<1>4. \A j \in Jobs \ {id} : jobs'[j] = jobs[j]
  BY <1>0, <1>3
<1>5. Advances(jobs, jobs')
  BY <1>0, <1>3, <1>4 DEF Advances, Row, Outcome, Exists
<1>6. PoolInv' /\ id \in Held /\ Held' = Held \ {id}
  BY <1>0, <1>1, <1>3, <1>4, <1>5, ClaimEnded
<1>7. row \in Row
  BY <1>0
<1> QED BY <1>0, <1>3, <1>6, <1>7 DEF Settles

LEMMA WorkerEffect ==
    ASSUME TypeOK, TypeOK', PoolInv, NEW w \in Workers, WorkerStep(w), client' = client
    PROVE  PoolInv' /\ Effect
<1>0. worker \in [Workers -> Worker] /\ WorkerFine(worker[w], jobs)
  BY DEF TypeOK, PoolTypeOK, PoolInv, CopiesInv
<1>1. ASSUME UNCHANGED <<jobs, now, flusher>>,
             \A v \in Workers \ {w} : worker'[v] = worker[v],
             \/ /\ worker[w].pc = "start" /\ worker'[w].pc = "handle"
                /\ worker'[w].copy = worker[w].copy
             \/ /\ worker[w].pc = "handle" /\ worker'[w].pc = "record"
                /\ worker'[w].copy = worker[w].copy
             \/ /\ worker[w].pc = "record" /\ worker'[w].pc = "count"
                /\ worker'[w].copy = worker[w].copy
             \/ worker[w].pc = "teardown" /\ worker'[w].pc = "release"
             \/ worker[w].pc = "release" /\ worker'[w].pc = "idle"
      PROVE  PoolInv' /\ Effect
  <2>1. WorkerFine(worker'[w], jobs)
    BY <1>0, <1>1 DEF WorkerFine
  <2>2. \A j \in Jobs : ClaimedByWorker(w, j)' <=> ClaimedByWorker(w, j)
    BY <1>1 DEF ClaimedByWorker
  <2> QED BY <1>1, <2>1, <2>2, WorkerMoved DEF Effect
<1>2. CASE WorkerStart(w)
  BY <1>0, <1>1, <1>2 DEF WorkerStart, storeVars, Worker
<1>3. CASE WorkerHandle(w)
  <2>1. PICK failed : worker' = [worker EXCEPT ![w].pc = "record", ![w].failed = failed]
    BY <1>3, Zenon DEF WorkerHandle
  <2>2. /\ worker'[w].pc = "record" /\ worker'[w].copy = worker[w].copy
        /\ \A v \in Workers \ {w} : worker'[v] = worker[v]
    BY <1>0, <2>1 DEF Worker
  <2>3. worker[w].pc = "handle" /\ UNCHANGED <<jobs, now, flusher>>
    BY <1>3 DEF WorkerHandle, storeVars
  <2> QED BY <1>1, <2>2, <2>3
<1>4. CASE WorkerRecord(w)
  <2>1. worker[w].pc = "record" /\ UNCHANGED <<jobs, now, flusher>>
        /\ worker' = [worker EXCEPT ![w].pc = "count"]
    BY <1>4 DEF WorkerRecord, RecordAttempt
  <2>2. /\ worker'[w].pc = "count" /\ worker'[w].copy = worker[w].copy
        /\ \A v \in Workers \ {w} : worker'[v] = worker[v]
    BY <1>0, <2>1 DEF Worker
  <2> QED BY <1>1, <2>1, <2>2
<1>5. CASE WorkerCount(w)
  BY <1>5, CountMoves DEF Effect
<1>6. CASE WorkerSettle(w)
  BY <1>6, SettleEffect DEF Effect
<1>7. CASE WorkerTeardown(w)
  BY <1>0, <1>1, <1>7 DEF WorkerTeardown, storeVars, Worker
<1>8. CASE WorkerRelease(w)
  BY <1>0, <1>1, <1>8 DEF WorkerRelease, storeVars, IdleWorker
<1> QED BY <1>2, <1>3, <1>4, <1>5, <1>6, <1>7, <1>8 DEF WorkerStep

-----------------------------------------------------------------------------
(* Requests that insert jobs. *)

\* What such a request does to anything but itself: it may insert one row.
ClientMoves(c) ==
    /\ UNCHANGED <<attempts, paused, now, poolVars>>
    /\ \E x \in Client : /\ x.pc \in {"idle", "create"}
                         /\ client' = [client EXCEPT ![c] = x]
    /\ \/ jobs' = jobs
       \/ \E j \in Jobs, row \in Row : Inserts(j, row)

LEMMA ClientMovesOnly ==
    ASSUME TypeOK, TypeOK', PoolInv, NEW c \in Clients, ClientStep(c) \/ ApiCallFails(c)
    PROVE  ClientMoves(c)
<1>0. /\ client[c].pc \in {"idle", "create"}
      /\ Ops \cap {"retry", "cancel", "delete"} = {}
      /\ client \in [Clients -> Client] /\ client' \in [Clients -> Client]
      /\ jobs \in [Jobs -> Row] /\ jobs' \in [Jobs -> Row]
  BY DEF PoolInv, ClientsInsert, PoolOnly, TypeOK, StoreTypeOK, ApiTypeOK
<1>1. ASSUME Reply(c) PROVE \E x \in Client : /\ x.pc \in {"idle", "create"}
                                             /\ client' = [client EXCEPT ![c] = x]
  <2>1. client'[c] = IdleClient
    BY <1>0, <1>1 DEF Reply
  <2>2. IdleClient \in Client /\ IdleClient.pc = "idle"
    BY <1>0, <2>1 DEF IdleClient
  <2> QED BY <1>1, <2>2 DEF Reply
<1>2. CASE ApiCreate(c)
  <2>1. PICK ids \in Batches :
          client' = [client EXCEPT ![c].pc = "create", ![c].todo = ids]
    BY <1>2 DEF ApiCreate
  <2> DEFINE x == [client[c] EXCEPT !.pc = "create", !.todo = ids]
  <2>2. client' = [client EXCEPT ![c] = x] /\ x.pc = "create" /\ client'[c] = x
    BY <1>0, <2>1 DEF Client
  <2>3. x \in Client
    BY <1>0, <2>2
  <2> HIDE DEF x
  <2> QED BY <1>2, <2>2, <2>3 DEF ApiCreate, ClientMoves, storeVars, poolVars
<1>3. CASE ApiInsert(c)
  <2>1. PICK j \in client[c].todo :
          IF Exists(jobs[j])
          THEN /\ NoRowMatches
               /\ Reply(c)
          ELSE /\ \E runAt \in RunAtInputs : CreateJob(j, runAt)
               /\ IF client[c].todo = {j}
                  THEN Reply(c)
                  ELSE client' = [client EXCEPT ![c].todo = @ \ {j}]
    BY <1>3 DEF ApiInsert
  <2>2. j \in Jobs /\ client[c].pc = "create" /\ UNCHANGED poolVars
    BY <1>0, <1>3 DEF Client, ApiInsert
  <2>3. \E x \in Client : /\ x.pc \in {"idle", "create"}
                         /\ client' = [client EXCEPT ![c] = x]
    <3>1. CASE Reply(c)
      BY <1>1, <3>1
    <3>2. CASE client' = [client EXCEPT ![c].todo = @ \ {j}]
      <4> DEFINE x == [client[c] EXCEPT !.todo = @ \ {j}]
      <4>1. client' = [client EXCEPT ![c] = x] /\ x.pc = "create" /\ client'[c] = x
        BY <1>0, <2>2, <3>2 DEF Client
      <4>2. x \in Client
        BY <1>0, <4>1
      <4> HIDE DEF x
      <4> QED BY <4>1, <4>2
    <3> QED BY <2>1, <3>1, <3>2
  <2>4. CASE Exists(jobs[j])
    BY <2>1, <2>2, <2>3, <2>4 DEF NoRowMatches, storeVars, ClientMoves
  <2>5. CASE ~Exists(jobs[j])
    <3>1. PICK runAt \in RunAtInputs : CreateJob(j, runAt)
      BY <2>1, <2>5
    <3> DEFINE row == jobs'[j]
    <3>2. /\ row.state = "pending" /\ row.attempts = 0 /\ row \in Row
          /\ jobs' = [jobs EXCEPT ![j] = row] /\ UNCHANGED <<attempts, paused, now>>
      BY <1>0, <2>2, <3>1 DEF CreateJob, SetRow
    <3> HIDE DEF row
    <3>3. Held' = Held
      BY <2>2 DEF poolVars, Held, ClaimedByFlusher, ClaimedByWorker
    <3>4. Inserts(j, row)
      BY <2>5, <3>2, <3>3 DEF Inserts
    <3> QED BY <2>2, <2>3, <3>2, <3>4 DEF ClientMoves
  <2> QED BY <2>4, <2>5
<1>4. CASE ApiCallFails(c)
  BY <1>1, <1>4 DEF ApiCallFails, ClientMoves, storeVars, poolVars
<1> QED BY <1>0, <1>2, <1>3, <1>4 DEF ClientStep, NewRequest, ApiRetryRead,
       ApiRetryWrite, ApiCancelRead, ApiCancelSignal, ApiCancelWrite,
       ApiDeleteAttempts, ApiDeleteRow

\* Nobody holds a copy or a claim of the row an insert makes.
LEMMA ClientEffect ==
    ASSUME TypeOK, TypeOK', PoolInv, NEW c \in Clients, ClientStep(c) \/ ApiCallFails(c)
    PROVE  PoolInv' /\ Effect
<1>0. /\ client \in [Clients -> Client] /\ jobs \in [Jobs -> Row] /\ now \in Nat
      /\ ClientMoves(c)
  BY ClientMovesOnly DEF TypeOK, StoreTypeOK, ApiTypeOK
<1>1. ClientsInsert' /\ UNCHANGED <<now, flusher, worker>>
  BY <1>0 DEF PoolInv, ClientsInsert, ClientMoves, poolVars
<1>2. /\ \A f \in Flushers, k \in Jobs : ClaimedByFlusher(f, k)' <=> ClaimedByFlusher(f, k)
      /\ \A w \in Workers, k \in Jobs : ClaimedByWorker(w, k)' <=> ClaimedByWorker(w, k)
  BY <1>1 DEF ClaimedByFlusher, ClaimedByWorker
<1>3. Held' = Held
  BY <1>2, HeldKept
<1>4. CASE jobs' = jobs
  <2>1. CopiesInv'
    BY <1>0, <1>1, <1>4, CopiesUnmoved DEF PoolInv
  <2>2. Exclusive'
    BY <1>2, <1>4, ExclusiveKept DEF PoolInv
  <2> QED BY <1>1, <1>3, <1>4, <2>1, <2>2 DEF PoolInv, PoolOnly, Effect, Quiet
<1>5. ASSUME NEW j \in Jobs, NEW row \in Row, Inserts(j, row) PROVE PoolInv' /\ Effect
  <2>1. Advances(jobs, jobs')
    BY <1>0, <1>5 DEF Inserts, Advances, Row
  <2>2. CopiesInv'
    BY <1>0, <1>1, <2>1, CopiesKept DEF PoolInv
  <2>3. \A k \in Held' : jobs'[k].state = jobs[k].state
    <3>1. \A k \in Held : k \in Jobs /\ k # j
      BY <1>5, HeldRuns DEF Exists, Inserts
    <3> QED BY <1>0, <1>3, <1>5, <3>1 DEF Inserts
  <2>4. Exclusive'
    BY <1>2, <2>3, ExclusiveKept DEF PoolInv
  <2> QED BY <1>1, <1>5, <2>2, <2>4 DEF PoolInv, PoolOnly, Effect
<1> QED BY <1>0, <1>4, <1>5 DEF ClientMoves

-----------------------------------------------------------------------------
(* Store errors, restarts, and the rest of Next. *)

LEMMA FaultEffect ==
    ASSUME TypeOK, TypeOK', PoolInv, FaultStep
    PROVE  PoolInv' /\ Effect
<1>0. /\ flusher \in [Flushers -> Flusher] /\ worker \in [Workers -> Worker]
      /\ now \in Nat /\ jobs \in [Jobs -> Row]
      /\ CopiesInv
  BY DEF TypeOK, StoreTypeOK, PoolTypeOK, PoolInv
<1>1. ASSUME NEW f \in Flushers, FlushCheckFails(f), client' = client
      PROVE  PoolInv' /\ Effect
  <2>1. PICK c \in flusher[f].rest :
          flusher' = [flusher EXCEPT ![f].rest = @ \ {c}, ![f].pc = "claim",
                                     ![f].cur = c]
    BY <1>1 DEF FlushCheckFails
  <2>2. flusher[f].pc = "check" /\ UNCHANGED <<jobs, now, worker>>
    BY <1>1 DEF FlushCheckFails, storeVars
  <2>3. /\ flusher'[f].rest = flusher[f].rest \ {c}
        /\ flusher'[f].pc = "claim" /\ flusher'[f].cur = c
        /\ \A g \in Flushers \ {f} : flusher'[g] = flusher[g]
    BY <1>0, <2>1 DEF Flusher
  <2>4. FlusherFine(flusher'[f], jobs, now)
    BY <1>0, <2>1, <2>3 DEF FlusherFine, CopiesInv
  <2>5. \A j \in Jobs : ClaimedByFlusher(f, j)' <=> ClaimedByFlusher(f, j)
    BY <2>2, <2>3 DEF ClaimedByFlusher
  <2> QED BY <1>1, <2>2, <2>3, <2>4, <2>5, FlusherMoved DEF Effect
<1>2. ASSUME NEW f \in Flushers, FlushClaimFails(f), client' = client
      PROVE  PoolInv' /\ Effect
  <2>1. /\ flusher[f].pc = "claim" /\ UNCHANGED <<jobs, now, worker>>
        /\ flusher'[f].pc = "check" /\ flusher'[f].rest = {}
        /\ \A g \in Flushers \ {f} : flusher'[g] = flusher[g]
    BY <1>0, <1>2 DEF FlushClaimFails, storeVars, Flusher
  <2>2. FlusherFine(flusher'[f], jobs, now)
    BY <2>1 DEF FlusherFine
  <2>3. \A j \in Jobs : ClaimedByFlusher(f, j)' <=> ClaimedByFlusher(f, j)
    BY <2>1 DEF ClaimedByFlusher
  <2> QED BY <1>2, <2>1, <2>2, <2>3, FlusherMoved DEF Effect
<1>3. ASSUME NEW w \in Workers, WorkerCallFails(w), client' = client
      PROVE  PoolInv' /\ Effect
  <2>1. UNCHANGED <<jobs, now, flusher>>
    BY <1>3 DEF WorkerCallFails, storeVars
  <2>2. CASE worker[w].pc = "record"
    <3>1. worker' = [worker EXCEPT ![w].pc = "count"]
      BY <1>3, <2>2 DEF WorkerCallFails
    <3>2. /\ worker'[w].pc = "count" /\ worker'[w].copy = worker[w].copy
          /\ \A v \in Workers \ {w} : worker'[v] = worker[v]
      BY <1>0, <3>1 DEF Worker
    <3>3. WorkerFine(worker'[w], jobs)
      BY <1>0, <2>2, <3>2 DEF WorkerFine, CopiesInv
    <3>4. \A j \in Jobs : ClaimedByWorker(w, j)' <=> ClaimedByWorker(w, j)
      BY <2>2, <3>2 DEF ClaimedByWorker
    <3> QED BY <1>3, <2>1, <3>2, <3>3, <3>4, WorkerMoved DEF Effect
  <2>3. CASE worker[w].pc = "settle"
    <3>1. worker' = [worker EXCEPT ![w].pc = "teardown"]
      BY <1>3, <2>3 DEF WorkerCallFails
    <3>2. /\ worker'[w].pc = "teardown"
          /\ \A v \in Workers \ {w} : worker'[v] = worker[v]
      BY <1>0, <3>1 DEF Worker
    <3>3. PoolInv' /\ Loses(worker[w].copy.id)
      BY <1>3, <2>1, <2>3, <3>2, SameRowsAdvance, ClaimEnded DEF Loses
    <3>4. worker[w].copy.id \in Jobs
      BY <3>3 DEF Loses, Held
    <3> QED BY <3>3, <3>4 DEF Effect
  <2> QED BY <1>3, <2>2, <2>3 DEF WorkerCallFails
<1>4. ASSUME NEW c \in Clients, ApiCallFails(c) PROVE PoolInv' /\ Effect
  BY <1>4, ClientEffect
<1> QED BY <1>1, <1>2, <1>3, <1>4 DEF FaultStep, apiVars

LEMMA RestartEffect ==
    ASSUME TypeOK, TypeOK', PoolInv, Restart
    PROVE  PoolInv' /\ Effect
<1>1. /\ \A f \in Flushers : flusher'[f] = IdleFlusher
      /\ \A w \in Workers : worker'[w] = IdleWorker
      /\ \A c \in Clients : client'[c] = IdleClient
      /\ jobs' = RecoverInterrupted(RecoverOnOpen(jobs, now), now)
  BY DEF Restart, PoolReset
<1>2. CopiesInv'
  BY <1>1 DEF CopiesInv, FlusherFine, WorkerFine, IdleFlusher, IdleWorker
<1>3. /\ \A f \in Flushers, j \in Jobs : ~ClaimedByFlusher(f, j)'
      /\ \A w \in Workers, j \in Jobs : ~ClaimedByWorker(w, j)'
  BY <1>1 DEF ClaimedByFlusher, ClaimedByWorker, IdleFlusher, IdleWorker
<1>4. Held' = {}
  BY <1>3 DEF Held
<1>5. Exclusive'
  BY <1>3, <1>4 DEF Exclusive
<1>6. ClientsInsert'
  BY <1>1 DEF ClientsInsert, IdleClient
<1> QED BY <1>1, <1>2, <1>4, <1>5, <1>6 DEF PoolInv, PoolOnly, Recovers, Effect

\* The other requests PoolOnly leaves touch neither rows nor claims.
LEMMA RequestEffect ==
    ASSUME TypeOK, TypeOK', PoolInv, RequestStep
    PROVE  PoolInv' /\ Effect
<1>0. /\ flusher \in [Flushers -> Flusher] /\ worker \in [Workers -> Worker]
      /\ now \in Nat /\ "requeue" \notin Ops
  BY DEF TypeOK, StoreTypeOK, PoolTypeOK, PoolInv, PoolOnly
<1>1. ASSUME NEW j \in Jobs PROVE ~ApiRequeueDead(j)
  BY <1>0 DEF ApiRequeueDead, NewRequest
<1>2. ASSUME NEW q \in Queues, ApiPause(q) \/ ApiResume(q) PROVE PoolInv' /\ Effect
  <2>1. UNCHANGED <<jobs, now, flusher, worker, client>>
    BY <1>2 DEF ApiPause, ApiResume, SetPaused, poolVars
  <2> QED BY <1>0, <2>1, NothingMoved DEF Effect
<1>3. ASSUME NEW f \in Flushers, ApiFlush(f) PROVE PoolInv' /\ Effect
  BY <1>3, BeginEffect DEF ApiFlush, Effect
<1>4. ASSUME NEW f \in Flushers, ApiDisconnect(f) PROVE PoolInv' /\ Effect
  <2>1. UNCHANGED <<jobs, now, client>>
    BY <1>4 DEF ApiDisconnect, storeVars
  <2>2. \A g \in Flushers : /\ flusher'[g].pc = flusher[g].pc
                            /\ flusher'[g].cur = flusher[g].cur
                            /\ flusher'[g].rest = flusher[g].rest
    BY <1>0, <1>4 DEF ApiDisconnect, Flusher
  <2>3. \A w \in Workers : /\ worker'[w].pc = worker[w].pc
                           /\ worker'[w].copy = worker[w].copy
                           /\ worker'[w].failed = worker[w].failed
                           /\ worker'[w].willRetry = worker[w].willRetry
    BY <1>0, <1>4 DEF ApiDisconnect, CancelChildren, Worker
  <2> QED BY <1>0, <2>1, <2>2, <2>3, NothingMoved DEF Effect
<1> QED BY <1>1, <1>2, <1>3, <1>4 DEF RequestStep

LEMMA PoolStep ==
    ASSUME TypeOK, TypeOK', PoolInv, [Next]_vars
    PROVE  PoolInv' /\ Effect
<1>0. now \in Nat
  BY DEF TypeOK, StoreTypeOK
<1>1. CASE PollTick
  BY <1>1, PoolAssumption, BeginEffect DEF PollTick, apiVars, Effect
<1>2. ASSUME NEW f \in Flushers, FlushStepOf(f) PROVE PoolInv' /\ Effect
  BY <1>2, FlushEffect DEF FlushStepOf, apiVars
<1>3. ASSUME NEW w \in Workers, WorkerStepOf(w) PROVE PoolInv' /\ Effect
  BY <1>3, WorkerEffect DEF WorkerStepOf, apiVars
<1>4. ASSUME NEW c \in Clients, ClientStepOf(c) PROVE PoolInv' /\ Effect
  BY <1>4, ClientEffect DEF ClientStepOf
<1>5. CASE RequestStep
  BY <1>5, RequestEffect
<1>6. CASE FaultStep
  BY <1>6, FaultEffect
<1>7. CASE Restart
  BY <1>7, RestartEffect
<1>8. CASE Tick
  <2>1. UNCHANGED <<jobs, flusher, worker, client>> /\ now <= now'
    BY <1>0, <1>8 DEF Tick, poolVars, apiVars
  <2> QED BY <2>1, NothingMoved DEF Effect
<1>9. CASE UNCHANGED vars
  <2>1. UNCHANGED <<jobs, now, flusher, worker, client>>
    BY <1>9 DEF vars, storeVars, poolVars, apiVars
  <2> QED BY <1>0, <2>1, NothingMoved DEF Effect
<1> QED BY <1>1, <1>2, <1>3, <1>4, <1>5, <1>6, <1>7, <1>8, <1>9 DEF Next

\* The invariant the theorems below rest on, and what it lets a step do.
THEOREM PoolInvariant ==
    PoolOnly /\ Spec => [](TypeOK /\ PoolInv) /\ [][Effect]_vars
<1>1. TypeOK /\ TypeOK' /\ PoolInv /\ [Next]_vars => PoolInv' /\ Effect
  BY PoolStep
<1>2. PoolOnly /\ Init => PoolInv
  BY PoolInvInit
<1> QED BY <1>1, <1>2, TypeCorrect, PTL DEF Spec

-----------------------------------------------------------------------------
(* What follows for the rows. *)

LEMMA AtMostOne ==
    ASSUME NEW S, \A x, y \in S : x = y
    PROVE  Cardinality(S) <= 1
<1>1. CASE S = {}
  BY <1>1, FS_EmptySet
<1>2. CASE S # {}
  <2>1. PICK x \in S : TRUE
    BY <1>2
  <2>2. S = {x}
    BY <2>1
  <2> QED BY <2>2, FS_Singleton
<1> QED BY <1>1, <1>2

\* Flushes, goroutines, inserts, store errors and restarts: from the UPDATE of Claim
\* to that of Succeed or Fail a job has one claimant, and its row stays running;
\* nobody settles what somebody else has claimed.
THEOREM ClaimsAreExclusive == PoolOnly /\ Spec => []ClaimIsExclusive
<1>1. PoolInv => ClaimIsExclusive
  <2> SUFFICES ASSUME PoolInv, NEW j \in Jobs
               PROVE  LET holders == {f \in Flushers : ClaimedByFlusher(f, j)}
                                       \cup {w \in Workers : ClaimedByWorker(w, j)}
                      IN  /\ Cardinality(holders) <= 1
                          /\ holders # {} => jobs[j].state = "running"
    BY DEF ClaimIsExclusive
  <2> DEFINE holders == {f \in Flushers : ClaimedByFlusher(f, j)}
                          \cup {w \in Workers : ClaimedByWorker(w, j)}
  <2>1. \A x, y \in holders : x = y
    BY DEF PoolInv, Exclusive
  <2>2. holders # {} => j \in Held
    BY DEF Held
  <2>3. holders # {} => jobs[j].state = "running"
    BY <2>2, HeldRuns
  <2> HIDE DEF holders
  <2>4. Cardinality(holders) <= 1
    BY <2>1, AtMostOne
  <2> QED BY <2>3, <2>4 DEF holders
<1> QED BY <1>1, PoolInvariant, PTL

\* What Effect does to a row that is not running.
LEMMA RowMoves ==
    ASSUME TypeOK, PoolInv, Effect, NEW j \in Jobs, jobs[j].state # "running",
           Exists(jobs[j])
    PROVE  \/ jobs'[j] = jobs[j]
           \/ \E f \in Flushers : Claims(f, j)
<1>0. jobs \in [Jobs -> Row]
  BY DEF TypeOK, StoreTypeOK
<1>1. CASE Quiet
  BY <1>1 DEF Quiet
<1>2. ASSUME NEW f \in Flushers, NEW k \in Jobs, Claims(f, k)
      PROVE  jobs'[j] = jobs[j] \/ Claims(f, j)
  BY <1>0, <1>2 DEF Claims
<1>3. ASSUME NEW k \in Jobs, Loses(k) PROVE jobs'[j] = jobs[j]
  BY <1>3 DEF Loses
<1>4. ASSUME NEW k \in Jobs, NEW row \in Row, Settles(k, row) PROVE jobs'[j] = jobs[j]
  <2>1. k # j
    BY <1>4, HeldRuns DEF Settles
  <2> QED BY <1>0, <1>4, <2>1 DEF Settles
<1>5. CASE Recovers
  BY <1>5 DEF Recovers, RecoverInterrupted, RecoverOnOpen
<1>6. ASSUME NEW k \in Jobs, NEW row \in Row, Inserts(k, row) PROVE jobs'[j] = jobs[j]
  BY <1>0, <1>6 DEF Inserts
<1> QED BY <1>1, <1>2, <1>3, <1>4, <1>5, <1>6 DEF Effect

\* A job that has succeeded or is a dead letter is never written again by Flush,
\* by a goroutine, or by the recoveries of Open and RecoverInterrupted.
THEOREM SettledJobsAreFinal == PoolOnly /\ Spec => TerminalIsFinal
<1>1. TypeOK /\ PoolInv /\ Effect =>
        \A j \in Jobs : IsTerminal(jobs[j].state) => jobs'[j] = jobs[j]
  <2> SUFFICES ASSUME TypeOK, PoolInv, Effect, NEW j \in Jobs, IsTerminal(jobs[j].state)
               PROVE  jobs'[j] = jobs[j]
    OBVIOUS
  <2>1. jobs[j].state # "running" /\ Exists(jobs[j]) /\ ~Claimable(j)
    BY DEF IsTerminal, Claimable, Exists
  <2> QED BY <2>1, RowMoves DEF Claims
<1> QED BY <1>1, PoolInvariant, PTL DEF TerminalIsFinal

\* Claim does not ask for run_at, yet a job waiting for its retry is claimed
\* ahead of it only by a flush whose ScanDue ran before the last failure.
THEOREM EarlyClaimsAreStale == PoolOnly /\ Spec => EarlyClaimIsStale
<1> DEFINE Early(j) == /\ jobs[j].state = "pending" /\ jobs'[j].state = "running"
                       /\ jobs[j].runAt > now
           Stale(j) == \E f \in Flushers :
                          /\ flusher[f].pc = "claim"
                          /\ flusher[f].cur.id = j
                          /\ flusher[f].cur.row.attempts < jobs[j].attempts
<1>1. TypeOK /\ PoolInv /\ Effect => \A j \in Jobs : Early(j) => Stale(j)
  <2> SUFFICES ASSUME TypeOK, PoolInv, Effect, NEW j \in Jobs, Early(j) PROVE Stale(j)
    OBVIOUS
  <2>1. PICK f \in Flushers : Claims(f, j)
    BY RowMoves DEF Exists
  <2>2. DueOrStale(flusher[f].cur, jobs, now) /\ flusher[f].cur.id = j
    BY <2>1 DEF PoolInv, CopiesInv, FlusherFine, Claims
  <2>3. jobs[j].runAt \in Nat /\ now \in Nat
    BY DEF TypeOK, StoreTypeOK, Row
  <2>4. flusher[f].cur.row.attempts < jobs[j].attempts
    BY <2>2, <2>3 DEF DueOrStale
  <2> QED BY <2>1, <2>4 DEF Claims
<1> QED BY <1>1, PoolInvariant, PTL DEF EarlyClaimIsStale

-----------------------------------------------------------------------------
(* The life-cycle. *)

LEMMA LifecycleInit == Init => Lifecycle!Init
BY DEF Init, Lifecycle!Init, PoolInit, IdleFlusher, IdleWorker, AbsentRow, Held,
   ClaimedByFlusher, ClaimedByWorker

\* No statement PoolOnly leaves writes the state "scheduled", and an id nobody has
\* inserted counts no attempts.
PlainRows ==
    \A j \in Jobs : /\ jobs[j].state # "scheduled"
                    /\ ~Exists(jobs[j]) => jobs[j].attempts = 0

LEMMA PlainRowsKept ==
    ASSUME TypeOK, PoolInv, PlainRows, Effect
    PROVE  PlainRows'
<1>0. jobs \in [Jobs -> Row]
  BY DEF TypeOK, StoreTypeOK
<1>1. CASE Quiet
  BY <1>1 DEF Quiet, PlainRows
<1>2. ASSUME NEW f \in Flushers, NEW j \in Jobs, Claims(f, j) PROVE PlainRows'
  BY <1>0, <1>2 DEF Claims, PlainRows, Row, Exists
<1>3. ASSUME NEW j \in Jobs, Loses(j) PROVE PlainRows'
  BY <1>3 DEF Loses, PlainRows
<1>4. ASSUME NEW j \in Jobs, NEW row \in Row, Settles(j, row) PROVE PlainRows'
  BY <1>0, <1>4 DEF Settles, Outcome, PlainRows, Exists
<1>5. CASE Recovers
  BY <1>0, <1>5 DEF Recovers, RecoverInterrupted, RecoverOnOpen, RequeueAt,
     PlainRows, Row, Exists
<1>6. ASSUME NEW j \in Jobs, NEW row \in Row, Inserts(j, row) PROVE PlainRows'
  BY <1>0, <1>6 DEF Inserts, PlainRows, Exists
<1> QED BY <1>1, <1>2, <1>3, <1>4, <1>5, <1>6 DEF Effect

LEMMA StutterEffect == UNCHANGED vars => Effect
<1>1. UNCHANGED vars => jobs' = jobs /\ Held' = Held
  BY DEF vars, storeVars, poolVars, Held, ClaimedByFlusher, ClaimedByWorker
<1> QED BY <1>1 DEF Effect, Quiet

LEMMA PlainRowsHold == PoolOnly /\ Spec => []PlainRows
<1>1. Init => PlainRows
  BY DEF Init, PlainRows, AbsentRow
<1>2. UNCHANGED vars => Effect
  BY StutterEffect
<1>3. TypeOK /\ PoolInv /\ PlainRows /\ [Effect]_vars => PlainRows'
  BY <1>2, PlainRowsKept
<1> QED BY <1>1, <1>3, PoolInvariant, PTL DEF Spec

LEMMA LifecycleStep ==
    ASSUME TypeOK, TypeOK', PoolInv, PlainRows, Effect
    PROVE  [Lifecycle!Next]_(Lifecycle!vars)
<1> DEFINE state == [j \in Jobs |-> jobs[j].state]
           tries == [j \in Jobs |-> jobs[j].attempts]
<1>0. jobs \in [Jobs -> Row] /\ jobs' \in [Jobs -> Row] /\ Held \subseteq Jobs
  BY DEF TypeOK, StoreTypeOK, Held
<1>1. CASE Quiet
  BY <1>1 DEF Quiet, Lifecycle!vars
<1>2. ASSUME NEW f \in Flushers, NEW j \in Jobs, Claims(f, j) PROVE Lifecycle!Claim(j)
  <2>1. state' = [state EXCEPT ![j] = "running"] /\ tries' = tries
    BY <1>0, <1>2 DEF Claims, Row
  <2>2. state[j] = "pending"
    BY <1>2 DEF Claims, Claimable, PlainRows
  <2> QED BY <1>2, <2>1, <2>2 DEF Lifecycle!Claim, Claims
<1>3. ASSUME NEW j \in Jobs, Loses(j) PROVE Lifecycle!Lose(j)
  BY <1>3 DEF Loses, Lifecycle!Lose
<1>4. ASSUME NEW j \in Jobs, NEW row \in Row, Settles(j, row)
      PROVE  Lifecycle!Succeed(j) \/ Lifecycle!Retry(j) \/ Lifecycle!Bury(j)
  <2>1. /\ state' = [state EXCEPT ![j] = row.state]
        /\ tries' = [tries EXCEPT ![j] = row.attempts]
    BY <1>0, <1>4 DEF Settles
  <2>2. tries[j] = jobs[j].attempts /\ tries = [tries EXCEPT ![j] = jobs[j].attempts]
    OBVIOUS
  <2>3. j \in Held /\ Held' = Held \ {j} /\ Outcome(j, row)
    BY <1>4 DEF Settles
  <2> QED BY <2>1, <2>2, <2>3 DEF Outcome, Lifecycle!Succeed, Lifecycle!Retry,
             Lifecycle!Bury, Lifecycle!Settle, Lifecycle!CountTry
<1>5. ASSUME Recovers PROVE Lifecycle!Restart
  <2>1. ASSUME NEW j \in Jobs
        PROVE  /\ jobs'[j].state = IF jobs[j].state = "running" THEN "pending"
                                                              ELSE jobs[j].state
               /\ jobs'[j].attempts = jobs[j].attempts
    <3>1. jobs'[j] = IF jobs[j].state = "running" THEN RequeueAt(jobs[j], now) ELSE jobs[j]
      BY <1>0, <1>5 DEF Recovers, RecoverInterrupted, RecoverOnOpen, RequeueAt, Row
    <3> QED BY <1>0, <3>1 DEF RequeueAt, Row
  <2>2. tries' = tries
    BY <2>1
  <2>3. state' = [j \in Jobs |-> IF state[j] = "running" THEN "pending" ELSE state[j]]
    BY <2>1
  <2> QED BY <1>5, <2>2, <2>3 DEF Recovers, Lifecycle!Restart
<1>6. ASSUME NEW j \in Jobs, NEW row \in Row, Inserts(j, row) PROVE Lifecycle!Insert(j)
  <2>1. state' = [state EXCEPT ![j] = "pending"] /\ state[j] = "absent"
    BY <1>0, <1>6 DEF Inserts, Exists
  <2>2. \A k \in Jobs : jobs'[k].attempts = jobs[k].attempts
    BY <1>0, <1>6 DEF Inserts, PlainRows
  <2>3. tries' = tries
    BY <2>2
  <2> QED BY <1>6, <2>1, <2>3 DEF Inserts, Lifecycle!Insert
<1> QED BY <1>1, <1>2, <1>3, <1>4, <1>5, <1>6 DEF Effect, Lifecycle!Next

\* Inserts, flushes, goroutines, failing statements and restarts, in any number and any
\* interleaving, do to the rows what JobLifecycle allows and nothing else.
THEOREM PoolImplementsLifecycle == PoolOnly /\ Spec => ImplementsLifecycle
<1>1. Init => Lifecycle!Init
  BY LifecycleInit
<1>2. UNCHANGED vars => Effect
  BY StutterEffect
<1>3. TypeOK /\ TypeOK' /\ PoolInv /\ PlainRows /\ [Effect]_vars
        => [Lifecycle!Next]_(Lifecycle!vars)
  BY <1>2, LifecycleStep
<1> QED BY <1>1, <1>3, PoolInvariant, PlainRowsHold, PTL DEF Spec, ImplementsLifecycle,
       Lifecycle!Spec
=============================================================================
