------------------------------- MODULE JobApi -------------------------------
(***************************************************************************)
(* Package api: the HTTP handlers that change state.  Each request runs on *)
(* a goroutine of its own and takes no lock, so a handler that reads a row *)
(* and later writes it back does so in two steps, and the pool or another  *)
(* request may move the row in between.                                    *)
(***************************************************************************)
EXTENDS WorkerPool

CONSTANTS
    Clients,    \* concurrent HTTP requests other than POST /flush
    Ops,        \* the kinds of request made
    MaxOps,     \* bound on the number of requests
    Batches     \* the sets of ids a POST /jobs or POST /jobs/batch may carry

ASSUME ApiAssumption ==
    /\ Ops \subseteq {"create", "retry", "cancel", "delete", "requeue",
                      "pause", "flush", "disconnect"}
    /\ MaxOps \in Nat
    /\ Batches \subseteq SUBSET Jobs

VARIABLES
    client,    \* each request: where it is, the copy it holds, ids left to create
    ops        \* number of requests made

apiVars == <<client, ops>>

\* Named after the statement the handler takes next.
IdleClient == [pc |-> "idle", copy |-> NoCopy, todo |-> {}]

Client == [pc : {"idle", "create", "retry", "signal", "cancel", "delete"},
           copy : Copy, todo : SUBSET Jobs]

ApiTypeOK ==
    /\ client \in [Clients -> Client]
    /\ ops \in Nat

ApiInit ==
    /\ client = [c \in Clients |-> IdleClient]
    /\ ops = 0

NewRequest(op) ==
    /\ op \in Ops
    /\ ops < MaxOps
    /\ ops' = ops + 1

Serve(c, pc, copy) ==
    client' = [client EXCEPT ![c].pc = pc, ![c].copy = copy]

Reply(c) == client' = [client EXCEPT ![c] = IdleClient]

\* The run_at of a request: absent, or a time of the client's choosing.
RunAtInputs == {now, now + 1}

-----------------------------------------------------------------------------
(* POST /jobs and POST /jobs/batch: createJob is a batch of one. *)

ApiCreate(c) ==
    /\ client[c].pc = "idle"
    /\ NewRequest("create")
    /\ \E ids \in Batches :
        client' = [client EXCEPT ![c].pc = "create", ![c].todo = ids]
    /\ UNCHANGED <<storeVars, poolVars>>

\* One insert of the loop.  The first that is refused ends the request, and
\* the jobs inserted before it stay.  (A batch that Validate cuts short is a
\* smaller batch.)
ApiInsert(c) ==
    /\ client[c].pc = "create"
    /\ \E j \in client[c].todo :
        IF Exists(jobs[j])
        THEN /\ NoRowMatches
             /\ Reply(c)
        ELSE /\ \E runAt \in RunAtInputs : CreateJob(j, runAt)
             /\ IF client[c].todo = {j}
                THEN Reply(c)
                ELSE client' = [client EXCEPT ![c].todo = @ \ {j}]
    /\ UNCHANGED <<poolVars, ops>>

-----------------------------------------------------------------------------
(* POST /jobs/{id}/retry: GetJob, the two checks, UpdateJob of the copy. *)

ApiRetryRead(c, j) ==
    /\ client[c].pc = "idle"
    /\ jobs[j].state # "running"
    /\ CanRetry(jobs[j].state)
    /\ NewRequest("retry")
    /\ Serve(c, "retry", [id |-> j, row |-> RequeueAt(jobs[j], now)])
    /\ UNCHANGED <<storeVars, poolVars>>

ApiRetryWrite(c) ==
    /\ client[c].pc = "retry"
    /\ UpdateJob(client[c].copy)
    /\ Reply(c)
    /\ UNCHANGED <<poolVars, ops>>

-----------------------------------------------------------------------------
(* POST /jobs/{id}/cancel. *)

ApiCancelRead(c, j) ==
    /\ client[c].pc = "idle"
    /\ CanCancel(jobs[j].state)
    /\ NewRequest("cancel")
    /\ Serve(c, IF jobs[j].state = "running" THEN "signal" ELSE "cancel",
             [id |-> j, row |-> [jobs[j] EXCEPT !.state = "cancelled"]])
    /\ UNCHANGED <<storeVars, poolVars>>

\* Pool.Cancel: no effect when no CancelFunc is registered for the id.
ApiCancelSignal(c) ==
    /\ client[c].pc = "signal"
    /\ worker' = CancelledBy(client[c].copy.id)
    /\ client' = [client EXCEPT ![c].pc = "cancel"]
    /\ UNCHANGED <<storeVars, active, cancels, sem, flusher, metrics, slips, ops>>

ApiCancelWrite(c) ==
    /\ client[c].pc = "cancel"
    /\ UpdateJob(client[c].copy)
    /\ Reply(c)
    /\ UNCHANGED <<poolVars, ops>>

-----------------------------------------------------------------------------
(* DELETE /jobs/{id} and DELETE /deadletters/{id}. *)

ApiDeleteAttempts(c, j) ==
    /\ client[c].pc = "idle"
    /\ NewRequest("delete")
    /\ DeleteAttempts(j)
    /\ Serve(c, "delete", [id |-> j, row |-> AbsentRow])
    /\ UNCHANGED poolVars

ApiDeleteRow(c) ==
    /\ client[c].pc = "delete"
    /\ DeleteRow(client[c].copy.id)
    /\ Reply(c)
    /\ UNCHANGED <<poolVars, ops>>

-----------------------------------------------------------------------------
(* Requests of a single statement. *)

\* POST /jobs/{id}/requeue and POST /deadletters/{id}/requeue.
ApiRequeueDead(j) ==
    /\ NewRequest("requeue")
    /\ RequeueDead(j)
    /\ UNCHANGED <<poolVars, client>>

ApiPause(q) ==
    /\ NewRequest("pause")
    /\ SetPaused(q, TRUE)
    /\ UNCHANGED <<poolVars, client>>

\* The count of claims made in spite of the pause starts anew.
ApiResume(q) ==
    /\ NewRequest("pause")
    /\ SetPaused(q, FALSE)
    /\ slips' = [f \in Flushers |-> [slips[f] EXCEPT ![q] = 0]]
    /\ UNCHANGED <<active, cancels, sem, flusher, worker, metrics, client>>

-----------------------------------------------------------------------------
(* POST /flush runs Flush under the request's context. *)

ApiFlush(f) ==
    /\ f # Ticker
    /\ NewRequest("flush")
    /\ FlushBegin(f)
    /\ UNCHANGED client

\* net/http cancels the context of a request whose client goes away, and with
\* it the contexts of the goroutines the flush has started.
ApiDisconnect(f) ==
    /\ f # Ticker
    /\ flusher[f].pc # "idle"
    /\ ~flusher[f].ctxDone
    /\ NewRequest("disconnect")
    /\ flusher' = [flusher EXCEPT ![f].ctxDone = TRUE]
    /\ worker' = CancelChildren(f)
    /\ UNCHANGED <<storeVars, active, cancels, sem, metrics, slips, client>>

\* The statement a handler has come to returns an error: the request ends with
\* what its earlier statements have done.
ApiCallFails(c) ==
    /\ client[c].pc \in {"create", "retry", "cancel", "delete"}
    /\ Reply(c)
    /\ UNCHANGED <<storeVars, poolVars, ops>>

ClientStep(c) ==
    \/ ApiCreate(c) \/ ApiInsert(c)
    \/ \E j \in Jobs : ApiRetryRead(c, j)
    \/ ApiRetryWrite(c)
    \/ \E j \in Jobs : ApiCancelRead(c, j)
    \/ ApiCancelSignal(c)
    \/ ApiCancelWrite(c)
    \/ \E j \in Jobs : ApiDeleteAttempts(c, j)
    \/ ApiDeleteRow(c)
=============================================================================
