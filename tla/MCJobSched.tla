----------------------------- MODULE MCJobSched -----------------------------
(***************************************************************************)
(* Values for the constants of JobSched that a configuration cannot write. *)
(***************************************************************************)
EXTENDS JobSched, TLC

MCSymmetry == Permutations(Workers) \cup Permutations(Clients)

MCOutOfRange == -65

\* Job 1 is the one that matters most and fails; job 2 succeeds unless its
\* context is cancelled; job 3 succeeds and lives in a queue of its own.
MCQueues == {"default", "bulk"}
MCQueueOf == [j \in Jobs |-> IF j = 3 THEN "bulk" ELSE "default"]
MCPriorityOf == [j \in Jobs |-> IF j = 1 THEN 1 ELSE 0]
MCTypeOf == [j \in Jobs |-> CASE j = 1 -> "fail" [] j = 2 -> "slow" [] OTHER -> "noop"]
MCMaxAttemptsOf == [j \in Jobs |-> IF j = 1 THEN 2 ELSE 1]

MCMoreAttemptsOf == [j \in Jobs |-> IF j = 1 THEN 3 ELSE 2]

\* A POST /jobs of one id, and a batch of all of them.
MCBatches == {{j} : j \in Jobs} \cup {Jobs}
=============================================================================
