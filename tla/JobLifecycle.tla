----------------------------- MODULE JobLifecycle -----------------------------
(***************************************************************************)
(* What the scheduler promises of every job while no request rewrites its  *)
(* row: it is inserted once; a claim gives it to one holder, who ends it   *)
(* with a success, a retry or a burial and counts a failed attempt;        *)
(* a job is buried only when its attempts are used up; a finished job is   *)
(* never touched again.  A holder may vanish without settling, and what it *)
(* held comes back with the next restart.                                  *)
(***************************************************************************)
EXTENDS Integers

CONSTANTS
    Jobs,
    MaxAttemptsOf

VARIABLES
    state,    \* job -> state of its row, "absent" when there is none
    tries,    \* job -> failed attempts counted
    held      \* the jobs under a claim that has not been settled

vars == <<state, tries, held>>

Init ==
    /\ state \in [Jobs -> {"absent", "pending"}]
    /\ tries = [j \in Jobs |-> 0]
    /\ held = {}

Insert(j) ==
    /\ state[j] = "absent"
    /\ state' = [state EXCEPT ![j] = "pending"]
    /\ UNCHANGED <<tries, held>>

Claim(j) ==
    /\ state[j] = "pending"
    /\ state' = [state EXCEPT ![j] = "running"]
    /\ held' = held \cup {j}
    /\ UNCHANGED tries

\* The holder of j leaves its row in the given state.
Settle(j, outcome) ==
    /\ j \in held
    /\ state' = [state EXCEPT ![j] = outcome]
    /\ held' = held \ {j}

Succeed(j) == Settle(j, "succeeded") /\ UNCHANGED tries

CountTry(j) == tries' = [tries EXCEPT ![j] = @ + 1]

Retry(j) == Settle(j, "pending") /\ CountTry(j)

Bury(j) ==
    /\ tries[j] + 1 >= MaxAttemptsOf[j]
    /\ Settle(j, "dead")
    /\ CountTry(j)

\* The holder gives up or fails to settle; the row stays running.
Lose(j) ==
    /\ j \in held
    /\ held' = held \ {j}
    /\ UNCHANGED <<state, tries>>

Restart ==
    /\ state' = [j \in Jobs |-> IF state[j] = "running" THEN "pending" ELSE state[j]]
    /\ held' = {}
    /\ UNCHANGED tries

Next ==
    \/ \E j \in Jobs : \/ Insert(j) \/ Claim(j)
                      \/ Succeed(j) \/ Retry(j) \/ Bury(j) \/ Lose(j)
    \/ Restart

Spec == Init /\ [][Next]_vars
=============================================================================
