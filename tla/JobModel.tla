------------------------------ MODULE JobModel ------------------------------
(***************************************************************************)
(* The job life-cycle vocabulary of package model: the states a jobs row   *)
(* may be in and the predicates the rest of the program asks of them.  A   *)
(* row of the jobs table is a record of the three columns whose values     *)
(* change after the insert; queue, type, priority and max_attempts are     *)
(* fixed per id and are constants of JobStore.                             *)
(***************************************************************************)
EXTENDS Integers

ValidStates ==
    {"pending", "scheduled", "running", "succeeded", "dead", "cancelled"}

IsTerminal(state) == state \in {"succeeded", "dead", "cancelled"}

CanCancel(state) == state \in {"pending", "scheduled", "running"}

CanRetry(state) == state \in {"dead", "running", "pending"}

\* "absent" stands for "no row with this id"; it is never stored.
Row == [state : ValidStates \cup {"absent"}, runAt : Nat, attempts : Nat]

AbsentRow == [state |-> "absent", runAt |-> 0, attempts |-> 0]

Exists(row) == row.state # "absent"

\* Job.Retryable, asked of the copy a worker carries.
Retryable(row, max) == ~IsTerminal(row.state) /\ row.attempts < max
=============================================================================
