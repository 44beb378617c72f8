----------------------------- MODULE MCSchedules -----------------------------
(***************************************************************************)
(* Values for the constants of Schedules.  A second is six nanoseconds, a  *)
(* millisecond three and a word 64 values, so that year 1 wraps to a time  *)
(* before the epoch that no slot leads from to zero, as it does in int64,  *)
(* and eleven seconds wrap to less than a millisecond.                     *)
(***************************************************************************)
EXTENDS Schedules

MCZeroTime == -215
=============================================================================
