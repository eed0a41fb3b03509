---------------------------- MODULE MCScheduler -----------------------------
(***************************************************************************)
(* Scheduler for TLC.                                                      *)
(***************************************************************************)
EXTENDS Scheduler

\* task_count falls without bound only when uncounted slots are killed.
CountBound == task_count >= -1
=============================================================================
