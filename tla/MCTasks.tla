------------------------------ MODULE MCTasks -------------------------------
(***************************************************************************)
(* Tasks for TLC.                                                          *)
(***************************************************************************)
EXTENDS Tasks

\* The bound on task_count that keeps histories with repeated double kills
\* finite; ordinary histories never reach it.
CountBound == task_count \in -1 .. MAX_TASK_COUNT
=============================================================================
