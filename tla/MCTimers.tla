------------------------------ MODULE MCTimers ------------------------------
(* Timers for TLC. *)
EXTENDS Timers

\* One exceptional event per history.
Ordinary == odd \subseteq {"overwritten"}
=============================================================================
