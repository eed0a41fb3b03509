---------------------------- MODULE MCDriverLock ----------------------------
(***************************************************************************)
(* DriverLock for TLC.                                                     *)
(***************************************************************************)
EXTENDS DriverLock
=============================================================================
