------------------------------ MODULE Pointers ------------------------------
(* What the modules about lists and blocks share of kernel/types.h: pointers  *)
(* are numbers, of which 0 points nowhere.                                    *)

NULL == 0
=============================================================================
