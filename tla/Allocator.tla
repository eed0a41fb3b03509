------------------------------ MODULE Allocator ------------------------------
(***************************************************************************)
(* What the memory manager promises its callers: a set of blocks, each     *)
(* handed to one caller, apart from all the others and within the memory,  *)
(* until that caller gives it back.  Which block a request gets, and       *)
(* whether it gets one, is left open.                                      *)
(*                                                                         *)
(* The promise is void once the manager is broken.                         *)
(***************************************************************************)
EXTENDS Integers

CONSTANTS
  Lowest, Highest,   \* the memory: addresses from Lowest up to Highest - 1
  Sizes              \* the lengths of blocks

VARIABLES
  blocks,            \* the blocks handed out: [start, length, want]
  broken

Apart(a, b) == a.start + a.length <= b.start \/ b.start + b.length <= a.start

Fits(b) == Lowest <= b.start /\ b.start + b.length <= Highest

Init == blocks = {} /\ broken = FALSE

\* A block is handed out.
Allocate(b) ==
  /\ b.length \in Sizes /\ Fits(b) /\ \A a \in blocks : Apart(a, b)
  /\ blocks' = blocks \cup {b}
  /\ UNCHANGED broken

\* A block is given back by its owner.
Release(b) ==
  /\ blocks' = blocks \ {b}
  /\ UNCHANGED broken

\* Anything may follow.
Break == broken' = TRUE

Next ==
  \/ \E b \in blocks' \ blocks : Allocate(b)
  \/ \E b \in blocks : Release(b)
  \/ Break

Spec == Init /\ [][Next]_<<blocks, broken>>
=============================================================================
