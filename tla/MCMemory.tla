------------------------------ MODULE MCMemory ------------------------------
(***************************************************************************)
(* Memory for TLC.                                                         *)
(***************************************************************************)
EXTENDS Memory

\* An exceptional event is recorded for good, so nothing after it matters to
\* the properties that exclude it.
Ordinary == odd = {}

\* What a descriptor that is not in use was left with is never read before it is
\* written again, so it does not tell two ordinary states apart.
Fields(d) == <<start[d], length[d], prev[d], next[d]>>
Seen == <<[d \in Desc |-> IF inuse[d] = 1 THEN Fields(d) ELSE <<>>],
          mbdt, umbdt, used, live, odd>>
=============================================================================
