------------------------------ MODULE MCMQueue ------------------------------
(* MQueue for TLC. *)
EXTENDS MQueue

\* One exceptional event per history, after which only the histories go on in
\* which a channel was full, a program was a client too, or the kernel gave up.
\* With a program as a second client the kernel makes one request.
Ordinary ==
  /\ Cardinality(odd) <= 1 /\ odd \subseteq {"full", "shared", "gaveup"}
  /\ "shared" \in odd => asked <= 1
  /\ \A q \in Queues, w \in Ways : Len(chan[q][w]) <= MAX_MESSAGE_COUNT
=============================================================================
