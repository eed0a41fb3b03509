---------------------------- MODULE MCLinkedList ----------------------------
(* LinkedList for TLC. *)
EXTENDS LinkedList

\* After two operations overlapped, or a node was unshifted, nothing is claimed;
\* the count goes its own ways after an insertion.
Ordinary == Plain /\ count >= -1

\* The links of nodes that are nowhere, and the variables of users that are idle,
\* are not read before they are written; the order matters for what is listed.
Shown(a) == IF Busy(a) THEN <<node[a], todo[a], pos[a], before[a], walk[a]>> ELSE <<>>
Linked == IF Quiet THEN listed ELSE Nodes
Seen == <<head, foot, count, [n \in Linked |-> <<next[n], prev[n]>>], listed,
          [a \in Users |-> Shown(a)], Kept, mishaps>>
=============================================================================
