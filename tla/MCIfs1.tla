------------------------------- MODULE MCIfs1 -------------------------------
(* Ifs1 for TLC. *)
EXTENDS Ifs1, TLC

Symmetry == Permutations(Tasks) \cup Permutations(Names)

\* Of a free block only the name is read, and that only if an entry or an
\* operation has it.
Named == {b \in Blocks : (\E e \in Entries : dir[e] = b) \/ \E t \in Tasks : op[t].id = b}

\* Whether the directory changed matters to those who have a copy of it.
Known(r) == IF r.pc \in {"unuse", "read"} THEN [r EXCEPT !.late = FALSE] ELSE r

View == <<[b \in Blocks |-> IF disk[b].used THEN disk[b]
                            ELSE IF b \in Named THEN [NewFile(disk[b].name) EXCEPT !.used = FALSE, !.type = disk[b].type]
                            ELSE [NewData EXCEPT !.used = FALSE]],
          dir, bat, fptr, [t \in Tasks |-> Known(op[t])], odd>>

\* One exceptional event per history.
Ordinary == odd = {}
=============================================================================
