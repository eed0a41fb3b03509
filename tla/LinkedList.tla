----------------------------- MODULE LinkedList -----------------------------
(***************************************************************************)
(* The doubly linked list of libs/dslib/linked_list.c, store by store, as  *)
(* it is used without a lock by the message queues (kernel/mqueue.c), the  *)
(* block allocation table (kernel/fs/ifs1/blocks.c) and, where messages    *)
(* are taken, by the windows (kernel/gui.c).                               *)
(*                                                                         *)
(* Nodes are numbers, NULL is 0.  An operation tests the list and then     *)
(* makes the stores of the branch it took one by one; those who use the    *)
(* list interleave between them.  listed is what the list should hold, and *)
(* ahead is the order it should hold it in.                                *)
(***************************************************************************)
EXTENDS Integers, Sequences, FiniteSets, Pointers

CONSTANTS Users, NODES

ASSUME ListAssumption == NODES \in Nat

Nodes == 1 .. NODES

VARIABLES
  head, foot, count,   \* the list
  next, prev,          \* of each node
  listed,              \* the nodes in the list, as far as its users know
  node, todo,          \* of each user: the node it works on, the stores to come
  pos, before,         \* insert_node: where, and the node before that
  walk,                \* _MqPopMessageWithTaskID: NULL and the nodes yet to be
                       \* taken, or nothing
  ahead,               \* the pairs of nodes, the first of which is ahead
  mishaps              \* exceptional events so far

list == <<head, foot, count, next, prev>>
listVars == <<list, listed, node, todo, pos, before, walk, ahead, mishaps>>

ListInit ==
  /\ head = NULL /\ foot = NULL /\ count = 0              \* dsl_lnklst_init
  /\ next = [n \in Nodes |-> NULL] /\ prev = [n \in Nodes |-> NULL]
  /\ listed = {}
  /\ node = [a \in Users |-> NULL] /\ todo = [a \in Users |-> <<>>]
  /\ pos = [a \in Users |-> NULL] /\ before = [a \in Users |-> NULL]
  /\ walk = [a \in Users |-> {}]
  /\ ahead = {} /\ mishaps = {}
-----------------------------------------------------------------------------
(* Stores: a field of the list, or of a node, and the value it gets. *)

AddToEmpty == << <<"head", "n">>, <<"foot", "n">>, <<"prev", "n", "0">>,
                 <<"next", "n", "0">>, <<"count", 1>> >>

\* (mutant) The count forgotten.
AddToFoot_Uncounted == << <<"next", "foot", "n">>, <<"prev", "n", "foot">>,
                          <<"next", "n", "0">>, <<"foot", "n">> >>

AddToFoot == << <<"next", "foot", "n">>, <<"prev", "n", "foot">>,
                <<"next", "n", "0">>, <<"foot", "n">>, <<"count", 1>> >>

RemoveOnly == << <<"head", "0">>, <<"foot", "0">>, <<"count", -1>> >>

RemoveHead == << <<"prev", "n.next", "0">>, <<"head", "n.next">>, <<"count", -1>> >>

RemoveFoot == << <<"next", "n.prev", "0">>, <<"foot", "n.prev">>, <<"count", -1>> >>

\* (mutant) A node that is taken out in one direction only.
RemoveMiddle_Once == << <<"next", "n.prev", "n.next">>, <<"count", -1>> >>

RemoveMiddle == << <<"next", "n.prev", "n.next">>, <<"prev", "n.next", "n.prev">>,
                   <<"count", -1>> >>

\* The old head's prev becomes n.next, that is, itself.
Unshift == << <<"next", "n", "head">>, <<"prev", "head", "n.next">>,
              <<"prev", "n", "0">>, <<"head", "n">>, <<"count", 1>> >>

\* The node is not counted.
Insert == << <<"next", "n", "pos">>, <<"prev", "pos", "n">>,
             <<"prev", "n", "before">>, <<"next", "before", "n">> >>

\* The node an expression of user a stands for.
Value(a, e) ==
  CASE e = "0" -> NULL
    [] e = "n" -> node[a]
    [] e = "head" -> head
    [] e = "foot" -> foot
    [] e = "n.next" -> next[node[a]]
    [] e = "n.prev" -> prev[node[a]]
    [] e = "pos" -> pos[a]
    [] e = "before" -> before[a]

StoreList(a, s) ==
  /\ head' = IF s[1] = "head" THEN Value(a, s[2]) ELSE head
  /\ foot' = IF s[1] = "foot" THEN Value(a, s[2]) ELSE foot
  /\ count' = IF s[1] = "count" THEN count + s[2] ELSE count
  /\ UNCHANGED <<next, prev>>

StoreNode(a, s) ==
  /\ next' = IF s[1] = "next" THEN [next EXCEPT ![Value(a, s[2])] = Value(a, s[3])] ELSE next
  /\ prev' = IF s[1] = "prev" THEN [prev EXCEPT ![Value(a, s[2])] = Value(a, s[3])] ELSE prev
  /\ UNCHANGED <<head, foot, count>>

\* Neither idle nor done.
Busy(a) == todo[a] # <<>> \/ walk[a] # {}

\* A store through NULL goes to low memory, outside the list.
Stray(a, s) == s[1] \in {"next", "prev"} /\ Value(a, s[2]) = NULL

Store(a) ==
  LET s == todo[a][1] IN
  /\ todo[a] # <<>>
  /\ IF Stray(a, s) THEN UNCHANGED list
     ELSE IF s[1] \in {"next", "prev"} THEN StoreNode(a, s) ELSE StoreList(a, s)
  /\ todo' = [todo EXCEPT ![a] = Tail(@)]
  /\ mishaps' = mishaps \cup (IF Stray(a, s) THEN {"stray"} ELSE {})
  /\ UNCHANGED <<listed, node, pos, before, walk, ahead>>
-----------------------------------------------------------------------------
(* Operations *)

\* An operation that begins while another one is under way.
Torn(a) == IF \E b \in Users \ {a} : Busy(b) THEN {"torn"} ELSE {}

\* a works on node n with the stores p.
Begin(a, n, p) ==
  /\ node' = [node EXCEPT ![a] = n]
  /\ todo' = [todo EXCEPT ![a] = p]

\* The nodes that are not allocated: a node is released once it is removed.
Free == Nodes \ (listed \cup {node[b] : b \in {c \in Users : todo[c] # <<>>}}
                        \cup UNION {walk[b] : b \in Users})

\* By the order A, the members of S before and behind n...
Before(A, n, S) == {m \in S : <<m, n>> \in A}
Behind(A, n, S) == {m \in S : <<n, m>> \in A}

\* ... and the order of what is in the list.
Kept == ahead \cap (listed \X listed)

\* dsl_lnklst_add_node: which branch it takes.
AddProgram == IF head = NULL /\ foot = NULL THEN AddToEmpty ELSE AddToFoot

\* It fails if one of head and foot is NULL.
Sound == (head = NULL) = (foot = NULL)

add_node(a, n) ==
  /\ ~Busy(a) /\ n \in Free /\ Sound
  /\ Begin(a, n, AddProgram)
  /\ listed' = listed \cup {n}
  /\ ahead' = Kept \cup (listed \X {n})
  /\ mishaps' = mishaps \cup Torn(a)
  /\ UNCHANGED <<list, pos, before, walk>>

\* dsl_lnklst_remove_node: which branch it takes.
RemoveProgram(n) ==
  IF head = n /\ foot = n THEN RemoveOnly
  ELSE IF head = n THEN RemoveHead
  ELSE IF foot = n THEN RemoveFoot
  ELSE RemoveMiddle

\* dsl_lnklst_delete_node, delete_object_node: the node is free afterwards.  (The
\* functions that delete all nodes delete the head until there is none.)
remove_node(a, n) ==
  /\ ~Busy(a) /\ n \in listed
  /\ Begin(a, n, RemoveProgram(n))
  /\ listed' = listed \ {n}
  /\ mishaps' = mishaps \cup Torn(a)
  /\ UNCHANGED <<list, pos, before, walk, ahead>>

\* dsl_lnklst_shift_node, and get(0) followed by delete_node; dsl_lnklst_pop_node.
shift_node(a) == count # 0 /\ head # NULL /\ remove_node(a, head)
pop_node(a) == count # 0 /\ foot # NULL /\ remove_node(a, foot)

UnshiftProgram == IF head = NULL /\ foot = NULL THEN AddToEmpty ELSE Unshift

unshift_node(a, n) ==
  /\ ~Busy(a) /\ n \in Free /\ Sound
  /\ Begin(a, n, UnshiftProgram)
  /\ listed' = listed \cup {n}
  /\ ahead' = Kept \cup ({n} \X listed)
  /\ mishaps' = mishaps \cup Torn(a) \cup (IF UnshiftProgram = Unshift THEN {"unshifted"} ELSE {})
  /\ UNCHANGED <<list, pos, before, walk>>

\* dsl_lnklst_insert_node, before p; at the head it is unshift_node, and for an
\* empty list add_node.
insert_node(a, p, n) ==
  /\ ~Busy(a) /\ n \in Free /\ count # 0 /\ p \in listed /\ p # head
  /\ Begin(a, n, Insert)
  /\ pos' = [pos EXCEPT ![a] = p]
  /\ before' = [before EXCEPT ![a] = prev[p]]
  /\ listed' = listed \cup {n}
  /\ ahead' = Kept \cup (Before(ahead, p, listed) \X {n})
                   \cup ({n} \X ({p} \cup Behind(ahead, p, listed)))
  /\ mishaps' = mishaps \cup Torn(a) \cup {"inserted"}
  /\ UNCHANGED <<list, walk>>

\* _MqPopMessageWithTaskID takes the nodes N, walking the list from its head.
sweep(a, N) ==
  /\ ~Busy(a) /\ count # 0 /\ head # NULL /\ N \subseteq listed /\ N # {}
  /\ walk' = [walk EXCEPT ![a] = ({NULL} \cup N) \ {head}]
  /\ Begin(a, head, IF head \in N THEN RemoveProgram(head) ELSE <<>>)
  /\ listed' = listed \ N
  /\ mishaps' = mishaps \cup Torn(a)
  /\ UNCHANGED <<list, pos, before, ahead>>

\* node->next, of a node that may have been released by then.
Following(n) == next[n]

\* The next node of the walk, of which the present one may have been released.
Walk(a) ==
  LET n == Following(node[a]) IN
  /\ walk[a] # {} /\ todo[a] = <<>> /\ node[a] # NULL
  /\ IF n = NULL
     THEN walk' = [walk EXCEPT ![a] = {}] /\ Begin(a, NULL, <<>>)
     ELSE /\ Begin(a, n, IF n \in walk[a] THEN RemoveProgram(n) ELSE <<>>)
          /\ walk' = [walk EXCEPT ![a] = @ \ {n}]
  /\ UNCHANGED <<list, listed, pos, before, ahead, mishaps>>

ListNext ==
  \E a \in Users :
    \/ Store(a) \/ Walk(a)
    \/ \E n \in Nodes : add_node(a, n) \/ unshift_node(a, n) \/ remove_node(a, n)
    \/ shift_node(a) \/ pop_node(a)
    \/ \E n, p \in Nodes : insert_node(a, p, n)
    \/ \E N \in SUBSET Nodes : sweep(a, N)

ListSpec == ListInit /\ [][ListNext]_listVars
-----------------------------------------------------------------------------
(* Properties *)

\* What a store may name.
Fields == {"0", "n", "head", "foot", "n.next", "n.prev", "pos", "before"}
Stores == ({"head", "foot"} \X Fields) \cup ({"count"} \X {1, -1})
             \cup ({"next", "prev"} \X Fields \X Fields)

\* The links, and what is done to them, have their types.
ListTypeOK ==
  /\ head \in Nodes \cup {NULL} /\ foot \in Nodes \cup {NULL} /\ count \in Int
  /\ next \in [Nodes -> Nodes \cup {NULL}] /\ prev \in [Nodes -> Nodes \cup {NULL}]
  /\ listed \subseteq Nodes /\ ahead \subseteq Nodes \X Nodes
  /\ node \in [Users -> Nodes \cup {NULL}] /\ todo \in [Users -> Seq(Stores)]
  /\ pos \in [Users -> Nodes \cup {NULL}] /\ before \in [Users -> Nodes \cup {NULL}]
  /\ walk \in [Users -> SUBSET (Nodes \cup {NULL})]
  /\ mishaps \subseteq {"torn", "unshifted", "inserted", "stray"}

\* No operation has overlapped another, or used the links unshift_node leaves.
Plain == mishaps \cap {"torn", "unshifted"} = {}

\* No store goes through NULL, to which the code does not look before it writes
\* node->next->prev and node->prev->next (linked_list.c:110, 115, 120).
NoStray == Plain => "stray" \notin mishaps

Quiet == \A a \in Users : ~Busy(a)

\* The first and the last member of S by the order A, or NULL if there is none.
IsFirst(A, n, S) == IF S = {} THEN n = NULL ELSE n \in S /\ \A m \in S \ {n} : <<n, m>> \in A
IsLast(A, n, S) == IF S = {} THEN n = NULL ELSE n \in S /\ \A m \in S \ {n} : <<m, n>> \in A

\* Between operations the list holds what it should in the order it should: it
\* starts and ends with the first and the last of it, and the links of a node lead
\* to the first behind it and the last before it
\* (add_node, remove_node, insert_node, linked_list.c:70-304).
Represents ==
  Quiet /\ Plain =>
    /\ IsFirst(ahead, head, listed) /\ IsLast(ahead, foot, listed)
    /\ \A n \in listed :
         /\ IsFirst(ahead, next[n], Behind(ahead, n, listed))
         /\ IsLast(ahead, prev[n], Before(ahead, n, listed))

\* count, by which its users tell an empty list and a full channel
\* (linked_list.c:227), is its length, if insert_node is not used.
Counted == Quiet /\ Plain /\ "inserted" \notin mishaps => count = Cardinality(listed)

\* The nodes met on the way from the head.
Found ==
  CHOOSE S \in SUBSET Nodes :
    /\ head # NULL => head \in S
    /\ \A n \in S : next[n] # NULL => next[n] \in S
    /\ \A T \in SUBSET Nodes :
         (head # NULL => head \in T) /\ (\A n \in T : next[n] # NULL => next[n] \in T)
           => S \subseteq T

\* What was added, and not removed, is in the list: MqAddMessage "returns TRUE
\* for success" (mqueue.c:211).
AddedIsFound == Quiet => listed \subseteq Found
=============================================================================
