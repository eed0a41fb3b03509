------------------------------- MODULE MQueue -------------------------------
(***************************************************************************)
(* The message queues (kernel/mqueue.c), the system calls that use them    *)
(* (kernel/syscall/system.c), the kill that frees those of a task          *)
(* (kernel/tasks.c), the kernel as a client of pci.sys (kernel/pci.c) and  *)
(* the loop of such a service (sys/pci/main.c).                            *)
(*                                                                         *)
(* Nothing here is protected by a lock.  An operation on a list is one     *)
(* step (LinkedList is about its inside); between two of them another      *)
(* task, or the kernel task, may run.                                      *)
(***************************************************************************)
EXTENDS Naturals, Sequences, FiniteSets, Pointers

CONSTANTS
  Tasks, KERNEL,
  Names, System_PCI,     \* names of queues; the one the kernel looks for
  GARBAGE,               \* what is there before a name is copied
  MAX_MESSAGE_COUNT, MAX_TASK_MQUEUE_COUNT,
  MaxQueues, MaxRequests \* bounds: queues made, requests of the kernel

ASSUME MQueueAssumption ==
  /\ KERNEL \notin Tasks /\ System_PCI \in Names /\ GARBAGE \notin Names
  /\ MAX_MESSAGE_COUNT \in Nat \ {0} /\ MAX_TASK_MQUEUE_COUNT \in Nat
  /\ MaxQueues \in Nat /\ MaxRequests \in Nat

Actors == Tasks \cup {KERNEL}
Queues == 1 .. MaxQueues
Ways == {"in", "out"}                      \* to the program, to the service
Messages == [tid : Actors, reply : BOOLEAN, no : 0 .. MaxRequests]

VARIABLES
  mqueues,         \* the list of queues: it is in the order in which they were made
  made, name, chan,\* how many queues were made; name and channels of each
  alive, mqueue_ids,
  op,              \* what each actor is doing
  mqueue, asked,   \* of the kernel: its queue, the number of its last request
  answer,          \* and what it last took for an answer to which request
  odd

queues == <<mqueues, made, name, chan>>
kernel == <<mqueue, asked, answer>>
vars == <<queues, alive, mqueue_ids, op, kernel, odd>>

NoMessage == [tid |-> KERNEL, reply |-> FALSE, no |-> 0]

\* Where an actor is, with which queue, channel, message and name, and whether
\* another has done since it looked what it is about to do.
Idle == [pc |-> "idle", q |-> NULL, w |-> "in", m |-> NoMessage, n |-> GARBAGE, late |-> FALSE]

Init ==
  /\ mqueues = {} /\ made = 0
  /\ name = [q \in Queues |-> GARBAGE]
  /\ chan = [q \in Queues |-> [w \in Ways |-> <<>>]]
  /\ alive = {} /\ mqueue_ids = [t \in Tasks |-> {}]
  /\ op = [a \in Actors |-> Idle]
  /\ mqueue = NULL /\ asked = 0 /\ answer = <<0, NoMessage>>
  /\ odd = {}
-----------------------------------------------------------------------------
(* The queues *)

Become(a, r) == op' = [op EXCEPT ![a] = r]

\* (mutant) A search that stops before the last queue.
Named_NotLast(n) == {q \in mqueues : name[q] = n /\ \E p \in mqueues : q < p}

\* The queues in the list with this name.
Named(n) == {q \in mqueues : name[q] = n}

\* MqGetPtrByName: the first of them.
MqGetPtrByName(n) ==
  IF Named(n) = {} THEN NULL ELSE CHOOSE q \in Named(n) : \A p \in Named(n) : q <= p

\* SCALL_MQUEUE_S_CREATE: MqNew looks whether the name is taken, and fails if it
\* is...
Create(t, n) ==
  /\ op[t] = Idle
  /\ Cardinality(mqueue_ids[t]) < MAX_TASK_MQUEUE_COUNT
  /\ MqGetPtrByName(n) = NULL
  /\ Become(t, [Idle EXCEPT !.pc = "new", !.n = n])
  /\ UNCHANGED <<queues, alive, mqueue_ids, kernel, odd>>

\* ... takes memory for the queue, which may fail...
NewFails(t) ==
  /\ op[t].pc = "new"
  /\ Become(t, Idle)
  /\ UNCHANGED <<queues, alive, mqueue_ids, kernel, odd>>

\* ... adds it to the list...
NewAdd(t) ==
  /\ op[t].pc = "new" /\ made < MaxQueues
  /\ made' = made + 1
  /\ mqueues' = mqueues \cup {made + 1}
  /\ Become(t, [op[t] EXCEPT !.pc = "name", !.q = made + 1])
  /\ UNCHANGED <<name, chan, alive, mqueue_ids, kernel, odd>>

\* ... and copies its name.  Others may have made a queue of that name since.
NewName(t) ==
  /\ op[t].pc = "name"
  /\ name' = [name EXCEPT ![op[t].q] = op[t].n]
  /\ op' = [u \in Actors |->
              IF u = t THEN [op[u] EXCEPT !.pc = "record"]
              ELSE IF op[u].pc \in {"new", "name"} /\ op[u].n = op[t].n
              THEN [op[u] EXCEPT !.late = TRUE] ELSE op[u]]
  /\ odd' = odd \cup (IF op[t].late THEN {"twins"} ELSE {})
  /\ UNCHANGED <<mqueues, made, chan, alive, mqueue_ids, kernel>>

\* The system call notes the queue in the task's table.
Record(t) ==
  /\ op[t].pc = "record"
  /\ mqueue_ids' = [mqueue_ids EXCEPT ![t] = @ \cup {op[t].q}]
  /\ Become(t, Idle)
  /\ UNCHANGED <<queues, alive, kernel, odd>>

\* MqFree, of SCALL_MQUEUE_S_DELETE: the messages first, then the queue.  The
\* table of the task is left as it is, and so is the memory of the queue.  (The
\* call takes any pointer; the one a task is given is that of its own queue.)
Delete(t, q) ==
  /\ op[t] = Idle /\ q \in mqueue_ids[t]
  /\ chan' = [chan EXCEPT ![q] = [w \in Ways |-> <<>>]]
  /\ Become(t, [Idle EXCEPT !.pc = "unlink", !.q = q])
  /\ UNCHANGED <<mqueues, made, name, alive, mqueue_ids, kernel, odd>>

Unlink(t) ==
  /\ op[t].pc = "unlink"
  /\ mqueues' = mqueues \ {op[t].q}
  /\ Become(t, Idle)
  /\ UNCHANGED <<made, name, chan, alive, mqueue_ids, kernel, odd>>
-----------------------------------------------------------------------------
(* Messages *)

\* (mutant) A channel that is full one message late.
Full_Late(q, w) == Len(chan[q][w]) = MAX_MESSAGE_COUNT + 1

\* The test of _MqAddMessage.
Full(q, w) == Len(chan[q][w]) = MAX_MESSAGE_COUNT

\* _MqAddMessage, first half: if the channel is not full, m is copied...
BeginAdd(a, q, w, m) ==
  ~Full(q, w) /\ Become(a, [Idle EXCEPT !.pc = "add", !.q = q, !.w = w, !.m = m])

\* The kernel goes on to wait for an answer.
After(a) == IF a = KERNEL /\ op[a].m.reply THEN [Idle EXCEPT !.pc = "wait"] ELSE Idle

\* ... second half: its node is appended.
Add(a) ==
  LET q == op[a].q  w == op[a].w IN
  /\ op[a].pc = "add"
  /\ chan' = [chan EXCEPT ![q][w] = Append(@, op[a].m)]
  /\ op' = [b \in Actors |->
              IF b = a THEN After(a)
              ELSE IF op[b].pc = "add" /\ op[b].q = q /\ op[b].w = w
              THEN [op[b] EXCEPT !.late = TRUE] ELSE op[b]]
  /\ odd' = odd \cup (IF op[a].late THEN {"crowded"} ELSE {})
                \cup (IF op[a].m.tid # KERNEL THEN {"shared"} ELSE {})
  /\ UNCHANGED <<mqueues, made, name, alive, mqueue_ids, kernel>>

\* No memory for the copy, or for the node: in the latter case the copy is
\* neither added nor released.
AddFails(a) ==
  /\ op[a].pc = "add"
  /\ odd' = odd \cup {"nomemory"}
  /\ Become(a, Idle)
  /\ UNCHANGED <<queues, alive, mqueue_ids, kernel>>

\* The message is not sent, or not answered.
Refused(a, q, w) == Full(q, w) /\ Become(a, Idle) /\ odd' = odd \cup {"full"}

\* A client: SCALL_MQUEUE_C_PUSH, and SCALL_MQUEUE_C_POP, which removes all
\* messages to t and returns the last one.
C_Push(t, n) ==
  LET q == MqGetPtrByName(n) IN
  /\ op[t] = Idle /\ q # NULL
  /\ BeginAdd(t, q, "out", [tid |-> t, reply |-> TRUE, no |-> 0])
  /\ UNCHANGED <<queues, alive, mqueue_ids, kernel, odd>>

\* (mutant) A search that takes what is not for the task as well.
MqPopMessageWithTaskID_Any(q, t) == <<>>

\* What _MqPopMessageWithTaskID leaves of the channel: the messages that are not
\* for t, the k-th of which is where there are k of them.
MqPopMessageWithTaskID(q, t) ==
  LET s == chan[q]["in"]
      rest == {i \in DOMAIN s : s[i].tid # t} IN
  [k \in 1 .. Cardinality(rest) |-> s[CHOOSE i \in rest : Cardinality({j \in rest : j <= i}) = k]]

C_Pop(t, n) ==
  LET q == MqGetPtrByName(n) IN
  /\ op[t] = Idle /\ q # NULL
  /\ chan' = [chan EXCEPT ![q]["in"] = MqPopMessageWithTaskID(q, t)]
  /\ UNCHANGED <<mqueues, made, name, alive, mqueue_ids, op, kernel, odd>>

\* A service, as main() of pci.sys: SCALL_MQUEUE_S_POP...
S_Pop(t, q) ==
  /\ op[t] = Idle /\ q \in mqueue_ids[t] /\ chan[q]["out"] # <<>>
  /\ chan' = [chan EXCEPT ![q]["out"] = Tail(@)]
  /\ Become(t, [Idle EXCEPT !.pc = "serve", !.q = q, !.m = Head(chan[q]["out"])])
  /\ UNCHANGED <<mqueues, made, name, alive, mqueue_ids, kernel, odd>>

\* (mutant) A service that answers every message.
Answers_All(m) == TRUE

\* FUNC_UPDATE is not answered.
Answers(m) == m.reply

\* ... and, for most functions, SCALL_MQUEUE_S_PUSH of the answer, whose failure
\* goes unnoticed.
S_Push(t) ==
  /\ op[t].pc = "serve"
  /\ \/ ~Answers(op[t].m) /\ Become(t, Idle) /\ odd' = odd
     \/ Answers(op[t].m) /\ Refused(t, op[t].q, "in")
     \/ Answers(op[t].m) /\ BeginAdd(t, op[t].q, "in", op[t].m) /\ odd' = odd
  /\ UNCHANGED <<queues, alive, mqueue_ids, kernel>>
-----------------------------------------------------------------------------
(* The kernel as a client *)

\* pci_init finds the queue, if it does, once and for all.
K_Find ==
  /\ op[KERNEL] = Idle /\ mqueue = NULL
  /\ mqueue' = MqGetPtrByName(System_PCI)
  /\ UNCHANGED <<queues, alive, mqueue_ids, op, asked, answer, odd>>

\* pci_get_device and pci_write_to_file (r) and pci_update (~r) send a message.
K_Ask(r) ==
  /\ op[KERNEL] = Idle /\ mqueue # NULL /\ asked < MaxRequests
  /\ asked' = asked + 1
  /\ \/ Refused(KERNEL, mqueue, "out")
     \/ /\ BeginAdd(KERNEL, mqueue, "out", [tid |-> KERNEL, reply |-> r, no |-> asked + 1])
        /\ odd' = odd
  /\ UNCHANGED <<queues, alive, mqueue_ids, mqueue, answer>>

\* They wait for an answer, and take whatever comes first (MqPopMessage).
K_Take ==
  /\ op[KERNEL].pc = "wait" /\ chan[mqueue]["in"] # <<>>
  /\ chan' = [chan EXCEPT ![mqueue]["in"] = Tail(@)]
  /\ answer' = <<asked, Head(chan[mqueue]["in"])>>
  /\ Become(KERNEL, Idle)
  /\ UNCHANGED <<mqueues, made, name, alive, mqueue_ids, mqueue, asked, odd>>

\* They look RETRY_COUNT times.
K_GiveUp ==
  /\ op[KERNEL].pc = "wait" /\ chan[mqueue]["in"] = <<>>
  /\ Become(KERNEL, Idle) /\ odd' = odd \cup {"gaveup"}
  /\ UNCHANGED <<queues, alive, mqueue_ids, kernel>>
-----------------------------------------------------------------------------
(* Tasks *)

Start(t) ==
  /\ t \notin alive
  /\ alive' = alive \cup {t}
  /\ UNCHANGED <<queues, mqueue_ids, op, kernel, odd>>

\* (mutant) A kill that leaves the queues of the task.
Owns_None(t) == {}

\* The queues a kill frees.
Owns(t) == mqueue_ids[t]

\* _TskmgrKillTask frees the queues in the task's table.  A queue that is made
\* but not in the table is left behind.
Kill(t) ==
  /\ t \in alive
  /\ alive' = alive \ {t}
  /\ mqueues' = mqueues \ Owns(t)
  /\ chan' = [q \in Queues |-> IF q \in Owns(t) THEN [w \in Ways |-> <<>>] ELSE chan[q]]
  /\ mqueue_ids' = [mqueue_ids EXCEPT ![t] = {}]
  /\ odd' = odd \cup (IF op[t].pc \in {"name", "record"} THEN {"unowned"} ELSE {})
  /\ Become(t, Idle)
  /\ UNCHANGED <<made, name, kernel>>

Service(t) == (\E q \in Queues : S_Pop(t, q)) \/ S_Push(t) \/ Add(t)

Step(t) ==
  \/ \E n \in Names : Create(t, n) \/ C_Push(t, n) \/ C_Pop(t, n)
  \/ NewFails(t) \/ NewAdd(t) \/ NewName(t) \/ Record(t)
  \/ \E q \in Queues : Delete(t, q)
  \/ Unlink(t) \/ AddFails(t) \/ Service(t)

Kernel == K_Find \/ (\E r \in BOOLEAN : K_Ask(r)) \/ K_Take \/ K_GiveUp
          \/ Add(KERNEL) \/ AddFails(KERNEL)

Next ==
  \/ \E t \in alive : Step(t)
  \/ Kernel
  \/ \E t \in Tasks : Start(t) \/ Kill(t)

\* The scheduler lets every task go on with its loop, and the kernel task.
Fairness ==
  /\ \A t \in Tasks : WF_vars(t \in alive /\ Service(t)) /\ WF_vars(t \in alive /\ Unlink(t))
  /\ WF_vars(K_Take) /\ WF_vars(Add(KERNEL))

Spec == Init /\ [][Next]_vars /\ Fairness
-----------------------------------------------------------------------------
(* Properties *)

\* The lists, tables and local variables have their types.
TypeOK ==
  /\ mqueues \subseteq Queues /\ made \in 0 .. MaxQueues
  /\ name \in [Queues -> Names \cup {GARBAGE}]
  /\ chan \in [Queues -> [Ways -> Seq(Messages)]]
  /\ alive \subseteq Tasks /\ mqueue_ids \in [Tasks -> SUBSET Queues]
  /\ op \in [Actors -> [pc : {"idle", "new", "name", "record", "unlink", "add", "serve", "wait"},
                        q : Queues \cup {NULL}, w : Ways, m : Messages,
                        n : Names \cup {GARBAGE}, late : BOOLEAN]]
  /\ mqueue \in Queues \cup {NULL} /\ asked \in 0 .. MaxRequests
  /\ answer \in (0 .. MaxRequests) \X Messages
  /\ odd \subseteq {"twins", "crowded", "shared", "nomemory", "full", "gaveup", "unowned"}

\* A channel holds MAX_MESSAGE_COUNT messages at most (mqueue.c:180), deletions,
\* kills and pops notwithstanding, unless somebody added to it between another's
\* test and addition; the test being for equality, there is no limit after that.
LimitUnlessCrowded ==
  "crowded" \notin odd => \A q \in Queues, w \in Ways : Len(chan[q][w]) <= MAX_MESSAGE_COUNT

\* A name leads to one queue (MqNew refuses one that exists, mqueue.c:87), unless
\* two tasks made queues of the same name at the same time.
OneNameUnlessTwins ==
  "twins" \notin odd =>
    \A p, q \in mqueues : name[p] = name[q] /\ name[p] \in Names => p = q

\* Every queue that can be found is in the table of a living task, which its
\* kill will free (tasks.c:484), or is about to be, unless a task was killed
\* while it made one.
OwnedUnlessKilled ==
  "unowned" \notin odd =>
    \A q \in mqueues : \E t \in alive :
      \/ q \in mqueue_ids[t]
      \/ op[t].pc \in {"name", "record"} /\ op[t].q = q

\* What the kernel takes for the answer to a request answers that request
\* (pci.c:119), unless it gave up waiting before, or a program is a client too.
AnswerFits ==
  odd \cap {"gaveup", "shared"} = {} => answer[2].no = answer[1]

\* The queue of the kernel is served: it is not deleted, its task is alive.
Served == mqueue \in mqueues /\ \E t \in alive : mqueue \in mqueue_ids[t]

\* The kernel's wait for an answer ends (pci.c:115), and not only by giving up
\* after RETRY_COUNT looks, to which nothing compels it here, unless the service
\* is killed or deletes the queue, memory or a channel is exhausted or somebody
\* else uses the queue.
KernelAnswered ==
  op[KERNEL].pc = "wait" ~> \/ op[KERNEL].pc # "wait" \/ ~Served
                         \/ odd \cap {"nomemory", "full", "shared"} # {}
=============================================================================
