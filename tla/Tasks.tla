-------------------------------- MODULE Tasks --------------------------------
(***************************************************************************)
(* The life of a task, kernel/tasks.c: slots of the task table are taken   *)
(* by _TskmgrCreateTask, started by TskmgrSetTaskToReady, and given back   *)
(* by _TskmgrKillTask.                                                     *)
(*                                                                         *)
(* The kernel task and the tasks are the actors; the one on the CPU takes  *)
(* steps.  Code between lock() and unlock() runs with interrupts disabled  *)
(* and is one step.  _TskmgrKillTask enables interrupts in the middle, to  *)
(* wait for the disk drivers, and so takes two steps with anything between *)
(* them.  Which actor the timer interrupt resumes is left open here; it is *)
(* the subject of module Scheduler.                                        *)
(***************************************************************************)
EXTENDS Integers, FiniteSets

CONSTANTS
  MAX_TASK_COUNT,   \* slots in the table
  FAILURES          \* which allocations of _TskmgrCreateTask may fail

ASSUME TasksAssumption ==
  /\ MAX_TASK_COUNT \in Nat \ {0}
  /\ FAILURES \subseteq {"stack", "addr", "pages"}

Slots == 0 .. MAX_TASK_COUNT - 1
Kernel == -1
Actors == {Kernel} \cup Slots
Types == {"user", "system"}

\* What a pointer of a slot points to: nothing, memory of the slot's own, or
\* memory it has given back.
Pointers == {"null", "own", "freed"}

VARIABLES
  used, allocable, ready, type,  \* fields of struct Task
  addr, pagedt_addr,             \* pointers of struct Task
  scall_stack,                   \* scall_stacks of kernel.c
  running_tid, task_count,
  cpu,     \* the actor on the CPU
  op,      \* what each actor is in the middle of
  made,    \* whether the slot's last creation succeeded
  maker,   \* which actor created it
  odd      \* the exceptional events so far: "halfmade", a creation failed
           \* after it had taken the slot; "raced", a kill or a start hit a
           \* slot whose task had been killed in between; "twice", memory that
           \* a slot had given back was given back again; "stolen", a slot was
           \* released that another actor was waiting for

slotvars == <<used, allocable, ready, type, addr, pagedt_addr, scall_stack>>
vars == <<slotvars, running_tid, task_count, cpu, op, made, maker, odd>>

\* "made": holds the id of a task it has created and will start; "exec": the
\* same in SCALL_EXEC, before it reserves the slot;
\* "kill": waits in _TskmgrKillTask; "sync": waits for the task to end.
\* sure: the task is still the one the operation began with.
Idle == [kind |-> "none", tid |-> Kernel, sure |-> TRUE]
Ops == [kind : {"none", "made", "exec", "sync", "kill", "killuser"},
        tid : Actors, sure : BOOLEAN]

Init ==
  /\ used = [t \in Slots |-> FALSE]
  /\ allocable = [t \in Slots |-> TRUE]
  /\ ready = [t \in Slots |-> FALSE]
  /\ type = [t \in Slots |-> "user"]
  /\ addr = [t \in Slots |-> "null"]
  /\ pagedt_addr = [t \in Slots |-> "null"]
  /\ scall_stack = [t \in Slots |-> "null"]
  /\ running_tid = -1
  /\ task_count = 0
  /\ cpu = Kernel
  /\ op = [a \in Actors |-> Idle]
  /\ made = [t \in Slots |-> FALSE]
  /\ maker = [t \in Slots |-> Kernel]
  /\ odd = {}
-----------------------------------------------------------------------------
(* Creation *)

\* An actor that is on the CPU and whose task has not been killed.
Runs(a) == cpu = a /\ (a # Kernel => used[a])

\* (mutant) A search that does not look at used.
FreeSlot_Any ==
  {t \in Slots : allocable[t] /\ \A s \in Slots : allocable[s] => t <= s}

\* The first slot that is neither used nor reserved.
FreeSlot ==
  {t \in Slots : /\ ~used[t] /\ allocable[t]
                 /\ \A s \in Slots : ~used[s] /\ allocable[s] => t <= s}

\* No slot, or KnlResetSystemCall has no stack for it: -1, nothing is changed.
CreateRefused(a) ==
  /\ FreeSlot = {} \/ "stack" \in FAILURES
  /\ UNCHANGED vars

\* The slot is marked used before the memory is asked for and stays so when it
\* is refused; ready and pagedt_addr keep what they were.
CreateWithoutAddr(a, t, ty) ==
  /\ "addr" \in FAILURES
  /\ addr' = [addr EXCEPT ![t] = "null"]
  /\ UNCHANGED pagedt_addr

CreateWithoutPages(a, t, ty) ==
  /\ "pages" \in FAILURES
  /\ addr' = [addr EXCEPT ![t] = "freed"]
  /\ pagedt_addr' = [pagedt_addr EXCEPT ![t] = "null"]

CreateFails(a, t, ty) ==
  /\ CreateWithoutAddr(a, t, ty) \/ CreateWithoutPages(a, t, ty)
  /\ used' = [used EXCEPT ![t] = TRUE]
  /\ type' = [type EXCEPT ![t] = ty]
  /\ scall_stack' = [scall_stack EXCEPT ![t] = "own"]
  /\ made' = [made EXCEPT ![t] = FALSE]
  /\ maker' = [maker EXCEPT ![t] = a]
  /\ odd' = odd \cup {"halfmade"}
  /\ UNCHANGED <<allocable, ready, running_tid, task_count, cpu, op>>

\* (mutant) TskmgrCreateTaskByFileSync without its reservation of the slot.
CreateSucceeds_Unreserved(a, t, ty, kind) ==
  /\ used' = [used EXCEPT ![t] = TRUE]
  /\ type' = [type EXCEPT ![t] = ty]
  /\ addr' = [addr EXCEPT ![t] = "own"]
  /\ pagedt_addr' = [pagedt_addr EXCEPT ![t] = "own"]
  /\ scall_stack' = [scall_stack EXCEPT ![t] = "own"]
  /\ task_count' = task_count + 1
  /\ ready' = [ready EXCEPT ![t] = kind = "sync"]
  /\ op' = [op EXCEPT ![a] = [kind |-> kind, tid |-> t, sure |-> TRUE]]
  /\ made' = [made EXCEPT ![t] = TRUE]
  /\ maker' = [maker EXCEPT ![t] = a]
  /\ UNCHANGED <<allocable, running_tid, cpu, odd>>

\* The end of a creation that succeeds; sync is the variant that reserves the
\* slot and starts the task before interrupts are enabled again.
CreateSucceeds(a, t, ty, kind) ==
  /\ used' = [used EXCEPT ![t] = TRUE]
  /\ type' = [type EXCEPT ![t] = ty]
  /\ addr' = [addr EXCEPT ![t] = "own"]
  /\ pagedt_addr' = [pagedt_addr EXCEPT ![t] = "own"]
  /\ scall_stack' = [scall_stack EXCEPT ![t] = "own"]
  /\ task_count' = task_count + 1
  /\ ready' = [ready EXCEPT ![t] = kind = "sync"]
  /\ allocable' = [allocable EXCEPT ![t] = kind # "sync"]
  /\ op' = [op EXCEPT ![a] = [kind |-> kind, tid |-> t, sure |-> TRUE]]
  /\ made' = [made EXCEPT ![t] = TRUE]
  /\ maker' = [maker EXCEPT ![t] = a]
  /\ UNCHANGED <<running_tid, cpu, odd>>

\* TskmgrCreateTask, TskmgrCreateSystemTask, their ...ByFile variants ("made"),
\* TskmgrCreateTaskByFileSync up to its wait ("sync", user tasks only), and the
\* first call of SCALL_EXEC ("exec", by a task, user tasks only).
\* The kernel creates system tasks, and so does the exception handler of a
\* system task that faults, to replace it.
TskmgrCreateTask(a, ty, kind) ==
  /\ Runs(a) /\ op[a] = Idle
  /\ kind = "exec" => a # Kernel
  /\ ty = "system" => /\ kind = "made"
                     /\ a \in {Kernel} \cup {t \in Slots : type[t] = "system"}
  /\ \/ CreateRefused(a)
     \/ \E t \in FreeSlot : \/ CreateFails(a, t, ty)
                            \/ CreateSucceeds(a, t, ty, kind)

\* The wait is over: the return value is read and the slot released.
SyncDone(a) ==
  /\ Runs(a) /\ op[a].kind = "sync" /\ ~used[op[a].tid]
  /\ allocable' = [allocable EXCEPT ![op[a].tid] = TRUE]
  /\ op' = [op EXCEPT ![a] = Idle]
  /\ UNCHANGED <<used, ready, type, addr, pagedt_addr, scall_stack, running_tid,
                 task_count, cpu, made, maker, odd>>

\* SCALL_EXEC reserves the slot, with interrupts enabled; it is still so when the
\* task has ended, until some task asks SCALL_WAIT for it.
ScallExec(a) ==
  LET t == op[a].tid
  IN /\ Runs(a) /\ op[a].kind = "exec"
     /\ allocable' = IF used[t] THEN [allocable EXCEPT ![t] = FALSE] ELSE allocable
     /\ odd' = IF op[a].sure THEN odd ELSE odd \cup {"raced"}
     /\ op' = [op EXCEPT ![a].kind = "made"]
     /\ UNCHANGED <<used, ready, type, addr, pagedt_addr, scall_stack, running_tid,
                    task_count, cpu, made, maker>>

\* SCALL_WAIT releases any slot that is not used: nobody asks whose child the task
\* was, or whether its creator is a task that waits in TskmgrCreateTaskByFileSync.
ScallWait(a, t) ==
  /\ Runs(a) /\ op[a] = Idle /\ a # Kernel /\ ~used[t]
  /\ allocable' = [allocable EXCEPT ![t] = TRUE]
  /\ odd' = odd \cup (IF \E b \in Actors : op[b].kind = "sync" /\ op[b].tid = t
                     THEN {"stolen"} ELSE {})
  /\ UNCHANGED <<used, ready, type, addr, pagedt_addr, scall_stack, running_tid,
                 task_count, cpu, op, made, maker>>

\* TskmgrSetTaskToReady, called by the creator with the id it got.
TskmgrSetTaskToReady(a) ==
  LET t == op[a].tid
  IN /\ Runs(a) /\ op[a].kind = "made"
     /\ ready' = IF used[t] THEN [ready EXCEPT ![t] = TRUE] ELSE ready
     /\ odd' = IF op[a].sure THEN odd ELSE odd \cup {"raced"}
     /\ op' = [op EXCEPT ![a] = Idle]
     /\ UNCHANGED <<used, allocable, type, addr, pagedt_addr, scall_stack,
                    running_tid, task_count, cpu, made, maker>>
-----------------------------------------------------------------------------
(* Killing *)

\* (mutant) TskmgrKillTask without its test.
Killable_Any(t) == TRUE

\* The test of TskmgrKillTask.
Killable(t) == type[t] = "user"

\* TskmgrKillSystemTask and TskmgrKillTask (user tasks only, called by the
\* console, the keyboard and the task manager window) up to the point where
\* _TskmgrKillTask has enabled interrupts.  A task may kill itself: the EXIT
\* system call, and the exception handlers.
KillBegins(a, t, kind) ==
  /\ Runs(a) /\ op[a] = Idle /\ used[t]
  /\ kind = "killuser" => a = Kernel /\ Killable(t)
  /\ op' = [op EXCEPT ![a] = [kind |-> kind, tid |-> t, sure |-> TRUE]]
  /\ UNCHANGED <<slotvars, running_tid, task_count, cpu, made, maker, odd>>

\* A disk driver is still locked by the task: FALSE.
KillRefused(a) ==
  /\ Runs(a) /\ op[a].kind \in {"kill", "killuser"}
  /\ op' = [op EXCEPT ![a] = Idle]
  /\ UNCHANGED <<slotvars, running_tid, task_count, cpu, made, maker, odd>>

\* MemFree of a pointer of the slot, which is not cleared.
Freed(p) == IF p = "null" THEN "null" ELSE "freed"

\* The rest of _TskmgrKillTask.  Interrupts are disabled again but used is not
\* looked at again.  Pointers are not cleared, ready is not reset.  The
\* killed task never takes another step, and neither does what it was doing.
KillEnds(a) ==
  LET t == op[a].tid
  IN /\ Runs(a) /\ op[a].kind \in {"kill", "killuser"}
     /\ addr' = [addr EXCEPT ![t] = Freed(@)]
     /\ pagedt_addr' = [pagedt_addr EXCEPT ![t] = Freed(@)]
     /\ scall_stack' = [scall_stack EXCEPT ![t] = Freed(@)]
     /\ running_tid' = IF running_tid = t THEN -1 ELSE running_tid
     /\ used' = [used EXCEPT ![t] = FALSE]
     /\ task_count' = task_count - 1
     /\ odd' = odd \cup
          {o \in {"raced", "twice"} :
             \/ o = "raced" /\ ~op[a].sure
             \/ o = "twice" /\ "freed" \in {addr[t], pagedt_addr[t], scall_stack[t]}}
     /\ op' = [b \in Actors |->
                 IF b \in {a, t} THEN Idle
                 ELSE IF op[b].tid = t /\ op[b].kind # "sync"
                 THEN [op[b] EXCEPT !.sure = FALSE]
                 ELSE op[b]]
     /\ UNCHANGED <<allocable, ready, type, cpu, made, maker>>
-----------------------------------------------------------------------------
\* The timer interrupt resumes the kernel task or a task that is used and
\* ready.
Switch(a) ==
  /\ a # cpu
  /\ a # Kernel => used[a] /\ ready[a]
  /\ cpu' = a
  /\ running_tid' = IF a = Kernel THEN running_tid ELSE a
  /\ UNCHANGED <<slotvars, task_count, op, made, maker, odd>>

Next ==
  \E a \in Actors :
    \/ \E ty \in Types, kind \in {"made", "exec", "sync"} : TskmgrCreateTask(a, ty, kind)
    \/ SyncDone(a)
    \/ ScallExec(a)
    \/ \E t \in Slots : ScallWait(a, t)
    \/ TskmgrSetTaskToReady(a)
    \/ \E t \in Slots, kind \in {"kill", "killuser"} : KillBegins(a, t, kind)
    \/ KillRefused(a)
    \/ KillEnds(a)
    \/ Switch(a)

Spec == Init /\ [][Next]_vars
-----------------------------------------------------------------------------
(* Properties *)

\* The table, its pointers and the operations in progress have their types: in
\* particular no operation is about a slot outside the table.
TypeOK ==
  /\ used \in [Slots -> BOOLEAN] /\ allocable \in [Slots -> BOOLEAN]
  /\ ready \in [Slots -> BOOLEAN] /\ type \in [Slots -> Types]
  /\ addr \in [Slots -> Pointers] /\ pagedt_addr \in [Slots -> Pointers]
  /\ scall_stack \in [Slots -> Pointers]
  /\ running_tid \in Actors /\ task_count \in Int /\ cpu \in Actors
  /\ op \in [Actors -> Ops]
  /\ made \in [Slots -> BOOLEAN] /\ maker \in [Slots -> Actors]
  /\ odd \subseteq {"halfmade", "raced", "twice", "stolen"}

\* In ordinary histories a slot is used exactly when it holds a whole task: its
\* creation succeeded and it owns its memory; an unused slot owns nothing; and
\* task_count, by which the timer interrupt divides the CPU, is their number.
WholeTasks ==
  odd \subseteq {"stolen"} =>
    /\ \A t \in Slots : /\ used[t] => made[t]
                        /\ \A p \in {addr[t], pagedt_addr[t], scall_stack[t]} :
                             p = "own" <=> used[t]
    /\ task_count = Cardinality({t \in Slots : used[t]})

\* The slot whose end TskmgrCreateTaskByFileSync waits for is not given to
\* another task before the return value has been read (tasks.c:914-920), whatever
\* fails or is killed, unless a task asked SCALL_WAIT for it (system.c:425).
SyncReserved ==
  "stolen" \notin odd => \A a \in Actors : op[a].kind = "sync" =>
    /\ op[a].tid \in Slots
    /\ ~allocable[op[a].tid] /\ maker[op[a].tid] = a

\* TskmgrKillTask "can kill a user task but cannot kill a system task"
\* (tasks.c:545): one whose slot was given to a system task while the kill waited
\* for a disk hits that, but only after the user task was killed by another.
SystemSparedUnlessRaced ==
  [][\A a \in Actors :
       op[a].kind = "killuser" /\ KillEnds(a) /\ type[op[a].tid] = "system"
       => "raced" \in odd']_vars
=============================================================================
