------------------------------ MODULE Scheduler ------------------------------
(***************************************************************************)
(* The division of the CPU: TskmgrGetNextTaskID (kernel/tasks.c) and the   *)
(* timer interrupt _KnlTimerInterrupt (kernel/kernel.c), which decides     *)
(* between the kernel task and the tasks and carries the x87 and SSE       *)
(* registers over from one to the other.                                   *)
(*                                                                         *)
(* The interrupt runs with interrupts disabled and is one step.  Between   *)
(* two interrupts whoever is on the CPU may create, start and kill tasks;  *)
(* a kill waits for the disk drivers with interrupts enabled (see Tasks)   *)
(* and is two steps.                                                       *)
(***************************************************************************)
EXTENDS Integers, FiniteSets

CONSTANTS
  MAX_TASK_COUNT,
  TASK_TICK_HIGH, TASK_TICK_NORMAL, TASK_TICK_LOW,
  Priorities,     \* what the creators of tasks give them for a priority
  LATE_FAILURES,  \* whether a creation may fail after taking its slot
  MaxKills        \* (bound) of kills that wait at the same time

TASK_PRIORITY_HIGH == 1
TASK_PRIORITY_NORMAL == 2
TASK_PRIORITY_LOW == 3

\* As in tasks.h, the ticks of a normal task are not the code of a priority.
ASSUME SchedulerAssumption ==
  /\ MAX_TASK_COUNT \in Nat \ {0}
  /\ TASK_TICK_HIGH \in Nat \ {0} /\ TASK_TICK_LOW \in Nat \ {0}
  /\ TASK_TICK_NORMAL \in Nat \ 0 .. 3
  /\ Priorities \subseteq {TASK_TICK_NORMAL, 1, 2, 3} /\ LATE_FAILURES \in BOOLEAN
  /\ MaxKills \in Nat

Slots == 0 .. MAX_TASK_COUNT - 1
Kernel == -1
Nobody == -2    \* the owner of registers just reset, or of a killed task's

Actors == Slots \cup {Kernel}
Owners == Actors \cup {Nobody}

VARIABLES
  used, ready, ran, tick, priority, init_i387,  \* struct Task
  state,                                        \* its i387_state and sse_state
  running_tid, task_count,                      \* tasks.c
  counter, switch_to_kernel,                    \* kernel.c
  kernel_init_i387, kernel_task_ran, kernel_state,
  made,     \* the slots whose creation succeeded
  started,  \* those that were started since
  aim,      \* whom each actor is killing, -1 for nobody
  cpu,      \* who is executing; Nobody once that task has been killed
  regs,     \* whose values the x87 and the SSE registers hold
  odd       \* the exceptional events so far: "twice", the kernel task was resumed
            \* twice running while a task was current; "halfmade", a creation
            \* failed after it had taken the slot; "raced", a kill ended with a
            \* slot that another had emptied meanwhile

fpuvars == <<init_i387, state, kernel_init_i387, kernel_task_ran,
             kernel_state, regs>>
vars == <<used, ready, ran, tick, priority, init_i387, state, running_tid,
          task_count, counter, switch_to_kernel, kernel_init_i387,
          kernel_task_ran, kernel_state, made, started, aim, cpu, regs, odd>>

\* The x87 and the SSE registers, as far as the values in them go.
Registers == [x87 : Owners, xmm : Owners]
Of(o) == [x87 |-> o, xmm |-> o]

\* struct I387State, written by fnsave, and SSEState, written by fxsave, which
\* has room for the x87 registers too.
Images == [i387 : Owners, sse : Registers]

Init ==
  /\ used = [t \in Slots |-> FALSE]
  /\ ready = [t \in Slots |-> FALSE]
  /\ ran = [t \in Slots |-> FALSE]
  /\ tick = [t \in Slots |-> 0]
  /\ priority = [t \in Slots |-> 0]
  /\ init_i387 = [t \in Slots |-> FALSE]
  /\ state = [t \in Slots |-> [i387 |-> Nobody, sse |-> Of(Nobody)]]
  /\ running_tid = -1 /\ task_count = 0
  /\ counter = 1 /\ switch_to_kernel = FALSE
  /\ kernel_init_i387 = FALSE /\ kernel_task_ran = FALSE
  /\ kernel_state = [i387 |-> Nobody, sse |-> Of(Nobody)]
  /\ made = {} /\ started = {} /\ aim = [a \in Actors |-> -1]
  /\ cpu = Kernel /\ regs = Of(Kernel)
  /\ odd = {}
-----------------------------------------------------------------------------
(* TskmgrGetNextTaskID *)

Ready == {t \in Slots : used[t] /\ ready[t]}
First(S) == CHOOSE t \in S : \A s \in S : t <= s

\* (mutant) A search that starts from r itself.
After_Itself(r) ==
  IF \E t \in Ready : t >= r THEN First({t \in Ready : t >= r})
  ELSE IF \E t \in Ready : t < r THEN First({t \in Ready : t < r})
  ELSE -1

\* The next ready slot after r, cyclically, other than r; -1 if there is none.
After(r) ==
  IF \E t \in Ready : t > r THEN First({t \in Ready : t > r})
  ELSE IF \E t \in Ready : t < r THEN First({t \in Ready : t < r})
  ELSE -1

\* The tick of the current task once decremented and, at 0, set again.  A task
\* has TASK_TICK_NORMAL for its priority unless it was given another, and then
\* no case of the switch applies; what is below 0 is as good as 0.
NextTick(r) ==
  IF tick[r] - 1 > 0 THEN tick[r] - 1
  ELSE CASE priority[r] = TASK_PRIORITY_HIGH -> TASK_TICK_HIGH
         [] priority[r] = TASK_PRIORITY_NORMAL -> TASK_TICK_NORMAL
         [] priority[r] = TASK_PRIORITY_LOW -> TASK_TICK_LOW
         [] OTHER -> 0

NextTid ==
  IF running_tid = -1 THEN (IF Ready = {} THEN -1 ELSE First(Ready))
  ELSE IF tick[running_tid] - 1 > 0 THEN running_tid
  ELSE IF ran[running_tid] THEN After(running_tid)
  ELSE running_tid

\* The flag ran is cleared in the task that replaces another.
NextRan(tid) ==
  IF running_tid # -1 /\ tid \notin {-1, running_tid}
  THEN [ran EXCEPT ![tid] = FALSE] ELSE ran

TskmgrGetNextTaskID ==
  /\ running_tid' = NextTid
  /\ tick' = IF running_tid = -1 THEN tick
             ELSE [tick EXCEPT ![running_tid] = NextTick(running_tid)]
-----------------------------------------------------------------------------
(* _KnlTimerInterrupt *)

\* fnsave, which resets the x87 registers, then fxsave.
Image == [i387 |-> regs.x87, sse |-> [x87 |-> Nobody, xmm |-> regs.xmm]]
Reset == [regs EXCEPT !.x87 = Nobody]

\* (mutant) Saving and loading the x87 registers only.
Loaded_X87(image) == [x87 |-> image.i387, xmm |-> regs.xmm]

\* frstor, then fxrstor, which loads the x87 registers again, as fxsave found
\* them.
Loaded(image) == image.sse

\* The state of the task that was current is saved, if its slot is still used.
SaveTask == running_tid # -1 /\ used[running_tid]
Saved == IF SaveTask THEN [state EXCEPT ![running_tid] = Image] ELSE state

\* The kernel task is resumed.  Its registers are not loaded if it was the one
\* interrupted.
ResumeKernel(tid) ==
  /\ counter' = 0 /\ switch_to_kernel' = FALSE
  /\ ran' = NextRan(tid)
  /\ state' = Saved
  /\ regs' = IF ~kernel_init_i387 THEN Of(Kernel)
             ELSE IF ~kernel_task_ran THEN Loaded(kernel_state)
             ELSE IF running_tid # -1 THEN Reset ELSE regs
  /\ odd' = odd \cup (IF kernel_task_ran /\ running_tid # -1 THEN {"twice"} ELSE {})
  /\ kernel_init_i387' = TRUE /\ kernel_task_ran' = TRUE
  /\ cpu' = Kernel
  /\ UNCHANGED <<init_i387, kernel_state>>

\* (mutant) The turns are counted from the start at every task.
Counted_Afresh == 0

\* The turns of tasks since the last one of the kernel task.
Counted == counter + 1

\* The task tid is resumed: what the interrupted context, the kernel task or
\* the last task, had in the registers is saved, and the task's loaded.  Neither
\* a task nor the kernel task has anything of its own in the registers before
\* the interrupt first resumes it (fninit).
ResumeTask(tid) ==
  /\ counter' = Counted
  /\ ran' = [NextRan(tid) EXCEPT ![tid] = TRUE]
  /\ state' = IF kernel_task_ran THEN state ELSE Saved
  /\ kernel_state' = IF kernel_task_ran THEN Image ELSE kernel_state
  /\ kernel_task_ran' = FALSE
  /\ regs' = IF init_i387[tid] THEN Loaded(state'[tid]) ELSE Of(tid)
  /\ init_i387' = [init_i387 EXCEPT ![tid] = TRUE]
  /\ cpu' = tid
  /\ UNCHANGED <<switch_to_kernel, kernel_init_i387, odd>>

\* Whether the interrupt resumes the kernel task instead of the task tid.
KernelsTurn(tid) == counter >= task_count \/ tid = -1 \/ switch_to_kernel

TimerInterrupt ==
  /\ TskmgrGetNextTaskID
  /\ \/ KernelsTurn(NextTid) /\ ResumeKernel(NextTid)
     \/ ~KernelsTurn(NextTid) /\ ResumeTask(NextTid)
  /\ UNCHANGED <<used, ready, priority, task_count, made, started, aim>>
-----------------------------------------------------------------------------
(* What happens between interrupts *)

\* Somebody is on the CPU and not in the middle of a kill.
Acts == cpu # Nobody /\ aim[cpu] = -1

\* _TskmgrCreateTask, in the first unused slot.
CreateTask(t) ==
  /\ Acts
  /\ ~used[t] /\ \A s \in Slots : ~used[s] => t <= s
  /\ used' = [used EXCEPT ![t] = TRUE]
  /\ priority' = [priority EXCEPT ![t] = TASK_TICK_NORMAL]
  /\ tick' = [tick EXCEPT ![t] = TASK_TICK_NORMAL]
  /\ ready' = [ready EXCEPT ![t] = FALSE]
  /\ ran' = [ran EXCEPT ![t] = FALSE]
  /\ init_i387' = [init_i387 EXCEPT ![t] = FALSE]
  /\ task_count' = task_count + 1
  /\ made' = made \cup {t}
  /\ UNCHANGED <<state, running_tid, counter, switch_to_kernel, started, aim, cpu, regs, odd,
                 kernel_init_i387, kernel_task_ran, kernel_state>>

\* _TskmgrCreateTask out of memory: the slot is taken, and not counted, and ready
\* is what it was.
CreateTaskFails(t) ==
  /\ LATE_FAILURES /\ Acts
  /\ ~used[t] /\ \A s \in Slots : ~used[s] => t <= s
  /\ used' = [used EXCEPT ![t] = TRUE]
  /\ priority' = [priority EXCEPT ![t] = TASK_TICK_NORMAL]
  /\ tick' = [tick EXCEPT ![t] = TASK_TICK_NORMAL]
  /\ odd' = odd \cup {"halfmade"}
  /\ UNCHANGED <<ready, ran, running_tid, task_count, counter, switch_to_kernel,
                 made, started, aim, cpu, fpuvars>>

\* The creator sets the priority, of system tasks, and starts the task.
TskmgrSetTaskToReady(t, pr) ==
  /\ Acts /\ t \in made \ started
  /\ priority' = [priority EXCEPT ![t] = pr]
  /\ ready' = [ready EXCEPT ![t] = TRUE]
  /\ started' = started \cup {t}
  /\ UNCHANGED <<used, ran, tick, running_tid, task_count, counter,
                 switch_to_kernel, made, aim, cpu, odd, fpuvars>>

\* _TskmgrKillTask up to its wait, by the kernel task, another task or the task
\* itself (EXIT).
KillBegins(t) ==
  /\ Acts /\ used[t]
  /\ Cardinality({a \in Actors : aim[a] # -1}) < MaxKills
  /\ aim' = [aim EXCEPT ![cpu] = t]
  /\ UNCHANGED <<used, ready, ran, tick, priority, running_tid, task_count, counter,
                 switch_to_kernel, made, started, cpu, odd, fpuvars>>

\* (mutant) A kill that leaves running_tid alone.
RunningAfterKill_Kept(t) == running_tid

\* What a kill leaves of the current task.
RunningAfterKill(t) == IF running_tid = t THEN -1 ELSE running_tid

\* The rest of it.  The slot is emptied and task_count lowered without another
\* look at used.  A task that kills itself waits for the timer.
Killed(t) ==
  /\ used' = [used EXCEPT ![t] = FALSE]
  /\ task_count' = task_count - 1
  /\ made' = made \ {t} /\ started' = started \ {t}
  /\ running_tid' = RunningAfterKill(t)
  /\ aim' = [aim EXCEPT ![cpu] = -1, ![t] = -1]
  /\ cpu' = IF cpu = t THEN Nobody ELSE cpu
  /\ regs' = IF cpu = t THEN Of(Nobody) ELSE regs
  /\ odd' = odd \cup (IF used[t] THEN {} ELSE {"raced"})
  /\ UNCHANGED <<ready, ran, tick, priority, counter, init_i387, state,
                 kernel_init_i387, kernel_task_ran, kernel_state>>

KillEnds ==
  /\ cpu # Nobody /\ aim[cpu] # -1
  /\ Killed(aim[cpu])
  /\ UNCHANGED switch_to_kernel

\* A disk driver is still locked by the task: FALSE.
KillRefused ==
  /\ cpu # Nobody /\ aim[cpu] # -1
  /\ aim' = [aim EXCEPT ![cpu] = -1]
  /\ UNCHANGED <<used, ready, ran, tick, priority, running_tid, task_count, counter,
                 switch_to_kernel, made, started, cpu, odd, fpuvars>>

\* An exception in the task on the CPU: the handler stops the timer, kills the
\* task, and asks for the kernel task, also if the kill is refused
\* (_KnlKillTaskAndJumpToKernel).  (It first starts a successor of screen.sys,
\* pci.sys or timer.sys: CreateTask and TskmgrSetTaskToReady.)
Fault ==
  /\ cpu \in Slots
  /\ switch_to_kernel' = TRUE
  /\ \/ Killed(cpu)
     \/ UNCHANGED <<used, ready, ran, tick, priority, running_tid, task_count, counter,
                    made, started, aim, cpu, odd, fpuvars>>

Next ==
  \/ TimerInterrupt
  \/ \E t \in Slots :
       \/ CreateTask(t)
       \/ CreateTaskFails(t)
       \/ \E pr \in Priorities : TskmgrSetTaskToReady(t, pr)
       \/ KillBegins(t)
  \/ KillEnds
  \/ KillRefused
  \/ Fault

\* The timer keeps interrupting.
Spec == Init /\ [][Next]_vars /\ WF_vars(TimerInterrupt)
-----------------------------------------------------------------------------
(* Properties *)

\* The tables and the variables of the interrupt have their types: in
\* particular the current task is in the table or there is none.
TypeOK ==
  /\ used \in [Slots -> BOOLEAN] /\ ready \in [Slots -> BOOLEAN]
  /\ ran \in [Slots -> BOOLEAN] /\ tick \in [Slots -> Int]
  /\ priority \in [Slots -> Int] /\ init_i387 \in [Slots -> BOOLEAN]
  /\ state \in [Slots -> Images]
  /\ running_tid \in Slots \cup {-1} /\ task_count \in Int
  /\ counter \in Nat /\ switch_to_kernel \in BOOLEAN
  /\ kernel_init_i387 \in BOOLEAN /\ kernel_task_ran \in BOOLEAN
  /\ kernel_state \in Images
  /\ made \subseteq Slots /\ started \subseteq Slots /\ aim \in [Actors -> Slots \cup {-1}]
  /\ cpu \in Owners /\ regs \in Registers /\ odd \subseteq {"twice", "halfmade", "raced"}

\* The current task is one that was created, started and not killed since, so the
\* interrupt, which returns to it without looking (tasks.c:940), never resumes a
\* dead one; unless a creation failed late and left a slot that looks started.
CurrentIsStarted ==
  "halfmade" \notin odd /\ running_tid # -1 => running_tid \in started

\* Whoever runs finds in the SSE registers what it left there (kernel.c:1284,
\* 1351), as long as the kernel task has not been resumed twice running while a
\* task was current, and no creation failed late.
SseKept == odd \subseteq {"raced"} => regs.xmm = cpu

\* Nobody finds values of another in the x87 registers, not even when the SSE
\* registers have been mixed up: fnsave resets them and fxrstor loads them as
\* fxsave found them then (kernel.c:1283, 1351).  For the same reason a task does
\* not find its own there any more once it has been interrupted.
X87NotAnothers == regs.x87 \in {cpu, Nobody}

\* The tasks do not keep the kernel task, which runs the console, from the CPU.
KernelRuns == []<>(cpu = Kernel)

\* A task that is ready runs, sooner or later, unless it is killed: "it does
\* not run until [ready] is True, and then it starts to run" (tasks.h).  Tasks
\* that come and go without end may take all the turns, which is left aside, and
\* so are histories in which task_count got too low (tasks.c:536) by the kill of
\* a slot that was empty already, or whose creation had failed.
ReadyRuns ==
  \/ \A t \in Slots : \/ t \in started ~> (cpu = t \/ t \notin started)
                      \/ []<><<used' # used>>_vars
  \/ <>({"raced", "halfmade"} \cap odd # {})
=============================================================================
