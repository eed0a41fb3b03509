----------------------------- MODULE KernelLock -----------------------------
(***************************************************************************)
(* The kernel's lock: lock() and unlock() of kernel/lock.h, the same as    *)
(* COMMON_LOCK() of lock.c, which disable interrupts and count in          *)
(* lock_level how deep they are nested; LOCK_TASK() and UNLOCK_TASK()      *)
(* (tasks.h), bare cli and sti, with which _TskmgrKillTask (tasks.c) opens *)
(* the lock it is called under while it waits for a disk; and the system   *)
(* calls and exception handlers of kernel.c that they serve.               *)
(*                                                                         *)
(* lock_level is shared, whereas the interrupt flag belongs to the task,   *)
(* whose TSS keeps it.  A task is interrupted only when its flag is set,   *)
(* so the flag of whoever is on the CPU is all there is to remember.       *)
(*                                                                         *)
(* lock_level++ is a load and a store (the kernel is compiled with -O0),   *)
(* and lock() executes them with interrupts still enabled.  Everything     *)
(* else that touches lock_level does so with interrupts disabled, as long  *)
(* as no update is lost; after that nothing is claimed of the lock, and    *)
(* the model begins no further lock().                                     *)
(***************************************************************************)
EXTENDS Integers

CONSTANTS
  MAX_TASK_COUNT,
  MaxDepth          \* (bound) of nested calls of lock()

ASSUME LockAssumption == MAX_TASK_COUNT \in Nat \ {0} /\ MaxDepth \in Nat \ {0}

Slots == 0 .. MAX_TASK_COUNT - 1
Kernel == -1
Actors == Slots \cup {Kernel}

VARIABLES
  lock_level,
  flag,       \* the interrupt flag of the actor on the CPU
  cpu,        \* the actor on the CPU
  used,       \* the tasks that have not been killed
  pc,         \* where each actor is
  reg,        \* what it loaded of lock_level
  depth,      \* how many calls of lock() it has to undo
  target,     \* the task it is killing, or Kernel for none
  odd         \* what has happened that the lock does not provide for

vars == <<lock_level, flag, cpu, used, pc, reg, depth, target, odd>>

\* The kernel task and the tasks, already started, outside of any lock.
Init ==
  /\ lock_level = 0 /\ flag = TRUE /\ cpu = Kernel /\ used = Slots
  /\ pc = [a \in Actors |-> IF a = Kernel THEN "body" ELSE "user"]
  /\ reg = [a \in Actors |-> 0]
  /\ depth = [a \in Actors |-> 0]
  /\ target = [a \in Actors |-> Kernel]
  /\ odd = {}

Goto(a, l) == pc' = [pc EXCEPT ![a] = l]
Alive(a) == a \in used \cup {Kernel}
-----------------------------------------------------------------------------
(* lock() and unlock() *)

\* lock_level++ reads lock_level ...
Load(a) ==
  /\ pc[a] = "body" /\ Alive(a) /\ "lost" \notin odd
  /\ reg' = [reg EXCEPT ![a] = lock_level]
  /\ Goto(a, "loaded")
  /\ UNCHANGED <<lock_level, flag, cpu, used, depth, target, odd>>

\* (mutant) cli without lock_level++.
Raised_Uncounted(n) == n

\* What it stores.
Raised(n) == n + 1

\* ... and stores it, raised.  What others have stored since is lost.
Raise(a) ==
  /\ pc[a] = "loaded"
  /\ lock_level' = Raised(reg[a])
  /\ reg' = [reg EXCEPT ![a] = 0]
  /\ Goto(a, "raised")
  /\ odd' = odd \cup (IF reg[a] # lock_level THEN {"lost"} ELSE {})
  /\ UNCHANGED <<flag, cpu, used, depth, target>>

\* cli, an instruction later.
Cli(a) ==
  /\ pc[a] = "raised"
  /\ flag' = FALSE
  /\ depth' = [depth EXCEPT ![a] = 1]
  /\ Goto(a, "in")
  /\ UNCHANGED <<lock_level, cpu, used, reg, target, odd>>

\* lock() by a function called under the lock.
LockAgain(a) ==
  /\ pc[a] = "in" /\ depth[a] < MaxDepth
  /\ lock_level' = lock_level + 1
  /\ depth' = [depth EXCEPT ![a] = depth[a] + 1]
  /\ UNCHANGED <<flag, cpu, used, pc, reg, target, odd>>

\* (mutant) The count is tested before it is lowered.
FlagAfter_Early(level) == flag \/ level + 1 = 0

\* sti when the count is back at 0.
FlagAfter(level) == flag \/ level = 0

\* (mutant) The caller has an unlock() too many.
Unlock_Twice(a) ==
  /\ pc[a] = "in"
  /\ IF lock_level = 0 THEN UNCHANGED <<lock_level, flag>>
     ELSE /\ lock_level' = lock_level - 1
          /\ flag' = FlagAfter(lock_level - 1)
  /\ depth' = [depth EXCEPT ![a] = depth[a] - 1]
  /\ Goto(a, IF depth[a] > 0 THEN "in" ELSE "body")
  /\ UNCHANGED <<cpu, used, reg, target, odd>>

\* With lock_level at 0 it only reports an "Invalid unlock() calling".
Unlock(a) ==
  /\ pc[a] = "in"
  /\ IF lock_level = 0 THEN UNCHANGED <<lock_level, flag>>
     ELSE /\ lock_level' = lock_level - 1
          /\ flag' = FlagAfter(lock_level - 1)
  /\ depth' = [depth EXCEPT ![a] = depth[a] - 1]
  /\ Goto(a, IF depth[a] > 1 THEN "in" ELSE "body")
  /\ UNCHANGED <<cpu, used, reg, target, odd>>
-----------------------------------------------------------------------------
(* _TskmgrKillTask, called under the lock *)

\* UNLOCK_TASK(), while a disk driver may be finishing a transfer of t.
Open(a, t) ==
  /\ pc[a] = "in" /\ lock_level # 0 /\ t \in used
  /\ flag' = TRUE
  /\ target' = [target EXCEPT ![a] = t]
  /\ Goto(a, "open")
  /\ UNCHANGED <<lock_level, cpu, used, reg, depth, odd>>

\* The calls of lock() that an actor has yet to undo.
Held(a) == depth[a] + (IF pc[a] = "raised" THEN 1 ELSE 0)

\* (mutant) LOCK_TASK() forgotten after the wait.
Closed_Open == flag

\* LOCK_TASK()
Closed == FALSE

\* The lock is closed again, and t is killed, with whatever it held of the lock,
\* or not, if its transfer has not ended.  A task may kill itself, and goes on
\* until the timer interrupts it.
Close(a) ==
  LET t == target[a] IN
  /\ pc[a] = "open"
  /\ flag' = Closed
  /\ \/ /\ used' = used \ {t}
        /\ pc' = [[pc EXCEPT ![t] = "dead"] EXCEPT ![a] = "in"]
        /\ depth' = [depth EXCEPT ![t] = IF t = a THEN depth[a] ELSE 0]
        /\ odd' = odd \cup (IF t # a /\ Held(t) > 0 THEN {"leaked"} ELSE {})
     \/ Goto(a, "in") /\ UNCHANGED <<used, depth, odd>>
  /\ target' = [target EXCEPT ![a] = Kernel]
  /\ UNCHANGED <<lock_level, cpu, reg>>
-----------------------------------------------------------------------------
(* System calls, exceptions and the timer interrupt *)

\* _KnlSystemCallInterrupt and the head of _KnlProcessSystemCall: interrupts are
\* disabled up to UNLOCK_TASK().
SystemCall(a) ==
  /\ pc[a] = "user" /\ Alive(a)
  /\ flag' = TRUE
  /\ Goto(a, "body")
  /\ UNCHANGED <<lock_level, cpu, used, reg, depth, target, odd>>

\* LOCK_TASK() and iret to the task, in which interrupts are enabled.
Return(a) ==
  /\ a \in Slots /\ pc[a] = "body"
  /\ flag' = TRUE
  /\ Goto(a, "user")
  /\ UNCHANGED <<lock_level, cpu, used, reg, depth, target, odd>>

\* An exception in a task, or in a system call of it: the handler, a task of its
\* own with interrupts disabled, locks, stops the timer, kills the task, unlocks
\* and waits for the scheduler (_KnlKillTaskAndJumpToKernel).  What the task had
\* of the lock is never undone, and then the handler waits with interrupts
\* disabled.
Exception(a) ==
  /\ a \in used /\ pc[a] \in {"user", "body", "loaded", "raised", "in", "open"}
  /\ flag' = (lock_level = 0)
  /\ used' = used \ {a}
  /\ depth' = [depth EXCEPT ![a] = 0]
  /\ odd' = odd \cup (IF Held(a) > 0 THEN {"leaked"} ELSE {})
  /\ Goto(a, "spin")
  /\ UNCHANGED <<lock_level, cpu, reg, target>>

\* The timer interrupt, which raises lock_level and lowers it again
\* (unlock_without_sti), resumes b where b was itself interrupted.
Timer(b) ==
  /\ flag /\ b # cpu /\ Alive(b)
  /\ cpu' = b
  /\ pc' = IF Alive(cpu) THEN pc ELSE [pc EXCEPT ![cpu] = "dead"]
  /\ depth' = IF Alive(cpu) THEN depth ELSE [depth EXCEPT ![cpu] = 0]
  /\ odd' = odd \cup (IF lock_level > 0 THEN {"slipped"} ELSE {})
  /\ UNCHANGED <<lock_level, flag, used, reg, target>>

Step(a) ==
  \/ Load(a)
  \/ Raise(a)
  \/ Cli(a)
  \/ LockAgain(a)
  \/ Unlock(a)
  \/ \E t \in Slots : Open(a, t)
  \/ Close(a)
  \/ SystemCall(a)
  \/ Return(a)
  \/ Exception(a)

Next == Step(cpu) \/ \E b \in Actors : Timer(b)

\* The scheduler gives the kernel task the CPU again and again as long as the
\* timer interrupts (Scheduler!KernelRuns), and every actor goes on.
Spec ==
  /\ Init /\ [][Next]_vars
  /\ SF_vars(Timer(Kernel))
  /\ \A a \in Actors : WF_vars(cpu = a /\ (Cli(a) \/ Unlock(a) \/ Close(a)))
-----------------------------------------------------------------------------
(* Properties *)

\* The lock and the actors have their types: in particular lock_level, an int32,
\* does not fall below 0 unless an update of it was lost.
TypeOK ==
  /\ lock_level \in Int /\ ("lost" \notin odd => lock_level >= 0)
  /\ flag \in BOOLEAN /\ cpu \in Actors /\ used \subseteq Slots
  /\ pc \in [Actors -> {"user", "body", "loaded", "raised", "in", "open", "spin", "dead"}]
  /\ reg \in [Actors -> Int]
  /\ depth \in [Actors -> 0 .. MaxDepth] /\ target \in [Actors -> Actors]
  /\ odd \subseteq {"slipped", "lost", "leaked"}

\* At most one actor is under the lock, interrupts being disabled, even when an
\* interrupt came between lock_level++ and cli; unless one came inside of
\* lock_level++ (lock.c:33, lock.h:31) and an update was lost.
MutualExclusion ==
  "lost" \notin odd => \A a \in Actors : pc[a] = "in" => cpu = a /\ ~flag

\* Nor is unlock() called with lock_level at 0, which it reports as an "Invalid
\* unlock() calling" (lock.h), unless an update of lock_level was lost.
NoInvalidUnlock ==
  "lost" \notin odd => \A a \in Actors : lock_level >= Held(a)

\* Interrupts are enabled in a system call but for its beginning and end: "this
\* region is in the state of interrupts enabled" (kernel.c:2015), and in a
\* handler that waits for "the scheduler [to] set kt_jk_lock to FALSE"
\* (kernel.c:2251); unless it is under the lock.
Enabled == pc[cpu] \in {"body", "spin"} => flag

\* That is so as long as no interrupt came inside of lock(), or while the lock
\* was opened to wait for a disk, and no task died with calls of lock() to undo.
EnabledUnlessSlipped == odd = {} => Enabled

\* Then, too, the kernel task gets the CPU again and again, provided that what
\* is done under the lock comes to an end.
KernelGetsCpu ==
  \/ <>(odd # {})
  \/ \E a \in Actors : <>[](cpu = a /\ pc[a] \in {"in", "open"})
  \/ []<>(cpu = Kernel)
=============================================================================
