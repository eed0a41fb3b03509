----------------------------- MODULE DriverLock -----------------------------
(***************************************************************************)
(* The locks of the disk drivers: ATA (kernel/ata.c), ATAPI (atapi.c) and  *)
(* AHCI (ahci.c) each keep a flag _lock and the task _lock_tid that holds  *)
(* it, taken by every transfer and looked at by _TskmgrKillTask (tasks.c). *)
(*                                                                         *)
(* The drivers run with interrupts enabled, so the steps of a transfer     *)
(* interleave with those of others wherever the timer interrupt may come;  *)
(* only what COMMON_LOCK() or lock() encloses is one step.                 *)
(***************************************************************************)
EXTENDS Integers

CONSTANT MAX_TASK_COUNT

ASSUME TasksAssumption == MAX_TASK_COUNT \in Nat \ {0}

Slots == 0 .. MAX_TASK_COUNT - 1
_LOCK_TID_KERNEL == -1
_LOCK_TID_NONE == -2
Actors == Slots \cup {_LOCK_TID_KERNEL}

Drivers == {"ata", "atapi", "ahci"}

\* The ATA and ATAPI devices are on the same buses.
Conflict(d, e) == d = e \/ {d, e} = {"ata", "atapi"}

VARIABLES
  _lock, _lock_tid,    \* of each driver
  running_tid,         \* tasks.c
  used,                \* the slots in use
  cpu,                 \* the actor on the CPU
  pc,                  \* where each actor is in a transfer
  driver,              \* and on which driver
  since,               \* what others took since the actor last looked at it
  odd                  \* what has happened that the locks do not provide for

vars == <<_lock, _lock_tid, running_tid, used, cpu, pc, driver, since, odd>>

Init ==
  /\ _lock = [d \in Drivers |-> FALSE]
  /\ _lock_tid = [d \in Drivers |-> _LOCK_TID_NONE]
  /\ running_tid = -1
  /\ used = {}
  /\ cpu = _LOCK_TID_KERNEL
  /\ pc = [a \in Actors |-> "idle"]
  /\ driver = [a \in Actors |-> "ata"]
  /\ since = [a \in Actors |-> {}]
  /\ odd = {}
-----------------------------------------------------------------------------
(* A transfer: AtaReadSectors, AtapiReadSector, AhciRead... *)

Goto(a, l) == pc' = [pc EXCEPT ![a] = l]

\* The other driver's lock: the transfer fails at once if it is taken.
Blocked(d) ==
  \/ d = "ata" /\ _lock["atapi"]      \* AtapiIsLocked()
  \/ d = "atapi" /\ _lock["ata"]      \* AtaIsLocked()

Begin(a, d) ==
  /\ pc[a] = "idle" /\ ~Blocked(d)
  /\ Goto(a, "wait")
  /\ driver' = [driver EXCEPT ![a] = d]
  /\ since' = [since EXCEPT ![a] = {}]
  /\ UNCHANGED <<_lock, _lock_tid, running_tid, used, cpu, odd>>

\* (mutant) A lock that is taken whatever the flag says once the tries are up.
Free_Any(d) == TRUE

Free(d) == ~_lock[d]

\* _AtaLock tries until the flag is clear or it has tried MAX_LOCK_RETRY times
\* (GiveUp), and then looks at the flag once more.
Look(a) ==
  /\ pc[a] = "wait" /\ Free(driver[a])
  /\ Goto(a, "take")
  /\ since' = [since EXCEPT ![a] = since[a] \ {driver[a]}]
  /\ UNCHANGED <<_lock, _lock_tid, running_tid, used, cpu, driver, odd>>

GiveUp(a) ==
  /\ pc[a] = "wait" /\ _lock[driver[a]]
  /\ Goto(a, "idle")
  /\ since' = [since EXCEPT ![a] = {}]
  /\ UNCHANGED <<_lock, _lock_tid, running_tid, used, cpu, driver, odd>>

\* (mutant) An owner that is not put on record.
Taker_Kernel(a) == _LOCK_TID_KERNEL

\* (mutant) The number of a slot, not its index.
Taker_Number(a) == running_tid + 1

\* TaskmgrGetRunningTaskID(): the current task, even if it is the kernel task
\* that runs.
Taker(a) == running_tid

\* The actors that are after a driver that conflicts with d.
Contenders(d) == {b \in Actors : pc[b] \in {"wait", "take"} /\ Conflict(driver[b], d)}

\* What COMMON_LOCK() encloses.
Take(a) ==
  LET d == driver[a] IN
  /\ pc[a] = "take"
  /\ _lock' = [_lock EXCEPT ![d] = TRUE]
  /\ _lock_tid' = [_lock_tid EXCEPT ![d] = Taker(a)]
  /\ Goto(a, "io")
  /\ since' = [b \in Actors |-> IF b = a THEN {}
                               ELSE IF b \in Contenders(d) THEN since[b] \cup {d}
                               ELSE since[b]]
  /\ odd' = odd \cup (IF \E e \in since[a] : _lock[e] THEN {"raced"} ELSE {})
                \cup (IF running_tid # a THEN {"misnamed"} ELSE {})
                \cup (IF \E b \in Actors \ {a} : pc[b] = "release" /\ driver[b] = d
                       THEN {"late"} ELSE {})
  /\ UNCHANGED <<running_tid, used, cpu, driver>>

\* _AtaUnlock, after a transfer that succeeded or failed MAX_RETRY times, clears
\* the flag first and then, with interrupts enabled, the owner.
Unlock(a) ==
  /\ pc[a] = "io"
  /\ _lock' = [_lock EXCEPT ![driver[a]] = FALSE]
  /\ Goto(a, "release")
  /\ UNCHANGED <<_lock_tid, running_tid, used, cpu, driver, since, odd>>

\* Nobody owns the lock of d.
Owner(d) == [_lock_tid EXCEPT ![d] = _LOCK_TID_NONE]

Release(a) ==
  /\ pc[a] = "release"
  /\ _lock_tid' = Owner(driver[a])
  /\ Goto(a, "idle")
  /\ UNCHANGED <<_lock, running_tid, used, cpu, driver, since, odd>>
-----------------------------------------------------------------------------
(* Tasks *)

\* The timer interrupt resumes a task, or the kernel task; the current task may
\* change in either case.
Switch(a, r) ==
  /\ a \in used \cup {_LOCK_TID_KERNEL} /\ r \in used \cup {-1}
  /\ a \in Slots => r = a
  /\ cpu' = a /\ running_tid' = r
  /\ UNCHANGED <<_lock, _lock_tid, used, pc, driver, since, odd>>

Create(t) ==
  /\ t \in Slots \ used
  /\ used' = used \cup {t}
  /\ UNCHANGED <<_lock, _lock_tid, running_tid, cpu, pc, driver, since, odd>>

\* (mutant) A kill that does not wait for the transfers of the task.
Busy_Never(t) == FALSE

\* Whether t is carrying out a transfer, as far as the locks tell.
Busy(t) == \E d \in Drivers : _lock[d] /\ _lock_tid[d] = t

\* _TskmgrKillTask waits for t not to be busy (and fails otherwise), and
\* releases what t still owns (AtaAttemptToUnlock...).  The keyboard's handler
\* kills, so it may come at any point of anyone's transfer.  The CPU of a dead
\* task goes to the kernel task (at the next interrupt).
Kill(t) ==
  LET owned == {d \in Drivers : _lock_tid[d] = t} IN
  /\ t \in used /\ ~Busy(t)
  /\ used' = used \ {t}
  /\ _lock' = [d \in Drivers |-> _lock[d] /\ d \notin owned]
  /\ _lock_tid' = [d \in Drivers |-> IF d \in owned THEN _LOCK_TID_NONE
                                     ELSE _lock_tid[d]]
  /\ pc' = [pc EXCEPT ![t] = "idle"]
  /\ since' = [since EXCEPT ![t] = {}]
  /\ running_tid' = IF running_tid = t THEN -1 ELSE running_tid
  /\ cpu' = IF cpu = t THEN _LOCK_TID_KERNEL ELSE cpu
  /\ UNCHANGED <<driver, odd>>

\* A step of the transfer of the actor on the CPU.
Transfer(a) ==
  \/ \E d \in Drivers : Begin(a, d)
  \/ Look(a)
  \/ GiveUp(a)
  \/ Take(a)
  \/ Unlock(a)
  \/ Release(a)

Next ==
  \/ Transfer(cpu)
  \/ \E t \in Slots : Create(t) \/ Kill(t)
  \/ \E a \in Actors, r \in Slots \cup {-1} : Switch(a, r)

Spec == Init /\ [][Next]_vars
-----------------------------------------------------------------------------
(* Properties *)

\* The locks and the transfers have their types: in particular an owner is a
\* task of the table, the kernel task or nobody.
TypeOK ==
  /\ _lock \in [Drivers -> BOOLEAN]
  /\ _lock_tid \in [Drivers -> Actors \cup {_LOCK_TID_NONE}]
  /\ running_tid \in Actors /\ used \subseteq Slots /\ cpu \in Actors
  /\ pc \in [Actors -> {"idle", "wait", "take", "io", "release"}]
  /\ driver \in [Actors -> Drivers] /\ since \in [Actors -> SUBSET Drivers]
  /\ odd \subseteq {"raced", "misnamed", "late"}

\* A transfer does not begin while another one is under way, on the same driver
\* or on the other one of ATA and ATAPI: "this function must not be called again
\* before a call has ended, nor while the ATAPI driver is doing I/O"
\* (_AtaReadSectors, ata.c:369).
OneAtATime ==
  \A a, b \in Actors : a # b /\ pc[a] = "io" /\ pc[b] = "io"
                       => ~Conflict(driver[a], driver[b])

\* _lock_tid "says which task is using the ATA driver" (ata.c:44), -1 being the
\* kernel task.
TidIsUser ==
  \A a \in Actors : pc[a] = "io" => _lock_tid[driver[a]] = a

\* _lock, "if TRUE, says that a task is using the ATA driver" (ata.c:41): there
\* is somebody left to release a lock that is taken.
LockIsUsed ==
  \A d \in Drivers : _lock[d] => \E a \in Actors : pc[a] = "io" /\ driver[a] = d

\* Transfers exclude each other unless two actors found the locks free before
\* either took one: neither a kill nor an unlocking frees a lock in use.
ExcludedUnlessRaced == "raced" \notin odd => OneAtATime

\* A lock has a user, kills notwithstanding, unless besides such a race a lock
\* was taken between the two halves of an unlocking.
UsedUnlessLate == odd \cap {"raced", "late"} = {} => LockIsUsed

\* The owner on record is the user, so that a kill waits for the right task,
\* unless besides the kernel task took a lock while a task was current.
NamedUnlessKernel == odd = {} => TidIsUser
=============================================================================
