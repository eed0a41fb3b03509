# A TLA+ verification of the ISystem x86 kernel

ISystem x86 (`src/`) is a multitasking operating system for 32-bit x86: a
kernel in C, system applications that run in ring 0, user applications in
ring 3, and libraries. This directory holds TLA+ models of the parts of the
kernel whose correctness depends on the order in which things happen, TLC
configurations that check them on small instances, and proofs that TLAPS checks
for all instances.

## 1. Inventory

One processor runs the *kernel task* (the console, the GUI and their event
loops) and up to 64 *tasks*. Everything is interleaved by the timer interrupt;
what may not be interrupted is enclosed in `lock()` / `unlock()`, which disable
interrupts.

| Component | State | Operations | Talks to | What is hard |
|---|---|---|---|---|
| Memory manager (`memory.c`) | two tables of block descriptors, each chained in a doubly linked list; the byte counter | `MemAlloc`, `MemAllocWithStart`, `MemFree`, `MemGetBlockSise`, table statistics | called by everything | long histories of splitting and merging; 32-bit wrap; full tables |
| Task manager (`tasks.c`) | 64 slots (`struct Task`), `running_tid`, `task_count` | create (four variants, one of them waiting for the task's end), start, kill (user, system) | memory, disk drivers, paging, windows, message queues | creation that fails half way; kill enables interrupts in the middle |
| Scheduler (`TskmgrGetNextTaskID`, `_KnlTimerInterrupt`) | ticks, priorities, `counter`, `switch_to_kernel`, x87/SSE save areas | one timer interrupt | task table, exception handlers | fairness between the kernel task and the tasks; whose registers are saved where |
| Kernel lock (`lock.h`, `lock.c`) | `lock_level`, the processor's interrupt flag | `lock`, `unlock`, `unlock_without_sti`, `LOCK_TASK`, `UNLOCK_TASK` | every component | a global nesting count against a per-task flag |
| Disk driver locks (`ata.c`, `atapi.c`, `ahci.c`) | `_lock`, `_lock_tid` each | lock, unlock, transfer, `...AttemptToUnlock` | task manager (kill), scheduler (`running_tid`) | test and set in two steps, two-step release, kill during a transfer |
| System calls, exceptions (`kernel.c`, `syscall/`) | `is_system_call`, one stack per task, `kt_jk_lock` | entry, return, kill of a faulting task, restart of system tasks | lock, task manager, scheduler | interrupts enabled and disabled by hand |
| Paging (`paging.c`) | page directories | map, unmap, find free pages | task manager | search for a run of pages |
| Message queues (`mqueue.c`), linked list (`libs/dslib`) | list of queues, each with two lists of messages | new, free, add, pop, pop by task; `pci.sys` as a service, the kernel as its client | system calls, task manager (kill) | a list changed while it is walked; system calls interleave without a lock; answers that come late |
| Kernel timers (`timer.c`) | table of timers, tick count | new, delete, clear, start, stop, dispatch | timer interrupt, `timer.sys` | the interrupt counts what a system call of `timer.sys` resets; memory that changes hands |
| IFS1 file system (`fs/ifs1`) | blocks on disk, block allocation table in memory, copies of blocks in open files | create, delete, rename, list, open, write, append, close, repair | disk drivers, console, system calls | its lock is never enabled; a power failure between two writes |
| System lock file (`_KnlEnterSystem`), configuration, font, log | one file, locks of files on the disk | marked at start, emptied at shutdown | file system | recovery after a power failure at any moment |
| Keyboard, mouse | key queue, flags | interrupt, read | tasks, console | producer in interrupt context |
| Network, GUI and windows, console, screen, ELF, platform drivers, libraries, applications, tools, boot | various | various | | mostly sequential, device programming, or third-party |

The properties that make the modelled components correct:

* memory: a block belongs to its caller alone until it is released, lies where
  it was asked for, can be released again, and nothing is lost;
* tasks: a slot is either free or holds a whole task; nobody's slot is given
  away while he waits for it; only what was created runs; only what may be
  killed is killed;
* scheduler: it returns only to living, started tasks; the kernel task and
  every ready task run again; registers are carried over;
* kernel lock: one actor at a time, no unbalanced unlock, interrupts enabled
  again afterwards;
* driver locks: one transfer at a time on a bus, a lock has a user, the user is
  on record;
* linked list: it holds what was added and not removed, in its order, and counts it;
* message queues: a name leads to one queue, a queue belongs to a living task, a
  channel has its limit, an answer answers the question that was asked, and
  there is one;
* timers: an event comes neither early nor never, and a timer that is enabled has
  a slot of its own;
* file system: a block has one owner, the allocation table holds only free
  blocks, directory and files agree, a file is open once;
* session: after a start nothing is locked that nobody uses, and there is a
  start.

## 2. Modules

| Module | Models | Used by |
|---|---|---|
| `Allocator` | what the memory manager promises: disjoint blocks (abstract specification) | `Memory` |
| `Memory` | `memory.c`; implements `Allocator` | `MCMemory`, `MemoryProofs` |
| `Tasks` | life of a task, `tasks.c` | `MCTasks`, `TasksProofs` |
| `Scheduler` | `TskmgrGetNextTaskID`, `_KnlTimerInterrupt` | `MCScheduler`, `SchedulerProofs` |
| `DriverLock` | locks of `ata.c`, `atapi.c`, `ahci.c`, and the kill of a task | `MCDriverLock`, `DriverLockProofs` |
| `KernelLock` | `lock.h`, `lock.c`, `LOCK_TASK`, system call entry, exceptions | `MCKernelLock`, `KernelLockProofs` |
| `Pointers` | `NULL` of `types.h` | `Memory`, `LinkedList`, `MQueue` |
| `LinkedList` | `libs/dslib/linked_list.c`, store by store | `MCLinkedList`; proofs in `MQueueProofs` |
| `MQueue` | `mqueue.c`, its system calls, the kernel (`pci.c`) and `pci.sys` as client and service | `MCMQueue`, `MQueueProofs` |
| `Timers` | `timer.c`, `timer.sys` | `MCTimers`, `TimersProofs` |
| `Ifs1` | `fs/ifs1/blocks.c`, files of `fs/ifs1/fs.c` | `MCIfs1`, `Ifs1Proofs` |
| `Session` | `_KnlEnterSystem`, `_KnlLeaveSystem`, `config_init`, `EnfntInit`, `LogFree`, repair | `MCSession`; proofs in `Ifs1Proofs` |

Each `MC...` module adds only what TLC needs: bounds and views. Definitions
marked *(mutant)* are what a definition would be with a plausible mistake in
the code; replacing the definition by it must make TLC find a property
violated, which shows that the property depends on that code.

**Exceptional events.** The code has a few weak points which, once hit, leave
the component in a state where most promises are void. Each module records them
in a history variable (`odd`; `mishaps` in `LinkedList` and `Session`) at the step where they occur. The properties of the passing runs and the theorems then say that
*without* these events all is well, that is, that there is no further weak
point. Each event is reachable in its module. One of them, two additions to a
list at the same time, has a run of its own, since a comment in the code denies
its effect.

### Memory

A descriptor is a number, its fields are functions over descriptors, NULL is 0.
Each public operation runs between `lock()` and `unlock()` and is one action.
`MemAllocWithStart` has three outcomes (no memory, cut from the end of a free
block, cut from its start), `MemFree` three as well (fails, merged with the
first free neighbour in list order, appended). A search along a list is the
least set closed under following links (`Visited`), and not a recursion, so that the module can be proved
about; an operation whose search would never end (a ring of links) is disabled.
Arithmetic on addresses is modulo `WORD` (2^32). `live` is a ghost: the blocks
callers hold. `want` is the `m_start` they asked for.

Exceptional events: `zero`, a block of length 0 is allocated (a request of 0
bytes, or one that wraps to 0 in `MemAlign4KB`); `wrap`, `m_start + length` wraps; `stale`, a block is
released into the empty free list with links of the allocated list
(memory.c:488-496), into which a search of the free list then runs on.

`Implements` maps the manager to `Allocator`: the blocks handed out are `live`,
and the allocator is broken once an exceptional event has occurred. Each of the
outcomes above is then a step of the allocator or leaves its state alone.

### Tasks

The actors are the kernel task and the tasks; whoever is on the CPU acts. What
lies between `lock()` and `unlock()` is one action. `_TskmgrKillTask` is two
(`KillBegins`, `KillEnds`), since it enables interrupts to wait for the disk
drivers. The memory a slot refers to is `null`, `own` or `freed`; open files, memory
blocks, queues and windows of a task are released in the same step and stand or
fall with it. Exceptional events: `halfmade`, a creation failed after it had
taken the slot, which keeps `used` and the `ready` flag of its last task and may
be scheduled (tasks.c:186, 329); `raced`, a kill or start hit a slot whose task
had changed; `twice`, memory given back a second time; `stolen`, `SCALL_WAIT`
released a slot for whose end another actor waits.

`SCALL_EXEC` reserves the slot of the task it has made (system.c:403) and
`SCALL_WAIT` releases any slot that is not used, whoever made the task
(system.c:422-425): `SyncReserved` excludes the second for the slots of
synchronous creations, and the slot of an `EXEC` for which nobody ever waits
stays reserved. The return value, which `SCALL_WAIT` reads after the release, is
not modelled.

`SystemSparedUnlessRaced` is an action property: a `TskmgrKillTask`, which tests
that its victim is a user task (tasks.c:560), kills a system task only if the
slot changed hands while it waited for the disk drivers.

### Scheduler

`TimerInterrupt` is the whole of `_KnlTimerInterrupt`: the choice of the next
task, the turn of the kernel task, saving and loading of the x87 and SSE
registers. A register file is abstracted to the actor whose values it holds.
Between interrupts tasks are created, started and killed. A kill is two steps,
`KillBegins` and `KillEnds` or `KillRefused`, since it waits for the disk drivers
with interrupts enabled (tasks.c:436-449); that of a faulting task is one, since
its handler has stopped the timer. The ghost `started` has the tasks that were
created and started, whatever the flags say. `LATE_FAILURES` says whether a
creation may fail after taking its slot.

Exceptional events: `halfmade`, a creation failed late: its slot has the flags of
its last task, may be scheduled, and is not counted, though its kill decrements
`task_count` (tasks.c:536); `raced`, a kill ended with a slot that another had
emptied while it waited: `used` is not looked at again and `task_count` is
decremented twice. After both, `counter >= task_count` gives the tasks too few
turns, so `ReadyRuns` leaves such histories aside. `twice`, the kernel task was
resumed twice running while a task was current: at the second time the kernel
task's registers are saved as those of the current task (kernel.c:1280), because
`running_tid` says which task is current and not who was interrupted.

The x87 registers are reset at every switch:
`fnsave` resets them before `fxsave` stores them, and `fxrstor` loads those over
what `frstor` has loaded (kernel.c:1283, 1351). `X87NotAnothers` is what is left
of their protection: nobody sees another's values, though after a switch not
his own either.

### DriverLock

All three drivers have the same lock. A transfer passes through `Begin` (is the
other driver on the bus locked?), `Look`, `Take` (under `COMMON_LOCK()`), the
transfer, `Unlock` and `Release` (the two stores of `_AtaUnlock`). `Kill` is
`_TskmgrKillTask` as far as the locks go. `since` is a ghost: what others have
taken since the actor looked. Exceptional events: `raced`, a lock was taken
that had been taken since the actor looked; `late`, a lock was taken between
the two stores; `misnamed`, the kernel task took a lock while a task was
current.

### KernelLock

`lock()` is three steps: `lock_level++` loads (`Load`) and stores (`Raise`), the
kernel being compiled with -O0, and then comes `cli`; the interrupt may come
between any two of them, and under the lock it cannot. The interrupt flag is kept for the
actor on the CPU only: any other was interrupted, so its flag is set.
Exceptional events: `slipped`, an interrupt came while `lock_level` was not 0;
`lost`, what others did to `lock_level` between a load and its store is lost;
`leaked`, a task was killed, or faulted, with calls of `lock()` to undo. After a slip a task may go
on with a raised count which its `unlock()` does not bring to 0, so that
interrupts stay disabled, contrary to kernel.c:2015, until somebody enables them
by hand. That alone does not let two actors under the lock. A lost update does: the
count is then too low, and an `unlock()` enables interrupts under somebody else's lock,
or finds the count at 0. From there on `unlock()` can be interrupted as well,
which the model, where it is one step, does not follow, and it begins no
further `lock()`; no property claims anything of such histories. A fault is handled in a task of
its own with interrupts disabled. If the faulting task was under the lock,
`lock_level` does not come back to 0 and the handler waits for ever for an
interrupt (kernel.c:2251). Left out: a fault in the kernel task, which halts the
machine (`die`); a handler whose kill is refused because the task is in a disk
transfer; and the interrupts a handler can get while its kill waits for a disk
driver if the RTC drives the scheduler, since only the APIC timer is stopped.

### LinkedList

An operation tests the list, takes one of its branches, and then makes the
branch's stores one by one; a branch is a sequence of stores, each a field and
the expression it gets, so that the interleaving of two operations is one of
their stores. The values of expressions are those at the time of the store, as
in the code. `sweep` and `Walk` are the loop of `_MqPopMessageWithTaskID`, which
reads `next` of nodes it has removed. `listed` and `ahead` are ghosts: the nodes
the list should hold, and which of two nodes is ahead of the other. What has been
removed keeps its place in `ahead` until the next node is added, so that one can say
where a walk is that stands on a node it has removed. Exceptional events: `torn`, an operation began while another was
under way; `unshifted`, a node was put before others, after which the old head's
`prev` is itself (linked_list.c:258) and removing it writes to the wrong places;
`inserted`, a node was inserted without being counted (linked_list.c:296-300);
`stray`, a store went through NULL. No function of the kernel calls
`unshift_node` or `insert_node` yet.

### MQueue

The actors are the tasks, each a service or a client or both as it pleases, and
the kernel task, which is a client of `pci.sys`. One operation on a list is one
step (the inside of it is `LinkedList`), and whoever is at it may be interrupted
or killed between two steps. A message is who sent it, whether it is to be
answered, and, for the kernel's, the number of the request. The list of queues is
a set of numbers given in the order in which they are made: a queue is only ever
appended, so that the first in the list is the least. What is left of a channel
by `_MqPopMessageWithTaskID` is given place by place, the k-th of the messages that
are not for the task, which the provers can reason about. `answer` is a ghost:
what the kernel last took as an answer, and to what. Exceptional events: `twins`,
two tasks made queues of one name at the same time, since the name is copied
last (mqueue.c:87, 121); `crowded`, somebody added to a channel between another's
test and addition, after which there is no limit, the test being for equality;
`unowned`, a task was killed between making a queue and noting it in its table;
`gaveup`, the kernel gave up waiting; `full` and `nomemory`, a message was not
sent; `shared`, a program uses a service too. With `gaveup` or `shared` the kernel
takes whatever is first in the channel (`MqPopMessage` does not look for whom it
is): an answer to an earlier request, or to somebody else.

A queue that is deleted is not released and stays in its task's table, so that
the kill of the task deletes it again (mqueue.c:138, tasks.c:484); the second
deletion works on two lists that were released. The model takes it for the
deletion of empty lists. `SCALL_MQUEUE_S_DELETE`, `S_PUSH` and `S_POP` take any
pointer (system.c:228-277); in the model a task passes those of its own queues,
since no call tells it another's. What a task does with a pointer it made up is
outside the model, like a wild write.

### Timers

A timer is an address that may be given out again once it is released; the
ghost `due` counts the interrupts a timer must still see. `TmrIncTicks` is one
step (interrupts are disabled), `TmrDispatchTick` takes four for each slot, and
`TmrNew` and `TmrClear` two each. `TmrDelete` is one step: its first store takes
the timer from the slot, its second releases memory, and what `timer.sys` does
with a timer it had read before comes before or after both. Memory that was
released may go to a new timer, or to something else that puts any contents
into it (`Overwrite`). There is one dispatcher, `timer.sys`; `SCALL_DISPATCH_TICK`
(system.c:453) is open to every task, and if a second one made it two could find
a timer at zero and both call its event, so `NeverEarly` is about a system in
which none does. Exceptional events: `reused`, the memory of a
deleted timer was given out again while `timer.sys` was working on it;
`overwritten`, two calls of `TmrNew` found the same free slot; `cleared`,
`TmrClear`, which releases a timer before it empties the slot and does not tell
its owner, met somebody's use of the timer.

### Ifs1

The disk is a function from block numbers to blocks; of a block the model keeps
what decides about blocks: used, type, name, lock, the ids of data blocks, and
the length in blocks. The directory is a block of its own. `enable_ifs1_lock()`
is commented out (kernel.c:298), so `lock()` in `fs.c` does nothing, and a step
ends with each block written, or with each change of memory that others can
see: looking at the head of the table of free blocks and shifting it, or finding
a block by a scan; writing it; entering it in the directory; marking a file
unused, reading the directory again, clearing the entry; reading a file's block
and writing it with another name; reading a directory, dropping the entries of
free blocks and writing it back, which is what a listing does; testing and
writing the lock of a file and then recording it in the task's table, and in the
opposite order on closing; writing a file's block as free and forgetting it,
block by block; saving the file's block. The search for a path is one step, and
a listing drops what is free when it reads the directory at once and what is
freed later one by one. A kill ends a task between any two steps and closes
the file in its table; a restart forgets all that is in memory, repairs and
reads the table again. Accesses to the disk do not fail in the model, and of
`_Ifs1NewBlockFromBAT` the stores of the list are one step (`LinkedList` has
them), since two calls at once are an exceptional event whatever they do.
Exceptional events:

* `table`: two tasks were in `_Ifs1NewBlockFromBAT` at the same time, whose list
  has no lock; or a task was with a caller for another disk, which has the same
  static pointer to the table (blocks.c:146); or a task was killed there;
* `scanned`: two tasks found the same free block while the table was empty, or a
  block was taken that is still in the directory, or whose deletion is not over
  (blocks.c:380);
* `stale`: the directory was written back as it had been before another's change
  (fs.c:328, 578, 1214): also by a mere listing;
* `changed`: a file's block was written back as it had been before another's
  change (fs.c:455, 708, 1832), or marked unused after it had become, deleted and
  taken again, that of another file, which has the same name and no entry yet;
  this takes three tasks, and the proof of `DirectoryAgrees` brought it to light;
* `renamed`: a file got a name that another has or is about to get, or was
  renamed while open, so that the old name will be written again (fs.c:707);
* `dead`: a file was opened that was deleted: the path is found by the name in a
  block without a look at `used` (fs.c:935);
* `lost`: a block was written for a file that found no entry (fs.c:331);
* `cut`: a task was killed, or the machine stopped, between the block of a file
  and its entry;
* `torn`: the machine stopped during a write, which frees the old blocks on the
  disk before it saves the file's block (fs.c:1969, 2003), or the task was killed
  between a block's release and its removal from the file (fs.c:1969, 1971);
* `unheld`: a task was killed after the lock of its file was written and before
  the file was in its table (syscall/fs.c:134), or after it was taken from the
  table and before the lock was cleared (169): the file stays locked until the
  next repair.

`BatFree` is suspended after `table` only, the other properties after any of
them.

Data blocks of a deleted file are not freed (fs.c:454), and a write on a full disk goes
on without the missing blocks and succeeds (fs.c:1989); the model does the
same, and the properties allow it. Three further weak points are outside of it:
an append of more than one block to a file that ends with a full block allocates
a block twice for the same place (fs.c:2336, 2365); a close whose buffered data
cannot be appended leaves the file locked (fs.c:1905); and an open of a locked
file releases a pointer that was never set (fs.c:1827).

### Session

One pass from power on to power off, as far as the locks of files on the disk
go: `config_init` and `EnfntInit` read the files without which the kernel dies
(`Vital`) and `pci_init` loads a task from a file it can do without,
`_KnlEnterSystem` tests `system.lock`, marks it or repairs, tasks open and close
files, `_KnlLeaveSystem` empties `system.lock`, and the log is written. Which
font is vital depends on the configuration and the display mode; files that are
there but hold nonsense, which kill the kernel too, are left out. The power may
fail between any two block writes. Exceptional moments: `lockedout`, `system.lock` itself is open and can
never be opened again; `unmarked`, a file is open while the mark is not there,
so that no repair will come (at the start before it is set, or at the shutdown
after it is gone); `unrepaired`, a file is open on a disk other than DA and DB,
the only ones that are repaired (kernel.c:3753-3762): it stays locked for good;
`vital`, a file is open that is read before the repair: the kernel will die at
every start. `RepairedFiles` are the files of DA and DB. If the system is on a
SATA disk, the disk VS is SA (system.h:16, disk.c:297) and none of the system's
own files is among them, so all that `Unlocked` then says of them is that they
are not locked unless they were once open when the power failed. Failures of the
disk itself are left out.

## 3. Runs

Passing runs:

| Run | Instance | Shows |
|---|---|---|
| `memory` | 5 pages of memory, 3 descriptors per table, requests of 0, 1, 2 and 3 pages and one that wraps, three values of `m_start` | `Exclusive`, `Placed`, `Findable`, `Accounting`, `Implements` |
| `tasks` | 2 slots, every allocation may fail | `WholeTasks`, `SyncReserved`, `SystemSparedUnlessRaced` |
| `scheduler` | 2 slots, all priorities, late failures, 2 kills at a time | `X87NotAnothers`, `CurrentIsStarted`, `SseKept`, `KernelRuns` |
| `scheduler_fair` | the same without late failures | `ReadyRuns` |
| `driver_lock` | 2 tasks and the kernel task, 3 drivers | `ExcludedUnlessRaced`, `UsedUnlessLate`, `NamedUnlessKernel` |
| `kernel_lock` | 2 tasks and the kernel task, nesting up to 2 | `MutualExclusion`, `NoInvalidUnlock`, `EnabledUnlessSlipped`, `KernelGetsCpu` |
| `linked_list` | 2 users, 4 nodes | `Represents`, `Counted` |
| `mqueue` | 2 tasks and the kernel task, 2 queues of one name, channels of 2 messages, 2 requests | `LimitUnlessCrowded`, `OneNameUnlessTwins`, `OwnedUnlessKilled`, `AnswerFits`, `KernelAnswered` |
| `timers` | 2 callers, 2 addresses, 2 slots, intervals 1 and 2 | `NeverEarly`, `SlotsLive`, `InOneSlot`, `Fired` |
| `session` | two vital files, the log, one more on a repaired disk and one on another | `Unlocked`, `Boots` |
| `ifs1` | 2 tasks, 2 names, 3 blocks, a directory of 2, files of 1 block, a table of 2 blocks | `BatFree`, `OneOwner`, `DirectoryAgrees`, `LocksHeld` |

The runs of `memory`, `driver_lock` and `kernel_lock` also check `TypeOK`; the
type invariants of `Tasks`, `Scheduler`, `MQueue`, `Timers`, `Session` and `Ifs1` are part of
what is proved.

A run that refutes what the code's comments say:

| Run | Comment | What happens |
|---|---|---|
| `linked_list_lost` | `mqueue.c:211`: TRUE is success | two additions interleave, both return TRUE, and one message is in no list |

### Bounds

* `memory`: three descriptors make lists with a head, a middle and a foot, so
  all four cases of `_MemRemoveMBD` occur, and both tables run full. Five pages
  leave room for a free block on both sides of a released one. `VIEW Seen`
  leaves out the fields of descriptors not in use; that they are never read in
  ordinary histories follows from the proved invariant (the members of a list
  are the descriptors in use). `CONSTRAINT Ordinary` stops after an exceptional
  event, after which the properties claim nothing.
* `tasks`, `scheduler`: `CountBound` stops histories in which `task_count`
  falls ever further, which needs repeated kills of uncounted slots. Two slots
  and the kernel task give two killers of one victim, and its successor; with two
  kills waiting at a time (`MaxKills`) they race. The ticks are 3, 4 and 1 in place of the real ones; the order of their sizes does
  not matter to the algorithm, their being positive does.
* `driver_lock`: three actors on three drivers; the proofs cover any number.
* `kernel_lock`: `MaxDepth` bounds the nesting of `lock()`; nested calls only
  count. Deadlock is not an error in this run: the machine really can come to a
  stand, with a handler waiting for the timer with interrupts disabled, after
  an interrupt has slipped in between `lock_level++` and `cli` or a task has died
  under the lock.
* `linked_list`: four nodes give every branch of a removal with nodes to spare,
  and a walk with two removals in the middle. `VIEW Seen` leaves out the links of
  nodes in no list and the variables of idle users, which are written before
  they are read. `CONSTRAINT Ordinary` stops after `torn` and `unshifted`, which
  void both properties. A list may rest, so deadlock is not checked in the two runs.
* `mqueue`: two tasks are a service and its rival, successor or fellow client;
  two messages fill a channel while a third is waiting. `CONSTRAINT Ordinary`
  lets a history have one exceptional event and continue after those which not
  all properties exclude. All queues made, dead tasks: the system may stop.
* `timers`: with two addresses a released timer is found again by the next
  `TmrNew`; intervals of 1 and 2 tell one missed or surplus tick.
* `session`: four files that a repair goes through, so that it is interrupted
  between them, and one on a disk that is not repaired; all sessions, without a bound.
* `ifs1`: the third block is outside the table, so that allocation from the table
  and by scanning occur, also after a restart; the disk is full with a file and
  its block and another file. Files are symmetric in name, tasks too.
  `VIEW View` leaves out what free blocks hold that no entry or operation names.
  `CONSTRAINT Ordinary` stops after an exceptional event. Kills and restarts are
  not bounded. With a full disk and nothing open all tasks may be at a stand.

### Fairness

`Scheduler` assumes weak fairness of `TimerInterrupt`: the interrupt comes from
hardware and is enabled whenever the module's other actions are. Nothing is
assumed of the tasks. `ReadyRuns` leaves aside histories in which tasks are created and
killed for ever, where the first free slot may get all the turns.
`KernelLock` assumes strong fairness of the interrupt's switch to the kernel
task, which `Scheduler!KernelRuns` justifies when interrupts are enabled again
and again, and that an actor on the CPU goes on with what it does under the
lock. `MQueue` assumes that a task that lives goes on with the loop of its
service (`sys/pci/main.c:19` never waits for anything but the CPU) and with a deletion it has
begun, and that the kernel goes on with an addition and takes an answer that is
there (the loop of `pci.c:114`); all by `Scheduler!ReadyRuns` and `KernelRuns`.
Nothing makes a task ask or make a queue. `Timers` assumes
that the interrupt comes again and that `timer.sys` goes on with its loop; nothing
is assumed of the callers.

## 4. Proofs

| Theorem | States | For |
|---|---|---|
| `MemoryProofs!TypeCorrect` | `TypeOK` | every memory, table and request |
| `MemoryProofs!MemoryExclusive` | `Exclusive` | every memory, table and request |
| `MemoryProofs!MemoryFindable` | `Findable` | every memory, table and request |
| `MemoryProofs!MemoryPlaced` | `Placed` | every memory of whole pages, every table and request |
| `MemoryProofs!MemorySearchesEnd` | `SearchesEnd`: no search runs in a ring | every memory, table and request |
| `MemoryProofs!MemoryNothingLost` | `NothingLost`: each address is in one block | every memory, table and request |
| `MemoryProofs!MemoryAccounting` | `Accounting` | every memory, table and request |
| `MemoryProofs!MemoryImplements` | `Implements` (refinement of `Allocator`) | every memory, table and request |
| `TasksProofs!SyncReservedAlways` | `SyncReserved` | any number of slots, any failures |
| `TasksProofs!WholeTasksAlways` | `WholeTasks` | any number of slots, any failures |
| `SchedulerProofs!CurrentAlwaysStarted` | `TypeOK` and `CurrentIsStarted` | any number of slots, ticks, priorities, kills |
| `SchedulerProofs!RegistersKept` | `SseKept` | any number of slots, ticks, priorities, kills |
| `DriverLockProofs!TypeCorrect` | `TypeOK` | any number of tasks |
| `DriverLockProofs!TransfersExcluded` | `ExcludedUnlessRaced` | any number of tasks |
| `DriverLockProofs!NoLockLost` | `UsedUnlessLate` | any number of tasks |
| `DriverLockProofs!OwnerNamed` | `NamedUnlessKernel` | any number of tasks |
| `TasksProofs!SystemSpared` | `SystemSparedUnlessRaced` | any number of slots, any failures |
| `SchedulerProofs!X87Isolated` | `X87NotAnothers` | any number of slots, ticks, priorities, late failures |
| `KernelLockProofs!TypeCorrect` | `TypeOK` | any number of tasks, any nesting |
| `KernelLockProofs!LockExcludes` | `MutualExclusion` | any number of tasks, any nesting |
| `KernelLockProofs!UnlockValid` | `NoInvalidUnlock` | any number of tasks, any nesting |
| `KernelLockProofs!InterruptsEnabled` | `EnabledUnlessSlipped` | any number of tasks, any nesting |
| `TimersProofs!TypeCorrect` | `TypeOK` | any number of timers, slots, callers, any intervals |
| `TimersProofs!NoEarlyEvent` | `NeverEarly` | any number of timers, slots, callers, any intervals |
| `TimersProofs!NoFreedTimer` | `SlotsLive` | any number of timers, slots, callers, any intervals |
| `TimersProofs!OneSlot` | `InOneSlot` | any number of timers, slots, callers, any intervals |
| `MQueueProofs!ListTypes` | `ListTypeOK` | any number of users and nodes |
| `MQueueProofs!ListNoStray` | `NoStray`: no store goes through NULL | any number of users and nodes |
| `MQueueProofs!ListRepresents` | `Represents` | any number of users and nodes |
| `MQueueProofs!ListCounted` | `Counted` | any number of users and nodes |
| `MQueueProofs!TypeCorrect` | `TypeOK` | any number of tasks, queues, names, requests, any limits |
| `MQueueProofs!Limited` | `LimitUnlessCrowded` | any number of tasks, queues, names, requests, any limits |
| `MQueueProofs!OneName` | `OneNameUnlessTwins` | any number of tasks, queues, names, requests, any limits |
| `MQueueProofs!Owned` | `OwnedUnlessKilled` | any number of tasks, queues, names, requests, any limits |
| `MQueueProofs!Answered` | `AnswerFits` | any number of tasks, queues, names, requests, any limits |
| `Ifs1Proofs!Recovers` | `Unlocked` | any files, any number of sessions |
| `Ifs1Proofs!BootsUnlessOpen` | `Boots` | any files, any number of sessions |
| `Ifs1Proofs!TypeCorrect` | `TypeOK` | any number of tasks, names, blocks, restarts |
| `Ifs1Proofs!TableIsFree` | `BatFree` | any number of tasks, names, blocks, restarts |
| `Ifs1Proofs!BlocksOwned` | `OneOwner` | any number of tasks, names, blocks, restarts |
| `Ifs1Proofs!DirectoryInOrder` | `DirectoryAgrees` | any number of tasks, names, blocks, restarts |
| `Ifs1Proofs!LocksTell` | `LocksHeld` | any number of tasks, names, blocks, restarts |

Assumptions are those on the constants: `MemoryAssumption` (sizes positive, memory within
2^32, tables of the same size), `TasksAssumption` (at least one slot),
`SchedulerAssumption` (at least one slot, positive ticks, the normal tick not
the code of a priority, as in `tasks.h`), and those of the other modules, which
say that bounds are numbers and special values are not ordinary ones.
`MemoryPlaced` has a hypothesis of its own, `WholePages`: the memory begins and
ends at page boundaries. It begins at one by `ALLOC_START_ADDRESS`; its end is
what the BIOS reports, in units of 1 KB and 64 KB (kfuncs.c:33), which nothing in
the code rounds to pages. Without it the first block, cut from the end of the
memory, would end where the memory does.

*Memory.* `Exclusive` speaks of blocks and not of the lists through which the
code finds them, so it is not inductive. The invariant `IInv` adds: the
descriptors in use in both tables describe pairwise disjoint ranges within the
memory (`Ranges`, `Apart`); every live block has a descriptor in use (`Owned`)
and no two have the same start (`OneOwner`); and each list is *well linked*:
its members are exactly the descriptors in use in its table, links between
members are mutual, and only head and foot lack a predecessor or successor
(`FreeChain`, `UsedChain`). Well-linkedness is local, so it needs no induction
over the list: `AppendOK` and `RemoveOK` show that the list operations preserve
it, `Frame` that changes elsewhere do, `FoundInList` that a search finds only
members. `CutBlock` and `GiveBack` are the arithmetic of allocation and
release. `Findable` needs that a search from the head comes to every member, which
mutual links do not say: a part of the list could be a ring on its own.
`Reached` excludes it without induction: a set that holds the head and all
successors of its members is the whole list. Appending and removing preserve it,
and from it follow `Findable` and that every search ends (`SearchesEnd`).
`Placed` needs `Wanted` (a block begins at or after the address asked for) and
`Whole` (all descriptors have whole pages); `NothingLost` is `Covered`, every address
is within a descriptor in use, together with `Apart`. `Accounting` is about sums of
lengths, which are defined as cardinalities, of the set of pairs of a descriptor
and one of its bytes (`LengthsIn`), and so need no induction: `SumChange` says that the sum
changes by as much as one descriptor does, and `Transfer` that each operation moves bytes
from one descriptor of one table to one of the other and into the counter. The refinement follows from `IInv` before and after a step: `LiveSteps`
says how each action changes `live`, and `StepImplements` that the new block is
apart from the others because `Exclusive` holds afterwards.

*Tasks.* `WholeTasks` needs that what an actor is about to kill or start is
still the task it began with (`Sure`), that ids in progress are slots (`OpTids`),
and for the count the cardinality facts of `FiniteSetTheorems`.

*Scheduler.* `CurrentIsStarted` needs that the flags of a slot tell whether its task
was started (`FlagsTell`), those of the current task too (`CurrentInTable`), and
that the loops of `TskmgrGetNextTaskID` find
a ready slot if there is one: `FirstIn` gets the first slot of a nonempty set
from the well-foundedness of < (`WFMin`), so no induction is needed.
`SseKept` needs `FpuInv`: what `running_tid` and `kernel_task_ran` say about who
is on the CPU is true (`Known`), and the values of everybody else are in their
save areas (`Kept`). `ResumeKernelKeeps` and `ResumeTaskKeeps` are the two halves
of the interrupt. After a late failure it would be false: a
slot left by a failed creation keeps `init_i387` of its last task, and is resumed
with whatever is in its save area.

*DriverLock.* The invariant `LockInv` relates where an actor is in its transfer
to the locks: a transfer has its lock, a task's has its name on it, somebody
unlocking is alone, and whoever has looked knows what has been taken since.

`SystemSpared` needs one more invariant, `Aimed`: a kill of a user task that has
not been overtaken still aims at a user task.

*KernelLock.* `lock_level` counts the calls of `lock()` that are to be undone, of
all actors together, or more. A sum over the actors would need induction; the
invariant (`Counts`) says instead that `lock_level` is at least the cardinality of the set
of pairs of an actor and one of its calls, and the cardinality facts of
`FiniteSetTheorems` do the rest. `MutualExclusion` needs `Nested` (what an actor
has called and the state it is in agree), `EnabledUnlessSlipped` needs `Alone`:
as long as nothing odd happens only the actor on the CPU is under the lock, `lock_level` is
exactly the number of its calls, and whoever has loaded it has a 0. `Counts` and
`MutualExclusion` hold until an update is lost, slips and deaths under the lock included.

*Timers.* The invariant says that the code's `ticks` agree with the ghost `due`
(`InStep`), which the interrupt could only break by meeting a timer in two slots,
and that timers are in one slot at most, those on their way into a slot
included (`Separate`). `SlotsLive` is inductive with these; `InOneSlot` needs `Kept`,
what a caller was given is in some slot until it is deleted.

*LinkedList.* In the middle of an operation the links are in disorder, so nothing that
speaks of the present list alone is inductive. The invariant speaks of the list as
it will be. `Now` is the list as one record; `Effect` is what one store makes of
such a record, and `Result` what the stores to come make of it, of which there are five
at most (`Sane`), so that it needs no recursion. `Shape` says that one user
at a time is at work (`Alone`), and that the list is fit when its stores are made
(`Going`): a store then leaves the result as it is (`ResultTail`), and only the step
that begins an operation has something to show, namely that its branch leads from one
fit list to another. `Fit` relates the list to the order `ahead` node by node: the order is total
on what is held, `head` and `foot` are its ends, and `next` and `prev` of a node are its
neighbours; like well-linkedness in `Memory` it needs no induction, and there is
one lemma for each branch of each operation. `March` is about the walk of
`_MqPopMessageWithTaskID`: the node it stands on may have been removed and
released, and `next` of it still leads to the first node behind its old place, so
none that is to be taken is missed. What the list holds during a walk is `listed` and
what the walk has not come to yet (`Holding`). `NoStray` is part of `Fit`, since the record has a field for stores
through NULL. `LinkedList` uses names of its own (`ListSpec`, `ListTypeOK`, `Users`), so that the proofs can
stand with those of `MQueue`, which takes an operation on a list for one step.

*MQueue.* Each of the properties is one half of an invariant whose other half is about
those who have looked and not yet acted. `Room`: whoever is about to add to a
channel, and has not been overtaken, finds it below its limit. `Distinct`: whoever
makes a queue, and has not been overtaken, has a name that no queue has.
`OwnedUnlessKilled` is inductive with the types. `AnswerFits` needs `Answering`: as long
as the kernel has not given up and is the only client, everything in a channel is
from the kernel or an answer to it; what is to be answered is in one place at most,
in a channel or in the hands of a service; and it has the number of the last
request, for which the kernel is waiting. So whatever the kernel takes is the
answer. `Held` says what each actor has where it is: a task its queue and name, the
kernel its queue and the number of its request. `RoomKept`, `DistinctKept`,
`OwnedKept` and `AnsweringKept` say what a step must not do to keep each of them, and
there is one lemma per action on top of them. `Rest` is about what
`_MqPopMessageWithTaskID` leaves: messages of the channel, not more than before,
and all of it if none is for the task.

*Session.* `Unlocked` needs `Told`: what is locked and not open is still to be
repaired, or `system.lock` is marked and can be opened, and will tell; `Boots`
needs `Readable`: a vital file is locked only while it is open. What is said of
disks that are not repaired needs `Elsewhere`. All rest
on `StartsClosed`, what is open when. The proofs stand at the end of `Ifs1Proofs`,
which is about the same disk and extends both modules; the names of `Session`
(`SessionSpec`, `mishaps`) differ from those of `Ifs1` for this.

*Ifs1.* `BatFree` is not inductive: a task that saves or closes its file writes a
block it read long ago. `Outside` says, until the event `table`, that whatever may
be written as used is not in the table: a block being set, a file about to be
locked or renamed, an open file's block; and that one task at most is about to shift
the table, and has a block of it. `Holding` says that each operation has the block and the file it needs.
`Preserved` reduces the invariant after a step of one task to what
the step changed; there is one lemma per action on top of it.
The other three properties share one invariant of ordinary histories, `Ordered`.
Of the directory: every entry has its file, or a deletion is about to clear it,
and every file its entry, or a creation is about to write it (`Listed`, `Entering`,
`Deleting`); a copy of the directory that is not known to be late is the
directory, but for entries of free blocks in that of a listing, and the name being
created is not in it (`InTime`). Of files: an open
file is locked, and open in one task only (`Opened`), a locked one is open
(`LocksOpen`), and no data block is claimed twice, or is free, by what the disk
and the copies in memory say of it (`Claimed`). What a file claims is what the
task that has it open says, and during a write from the start no longer what is
on the disk, nor the block that was just freed (`Dropping`); `SeenClaims` leads from there to `OneOwner`.

Model-checked only: the liveness properties (`KernelRuns`, `ReadyRuns`,
`KernelGetsCpu`, `KernelAnswered`, `Fired`), since fairness is out of the prover's
reach. Every invariant of a passing run is a theorem as well.

## 5. Plan

Done: the memory manager, tasks, scheduler, locks, linked list, message queues,
timers, files and blocks, the session. In order, what would come next:

1. `Ifs1`: subdirectories and soft links, with their renaming and deletion, the append
   buffer and appends of more than a block, disk accesses that fail, formatting (which puts the root directory's block into the
   table).
2. `Paging`: search for free pages against a reference definition.
3. System calls: the per-task tables of memory blocks and files, the file
   system lock of `syscall/fs.c`, EXIT.
4. The key buffer between interrupt and readers.
5. Proofs: that `MQueue`, with the steps of `LinkedList` inside its operations, is
   what `MQueue` is without them as long as no operations overlap.

## 6. Not modelled

Device programming (network, sound, APIC, DMA), drawing and windows, file
formats (ELF, images, fonts), the libraries and applications, the assembly that
boots the kernel: sequential code or code whose counterpart is hardware.
`MemCopy`, `MemClear`, logging and messages are left out of the modelled parts, and so
are the segment descriptors and gates by which a task is resumed. What a
program does with memory it does not own is outside the models too: after a
wild write nothing can be said. Most of the repository's lines are of
these kinds (applications, an assembler and a compiler for them, libraries, tables
of device names), so the modules cover a small share of them; they cover the
parts of the kernel in which several actors meet. Not modelled although it might
be are paging, the key buffer, and the rest of the file system, as section 5
says.
