-------------------------- MODULE SchedulerProofs ---------------------------
(***************************************************************************)
(* What the scheduler guarantees of the current task, for any number of    *)
(* slots and any lengths of the ticks.                                     *)
(***************************************************************************)
EXTENDS Scheduler, WellFoundedInduction, TLAPS

\* Every set of slots that is not empty has a first one, which is what the loops
\* of TskmgrGetNextTaskID return.
LEMMA FirstIn ==
  ASSUME NEW S \in SUBSET Slots, S # {}
  PROVE  First(S) \in S
<1> DEFINE Less == {p \in Nat \X Nat : p[1] < p[2]}
<1>1. S \subseteq Nat
  BY SchedulerAssumption DEF Slots
<1>2. IsWellFoundedOn(Less, Nat)
  BY NatLessThanWellFounded DEF OpToRel
<1>3. PICK t \in S : \A s \in S : ~(<<s, t>> \in Less)
  <2> HIDE DEF Less
  <2> QED BY <1>1, <1>2, WFMin
<1>4. ASSUME NEW s \in S PROVE t <= s
  <2>1. s \in Nat /\ t \in Nat /\ ~(<<s, t>> \in Less)
    BY <1>1, <1>3, <1>4
  <2>2. ~(s < t)
    BY <2>1
  <2> QED BY <2>1, <2>2
<1> QED BY <1>3, <1>4 DEF First

\* What the flags say of the current task.
CurrentInTable == running_tid # -1 => used[running_tid] /\ ready[running_tid]

\* What they say of the other tasks, as long as no creation failed late.
FlagsTell ==
  "halfmade" \notin odd => \A t \in Slots : used[t] /\ ready[t] => t \in started

\* TskmgrGetNextTaskID returns the current task, a ready one, or -1.
LEMMA NextTidReady ==
  ASSUME TypeOK, CurrentInTable
  PROVE  NextTid \in Slots \cup {-1} /\ (NextTid # -1 => NextTid \in Ready)
<1>1. Ready \in SUBSET Slots
  BY DEF Ready
<1>2. ASSUME NEW S \in SUBSET Ready, S # {} PROVE First(S) \in Ready
  BY <1>1, <1>2, FirstIn
<1>3. running_tid # -1 => running_tid \in Ready
  BY DEF TypeOK, CurrentInTable, Ready
<1>4. ASSUME NEW r PROVE After(r) \in Ready \cup {-1}
  <2>1. {t \in Ready : t > r} \in SUBSET Ready /\ {t \in Ready : t < r} \in SUBSET Ready
    OBVIOUS
  <2> QED BY <1>2, <2>1 DEF After
<1>5. Ready # {} => First(Ready) \in Ready
  BY <1>2
<1>6. NextTid \in Ready \cup {-1}
  BY <1>3, <1>4, <1>5 DEF NextTid
<1> QED BY <1>1, <1>6

\* The ticks stay integers, and so do the images of the registers what they are.
LEMMA HelperTypes ==
  ASSUME TypeOK
  PROVE  /\ \A r \in Slots : NextTick(r) \in Int
         /\ Image \in Images /\ Reset \in Registers
         /\ Saved \in [Slots -> Images]
         /\ \A tid \in Slots \cup {-1} : NextRan(tid) \in [Slots -> BOOLEAN]
<1> USE SchedulerAssumption DEF TypeOK
<1>1. \A r \in Slots : NextTick(r) \in Int
  BY DEF NextTick
<1>2. Image \in Images /\ Reset \in Registers
  BY DEF Image, Images, Reset, Registers, Owners
<1>3. Saved \in [Slots -> Images]
  BY <1>2 DEF Saved, SaveTask
<1>4. \A tid \in Slots \cup {-1} : NextRan(tid) \in [Slots -> BOOLEAN]
  BY DEF NextRan
<1> QED BY <1>1, <1>2, <1>3, <1>4

\* The timer interrupt keeps the types.
LEMMA TimerType ==
  ASSUME TypeOK, CurrentInTable, TimerInterrupt
  PROVE  TypeOK'
<1> DEFINE tid == NextTid
<1>1. tid \in Slots \cup {-1}
  BY NextTidReady
<1>2. running_tid' \in Slots \cup {-1} /\ tick' \in [Slots -> Int]
  BY <1>1, HelperTypes DEF TimerInterrupt, TskmgrGetNextTaskID, TypeOK
<1>3. UNCHANGED <<used, ready, priority, task_count, made, started, aim>>
  BY DEF TimerInterrupt
<1>4. Of(Kernel) \in Registers /\ \A t \in Slots : Of(t) \in Registers
  BY DEF Of, Registers, Owners, Actors
<1>5. \A image \in Images : Loaded(image) \in Registers
  BY DEF Images, Loaded
<1>6. CASE ResumeKernel(tid)
  <2>1. regs' \in Registers
    BY <1>4, <1>5, <1>6, HelperTypes DEF ResumeKernel, TypeOK
  <2>2. state' \in [Slots -> Images] /\ ran' \in [Slots -> BOOLEAN]
    BY <1>1, <1>6, HelperTypes DEF ResumeKernel
  <2> QED BY <1>2, <1>3, <1>6, <2>1, <2>2 DEF ResumeKernel, TypeOK, Owners, Actors
<1>7. CASE tid # -1 /\ ResumeTask(tid)
  <2>1. state' \in [Slots -> Images] /\ kernel_state' \in Images
    BY <1>7, HelperTypes DEF ResumeTask, TypeOK
  <2>2. regs' \in Registers
    BY <1>1, <1>4, <1>5, <1>7, <2>1 DEF ResumeTask
  <2>3. ran' \in [Slots -> BOOLEAN]
    BY <1>1, <1>7, HelperTypes DEF ResumeTask
  <2>4. counter' \in Nat /\ init_i387' \in [Slots -> BOOLEAN] /\ cpu' \in Owners
    BY <1>1, <1>7 DEF ResumeTask, Counted, TypeOK, Owners, Actors
  <2> QED BY <1>2, <1>3, <1>7, <2>1, <2>2, <2>3, <2>4 DEF ResumeTask, TypeOK
<1> QED BY <1>6, <1>7 DEF TimerInterrupt, KernelsTurn

\* Whoever kills is there, and so is the slot he kills.
LEMMA KillerKnown ==
  ASSUME TypeOK, cpu # Nobody
  PROVE  cpu \in Actors /\ (aim[cpu] # -1 => aim[cpu] \in Slots)
BY DEF TypeOK, Owners

\* The end of a kill keeps the types.
LEMMA KilledType ==
  ASSUME TypeOK, NEW t \in Slots, Killed(t), switch_to_kernel' \in BOOLEAN
  PROVE  TypeOK'
<1> USE DEF TypeOK
<1>1. regs' \in Registers /\ cpu' \in Owners
  BY DEF Killed, Of, Registers, Owners
<1>2. running_tid' \in Slots \cup {-1}
  BY DEF Killed, RunningAfterKill
<1>3. aim' \in [Actors -> Slots \cup {-1}]
  BY DEF Killed
<1>4. odd' \subseteq {"twice", "halfmade", "raced"}
  BY DEF Killed
<1> QED BY <1>1, <1>2, <1>3, <1>4 DEF Killed

\* What happens between interrupts keeps the types.
LEMMA OtherType ==
  ASSUME TypeOK, NEW t \in Slots,
         \/ CreateTask(t) \/ CreateTaskFails(t)
         \/ \E pr \in Priorities : TskmgrSetTaskToReady(t, pr)
         \/ KillBegins(t) \/ KillEnds \/ KillRefused \/ Fault
  PROVE  TypeOK'
<1>1. CASE CreateTask(t)
  BY <1>1, SchedulerAssumption DEF CreateTask, TypeOK
<1>2. CASE CreateTaskFails(t)
  BY <1>2, SchedulerAssumption DEF CreateTaskFails, fpuvars, TypeOK
<1>3. ASSUME NEW pr \in Priorities, TskmgrSetTaskToReady(t, pr) PROVE TypeOK'
  <2>1. pr \in Int
    BY SchedulerAssumption
  <2> QED BY <1>3, <2>1 DEF TskmgrSetTaskToReady, fpuvars, TypeOK
<1>4. CASE KillBegins(t)
  BY <1>4 DEF KillBegins, fpuvars, TypeOK
<1>5. CASE KillEnds
  <2>1. aim[cpu] \in Slots /\ Killed(aim[cpu]) /\ switch_to_kernel' \in BOOLEAN
    BY <1>5, KillerKnown DEF KillEnds, TypeOK
  <2> QED BY <2>1, KilledType
<1>6. CASE KillRefused
  BY <1>6 DEF KillRefused, fpuvars, TypeOK
<1>7. CASE Fault
  BY <1>7, KilledType DEF Fault, fpuvars, TypeOK
<1> QED BY <1>1, <1>2, <1>3, <1>4, <1>5, <1>6, <1>7

\* What changes nothing but switch_to_kernel and whom somebody is killing.
Spared ==
  UNCHANGED <<used, ready, ran, tick, priority, running_tid, task_count, counter,
              made, started, cpu, odd, fpuvars>>

\* A kill, by whomever, ends for a slot or is refused.
LEMMA KillsEnd ==
  ASSUME TypeOK, KillEnds \/ Fault \/ KillRefused
  PROVE  Spared \/ \E t \in Slots : Killed(t)
<1>1. CASE KillEnds
  BY <1>1, KillerKnown DEF KillEnds
<1>2. CASE Fault
  BY <1>2 DEF Fault, Spared
<1>3. CASE KillRefused
  BY <1>3 DEF KillRefused, Spared
<1> QED BY <1>1, <1>2, <1>3

\* No step leaves a current task that is not in the table, or one that looks
\* started and is not.
LEMMA NextCurrent ==
  ASSUME TypeOK, CurrentInTable, FlagsTell, [Next]_vars
  PROVE  CurrentInTable' /\ FlagsTell'
<1> USE DEF CurrentInTable, FlagsTell
<1>1. CASE TimerInterrupt
  <2>1. running_tid' = NextTid /\ used' = used /\ ready' = ready /\ started' = started
    BY <1>1 DEF TimerInterrupt, TskmgrGetNextTaskID
  <2>2. odd \subseteq odd'
    BY <1>1 DEF TimerInterrupt, ResumeKernel, ResumeTask
  <2> QED BY <2>1, <2>2, NextTidReady DEF Ready
<1>2. ASSUME NEW t \in Slots, CreateTask(t) \/ CreateTaskFails(t)
      PROVE  CurrentInTable' /\ FlagsTell'
  BY <1>2 DEF CreateTask, CreateTaskFails, TypeOK
<1>3. ASSUME NEW t \in Slots, NEW pr, TskmgrSetTaskToReady(t, pr)
      PROVE  CurrentInTable' /\ FlagsTell'
  BY <1>3 DEF TskmgrSetTaskToReady, TypeOK
<1>4. ASSUME NEW t \in Slots, KillBegins(t) PROVE CurrentInTable' /\ FlagsTell'
  BY <1>4 DEF KillBegins
<1>5. ASSUME NEW t \in Slots, Killed(t) PROVE CurrentInTable' /\ FlagsTell'
  <2>1. CurrentInTable'
    BY <1>5 DEF Killed, RunningAfterKill, TypeOK
  <2>2. FlagsTell'
    BY <1>5 DEF Killed, TypeOK
  <2> QED BY <2>1, <2>2
<1>6. CASE Spared
  BY <1>6 DEF Spared
<1>7. CASE UNCHANGED vars
  BY <1>7 DEF vars
<1> QED BY <1>1, <1>2, <1>3, <1>4, <1>5, <1>6, <1>7, KillsEnd DEF Next

\* The scheduler's variables keep their types, and the flags of the slots say
\* what they should.
Settled == TypeOK /\ CurrentInTable /\ FlagsTell

LEMMA SettledAlways == Spec => []Settled
<1>1. Init => Settled
  <2> SUFFICES ASSUME Init PROVE Settled
    OBVIOUS
  <2>1. Of(Nobody) \in Registers /\ Of(Kernel) \in Registers
    BY DEF Of, Registers, Owners, Actors
  <2>2. [i387 |-> Nobody, sse |-> Of(Nobody)] \in Images
    BY <2>1 DEF Images, Owners
  <2>3. used \in [Slots -> BOOLEAN] /\ ready \in [Slots -> BOOLEAN]
        /\ ran \in [Slots -> BOOLEAN] /\ init_i387 \in [Slots -> BOOLEAN]
    BY DEF Init
  <2>4. state \in [Slots -> Images] /\ kernel_state \in Images
    BY <2>2 DEF Init
  <2>5. tick \in [Slots -> Int] /\ priority \in [Slots -> Int]
        /\ task_count \in Int /\ counter \in Nat
    BY DEF Init
  <2>6. regs \in Registers /\ cpu \in Owners /\ made \subseteq Slots
        /\ started \subseteq Slots /\ aim \in [Actors -> Slots \cup {-1}]
    BY <2>1 DEF Init, Owners, Actors
  <2>7. CurrentInTable /\ FlagsTell
    BY DEF Init, CurrentInTable, FlagsTell
  <2> QED BY <2>3, <2>4, <2>5, <2>6, <2>7 DEF Init, TypeOK, Settled
<1>2. Settled /\ [Next]_vars => Settled'
  <2> SUFFICES ASSUME Settled, [Next]_vars PROVE Settled'
    OBVIOUS
  <2> USE DEF Settled
  <2>1. CurrentInTable' /\ FlagsTell'
    BY NextCurrent
  <2>2. CASE UNCHANGED vars
    BY <2>1, <2>2 DEF vars, TypeOK
  <2>3. CASE TimerInterrupt
    BY <2>1, <2>3, TimerType
  <2>4. CASE KillEnds \/ KillRefused \/ Fault
    <3>1. PICK t \in Slots : TRUE
      BY SchedulerAssumption DEF Slots
    <3> QED BY <2>1, <2>4, <3>1, OtherType
  <2> QED BY <2>1, <2>2, <2>3, <2>4, OtherType DEF Next
<1> QED BY <1>1, <1>2, PTL DEF Spec

\* For any number of slots, priorities, kills and failures, the variables keep
\* their types and the interrupt returns to no task that was not created and
\* started, or was killed since, unless a creation failed late.
THEOREM CurrentAlwaysStarted == Spec => []TypeOK /\ []CurrentIsStarted
<1>1. Settled => TypeOK /\ CurrentIsStarted
  BY DEF Settled, CurrentInTable, FlagsTell, TypeOK, CurrentIsStarted
<1> QED BY <1>1, SettledAlways, PTL
-----------------------------------------------------------------------------
(* The registers *)

\* Who is on the CPU, as far as the interrupt can tell from running_tid and
\* kernel_task_ran.
Known ==
  /\ cpu \in Slots => running_tid = cpu
  /\ cpu = Nobody => running_tid = -1
  /\ kernel_task_ran => cpu = Kernel /\ kernel_init_i387
  /\ cpu = Kernel /\ ~kernel_task_ran => running_tid = -1 /\ ~kernel_init_i387

\* The values of everybody who is not on the CPU are in his save area.
Kept ==
  /\ regs.xmm = cpu
  /\ cpu # Kernel /\ kernel_init_i387 => kernel_state.sse.xmm = Kernel
  /\ \A t \in Slots : used[t] /\ init_i387[t] /\ t # cpu => state[t].sse.xmm = t

FpuInv == Settled /\ Known /\ (odd \subseteq {"raced"} => Kept)

\* An interrupt that resumes the kernel task.
LEMMA ResumeKernelKeeps ==
  ASSUME FpuInv, TskmgrGetNextTaskID, ResumeKernel(NextTid), used' = used
  PROVE  Known' /\ (odd' \subseteq {"raced"} => Kept')
<1> USE DEF FpuInv, Settled
<1>1. cpu' = Kernel /\ kernel_task_ran' /\ kernel_init_i387'
  BY DEF ResumeKernel
<1>2. Known'
  BY <1>1 DEF Known, Slots, Kernel, Nobody
<1>3. ASSUME odd' \subseteq {"raced"} PROVE Kept'
  <2>1. odd \subseteq {"raced"} /\ Kept /\ (kernel_task_ran => running_tid = -1)
    BY <1>3 DEF ResumeKernel
  <2>2. regs'.xmm = Kernel
    BY <2>1 DEF ResumeKernel, Of, Loaded, Known, Kept
  <2>3. ASSUME NEW t \in Slots, used[t], init_i387[t] PROVE state'[t].sse.xmm = t
    <3>1. CASE t = running_tid
      <4>1. cpu = t
        BY <3>1, <2>1 DEF Known, TypeOK, Owners, Actors, Slots, Kernel, Nobody
      <4> QED BY <4>1, <3>1, <2>1, <2>3 DEF ResumeKernel, Saved, SaveTask, Image, Kept, TypeOK, Slots
    <3>2. CASE t # running_tid
      <4>1. t # cpu
        BY <3>2, <2>3 DEF Known
      <4> QED BY <4>1, <3>2, <2>1, <2>3 DEF ResumeKernel, Saved, Kept, TypeOK
    <3> QED BY <3>1, <3>2
  <2> QED BY <1>1, <2>2, <2>3 DEF Kept, ResumeKernel
<1> QED BY <1>2, <1>3

\* An interrupt that resumes a task.
LEMMA ResumeTaskKeeps ==
  ASSUME FpuInv, TskmgrGetNextTaskID, NextTid # -1, ResumeTask(NextTid), used' = used
  PROVE  Known' /\ (odd' \subseteq {"raced"} => Kept')
<1> USE DEF FpuInv, Settled
<1>1. NextTid \in Slots /\ used[NextTid]
  BY NextTidReady DEF Ready, CurrentInTable, TypeOK
<1>2. cpu' = NextTid /\ running_tid' = NextTid /\ ~kernel_task_ran'
  BY DEF ResumeTask, TskmgrGetNextTaskID
<1>3. Known'
  BY <1>1, <1>2, SchedulerAssumption DEF Known, Slots, Kernel, Nobody
<1>4. ASSUME odd' \subseteq {"raced"} PROVE Kept'
  <2>1. odd \subseteq {"raced"} /\ Kept
    BY <1>4 DEF ResumeTask
  <2>2. ASSUME NEW t \in Slots, used[t], init_i387[t] PROVE state'[t].sse.xmm = t
    <3>1. CASE kernel_task_ran
      <4>1. t # cpu
        BY <3>1 DEF Known, Slots, Kernel
      <4> QED BY <4>1, <3>1, <2>1, <2>2 DEF ResumeTask, Kept
    <3>2. CASE ~kernel_task_ran /\ t = running_tid
      <4>1. cpu = t
        BY <3>2 DEF Known, TypeOK, Owners, Actors, Slots, Kernel, Nobody
      <4> QED BY <4>1, <3>2, <2>1, <2>2 DEF ResumeTask, Saved, SaveTask, Image, Kept, TypeOK, Slots
    <3>3. CASE ~kernel_task_ran /\ t # running_tid
      <4>1. t # cpu
        BY <3>3, <2>2 DEF Known
      <4> QED BY <4>1, <3>3, <2>1, <2>2 DEF ResumeTask, Saved, Kept, TypeOK
    <3> QED BY <3>1, <3>2, <3>3
  <2>3. regs'.xmm = NextTid
    BY <1>1, <2>2 DEF ResumeTask, Loaded, Of
  <2>4. kernel_init_i387' => kernel_state'.sse.xmm = Kernel
    <3>1. CASE kernel_task_ran
      BY <3>1, <2>1 DEF ResumeTask, Image, Kept, Known
    <3>2. CASE ~kernel_task_ran
      BY <3>2, <2>1 DEF ResumeTask, Kept, Known
    <3> QED BY <3>1, <3>2
  <2>5. ASSUME NEW t \in Slots, used'[t], init_i387'[t], t # cpu'
        PROVE  state'[t].sse.xmm = t
    BY <1>1, <1>2, <2>2, <2>5 DEF ResumeTask, TypeOK
  <2> QED BY <1>2, <2>3, <2>4, <2>5 DEF Kept
<1> QED BY <1>3, <1>4

\* A kill that ends.
LEMMA KilledKeeps ==
  ASSUME FpuInv, NEW t \in Slots, Killed(t)
  PROVE  Known' /\ (odd' \subseteq {"raced"} => Kept')
<1> USE DEF FpuInv, Settled
<1>1. CASE cpu = t
  <2>1. cpu' = Nobody /\ running_tid' = -1 /\ regs' = Of(Nobody)
    BY <1>1 DEF Killed, RunningAfterKill, Known
  <2>2. Known'
    BY <2>1, <1>1 DEF Killed, Known, Slots, Kernel, Nobody
  <2>3. Kept => Kept'
    BY <2>1, <1>1 DEF Killed, Kept, Of, Slots, Kernel, Nobody, TypeOK
  <2> QED BY <2>2, <2>3 DEF Killed
<1>2. CASE cpu # t
  <2>1. Known'
    BY <1>2 DEF Killed, RunningAfterKill, Known, Nobody
  <2>2. Kept => Kept'
    BY <1>2 DEF Killed, Kept, TypeOK
  <2> QED BY <2>1, <2>2 DEF Killed
<1> QED BY <1>1, <1>2

\* What else happens between interrupts.
LEMMA BetweenKeeps ==
  ASSUME FpuInv, NEW t \in Slots,
         \/ CreateTask(t) \/ CreateTaskFails(t)
         \/ \E pr \in Priorities : TskmgrSetTaskToReady(t, pr)
         \/ KillBegins(t) \/ Spared
  PROVE  Known' /\ (odd' \subseteq {"raced"} => Kept')
<1> USE DEF FpuInv, Settled
<1>1. CASE CreateTask(t)
  BY <1>1 DEF CreateTask, Known, Kept, TypeOK
<1>2. CASE CreateTaskFails(t)
  <2>1. ~(odd' \subseteq {"raced"})
    BY <1>2 DEF CreateTaskFails
  <2> QED BY <1>2, <2>1 DEF CreateTaskFails, fpuvars, Known
<1>3. CASE \E pr \in Priorities : TskmgrSetTaskToReady(t, pr)
  BY <1>3 DEF TskmgrSetTaskToReady, fpuvars, Known, Kept
<1>4. CASE KillBegins(t) \/ Spared
  BY <1>4 DEF KillBegins, Spared, fpuvars, Known, Kept
<1> QED BY <1>1, <1>2, <1>3, <1>4

\* Whoever runs finds in the SSE registers what he left there, unless the kernel
\* task was resumed twice running while a task was current, or a creation failed
\* late and left a slot with the flags of its last task.
THEOREM RegistersKept == Spec => []SseKept
<1>1. Init => Known /\ Kept
  BY DEF Init, Known, Kept, Of, Slots, Kernel, Nobody
<1>2. FpuInv /\ [Next]_vars => (Known /\ (odd \subseteq {"raced"} => Kept))'
  <2> SUFFICES ASSUME FpuInv, [Next]_vars
               PROVE  Known' /\ (odd' \subseteq {"raced"} => Kept')
    OBVIOUS
  <2>1. CASE UNCHANGED vars
    BY <2>1 DEF vars, FpuInv, Known, Kept
  <2>2. CASE TimerInterrupt
    BY <2>2, ResumeKernelKeeps, ResumeTaskKeeps DEF TimerInterrupt, KernelsTurn
  <2>3. CASE KillEnds \/ Fault \/ KillRefused
    <3>1. PICK t \in Slots : TRUE
      BY SchedulerAssumption DEF Slots
    <3> QED BY <2>3, <3>1, KillsEnd, KilledKeeps, BetweenKeeps DEF FpuInv, Settled
  <2> QED BY <2>1, <2>2, <2>3, BetweenKeeps DEF Next
<1>3. FpuInv => SseKept
  BY DEF FpuInv, Kept, SseKept
<1> QED BY <1>1, <1>2, <1>3, SettledAlways, PTL DEF Spec, FpuInv

\* What fxsave stored of the x87 registers is what fnsave left there, and the
\* kernel task's registers are left alone only if it was interrupted itself.
Clean ==
  /\ \A t \in Slots : state[t].sse.x87 = Nobody
  /\ kernel_state.sse.x87 = Nobody
  /\ kernel_task_ran => cpu = Kernel
  /\ X87NotAnothers

LEMMA CleanStep ==
  ASSUME TypeOK, CurrentInTable, Clean, [Next]_vars
  PROVE  Clean'
<1> USE DEF Clean, X87NotAnothers
<1>1. CASE TimerInterrupt
  <2>1. \A t \in Slots : Saved[t].sse.x87 = Nobody
    BY DEF Saved, SaveTask, Image, TypeOK
  <2>2. CASE ResumeKernel(NextTid)
    <3>1. cpu' = Kernel /\ kernel_state' = kernel_state /\ state' = Saved
      BY <2>2 DEF ResumeKernel
    <3>2. regs'.x87 \in {Kernel, Nobody}
      BY <2>2 DEF ResumeKernel, Loaded, Of, Reset, TypeOK, Registers
    <3> QED BY <2>1, <3>1, <3>2
  <2>3. CASE NextTid # -1 /\ ResumeTask(NextTid)
    <3>1. NextTid \in Slots
      BY <2>3, NextTidReady DEF Ready, CurrentInTable, TypeOK
    <3>2. \A t \in Slots : state'[t].sse.x87 = Nobody
      BY <2>1, <2>3 DEF ResumeTask
    <3>3. kernel_state'.sse.x87 = Nobody /\ ~kernel_task_ran' /\ cpu' = NextTid
      BY <2>3 DEF ResumeTask, Image
    <3>4. regs'.x87 \in {NextTid, Nobody}
      BY <2>3, <3>1, <3>2 DEF ResumeTask, Loaded, Of
    <3> QED BY <3>2, <3>3, <3>4
  <2> QED BY <1>1, <2>2, <2>3 DEF TimerInterrupt, KernelsTurn
<1>2. ASSUME NEW t \in Slots, CreateTask(t) PROVE Clean'
  BY <1>2 DEF CreateTask, TypeOK
<1>3. ASSUME NEW t \in Slots, CreateTaskFails(t) PROVE Clean'
  BY <1>3 DEF CreateTaskFails, fpuvars
<1>4. ASSUME NEW t \in Slots, NEW pr \in Priorities, TskmgrSetTaskToReady(t, pr) PROVE Clean'
  BY <1>4 DEF TskmgrSetTaskToReady, fpuvars
<1>5. ASSUME NEW t \in Slots, Killed(t) PROVE Clean'
  <2>1. t # Kernel
    BY DEF Slots, Kernel
  <2> QED BY <1>5, <2>1 DEF Killed, Of
<1>6. ASSUME NEW t \in Slots, KillBegins(t) \/ Spared PROVE Clean'
  BY <1>6 DEF KillBegins, Spared, fpuvars
<1>7. CASE UNCHANGED vars
  BY <1>7 DEF vars
<1>8. PICK t \in Slots : TRUE
  BY SchedulerAssumption DEF Slots
<1> QED BY <1>1, <1>2, <1>3, <1>4, <1>5, <1>6, <1>7, <1>8, KillsEnd DEF Next

\* For any number of slots, priorities and failures, the interrupt (kernel.c:1280)
\* lets nobody see what another left in the x87 registers.
THEOREM X87Isolated == Spec => []X87NotAnothers
<1>1. Init => Clean
  BY DEF Init, Clean, X87NotAnothers, Of
<1>2. Clean => X87NotAnothers
  BY DEF Clean
<1> QED BY <1>1, <1>2, CleanStep, SettledAlways, PTL DEF Spec, Settled
=============================================================================
