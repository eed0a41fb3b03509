---------------------------- MODULE TasksProofs -----------------------------
(***************************************************************************)
(* Proofs about the task table: SyncReserved in all histories, WholeTasks  *)
(* in ordinary ones, for every number of slots.                            *)
(*                                                                         *)
(* WholeTasks is inductive only together with what the pending operations  *)
(* know: as long as an operation is sure of its task, the slot is used     *)
(* (Sure), so the kill that ends it ends a whole task.                     *)
(***************************************************************************)
EXTENDS Tasks, FiniteSetTheorems, TLAPS

\* Every pending operation is about a slot.
OpTids == \A a \in Actors : op[a].kind # "none" => op[a].tid \in Slots

Whole ==
  \A t \in Slots : /\ used[t] => made[t]
                   /\ addr[t] = "own" <=> used[t]
                   /\ pagedt_addr[t] = "own" <=> used[t]
                   /\ scall_stack[t] = "own" <=> used[t]
Sure == \A a \in Actors : op[a].kind \in {"made", "exec", "kill", "killuser"} /\ op[a].sure
                          => used[op[a].tid]
UsedSlots == {t \in Slots : used[t]}
Counted == task_count = Cardinality(UsedSlots)

\* Nothing has happened that leaves a slot half made, or half given back.
Regular == odd \subseteq {"stolen"}

\* The inductive invariant.
TasksInv == /\ TypeOK /\ OpTids /\ SyncReserved
            /\ Regular => Whole /\ Sure /\ Counted

\* The kernel is not a slot, and there are finitely many slots.
LEMMA SlotFacts == Kernel \notin Slots /\ IsFiniteSet(Slots) /\ Slots \subseteq Actors
<1>1. IsFiniteSet(Slots)
  BY FS_Interval, TasksAssumption DEF Slots
<1> QED BY <1>1, TasksAssumption DEF Slots, Kernel, Actors

\* Taking an unused slot makes the used ones one more.
LEMMA CountUp ==
  ASSUME NEW t \in Slots, ~used[t], TypeOK, used' = [used EXCEPT ![t] = TRUE]
  PROVE  Cardinality(UsedSlots') = Cardinality(UsedSlots) + 1
<1>1. UsedSlots' = UsedSlots \cup {t}
  BY DEF UsedSlots, TypeOK
<1>2. IsFiniteSet(UsedSlots)
  BY SlotFacts, FS_Subset DEF UsedSlots
<1> QED BY <1>1, <1>2, FS_AddElement DEF UsedSlots

\* Giving a used slot back makes them one fewer.
LEMMA CountDown ==
  ASSUME NEW t \in Slots, used[t], TypeOK, used' = [used EXCEPT ![t] = FALSE]
  PROVE  Cardinality(UsedSlots') = Cardinality(UsedSlots) - 1
<1>1. UsedSlots' = UsedSlots \ {t} /\ t \in UsedSlots
  BY DEF UsedSlots, TypeOK
<1>2. IsFiniteSet(UsedSlots)
  BY SlotFacts, FS_Subset DEF UsedSlots
<1> QED BY <1>1, <1>2, FS_RemoveElement

\* The invariant implies the properties.
LEMMA InvProperties == TasksInv => SyncReserved /\ WholeTasks
BY DEF TasksInv, WholeTasks, Regular, Whole, Counted, UsedSlots

\* The invariant holds initially.
LEMMA InvInit == Init => TasksInv
<1> SUFFICES ASSUME Init PROVE TasksInv OBVIOUS
<1>1. TypeOK
  BY SlotFacts DEF Init, TypeOK, Types, Pointers, Ops, Idle, Actors, Kernel
<1>2. OpTids /\ SyncReserved /\ Whole /\ Sure
  BY DEF Init, OpTids, SyncReserved, Whole, Sure, Idle
<1>3. UsedSlots = {}
  BY DEF Init, UsedSlots
<1>4. Counted
  BY <1>3, FS_EmptySet DEF Init, Counted
<1> QED BY <1>1, <1>2, <1>4 DEF TasksInv, Regular, Init

\* A creation that succeeds keeps the invariant: the slot it takes was neither
\* used nor reserved, so no pending operation that is sure is about it.
LEMMA SucceedsInv ==
  ASSUME TasksInv, NEW a \in Actors, NEW t \in FreeSlot, NEW ty \in Types,
         NEW kind \in {"made", "exec", "sync"}, op[a] = Idle, CreateSucceeds(a, t, ty, kind)
  PROVE  TasksInv'
<1> USE SlotFacts DEF TasksInv, CreateSucceeds
<1>1. t \in Slots /\ ~used[t] /\ allocable[t]
  BY DEF FreeSlot
<1>2. TypeOK'
  BY <1>1 DEF TypeOK, Ops, Pointers
<1>3. OpTids'
  BY <1>1 DEF OpTids, TypeOK
<1>4. SyncReserved'
  BY <1>1 DEF SyncReserved, TypeOK
<1>5. Regular' => Whole'
  BY <1>1 DEF Regular, Whole, TypeOK
<1>6. Regular' => Sure'
  BY <1>1 DEF Regular, Sure, OpTids, TypeOK
<1>7. Regular' => Counted'
  BY <1>1, CountUp DEF Regular, Counted, TypeOK
<1> QED BY <1>2, <1>3, <1>4, <1>5, <1>6, <1>7

\* A creation that fails late keeps what is claimed of all histories.
LEMMA FailsInv ==
  ASSUME TasksInv, NEW a \in Actors, NEW t \in FreeSlot, NEW ty \in Types,
         CreateFails(a, t, ty)
  PROVE  TasksInv'
<1> USE SlotFacts DEF TasksInv, CreateFails, CreateWithoutAddr, CreateWithoutPages
<1>1. t \in Slots /\ ~used[t] /\ allocable[t]
  BY DEF FreeSlot
<1>2. TypeOK'
  BY <1>1 DEF TypeOK, Ops, Pointers
<1>3. OpTids' /\ SyncReserved'
  BY <1>1 DEF OpTids, SyncReserved, TypeOK
<1> QED BY <1>2, <1>3 DEF Regular

\* The end of a wait releases a slot that nobody else has reserved.
LEMMA SyncDoneInv ==
  ASSUME TasksInv, NEW a \in Actors, SyncDone(a)
  PROVE  TasksInv'
<1> USE SlotFacts DEF TasksInv, SyncDone
<1>1. op[a].tid \in Slots /\ ("stolen" \notin odd => maker[op[a].tid] = a)
  BY DEF OpTids, SyncReserved
<1>2. TypeOK'
  BY <1>1 DEF TypeOK, Ops, Idle, Actors
<1>3. OpTids' /\ SyncReserved'
  BY <1>1 DEF OpTids, SyncReserved, TypeOK, Idle
<1>4. Regular' => Whole' /\ Sure'
  BY DEF Regular, Whole, Sure, TypeOK, Idle
<1>5. Regular' => Counted'
  BY DEF Regular, Counted, UsedSlots
<1> QED BY <1>2, <1>3, <1>4, <1>5

\* SCALL_EXEC reserves a slot that no waiting creator has, or one that it has
\* reserved already.
LEMMA ExecInv ==
  ASSUME TasksInv, NEW a \in Actors, ScallExec(a)
  PROVE  TasksInv'
<1> USE SlotFacts DEF TasksInv, ScallExec
<1>1. op[a].tid \in Slots
  BY DEF OpTids
<1>2. TypeOK'
  BY <1>1 DEF TypeOK, Ops
<1>3. OpTids' /\ SyncReserved'
  BY <1>1 DEF OpTids, SyncReserved, TypeOK, Ops
<1>4. Regular' => Whole' /\ Sure'
  BY DEF Regular, Whole, Sure, TypeOK, Ops
<1>5. Regular' => Counted'
  BY DEF Regular, Counted, UsedSlots
<1> QED BY <1>2, <1>3, <1>4, <1>5

\* SCALL_WAIT releases a slot that nobody waits for, or has stolen it.
LEMMA WaitInv ==
  ASSUME TasksInv, NEW a \in Actors, NEW t \in Slots, ScallWait(a, t)
  PROVE  TasksInv'
<1> USE SlotFacts DEF TasksInv, ScallWait
<1>2. TypeOK'
  BY DEF TypeOK
<1>3. OpTids' /\ SyncReserved'
  BY DEF OpTids, SyncReserved, TypeOK
<1>4. Regular' => Whole' /\ Sure'
  BY DEF Regular, Whole, Sure
<1>5. Regular' => Counted'
  BY DEF Regular, Counted, UsedSlots
<1> QED BY <1>2, <1>3, <1>4, <1>5

\* Starting a task changes nothing the invariant speaks of.
LEMMA ReadyInv ==
  ASSUME TasksInv, NEW a \in Actors, TskmgrSetTaskToReady(a)
  PROVE  TasksInv'
<1> USE SlotFacts DEF TasksInv, TskmgrSetTaskToReady
<1>1. op[a].tid \in Slots
  BY DEF OpTids
<1>2. TypeOK'
  BY <1>1 DEF TypeOK, Ops, Idle, Actors
<1>3. OpTids' /\ SyncReserved'
  BY <1>1 DEF OpTids, SyncReserved, TypeOK, Idle
<1>4. Regular' => Whole' /\ Sure'
  BY DEF Regular, Whole, Sure, TypeOK, Idle
<1>5. Regular' => Counted'
  BY DEF Regular, Counted, UsedSlots
<1> QED BY <1>2, <1>3, <1>4, <1>5

\* A kill that begins is sure of a used slot.
LEMMA BeginsInv ==
  ASSUME TasksInv, NEW a \in Actors, NEW t \in Slots, NEW kind \in {"kill", "killuser"},
         KillBegins(a, t, kind)
  PROVE  TasksInv'
<1> USE SlotFacts DEF TasksInv, KillBegins, slotvars
<1>2. TypeOK'
  BY DEF TypeOK, Ops
<1>3. OpTids' /\ SyncReserved'
  BY DEF OpTids, SyncReserved, TypeOK
<1>4. Regular' => Whole' /\ Sure'
  BY DEF Regular, Whole, Sure, TypeOK
<1>5. Regular' => Counted'
  BY DEF Regular, Counted, UsedSlots
<1> QED BY <1>2, <1>3, <1>4, <1>5

\* A kill that gives up changes nothing the invariant speaks of.
LEMMA RefusedInv ==
  ASSUME TasksInv, NEW a \in Actors, KillRefused(a)
  PROVE  TasksInv'
<1> USE SlotFacts DEF TasksInv, KillRefused, slotvars
<1>2. TypeOK'
  BY DEF TypeOK, Ops, Idle, Actors
<1>3. OpTids' /\ SyncReserved'
  BY DEF OpTids, SyncReserved, TypeOK, Idle
<1>4. Regular' => Whole' /\ Sure'
  BY DEF Regular, Whole, Sure, TypeOK, Idle
<1>5. Regular' => Counted'
  BY DEF Regular, Counted, UsedSlots
<1> QED BY <1>2, <1>3, <1>4, <1>5

\* A kill that ends while it is sure of its task gives a whole task back.
LEMMA EndsInv ==
  ASSUME TasksInv, NEW a \in Actors, KillEnds(a)
  PROVE  TasksInv'
<1> DEFINE t == op[a].tid
<1> USE SlotFacts DEF TasksInv
<1>1. t \in Slots /\ a \in Actors /\ op[a].kind \in {"kill", "killuser"}
  BY DEF OpTids, KillEnds
<1>2. \A b \in Actors : \/ op'[b] = Idle
                        \/ op'[b] = op[b] /\ b \notin {a, t}
                           /\ (op[b].tid # t \/ op[b].kind = "sync")
                        \/ op'[b] = [op[b] EXCEPT !.sure = FALSE]
  BY <1>1 DEF KillEnds
<1>3. \A b \in Actors : op'[b] \in Ops /\ op'[b].kind \in {op[b].kind, "none"}
                        /\ (op'[b] # Idle => op'[b].tid = op[b].tid)
  <2> SUFFICES ASSUME NEW b \in Actors
               PROVE  op'[b] \in Ops /\ op'[b].kind \in {op[b].kind, "none"}
                      /\ (op'[b] # Idle => op'[b].tid = op[b].tid)
    OBVIOUS
  <2>1. op[b] \in Ops
    BY DEF TypeOK
  <2>2. CASE op'[b] = Idle
    BY <2>2 DEF Ops, Idle, Actors
  <2>3. CASE op'[b] = op[b]
    BY <2>1, <2>3
  <2>4. CASE op'[b] = [op[b] EXCEPT !.sure = FALSE]
    BY <2>1, <2>4 DEF Ops
  <2> QED BY <1>2, <2>2, <2>3, <2>4
<1>4. TypeOK'
  <2>1. op' \in [Actors -> Ops]
    BY <1>3 DEF KillEnds
  <2> QED BY <1>1, <2>1 DEF TypeOK, KillEnds, Freed, Pointers, Actors, Kernel
<1>5. OpTids'
  BY <1>3 DEF OpTids, Idle
<1>6. SyncReserved'
  BY <1>1, <1>2, <1>3 DEF SyncReserved, KillEnds, Idle, TypeOK, Ops
<1>7. ASSUME Regular' PROVE Whole' /\ Sure' /\ Counted'
  <2>1. Regular /\ op[a].sure
    <3>1. \A o \in {"raced"} : ~(o = "raced" /\ ~op[a].sure)
      BY <1>7 DEF KillEnds, Regular
    <3> QED BY <1>7, <3>1 DEF KillEnds, Regular
  <2>2. Whole /\ Sure /\ Counted /\ used[t]
    BY <1>1, <2>1 DEF Sure
  <2>3. Whole'
    BY <1>1, <2>2 DEF Whole, KillEnds, Freed, TypeOK
  <2>4. Sure'
    <3> SUFFICES ASSUME NEW b \in Actors, op'[b].sure,
                        op'[b].kind \in {"made", "exec", "kill", "killuser"}
                 PROVE  used'[op'[b].tid]
      BY DEF Sure
    <3>1. op'[b] # Idle
      BY DEF Idle
    <3>2. op'[b] = op[b] /\ op[b].tid # t
      BY <1>2, <3>1 DEF TypeOK, Ops
    <3>3. op[b].tid \in Slots /\ used[op[b].tid]
      BY <2>2, <3>2 DEF Sure, OpTids
    <3> QED BY <3>2, <3>3 DEF KillEnds, TypeOK
  <2>5. Counted'
    <3>1. used' = [used EXCEPT ![t] = FALSE] /\ task_count' = task_count - 1
      BY DEF KillEnds
    <3> QED BY <1>1, <2>2, <3>1, CountDown DEF Counted
  <2> QED BY <2>3, <2>4, <2>5
<1> QED BY <1>4, <1>5, <1>6, <1>7

\* Every step keeps the invariant.
LEMMA InvNext == TasksInv /\ [Next]_vars => TasksInv'
<1> SUFFICES ASSUME TasksInv, [Next]_vars PROVE TasksInv' OBVIOUS
<1>1. CASE UNCHANGED vars
  BY <1>1 DEF vars, slotvars, TasksInv, TypeOK, OpTids, SyncReserved, Regular, Whole, Sure,
              Counted, UsedSlots
<1>2. ASSUME NEW a \in Actors, NEW ty \in Types, NEW kind \in {"made", "exec", "sync"},
             TskmgrCreateTask(a, ty, kind)
      PROVE  TasksInv'
  BY <1>1, <1>2, SucceedsInv, FailsInv DEF TskmgrCreateTask, CreateRefused
<1>3. ASSUME NEW a \in Actors, Switch(a) PROVE TasksInv'
  <2>1. TypeOK'
    BY <1>3 DEF Switch, TasksInv, TypeOK, slotvars
  <2> QED BY <1>3, <2>1 DEF Switch, TasksInv, slotvars, OpTids, SyncReserved, Regular, Whole,
             Sure, Counted, UsedSlots
<1> QED BY <1>1, <1>2, <1>3, SyncDoneInv, ExecInv, WaitInv, ReadyInv, BeginsInv, RefusedInv, EndsInv
        DEF Next

\* The invariant holds in every reachable state.
LEMMA InvAlways == Spec => []TasksInv
BY InvInit, InvNext, PTL DEF Spec

\* A slot waited for by TskmgrCreateTaskByFileSync stays reserved, whatever
\* fails and however kills race, unless SCALL_WAIT was called for it.
THEOREM SyncReservedAlways == Spec => []SyncReserved
BY InvAlways, InvProperties, PTL

\* In ordinary histories used slots are whole tasks and task_count counts them.
THEOREM WholeTasksAlways == Spec => []WholeTasks
BY InvAlways, InvProperties, PTL
-----------------------------------------------------------------------------
(* Kills of user tasks *)

\* A kill that is sure of its task has a user task before it.
Aimed == \A a \in Actors : op[a].kind = "killuser" /\ op[a].sure
                           => used[op[a].tid] /\ type[op[a].tid] = "user"

\* A creation takes a slot that is not used, so that no such kill is about it.
LEMMA CreationAims ==
  ASSUME TasksInv, Aimed, NEW a \in Actors, NEW t \in FreeSlot, NEW ty \in Types,
         used' = [used EXCEPT ![t] = TRUE], type' = [type EXCEPT ![t] = ty],
         \A b \in Actors : op'[b] = op[b] \/ op'[b].kind # "killuser"
  PROVE  Aimed'
<1>1. t \in Slots /\ ~used[t]
  BY DEF FreeSlot
<1> SUFFICES ASSUME NEW b \in Actors, op'[b].kind = "killuser", op'[b].sure
             PROVE  used'[op'[b].tid] /\ type'[op'[b].tid] = "user"
  BY DEF Aimed
<1>2. op'[b] = op[b] /\ op[b].tid \in Slots /\ used[op[b].tid] /\ type[op[b].tid] = "user"
  BY DEF Aimed, TasksInv, OpTids
<1>3. op[b].tid # t
  BY <1>1, <1>2
<1> QED BY <1>1, <1>2, <1>3 DEF TasksInv, TypeOK

LEMMA AimedNext == TasksInv /\ Aimed /\ [Next]_vars => Aimed'
<1> SUFFICES ASSUME TasksInv, Aimed, [Next]_vars PROVE Aimed' OBVIOUS
<1> USE SlotFacts
<1>1. ASSUME NEW a \in Actors, NEW ty \in Types, NEW kind \in {"made", "exec", "sync"},
             TskmgrCreateTask(a, ty, kind)
      PROVE  Aimed'
  <2>1. CASE CreateRefused(a)
    BY <2>1 DEF CreateRefused, vars, slotvars, Aimed
  <2>2. ASSUME NEW t \in FreeSlot, CreateFails(a, t, ty) PROVE Aimed'
    BY <2>2, CreationAims DEF CreateFails
  <2>3. ASSUME NEW t \in FreeSlot, CreateSucceeds(a, t, ty, kind) PROVE Aimed'
    <3>1. \A b \in Actors : op'[b] = op[b] \/ op'[b].kind # "killuser"
      BY <2>3 DEF CreateSucceeds, TasksInv, TypeOK
    <3> QED BY <2>3, <3>1, CreationAims DEF CreateSucceeds
  <2> QED BY <1>1, <2>1, <2>2, <2>3 DEF TskmgrCreateTask
<1>7. ASSUME NEW a \in Actors, ScallExec(a) PROVE Aimed'
  BY <1>7 DEF ScallExec, Aimed, TasksInv, TypeOK, Ops
<1>8. ASSUME NEW a \in Actors, NEW t \in Slots, ScallWait(a, t) PROVE Aimed'
  BY <1>8 DEF ScallWait, Aimed
<1>2. ASSUME NEW a \in Actors, SyncDone(a) \/ TskmgrSetTaskToReady(a) \/ KillRefused(a)
      PROVE  Aimed'
  BY <1>2 DEF SyncDone, TskmgrSetTaskToReady, KillRefused, slotvars, Aimed, Idle, TasksInv, TypeOK
<1>3. ASSUME NEW a \in Actors, NEW t \in Slots, NEW kind \in {"kill", "killuser"},
             KillBegins(a, t, kind)
      PROVE  Aimed'
  BY <1>3 DEF KillBegins, Killable, slotvars, Aimed, TasksInv, TypeOK
<1>4. ASSUME NEW a \in Actors, KillEnds(a) PROVE Aimed'
  <2> SUFFICES ASSUME NEW b \in Actors, op'[b].kind = "killuser", op'[b].sure
               PROVE  used'[op'[b].tid] /\ type'[op'[b].tid] = "user"
    BY DEF Aimed
  <2>0. op[b] \in Ops
    BY DEF TasksInv, TypeOK
  <2>1. \/ op'[b] = Idle \/ op'[b] = [op[b] EXCEPT !.sure = FALSE]
        \/ op'[b] = op[b] /\ (op[b].tid # op[a].tid \/ op[b].kind = "sync")
    BY <1>4 DEF KillEnds
  <2>2. op'[b] = op[b] /\ op[b].tid # op[a].tid
    <3>1. op'[b] # Idle
      BY DEF Idle
    <3>2. op'[b] # [op[b] EXCEPT !.sure = FALSE]
      BY <2>0 DEF Ops
    <3> QED BY <2>1, <3>1, <3>2
  <2>3. op[b].tid \in Slots /\ used[op[b].tid] /\ type[op[b].tid] = "user"
    BY <2>2 DEF Aimed, TasksInv, OpTids
  <2> QED BY <1>4, <2>2, <2>3 DEF KillEnds, TasksInv, TypeOK
<1>5. ASSUME NEW a \in Actors, Switch(a) PROVE Aimed'
  BY <1>5 DEF Switch, slotvars, Aimed
<1>6. CASE UNCHANGED vars
  BY <1>6 DEF vars, slotvars, Aimed
<1> QED BY <1>1, <1>2, <1>3, <1>4, <1>5, <1>6, <1>7, <1>8 DEF Next

\* For any number of slots and any failures, TskmgrKillTask (tasks.c:556) kills a
\* system task only in the place of a user task that was killed while it waited.
THEOREM SystemSpared == Spec => SystemSparedUnlessRaced
<1>1. Init => Aimed
  BY DEF Init, Aimed, Idle
<1>2. TasksInv /\ Aimed /\ [Next]_vars =>
        [\A a \in Actors : op[a].kind = "killuser" /\ KillEnds(a) /\ type[op[a].tid] = "system"
                           => "raced" \in odd']_vars
  <2> SUFFICES ASSUME Aimed, NEW a \in Actors, op[a].kind = "killuser", KillEnds(a),
                      type[op[a].tid] = "system"
               PROVE  "raced" \in odd'
    OBVIOUS
  <2>1. ~op[a].sure
    BY DEF Aimed
  <2> QED BY <2>1 DEF KillEnds
<1> QED BY <1>1, <1>2, AimedNext, InvAlways, PTL DEF Spec, SystemSparedUnlessRaced
=============================================================================
