-------------------------- MODULE DriverLockProofs --------------------------
(***************************************************************************)
(* What the driver locks guarantee, for any number of tasks.               *)
(***************************************************************************)
EXTENDS DriverLock, TLAPS

\* The lock of a driver is taken for as long as a transfer on it lasts.
IoLocked == \A a \in Actors : pc[a] = "io" => _lock[driver[a]]

\* The owner on record of a task's transfer is the task.
SlotNamed == \A a \in Slots : pc[a] = "io" => _lock_tid[driver[a]] = a

\* No transfer begins between the two halves of an unlocking.
ReleaseAlone ==
  \A a, b \in Actors : pc[a] = "release" /\ pc[b] = "io" => driver[a] # driver[b]

\* A task that is on the CPU is the current task.
CpuCurrent == cpu \in Slots => running_tid = cpu

\* A lock that is taken while an actor is after it, or after the other one of
\* ATA and ATAPI, was taken since the actor looked.
Looked ==
  \A a \in Actors :
    /\ pc[a] \in {"wait", "take"} =>
         \A e \in Drivers : e # driver[a] /\ Conflict(driver[a], e) /\ _lock[e]
                            => e \in since[a]
    /\ pc[a] = "take" /\ _lock[driver[a]] => driver[a] \in since[a]

\* The inductive invariant: what the locks guarantee, by what went wrong.
LockInv ==
  /\ TypeOK
  /\ CpuCurrent
  /\ Looked
  /\ "raced" \notin odd => IoLocked /\ OneAtATime
  /\ odd \cap {"raced", "late"} = {} => LockIsUsed /\ SlotNamed /\ ReleaseAlone
  /\ odd = {} => TidIsUser

\* The types hold of what each step assigns.
LEMMA NextType == TypeOK /\ [Next]_vars => TypeOK'
<1> SUFFICES ASSUME TypeOK, [Next]_vars PROVE TypeOK'
  OBVIOUS
<1> USE TasksAssumption DEF TypeOK, Slots, Actors, Drivers, _LOCK_TID_NONE,
      _LOCK_TID_KERNEL, Goto
<1>1. ASSUME NEW d \in Drivers, Begin(cpu, d) PROVE TypeOK'
  BY <1>1 DEF Begin
<1>2. CASE Look(cpu)
  BY <1>2 DEF Look
<1>3. CASE GiveUp(cpu)
  BY <1>3 DEF GiveUp
<1>4. CASE Take(cpu)
  <2> DEFINE d == driver[cpu]
  <2>1. /\ _lock' = [_lock EXCEPT ![d] = TRUE]
        /\ _lock_tid' = [_lock_tid EXCEPT ![d] = running_tid]
        /\ pc' = [pc EXCEPT ![cpu] = "io"]
        /\ UNCHANGED <<running_tid, used, cpu, driver>>
    BY <1>4 DEF Take, Taker
  <2>2. odd' \subseteq {"raced", "misnamed", "late"}
    BY <1>4 DEF Take
  <2>3. since' \in [Actors -> SUBSET Drivers]
    BY <1>4 DEF Take
  <2> QED
    BY <2>1, <2>2, <2>3
<1>5. CASE Unlock(cpu)
  BY <1>5 DEF Unlock
<1>6. CASE Release(cpu)
  BY <1>6 DEF Release, Owner
<1>7. ASSUME NEW t \in Slots, Create(t) PROVE TypeOK'
  BY <1>7 DEF Create
<1>8. ASSUME NEW t \in Slots, Kill(t) PROVE TypeOK'
  <2>1. _lock' \in [Drivers -> BOOLEAN]
    BY <1>8 DEF Kill
  <2>2. _lock_tid' \in [Drivers -> Actors \cup {_LOCK_TID_NONE}]
    BY <1>8 DEF Kill
  <2> QED
    BY <1>8, <2>1, <2>2 DEF Kill
<1>9. ASSUME NEW a \in Actors, NEW r \in Slots \cup {-1}, Switch(a, r) PROVE TypeOK'
  BY <1>9 DEF Switch
<1>10. CASE UNCHANGED vars
  BY <1>10 DEF vars
<1> QED
  BY <1>1, <1>2, <1>3, <1>4, <1>5, <1>6, <1>7, <1>8, <1>9, <1>10 DEF Next, Transfer

\* Switching tasks makes the task resumed the current one.
LEMMA NextCurrent == TypeOK /\ CpuCurrent /\ [Next]_vars => CpuCurrent'
<1> SUFFICES ASSUME TypeOK, CpuCurrent, [Next]_vars PROVE CpuCurrent'
  OBVIOUS
<1> USE TasksAssumption DEF TypeOK, CpuCurrent, Slots, Actors, _LOCK_TID_KERNEL
<1>1. ASSUME UNCHANGED <<cpu, running_tid>> PROVE CpuCurrent'
  BY <1>1
<1>2. ASSUME NEW t \in Slots, Kill(t) PROVE CpuCurrent'
  BY <1>2 DEF Kill
<1>3. ASSUME NEW a \in Actors, NEW r \in Slots \cup {-1}, Switch(a, r)
      PROVE CpuCurrent'
  BY <1>3 DEF Switch
<1>4. ASSUME Transfer(cpu) PROVE UNCHANGED <<cpu, running_tid>>
  BY <1>4 DEF Transfer, Begin, Look, GiveUp, Take, Unlock, Release
<1>5. ASSUME NEW t \in Slots, Create(t) PROVE UNCHANGED <<cpu, running_tid>>
  BY <1>5 DEF Create
<1> QED
  BY <1>1, <1>2, <1>3, <1>4, <1>5 DEF Next, vars

\* An actor that looks at a lock finds it free, or is turned away.
LEMMA NextLooked == TypeOK /\ Looked /\ [Next]_vars => Looked'
<1> SUFFICES ASSUME TypeOK, Looked, [Next]_vars PROVE Looked'
  OBVIOUS
<1> USE DEF TypeOK, Looked
<1>1. ASSUME UNCHANGED <<driver, since>>, \A d \in Drivers : _lock'[d] => _lock[d],
             \A a \in Actors : pc'[a] \in {"wait", "take"} => pc'[a] = pc[a]
      PROVE  Looked'
  BY <1>1
<1>2. ASSUME NEW d \in Drivers, Begin(cpu, d) PROVE Looked'
  <2>1. \A e \in Drivers : e # d /\ Conflict(d, e) => ~_lock[e]
    BY <1>2 DEF Begin, Blocked, Conflict, Drivers
  <2>2. /\ pc' = [pc EXCEPT ![cpu] = "wait"] /\ driver' = [driver EXCEPT ![cpu] = d]
        /\ since' = [since EXCEPT ![cpu] = {}] /\ _lock' = _lock
    BY <1>2 DEF Begin, Goto
  <2> QED
    BY <2>1, <2>2
<1>3. CASE Look(cpu)
  <2>1. /\ pc' = [pc EXCEPT ![cpu] = "take"] /\ driver' = driver /\ pc[cpu] = "wait"
        /\ since' = [since EXCEPT ![cpu] = since[cpu] \ {driver[cpu]}]
        /\ _lock' = _lock /\ ~_lock[driver[cpu]]
    BY <1>3 DEF Look, Goto, Free
  <2> QED
    BY <2>1
<1>4. CASE GiveUp(cpu)
  BY <1>4 DEF GiveUp, Goto
<1>5. CASE Take(cpu)
  <2> DEFINE d == driver[cpu]
  <2>1. /\ _lock' = [_lock EXCEPT ![d] = TRUE] /\ driver' = driver
        /\ pc' = [pc EXCEPT ![cpu] = "io"]
        /\ \A b \in Actors \ {cpu} :
             since'[b] = IF b \in Contenders(d) THEN since[b] \cup {d} ELSE since[b]
    BY <1>5 DEF Take, Goto
  <2>2. \A b \in Actors \ {cpu} : pc[b] \in {"wait", "take"} /\ Conflict(driver[b], d)
                                  => d \in since'[b]
    BY <2>1 DEF Contenders
  <2>3. \A b \in Actors \ {cpu} : since[b] \subseteq since'[b]
    BY <2>1
  <2>4. Conflict(d, d)
    BY DEF Conflict
  <2> QED
    BY <2>1, <2>2, <2>3, <2>4
<1>6. CASE Unlock(cpu)
  BY <1>6, <1>1 DEF Unlock, Goto
<1>7. CASE Release(cpu)
  BY <1>7, <1>1 DEF Release, Goto
<1>8. ASSUME NEW t \in Slots, Create(t) PROVE Looked'
  BY <1>8, <1>1 DEF Create
<1>9. ASSUME NEW t \in Slots, Kill(t) PROVE Looked'
  <2>1. driver' = driver /\ \A d \in Drivers : _lock'[d] => _lock[d]
    BY <1>9 DEF Kill
  <2>2. \A a \in Actors : pc'[a] \in {"wait", "take"} => pc'[a] = pc[a] /\ since'[a] = since[a]
    BY <1>9 DEF Kill
  <2> QED
    BY <2>1, <2>2
<1>10. ASSUME NEW a \in Actors, NEW r \in Slots \cup {-1}, Switch(a, r) PROVE Looked'
  BY <1>10, <1>1 DEF Switch
<1>11. CASE UNCHANGED vars
  BY <1>11, <1>1 DEF vars
<1> QED
  BY <1>2, <1>3, <1>4, <1>5, <1>6, <1>7, <1>8, <1>9, <1>10, <1>11 DEF Next, Transfer

\* As long as nobody has raced, a transfer keeps its driver locked and
\* conflicting transfers out.
LEMMA NextExcluded ==
  ASSUME TypeOK, Looked, [Next]_vars, "raced" \notin odd => IoLocked /\ OneAtATime,
         "raced" \notin odd'
  PROVE  IoLocked' /\ OneAtATime'
<1> USE DEF TypeOK, IoLocked, OneAtATime
<1>1. ASSUME odd' = odd, _lock' = _lock, driver' = driver,
             \A a \in Actors : pc'[a] = "io" => pc[a] = "io"
      PROVE  IoLocked' /\ OneAtATime'
  BY <1>1
<1>2. ASSUME NEW d \in Drivers, Begin(cpu, d) PROVE IoLocked' /\ OneAtATime'
  BY <1>2 DEF Begin, Goto
<1>3. ASSUME Look(cpu) \/ GiveUp(cpu) \/ Release(cpu)
      PROVE  IoLocked' /\ OneAtATime'
  BY <1>3, <1>1 DEF Look, GiveUp, Release, Goto
<1>4. CASE Take(cpu)
  <2> DEFINE d == driver[cpu]
  <2>1. /\ _lock' = [_lock EXCEPT ![d] = TRUE] /\ driver' = driver
        /\ pc' = [pc EXCEPT ![cpu] = "io"]
    BY <1>4 DEF Take, Goto
  <2>2. "raced" \notin odd /\ ~_lock[d]
        /\ \A e \in Drivers \ {d} : Conflict(d, e) => ~_lock[e]
    BY <1>4 DEF Take, Looked
  <2>3. \A b \in Actors \ {cpu} :
          pc[b] = "io" => ~Conflict(d, driver[b]) /\ ~Conflict(driver[b], d)
    BY <2>2 DEF Conflict
  <2> QED
    BY <2>1, <2>2, <2>3
<1>5. CASE Unlock(cpu)
  <2>1. \A b \in Actors \ {cpu} : pc[b] = "io" => driver[b] # driver[cpu]
    BY <1>5 DEF Unlock, Conflict
  <2> QED
    BY <1>5, <2>1 DEF Unlock, Goto
<1>6. ASSUME NEW t \in Slots, Create(t) PROVE IoLocked' /\ OneAtATime'
  BY <1>6, <1>1 DEF Create
<1>7. ASSUME NEW t \in Slots, Kill(t) PROVE IoLocked' /\ OneAtATime'
  <2>1. \A d \in Drivers : _lock'[d] = _lock[d]
    BY <1>7 DEF Kill, Busy
  <2>2. \A a \in Actors : pc'[a] = "io" => pc[a] = "io"
    BY <1>7 DEF Kill
  <2> QED
    BY <1>7, <2>1, <2>2 DEF Kill
<1>8. ASSUME NEW a \in Actors, NEW r \in Slots \cup {-1}, Switch(a, r)
      PROVE  IoLocked' /\ OneAtATime'
  BY <1>8, <1>1 DEF Switch
<1>9. CASE UNCHANGED vars
  BY <1>9, <1>1 DEF vars
<1> QED
  BY <1>2, <1>3, <1>4, <1>5, <1>6, <1>7, <1>8, <1>9 DEF Next, Transfer

\* As long as nobody has raced nor taken a lock in the middle of an unlocking, a
\* lock has a user and a task's lock names the task.  A kill finds the task
\* busy as long as it is transferring, and takes no lock from anyone.
LEMMA NextUsed ==
  ASSUME TypeOK, CpuCurrent, Looked, [Next]_vars,
         "raced" \notin odd => IoLocked /\ OneAtATime,
         odd \cap {"raced", "late"} = {} => LockIsUsed /\ SlotNamed /\ ReleaseAlone,
         odd' \cap {"raced", "late"} = {}
  PROVE  LockIsUsed' /\ SlotNamed' /\ ReleaseAlone'
<1> DEFINE G == LockIsUsed /\ SlotNamed /\ ReleaseAlone
<1> USE DEF TypeOK, LockIsUsed, SlotNamed, ReleaseAlone
<1>a. Slots \subseteq Actors
  BY DEF Actors
<1>1. ASSUME odd' = odd, UNCHANGED <<_lock, _lock_tid, driver>>,
             \A a \in Actors : pc'[a] = pc[a] \/ {pc[a], pc'[a]} \subseteq {"idle", "wait", "take"}
      PROVE  G'
  BY <1>1, <1>a
<1>2. ASSUME NEW d \in Drivers, Begin(cpu, d) PROVE G'
  <2>1. G
    BY <1>2 DEF Begin
  <2>2. \A a \in Actors : pc'[a] \in {"io", "release"} =>
                            pc'[a] = pc[a] /\ driver'[a] = driver[a]
    BY <1>2 DEF Begin, Goto
  <2>3. \A a \in Actors : pc[a] = "io" => pc'[a] = "io" /\ driver'[a] = driver[a]
    BY <1>2 DEF Begin, Goto
  <2> QED
    BY <1>2, <1>a, <2>1, <2>2, <2>3 DEF Begin
<1>3. ASSUME Look(cpu) \/ GiveUp(cpu) PROVE G'
  BY <1>3, <1>1 DEF Look, GiveUp, Goto
<1>4. CASE Take(cpu)
  <2> DEFINE d == driver[cpu]
  <2>1. /\ _lock' = [_lock EXCEPT ![d] = TRUE] /\ driver' = driver
        /\ _lock_tid' = [_lock_tid EXCEPT ![d] = running_tid]
        /\ pc' = [pc EXCEPT ![cpu] = "io"] /\ pc[cpu] = "take"
    BY <1>4 DEF Take, Taker, Goto
  <2>2. "raced" \notin odd /\ "late" \notin odd /\ ~_lock[d]
    BY <1>4 DEF Take, Looked
  <2>3. \A b \in Actors \ {cpu} : ~(pc[b] = "release" /\ driver[b] = d)
    BY <1>4 DEF Take
  <2>4. G
    BY <2>2
  <2>5. \A b \in Actors \ {cpu} : pc[b] = "io" => driver[b] # d
    BY <2>2 DEF IoLocked
  <2>6. SlotNamed'
    BY <2>1, <2>4, <2>5, <1>a DEF CpuCurrent
  <2>7. LockIsUsed'
    BY <2>1, <2>4
  <2>8. ReleaseAlone'
    BY <2>1, <2>3, <2>4, <2>5
  <2> QED
    BY <2>6, <2>7, <2>8
<1>5. CASE Unlock(cpu)
  <2>1. /\ _lock' = [_lock EXCEPT ![driver[cpu]] = FALSE]
        /\ pc' = [pc EXCEPT ![cpu] = "release"] /\ pc[cpu] = "io"
        /\ UNCHANGED <<_lock_tid, driver, odd>>
    BY <1>5 DEF Unlock, Goto
  <2>2. \A b \in Actors \ {cpu} : pc[b] = "io" => driver[b] # driver[cpu]
    BY <2>1 DEF OneAtATime, Conflict
  <2> QED
    BY <2>1, <2>2, <1>a
<1>6. CASE Release(cpu)
  <2>1. /\ _lock_tid' = [_lock_tid EXCEPT ![driver[cpu]] = _LOCK_TID_NONE]
        /\ pc' = [pc EXCEPT ![cpu] = "idle"] /\ pc[cpu] = "release"
        /\ UNCHANGED <<_lock, driver, odd>>
    BY <1>6 DEF Release, Owner, Goto
  <2> QED
    BY <2>1, <1>a
<1>7. ASSUME NEW t \in Slots, Create(t) PROVE G'
  BY <1>7, <1>1 DEF Create
<1>8. ASSUME NEW t \in Slots, Kill(t) PROVE G'
  <2>1. /\ \A d \in Drivers : _lock'[d] = _lock[d]
        /\ \A d \in Drivers : _lock_tid[d] # t => _lock_tid'[d] = _lock_tid[d]
        /\ \A d \in Drivers : _lock[d] => _lock_tid[d] # t
    BY <1>8 DEF Kill, Busy
  <2>2. G /\ IoLocked
    BY <1>8 DEF Kill
  <2>3. pc[t] # "io"
    BY <2>1, <2>2, <1>a DEF IoLocked
  <2>4. /\ \A a \in Actors \ {t} : pc'[a] = pc[a]
        /\ pc'[t] = "idle" /\ driver' = driver
    BY <1>8, <1>a DEF Kill
  <2>5. SlotNamed'
    BY <2>1, <2>2, <2>4, <1>a DEF IoLocked
  <2> QED
    BY <2>1, <2>2, <2>3, <2>4, <2>5
<1>9. ASSUME NEW a \in Actors, NEW r \in Slots \cup {-1}, Switch(a, r) PROVE G'
  BY <1>9, <1>1 DEF Switch
<1>10. CASE UNCHANGED vars
  BY <1>10, <1>1 DEF vars
<1> QED
  BY <1>2, <1>3, <1>4, <1>5, <1>6, <1>7, <1>8, <1>9, <1>10 DEF Next, Transfer

\* As long as nothing odd has happened the owner on record is the user.
LEMMA NextNamed ==
  ASSUME TypeOK, LockInv, [Next]_vars, odd' = {}
  PROVE  TidIsUser'
<1> USE DEF TypeOK, TidIsUser
<1>a. odd \subseteq odd'
  BY DEF Next, Transfer, Begin, Look, GiveUp, Take, Unlock, Release, Create, Kill,
         Switch, vars
<1>b. odd = {} /\ TidIsUser /\ IoLocked /\ OneAtATime /\ ReleaseAlone
  BY <1>a DEF LockInv
<1>1. ASSUME UNCHANGED <<_lock_tid, driver>>,
             \A a \in Actors : pc'[a] = "io" => pc[a] = "io"
      PROVE  TidIsUser'
  BY <1>1, <1>b
<1>2. ASSUME NEW d \in Drivers, Begin(cpu, d) PROVE TidIsUser'
  BY <1>2, <1>b DEF Begin, Goto
<1>3. ASSUME Look(cpu) \/ GiveUp(cpu) \/ Unlock(cpu) PROVE TidIsUser'
  BY <1>3, <1>1 DEF Look, GiveUp, Unlock, Goto
<1>4. CASE Take(cpu)
  <2> DEFINE d == driver[cpu]
  <2>1. /\ _lock_tid' = [_lock_tid EXCEPT ![d] = running_tid] /\ driver' = driver
        /\ pc' = [pc EXCEPT ![cpu] = "io"]
    BY <1>4 DEF Take, Taker, Goto
  <2>2. running_tid = cpu /\ ~_lock[d]
    BY <1>4 DEF Take, LockInv, Looked
  <2>3. \A b \in Actors \ {cpu} : pc[b] = "io" => driver[b] # d
    BY <1>b, <2>2 DEF IoLocked
  <2> QED
    BY <1>b, <2>1, <2>2, <2>3
<1>5. CASE Release(cpu)
  BY <1>5, <1>b DEF Release, Owner, Goto, ReleaseAlone
<1>6. ASSUME NEW t \in Slots, Create(t) PROVE TidIsUser'
  BY <1>6, <1>1 DEF Create
<1>7. ASSUME NEW t \in Slots, Kill(t) PROVE TidIsUser'
  <2>1. /\ \A d \in Drivers : _lock_tid[d] # t => _lock_tid'[d] = _lock_tid[d]
        /\ \A d \in Drivers : _lock[d] => _lock_tid[d] # t
    BY <1>7 DEF Kill, Busy
  <2>2. driver' = driver /\ \A a \in Actors : pc'[a] = "io" => pc[a] = "io"
    BY <1>7 DEF Kill
  <2> QED
    BY <1>b, <2>1, <2>2 DEF IoLocked
<1>8. ASSUME NEW a \in Actors, NEW r \in Slots \cup {-1}, Switch(a, r)
      PROVE  TidIsUser'
  BY <1>8, <1>1 DEF Switch
<1>9. CASE UNCHANGED vars
  BY <1>9, <1>1 DEF vars
<1> QED
  BY <1>2, <1>3, <1>4, <1>5, <1>6, <1>7, <1>8, <1>9 DEF Next, Transfer

\* The inductive invariant holds of every behaviour.
THEOREM LockInvariant == Spec => []LockInv
<1>1. Init => LockInv
  BY TasksAssumption DEF Init, LockInv, TypeOK, CpuCurrent, Looked, IoLocked, OneAtATime,
     LockIsUsed, SlotNamed, ReleaseAlone, TidIsUser, Slots, Actors, Drivers,
     _LOCK_TID_KERNEL, _LOCK_TID_NONE
<1>2. LockInv /\ [Next]_vars => LockInv'
  <2> SUFFICES ASSUME LockInv, [Next]_vars PROVE LockInv'
    OBVIOUS
  <2>1. TypeOK' /\ CpuCurrent' /\ Looked'
    BY NextType, NextCurrent, NextLooked DEF LockInv
  <2>2. "raced" \notin odd' => IoLocked' /\ OneAtATime'
    BY NextExcluded DEF LockInv
  <2>3. odd' \cap {"raced", "late"} = {} => LockIsUsed' /\ SlotNamed' /\ ReleaseAlone'
    BY NextUsed DEF LockInv
  <2>4. odd' = {} => TidIsUser'
    BY NextNamed DEF LockInv
  <2> QED
    BY <2>1, <2>2, <2>3, <2>4 DEF LockInv
<1> QED
  BY <1>1, <1>2, PTL DEF Spec

\* The locks, their owners and the actors keep their types, for any number of
\* tasks: no driver is ever handed on that is not one of the three, and no owner
\* is recorded that is not a slot, the kernel or nobody.
THEOREM TypeCorrect == Spec => []TypeOK
<1>1. LockInv => TypeOK
  BY DEF LockInv
<1> QED
  BY <1>1, LockInvariant, PTL

\* Unless two actors raced for the locks, no two transfers are ever under way
\* on one driver, nor one on ATA and one on ATAPI, whatever is killed when.
THEOREM TransfersExcluded == Spec => []ExcludedUnlessRaced
<1>1. LockInv => ExcludedUnlessRaced
  BY DEF LockInv, ExcludedUnlessRaced
<1> QED
  BY <1>1, LockInvariant, PTL

\* Unless there was such a race, or a lock was taken in the middle of an
\* unlocking, no lock is left behind by a killed task.
THEOREM NoLockLost == Spec => []UsedUnlessLate
<1>1. LockInv => UsedUnlessLate
  BY DEF LockInv, UsedUnlessLate
<1> QED
  BY <1>1, LockInvariant, PTL

\* Unless, besides, the kernel task took a lock while a task was current, the
\* owner on record is the user, so a kill waits for the right task.
THEOREM OwnerNamed == Spec => []NamedUnlessKernel
<1>1. LockInv => NamedUnlessKernel
  BY DEF LockInv, NamedUnlessKernel
<1> QED
  BY <1>1, LockInvariant, PTL
=============================================================================
