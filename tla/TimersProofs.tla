---------------------------- MODULE TimersProofs ----------------------------
(* Proofs about Timers. *)
EXTENDS Timers, FiniteSetTheorems, TLAPS

\* Unless TmrClear met somebody's use of a timer, a timer is in one slot at
\* most, and one on its way into a slot is in none and nobody else's.
Separate ==
  "cleared" \notin odd =>
    /\ \A r, s \in Slots : timers[r] = timers[s] /\ timers[r] # NULL => r = s
    /\ \A c \in Callers : op[c].pc = "store" =>
         /\ op[c].timer \in live \ Linked
         /\ \A d \in Callers : op[d].pc = "store" /\ op[d].timer = op[c].timer => c = d

\* Then ticks is what is due, and the dispatcher calls the event of a timer
\* whose ticks are zero.
InStep ==
  /\ "cleared" \notin odd => \A t \in Timers : ticks[t] = due[t]
  /\ disp.pc = "event" /\ odd \cap {"reused", "cleared"} = {} => ticks[disp.timer] = 0

\* Pointers that are used are not NULL.
Pointed ==
  /\ disp.pc # "idle" => disp.timer \in Timers
  /\ \A c \in Callers : op[c].pc # "idle" => op[c].timer \in Timers

\* Unless a slot was overwritten, too, what a caller was given is in a slot.
Kept ==
  odd \cap {"overwritten", "cleared"} = {} =>
    \A c \in Callers : mine[c] \cap live \subseteq Linked

IInv == TypeOK /\ Pointed /\ Separate /\ InStep /\ SlotsLive /\ Kept

\* The loop of the dispatcher stays within the table.
LEMMA NextSlotInRange == \A s \in Slots : NextSlot(s) \in Slots
  BY TimersAssumption DEF NextSlot, Slots

\* Idle is a state of a caller and of the dispatcher.
LEMMA IdleType == /\ Idle.pc = "idle" /\ Idle.timer = NULL /\ Idle.ui = 0 /\ 0 \in Slots
  BY TimersAssumption DEF Idle, Slots

\* Where timers are apart, the interrupt takes one tick from each that counts.
LEMMA LeftOnce ==
  ASSUME TypeOK, "cleared" \notin odd, Separate, NEW t \in Timers
  PROVE  Left(t) = IF CountsDown(t) THEN ticks[t] - 1 ELSE ticks[t]
<1> DEFINE S == {s \in Slots : timers[s] = t}
<1>1. CASE CountsDown(t)
  <2>1. PICK s \in Slots : timers[s] = t
    BY <1>1 DEF CountsDown, Linked
  <2>2. S = {s}
    BY <2>1, TimersAssumption DEF Separate
  <2>3. Cardinality(S) = 1
    BY <2>2, FS_Singleton
  <2>4. ticks[t] \in Nat /\ ticks[t] # 0
    BY <1>1 DEF CountsDown, TypeOK
  <2> QED BY <1>1, <2>3, <2>4 DEF Left
<1>2. CASE ~CountsDown(t)
  BY <1>2 DEF Left
<1> QED BY <1>1, <1>2

\* The interrupt keeps ticks within their bounds whatever the slots hold.
LEMMA LeftType ==
  ASSUME TypeOK, NEW t \in Timers PROVE Left(t) \in 0 .. MaxInterval
<1> DEFINE S == {s \in Slots : timers[s] = t}
<1>1. IsFiniteSet(Slots)
  BY TimersAssumption, FS_Interval DEF Slots
<1>2. IsFiniteSet(S)
  BY <1>1, FS_Subset
<1>3. Cardinality(S) \in Nat
  BY <1>2, FS_CardinalityType
<1>4. ticks[t] \in 0 .. MaxInterval /\ MaxInterval \in Nat
  BY TimersAssumption DEF TypeOK
<1>5. Left(t) = IF ~CountsDown(t) THEN ticks[t]
                ELSE IF ticks[t] > Cardinality(S) THEN ticks[t] - Cardinality(S) ELSE 0
  BY DEF Left
<1> HIDE DEF S
<1> QED BY <1>3, <1>4, <1>5
-----------------------------------------------------------------------------
LEMMA InitIInv == Init => IInv
<1> SUFFICES ASSUME Init PROVE IInv
  OBVIOUS
<1>0. 1 \in Intervals /\ 1 \in 0 .. MaxInterval
  BY TimersAssumption DEF Intervals
<1>1. disp \in [pc : {"idle", "test", "event", "reset"}, ui : Slots, timer : Timers \cup {NULL}]
  BY IdleType DEF Init, Idle
<1>2. op \in [Callers -> [pc : {"idle", "store", "clear"}, ui : Slots, timer : Timers \cup {NULL}]]
  BY IdleType DEF Init, Idle
<1>3. TypeOK
  BY <1>0, <1>1, <1>2 DEF Init, TypeOK
<1>4. Pointed /\ Separate /\ InStep
  BY IdleType DEF Init, Pointed, Separate, InStep
<1>5. SlotsLive /\ Kept
  BY DEF Init, SlotsLive, Kept
<1> QED BY <1>3, <1>4, <1>5 DEF IInv

\* Every step keeps the types.
LEMMA NextTypeOK == TypeOK /\ Pointed /\ [Next]_vars => TypeOK'
<1> SUFFICES ASSUME TypeOK, Pointed, [Next]_vars PROVE TypeOK'
  OBVIOUS
<1> USE NextSlotInRange, IdleType, TimersAssumption
<1>1. CASE TmrIncTicks
  <2>1. ticks' \in [Timers -> 0 .. MaxInterval]
    BY <1>1, LeftType DEF TmrIncTicks
  <2>2. due' \in [Timers -> 0 .. MaxInterval]
    BY <1>1 DEF TmrIncTicks, TypeOK
  <2> QED BY <1>1, <2>1, <2>2 DEF TmrIncTicks, TypeOK
<1>2. CASE Dispatch
  <2>1. CASE D_Read
    BY <2>1 DEF D_Read, NextTurn, fields, TypeOK
  <2>2. CASE D_Test
    BY <2>2 DEF D_Test, NextTurn, fields, TypeOK, Pointed
  <2>3. CASE D_Event
    BY <2>3 DEF D_Event, fields, TypeOK
  <2>4. CASE D_Reset
    <3>1. interval[disp.timer] \in 0 .. MaxInterval
      BY <2>4 DEF D_Reset, TypeOK, Pointed, Intervals
    <3> QED BY <2>4, <3>1 DEF D_Reset, NextTurn, TypeOK
  <2> QED BY <1>2, <2>1, <2>2, <2>3, <2>4 DEF Dispatch
<1>3. ASSUME NEW c \in Callers, Caller(c) PROVE TypeOK'
  <2>1. CASE \E i \in Intervals : TmrNew(c, i)
    <3>1. PICK i \in Intervals : TmrNew(c, i)
      BY <2>1
    <3>2. PICK t \in Timers \ live, s \in FreeSlot :
            /\ live' = live \cup {t}
            /\ interval' = [interval EXCEPT ![t] = i] /\ ticks' = [ticks EXCEPT ![t] = i]
            /\ enabled' = [enabled EXCEPT ![t] = FALSE]
            /\ due' = [due EXCEPT ![t] = i]
            /\ odd' = odd \cup Reuse(t)
            /\ Become(c, [pc |-> "store", ui |-> s, timer |-> t])
      BY <3>1 DEF TmrNew
    <3>3. s \in Slots /\ i \in 0 .. MaxInterval
      BY DEF FreeSlot, Intervals
    <3>4. Reuse(t) \subseteq {"reused", "cleared"}
      BY DEF Reuse
    <3> QED BY <3>1, <3>2, <3>3, <3>4 DEF TmrNew, Become, TypeOK
  <2>2. CASE \E i \in Intervals, t \in Timers : TmrSetInterval(c, t, i)
    BY <2>2 DEF TmrSetInterval, Stale, TypeOK
  <2>3. CASE NewStore(c)
    BY <2>3 DEF NewStore, Become, fields, TypeOK, Pointed, Idle
  <2>4. CASE ClearSlot(c)
    BY <2>4 DEF ClearSlot, Become, fields, TypeOK, Pointed, Idle
  <2>5. CASE \E t \in Timers : TmrDelete(c, t)
    BY <2>5 DEF TmrDelete, fields, TypeOK
  <2>6. CASE \E t \in Timers, e \in BOOLEAN : TmrEnable(c, t, e)
    BY <2>6 DEF TmrEnable, Stale, TypeOK
  <2>7. CASE \E s \in Slots : TmrClear(c, s)
    BY <2>7 DEF TmrClear, Become, fields, TypeOK
  <2> QED BY <1>3, <2>1, <2>2, <2>3, <2>4, <2>5, <2>6, <2>7 DEF Caller
<1>4. CASE UNCHANGED vars
  BY <1>4 DEF vars, fields, TypeOK
<1>5. CASE Overwrite
  BY <1>5 DEF Overwrite, Reuse, TypeOK
<1> QED BY <1>1, <1>2, <1>3, <1>4, <1>5 DEF Next

\* Every step keeps pointers that are used from being NULL.
LEMMA NextPointed == TypeOK /\ Pointed /\ [Next]_vars => Pointed'
<1> SUFFICES ASSUME TypeOK, Pointed, [Next]_vars PROVE Pointed'
  OBVIOUS
<1> USE IdleType
<1>1. CASE TmrIncTicks
  BY <1>1 DEF TmrIncTicks, Pointed
<1>2. CASE Dispatch
  BY <1>2 DEF Dispatch, D_Read, D_Test, D_Event, D_Reset, NextTurn, TypeOK, Pointed
<1>3. ASSUME NEW c \in Callers, Caller(c) PROVE Pointed'
  BY <1>3, SMTT(30) DEF Caller, TmrNew, TmrSetInterval, NewStore, ClearSlot, TmrDelete, TmrEnable,
     TmrClear, Become, TypeOK, Pointed
<1>4. CASE UNCHANGED vars
  BY <1>4 DEF vars, Pointed
<1>5. CASE Overwrite
  BY <1>5 DEF Overwrite, Pointed
<1> QED BY <1>1, <1>2, <1>3, <1>4, <1>5 DEF Next

\* Every step keeps timers apart.
LEMMA NextSeparate == TypeOK /\ Pointed /\ Separate /\ [Next]_vars => Separate'
<1> SUFFICES ASSUME TypeOK, Pointed, Separate, [Next]_vars, "cleared" \notin odd' PROVE Separate'
  BY DEF Separate
<1> USE IdleType, TimersAssumption
<1>0. "cleared" \notin odd
  BY DEF Next, TmrIncTicks, Dispatch, D_Read, D_Test, D_Event, D_Reset, Caller, TmrNew,
     TmrSetInterval, NewStore, ClearSlot, TmrDelete, TmrEnable, TmrClear, Overwrite, vars
<1>1. CASE TmrIncTicks
  BY <1>0, <1>1 DEF TmrIncTicks, Separate, Linked
<1>2. CASE Dispatch
  BY <1>0, <1>2 DEF Dispatch, D_Read, D_Test, D_Event, D_Reset, Separate, Linked
<1>3. ASSUME NEW c \in Callers, Caller(c) PROVE Separate'
  <2>1. CASE \E i \in Intervals : TmrNew(c, i)
    <3>1. PICK i \in Intervals : TmrNew(c, i)
      BY <2>1
    <3>2. PICK t \in Timers \ live, s \in FreeSlot :
            /\ live' = live \cup {t} /\ odd' = odd \cup Reuse(t)
            /\ Become(c, [pc |-> "store", ui |-> s, timer |-> t])
      BY <3>1 DEF TmrNew
    <3>3. timers' = timers /\ Linked' = Linked
      BY <3>1 DEF TmrNew, Linked
    <3>4. t \notin Linked
      BY <3>2 DEF Reuse
    <3> QED BY <1>0, <3>2, <3>3, <3>4 DEF Become, Separate, TypeOK
  <2>2. CASE \E i \in Intervals, t \in Timers : TmrSetInterval(c, t, i)
    BY <1>0, <2>2 DEF TmrSetInterval, Separate, Linked
  <2>3. CASE NewStore(c)
    BY <1>0, <2>3 DEF NewStore, Become, TypeOK, Pointed, Separate, Linked
  <2>4. CASE ClearSlot(c)
    BY <1>0, <2>4 DEF ClearSlot, Become, TypeOK, Separate, Linked
  <2>5. CASE \E t \in Timers : TmrDelete(c, t)
    BY <1>0, <2>5 DEF TmrDelete, TypeOK, Separate, Linked
  <2>6. CASE \E t \in Timers, e \in BOOLEAN : TmrEnable(c, t, e)
    BY <1>0, <2>6 DEF TmrEnable, Separate, Linked
  <2>7. CASE \E s \in Slots : TmrClear(c, s)
    BY <1>0, <2>7 DEF TmrClear, Become, TypeOK, Separate, Linked
  <2> QED BY <1>3, <2>1, <2>2, <2>3, <2>4, <2>5, <2>6, <2>7 DEF Caller
<1>4. CASE UNCHANGED vars
  BY <1>0, <1>4 DEF vars, Separate, Linked
<1>5. CASE Overwrite
  BY <1>0, <1>5 DEF Overwrite, Separate, Linked
<1> QED BY <1>1, <1>2, <1>3, <1>4, <1>5 DEF Next

\* Every step keeps ticks and what is due in step.
LEMMA NextInStep == IInv /\ [Next]_vars => InStep'
<1> SUFFICES ASSUME IInv, [Next]_vars, "cleared" \notin odd' PROVE InStep'
  BY DEF InStep
<1> USE IdleType, TimersAssumption DEF IInv
<1>0. "cleared" \notin odd
  BY DEF Next, TmrIncTicks, Dispatch, D_Read, D_Test, D_Event, D_Reset, Caller, TmrNew,
     TmrSetInterval, NewStore, ClearSlot, TmrDelete, TmrEnable, TmrClear, Overwrite, vars
<1>1. CASE TmrIncTicks
  <2>1. \A t \in Timers : ticks'[t] = IF CountsDown(t) THEN ticks[t] - 1 ELSE ticks[t]
    BY <1>0, <1>1, LeftOnce DEF TmrIncTicks
  <2>2. \A t \in Timers : ticks[t] \in Nat /\ ticks[t] = due[t]
    BY <1>0 DEF TypeOK, InStep
  <2>3. \A t \in Timers : due'[t] = IF t \in Linked /\ enabled[t] /\ due[t] > 0 THEN due[t] - 1 ELSE due[t]
    BY <1>1 DEF TmrIncTicks
  <2>4. \A t \in Timers : ticks'[t] = due'[t]
    BY <2>1, <2>2, <2>3 DEF CountsDown
  <2>5. \A t \in Timers : ticks[t] = 0 => ticks'[t] = 0
    BY <2>1 DEF CountsDown
  <2> QED BY <1>1, <2>4, <2>5 DEF TmrIncTicks, InStep, Pointed
<1>2. CASE Dispatch
  <2>1. CASE D_Read
    BY <1>0, <2>1 DEF D_Read, NextTurn, fields, InStep
  <2>2. CASE D_Test
    BY <1>0, <2>2 DEF D_Test, NextTurn, Fires, fields, InStep, TypeOK
  <2>3. CASE D_Event
    BY <1>0, <2>3 DEF D_Event, fields, InStep, TypeOK
  <2>4. CASE D_Reset
    BY <1>0, <2>4 DEF D_Reset, NextTurn, InStep, TypeOK, Pointed
  <2> QED BY <1>2, <2>1, <2>2, <2>3, <2>4 DEF Dispatch
<1>3. ASSUME NEW c \in Callers, Caller(c) PROVE InStep'
  <2>1. CASE \E i \in Intervals : TmrNew(c, i)
    <3>1. PICK i \in Intervals : TmrNew(c, i)
      BY <2>1
    <3>2. PICK t \in Timers \ live :
            /\ ticks' = [ticks EXCEPT ![t] = i] /\ due' = [due EXCEPT ![t] = i]
            /\ odd' = odd \cup Reuse(t)
      BY <3>1 DEF TmrNew
    <3>3. disp' = disp
      BY <3>1 DEF TmrNew
    <3>4. disp.timer = t => "reused" \in odd'
      BY <3>2 DEF Reuse
    <3> QED BY <1>0, <3>2, <3>3, <3>4 DEF InStep, TypeOK, Pointed
  <2>2. CASE ~\E i \in Intervals : TmrNew(c, i)
    <3>1. UNCHANGED <<ticks, due, disp>> /\ odd \subseteq odd'
      BY <1>3, <2>2 DEF Caller, TmrSetInterval, NewStore, ClearSlot, TmrDelete, TmrEnable,
         TmrClear, fields
    <3> QED BY <1>0, <3>1 DEF InStep
  <2> QED BY <2>1, <2>2
<1>4. CASE UNCHANGED vars
  BY <1>0, <1>4 DEF vars, fields, InStep
<1>5. CASE Overwrite
  <2>1. PICK t \in Timers \ live, k \in 0 .. MaxInterval :
          /\ ticks' = [ticks EXCEPT ![t] = k] /\ due' = [due EXCEPT ![t] = k]
          /\ odd' = odd \cup Reuse(t) /\ Reuse(t) # {} /\ disp' = disp
    BY <1>5 DEF Overwrite
  <2>2. Reuse(t) \subseteq {"reused", "cleared"}
    BY DEF Reuse
  <2>3. "reused" \in odd'
    BY <2>1, <2>2
  <2> QED BY <1>0, <2>1, <2>3 DEF InStep, TypeOK
<1> QED BY <1>1, <1>2, <1>3, <1>4, <1>5 DEF Next

\* Every step keeps the slots pointing to memory that is allocated.
LEMMA NextSlotsLive == IInv /\ [Next]_vars => SlotsLive'
<1> SUFFICES ASSUME IInv, [Next]_vars, "cleared" \notin odd' PROVE SlotsLive'
  BY DEF SlotsLive
<1> USE IdleType, TimersAssumption
<1>0. "cleared" \notin odd
  BY DEF Next, TmrIncTicks, Dispatch, D_Read, D_Test, D_Event, D_Reset, Caller, TmrNew,
     TmrSetInterval, NewStore, ClearSlot, TmrDelete, TmrEnable, TmrClear, Overwrite, vars
<1>1. TypeOK /\ SlotsLive /\ Separate
  BY DEF IInv
<1>2. CASE UNCHANGED <<timers, live, op>>
  BY <1>0, <1>1, <1>2 DEF SlotsLive
<1>3. CASE TmrIncTicks \/ Dispatch \/ Overwrite
  BY <1>2, <1>3 DEF TmrIncTicks, Dispatch, D_Read, D_Test, D_Event, D_Reset, Overwrite
<1>4. ASSUME NEW c \in Callers, Caller(c) PROVE SlotsLive'
  <2>1. CASE \E i \in Intervals : TmrNew(c, i)
    <3>1. timers' = timers /\ live \subseteq live' /\ op[c].pc = "idle"
          /\ \A d \in Callers : d # c => op'[d] = op[d]
      BY <1>1, <2>1 DEF TmrNew, Become, TypeOK
    <3> QED BY <1>0, <1>1, <3>1 DEF SlotsLive
  <2>2. CASE \E t \in Timers : \/ \E i \in Intervals : TmrSetInterval(c, t, i)
                               \/ \E e \in BOOLEAN : TmrEnable(c, t, e)
    BY <1>2, <2>2 DEF TmrSetInterval, TmrEnable
  <2>3. CASE NewStore(c)
    <3>1. op[c].timer \in live /\ live' = live /\ op[c].pc = "store"
      BY <1>0, <1>1, <2>3 DEF NewStore, Separate
    <3>2. timers' = [timers EXCEPT ![op[c].ui] = op[c].timer]
          /\ \A d \in Callers : d # c => op'[d] = op[d]
      BY <1>1, <2>3 DEF NewStore, Become, TypeOK
    <3> QED BY <1>0, <1>1, <3>1, <3>2 DEF SlotsLive, TypeOK
  <2>4. CASE ClearSlot(c)
    <3>1. /\ timers' = [timers EXCEPT ![op[c].ui] = NULL] /\ live' = live
          /\ \A d \in Callers : d # c => op'[d] = op[d]
      BY <1>1, <2>4 DEF ClearSlot, Become, TypeOK
    <3> QED BY <1>0, <1>1, <3>1 DEF SlotsLive, TypeOK
  <2>5. ASSUME NEW t \in Timers, TmrDelete(c, t) PROVE SlotsLive'
    <3>1. \A r \in Slots : timers[r] = t => r \in Found(t)
      BY <1>0, <1>1 DEF Separate, Found, Slots
    <3>2. /\ op' = op /\ live \ {t} \subseteq live'
          /\ timers' = [s \in Slots |-> IF s \in Found(t) THEN NULL ELSE timers[s]]
      BY <2>5 DEF TmrDelete
    <3> QED BY <1>0, <1>1, <3>1, <3>2 DEF SlotsLive, TypeOK
  <2>6. ASSUME NEW s \in Slots, TmrClear(c, s) PROVE SlotsLive'
    <3>1. /\ timers' = timers /\ live' = live \ {timers[s]} /\ op[c].pc = "idle"
          /\ op'[c].pc = "clear" /\ op'[c].ui = s
          /\ \A d \in Callers : d # c => op'[d] = op[d]
      BY <1>1, <2>6 DEF TmrClear, Become, TypeOK
    <3>2. \A r \in Slots : timers[r] = timers[s] => r = s
      BY <1>0, <1>1, <2>6 DEF Separate, TmrClear
    <3> QED BY <1>0, <1>1, <3>1, <3>2 DEF SlotsLive
  <2> QED BY <1>4, <2>1, <2>2, <2>3, <2>4, <2>5, <2>6 DEF Caller
<1>5. CASE UNCHANGED vars
  BY <1>2, <1>5 DEF vars
<1> QED BY <1>3, <1>4, <1>5 DEF Next

\* Every step keeps in a slot what callers were given.
LEMMA NextKept == IInv /\ [Next]_vars => Kept'
<1> SUFFICES ASSUME IInv, [Next]_vars, odd' \cap {"overwritten", "cleared"} = {} PROVE Kept'
  BY DEF Kept
<1> USE IdleType, TimersAssumption
<1>0. odd \cap {"overwritten", "cleared"} = {}
  BY DEF Next, TmrIncTicks, Dispatch, D_Read, D_Test, D_Event, D_Reset, Caller, TmrNew,
     TmrSetInterval, NewStore, ClearSlot, TmrDelete, TmrEnable, TmrClear, Overwrite, vars
<1>1. TypeOK /\ Kept /\ Separate
  BY DEF IInv
<1>2. CASE UNCHANGED <<timers, live, mine>>
  BY <1>0, <1>1, <1>2 DEF Kept, Linked
<1>3. CASE TmrIncTicks \/ Dispatch \/ Overwrite
  BY <1>2, <1>3 DEF TmrIncTicks, Dispatch, D_Read, D_Test, D_Event, D_Reset, Overwrite
<1>4. ASSUME NEW c \in Callers, Caller(c) PROVE Kept'
  <2>1. CASE \E i \in Intervals : TmrNew(c, i)
    <3>1. PICK t \in Timers \ live : live' = live \cup {t} /\ odd' = odd \cup Reuse(t)
      BY <2>1 DEF TmrNew
    <3>2. t \notin Held
      BY <3>1 DEF Reuse
    <3>3. UNCHANGED <<timers, mine>>
      BY <2>1 DEF TmrNew
    <3> QED BY <1>0, <1>1, <3>1, <3>2, <3>3 DEF Kept, Linked, Held
  <2>2. CASE \E t \in Timers : \/ \E i \in Intervals : TmrSetInterval(c, t, i)
                               \/ \E e \in BOOLEAN : TmrEnable(c, t, e)
    BY <1>2, <2>2 DEF TmrSetInterval, TmrEnable
  <2>3. CASE NewStore(c)
    <3> DEFINE s == op[c].ui
               t == op[c].timer
    <3>1. /\ s \in Slots /\ timers[s] = NULL /\ live' = live
          /\ timers' = [timers EXCEPT ![s] = t]
          /\ mine' = [mine EXCEPT ![c] = @ \cup {t}]
      BY <1>1, <2>3 DEF NewStore, TypeOK
    <3>2. t \in live /\ t # NULL
      BY <1>0, <1>1, <2>3 DEF NewStore, Separate, TypeOK
    <3>3. Linked' = Linked \cup {t}
      BY <1>1, <3>1, <3>2 DEF Linked, TypeOK
    <3> QED BY <1>0, <1>1, <3>1, <3>3 DEF Kept, TypeOK
  <2>4. CASE ClearSlot(c)
    <3>1. /\ timers' = [timers EXCEPT ![op[c].ui] = NULL] /\ UNCHANGED <<live, mine>>
          /\ op[c].ui \in Slots /\ timers[op[c].ui] \notin live
      BY <1>1, <2>4 DEF ClearSlot, TypeOK
    <3>2. Linked \cap live \subseteq Linked'
      BY <1>1, <3>1 DEF Linked, TypeOK
    <3> QED BY <1>0, <1>1, <3>1, <3>2 DEF Kept
  <2>5. ASSUME NEW t \in Timers, TmrDelete(c, t) PROVE Kept'
    <3>1. /\ timers' = [s \in Slots |-> IF s \in Found(t) THEN NULL ELSE timers[s]]
          /\ live' = IF t \in Linked THEN live \ {t} ELSE live
          /\ mine' = [mine EXCEPT ![c] = @ \ {t}]
      BY <2>5 DEF TmrDelete
    <3>2. Linked \ {t} \subseteq Linked' /\ (t \notin Linked => Linked \subseteq Linked')
      BY <1>1, <3>1 DEF Linked, TypeOK, Found
    <3> QED BY <1>0, <1>1, <3>1, <3>2 DEF Kept, TypeOK
  <2>6. CASE \E s \in Slots : TmrClear(c, s)
    BY <1>0, <1>1, <2>6 DEF TmrClear, Kept, Linked
  <2> QED BY <1>4, <2>1, <2>2, <2>3, <2>4, <2>5, <2>6 DEF Caller
<1>5. CASE UNCHANGED vars
  BY <1>2, <1>5 DEF vars
<1> QED BY <1>3, <1>4, <1>5 DEF Next

\* The inductive invariant holds of every state.
THEOREM Inductive == Spec => []IInv
<1>1. Init => IInv
  BY InitIInv
<1>2. IInv /\ [Next]_vars => IInv'
  BY NextTypeOK, NextPointed, NextSeparate, NextInStep, NextSlotsLive, NextKept DEF IInv
<1> QED BY <1>1, <1>2, PTL DEF Spec

\* For any number of slots, timers, callers and any intervals: the slots, fields
\* and local variables keep their types; in particular the interrupt never
\* counts a timer below zero (timer.c:53).
THEOREM TypeCorrect == Spec => []TypeOK
<1>1. IInv => TypeOK
  BY DEF IInv
<1> QED BY <1>1, Inductive, PTL

\* For any number of slots, timers and callers: no event comes before its timer
\* has seen its interval of interrupts (timer.c:73), with the exceptions that
\* NeverEarly names.
THEOREM NoEarlyEvent == Spec => []NeverEarly
<1>1. IInv => NeverEarly
  BY DEF IInv, InStep, NeverEarly, Pointed
<1> QED BY <1>1, Inductive, PTL

\* For any number of slots, timers and callers: what the interrupt goes through
\* is allocated (timer.c:52), except where TmrClear is at work.
THEOREM NoFreedTimer == Spec => []SlotsLive
<1>1. IInv => SlotsLive
  BY DEF IInv
<1> QED BY <1>1, Inductive, PTL

\* For any number of slots, timers and callers: what TmrNew has returned is in
\* one slot exactly until it is deleted (timer.c:143), with the exceptions that
\* InOneSlot names.
THEOREM OneSlot == Spec => []InOneSlot
<1>1. IInv => InOneSlot
  <2> SUFFICES ASSUME IInv, odd \cap {"overwritten", "cleared"} = {},
                      NEW c \in Callers, NEW t \in mine[c] \cap live
               PROVE  Cardinality({s \in Slots : timers[s] = t}) = 1
    BY DEF InOneSlot
  <2>1. t \in Linked
    BY DEF IInv, Kept
  <2>2. PICK s \in Slots : timers[s] = t /\ t # NULL
    BY <2>1 DEF Linked
  <2>3. {r \in Slots : timers[r] = t} = {s}
    BY <2>2 DEF IInv, Separate
  <2> QED BY <2>3, FS_Singleton
<1> QED BY <1>1, Inductive, PTL
=============================================================================
