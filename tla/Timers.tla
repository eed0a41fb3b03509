------------------------------- MODULE Timers -------------------------------
(***************************************************************************)
(* The kernel timers (kernel/timer.c).  The timer interrupt counts them    *)
(* down with interrupts off (TmrIncTicks, kernel.c:1252), timer.sys runs   *)
(* their events in a system call with interrupts on (TmrDispatchTick,      *)
(* sys/timer/main.c), and the kernel's own code makes, starts, stops and   *)
(* deletes them (the callers).  Only the interrupt is one step.  A timer   *)
(* is a heap address: one that is released may be given out again.         *)
(***************************************************************************)
EXTENDS Naturals, FiniteSets

CONSTANTS
  Callers,
  Timers, NULL,        \* addresses of timers
  MAX_TIMER_COUNT,
  MaxInterval          \* bound

ASSUME TimersAssumption ==
  /\ NULL \notin Timers
  /\ MAX_TIMER_COUNT \in Nat \ {0} /\ MaxInterval \in Nat \ {0}

Slots == 0 .. MAX_TIMER_COUNT - 1
Intervals == 1 .. MaxInterval

VARIABLES
  timers,              \* _timers
  live,                \* the addresses that are allocated
  interval, enabled, ticks,
  disp,                \* TmrDispatchTick: pc, ui, timer
  op,                  \* each caller: pc, ui, timer
  mine,                \* the timers each caller was given
  due,                 \* history: the interrupts a timer must still see
  odd

fields == <<interval, enabled, ticks>>
vars == <<timers, live, fields, disp, op, mine, due, odd>>

Idle == [pc |-> "idle", ui |-> 0, timer |-> NULL]

\* TmrInit.
Init ==
  /\ timers = [s \in Slots |-> NULL]
  /\ live = {} /\ mine = [c \in Callers |-> {}]
  /\ interval = [t \in Timers |-> 1] /\ enabled = [t \in Timers |-> FALSE]
  /\ ticks = [t \in Timers |-> 1]
  /\ disp = Idle /\ op = [c \in Callers |-> Idle]
  /\ due = [t \in Timers |-> 1]
  /\ odd = {}

Linked == {timers[s] : s \in Slots} \ {NULL}
-----------------------------------------------------------------------------
(* The interrupt *)

\* (mutant) The last tick is not counted.
CountsDown_NotLast(t) == t \in Linked /\ enabled[t] /\ ticks[t] > 1

\* The test of _TmrDispatchTick.
CountsDown(t) == t \in Linked /\ enabled[t] /\ ticks[t] # 0

\* What it leaves of a timer's ticks: a timer is met once for each slot it is in.
Left(t) ==
  LET n == Cardinality({s \in Slots : timers[s] = t}) IN
  IF ~CountsDown(t) THEN ticks[t] ELSE IF ticks[t] > n THEN ticks[t] - n ELSE 0

TmrIncTicks ==
  /\ ticks' = [t \in Timers |-> Left(t)]
  /\ due' = [t \in Timers |->
               IF t \in Linked /\ enabled[t] /\ due[t] > 0 THEN due[t] - 1 ELSE due[t]]
  /\ UNCHANGED <<timers, live, interval, enabled, disp, op, mine, odd>>
-----------------------------------------------------------------------------
(* timer.sys *)

\* TmrDispatchTick is behind a system call (SCALL_DISPATCH_TICK) that any task
\* may make; timer.sys is the one program that does, and there is one of it.

\* The next slot of the loop; timer.sys calls TmrDispatchTick again and again.
NextSlot(s) == IF s + 1 < MAX_TIMER_COUNT THEN s + 1 ELSE 0

NextTurn == disp' = [pc |-> "idle", ui |-> NextSlot(disp.ui), timer |-> NULL]

\* TimerPtr timer = _timers[ui].
D_Read ==
  /\ disp.pc = "idle"
  /\ IF timers[disp.ui] = NULL THEN NextTurn
     ELSE disp' = [pc |-> "test", ui |-> disp.ui, timer |-> timers[disp.ui]]
  /\ UNCHANGED <<timers, live, fields, op, mine, due, odd>>

\* (mutant) A timer may fire with a tick to go.
Fires_Early(t) == enabled[t] /\ ticks[t] <= 1

\* The rest of the test.
Fires(t) == enabled[t] /\ ticks[t] = 0

D_Test ==
  /\ disp.pc = "test"
  /\ IF Fires(disp.timer) THEN disp' = [disp EXCEPT !.pc = "event"] ELSE NextTurn
  /\ UNCHANGED <<timers, live, fields, op, mine, due, odd>>

\* timer->event(), which returns...
D_Event ==
  /\ disp.pc = "event"
  /\ disp' = [disp EXCEPT !.pc = "reset"]
  /\ UNCHANGED <<timers, live, fields, op, mine, due, odd>>

\* ... and timer->ticks = timer->interval.
D_Reset ==
  LET t == disp.timer IN
  /\ disp.pc = "reset"
  /\ ticks' = [ticks EXCEPT ![t] = interval[t]]
  /\ due' = [due EXCEPT ![t] = interval[t]]
  /\ NextTurn
  /\ UNCHANGED <<timers, live, interval, enabled, op, mine, odd>>

Dispatch == D_Read \/ D_Test \/ D_Event \/ D_Reset
-----------------------------------------------------------------------------
(* The callers *)

Become(c, r) == op' = [op EXCEPT ![c] = r]

\* The first slot that is free, if any.
FreeSlot == {s \in Slots : timers[s] = NULL /\ \A r \in 0 .. s - 1 : timers[r] # NULL}

Held == UNION {mine[c] : c \in Callers}

\* Memory that is given out may be some that the dispatcher still means to use,
\* or that TmrClear released and has not taken out of its slot or from its owner.
Reuse(t) == (IF disp.timer = t THEN {"reused"} ELSE {})
            \cup (IF t \in Linked \cup Held THEN {"cleared"} ELSE {})

\* TmrNew: memory and a slot are found, or the call fails without a trace.
TmrNew(c, i) ==
  /\ op[c] = Idle
  /\ \E t \in Timers \ live, s \in FreeSlot :
       /\ live' = live \cup {t}
       /\ interval' = [interval EXCEPT ![t] = i] /\ ticks' = [ticks EXCEPT ![t] = i]
       /\ enabled' = [enabled EXCEPT ![t] = FALSE]
       /\ due' = [due EXCEPT ![t] = i]
       /\ odd' = odd \cup Reuse(t)
       /\ Become(c, [pc |-> "store", ui |-> s, timer |-> t])
  /\ UNCHANGED <<timers, disp, mine>>

\* The timer goes into its slot, whatever another caller put there since.
NewStore(c) ==
  LET s == op[c].ui IN
  /\ op[c].pc = "store"
  /\ timers' = [timers EXCEPT ![s] = op[c].timer]
  /\ mine' = [mine EXCEPT ![c] = @ \cup {op[c].timer}]
  /\ odd' = odd \cup (IF timers[s] # NULL THEN {"overwritten"} ELSE {})
  /\ Become(c, Idle)
  /\ UNCHANGED <<live, fields, disp, due>>

\* (mutant) The slot is not emptied.
Found_None(t) == {}

\* (mutant) The slots that follow are emptied as well.
Found_Rest(t) == {s \in Slots : \E r \in 0 .. s : timers[r] = t}

\* The first slot that holds t, if any.
Found(t) == {s \in Slots : timers[s] = t /\ \A r \in 0 .. s - 1 : timers[r] # t}

\* TmrDelete: the slot is emptied, then the memory released.  (In one step: what
\* the dispatcher does in between it can do before or after.)  A timer that was
\* overwritten is not found, and stays allocated.
TmrDelete(c, t) ==
  /\ op[c] = Idle /\ t \in mine[c]
  /\ mine' = [mine EXCEPT ![c] = @ \ {t}]
  /\ timers' = [s \in Slots |-> IF s \in Found(t) THEN NULL ELSE timers[s]]
  /\ live' = IF t \in Linked THEN live \ {t} ELSE live
  /\ UNCHANGED <<fields, disp, op, due, odd>>

\* A caller's timer was released by TmrClear.
Stale(t) == IF t \in live THEN {} ELSE {"cleared"}

TmrSetInterval(c, t, i) ==
  /\ op[c] = Idle /\ t \in mine[c]
  /\ interval' = [interval EXCEPT ![t] = i] /\ odd' = odd \cup Stale(t)
  /\ UNCHANGED <<timers, live, enabled, ticks, disp, op, mine, due>>

\* TmrStart and TmrStop.
TmrEnable(c, t, e) ==
  /\ op[c] = Idle /\ t \in mine[c]
  /\ enabled' = [enabled EXCEPT ![t] = e] /\ odd' = odd \cup Stale(t)
  /\ UNCHANGED <<timers, live, interval, ticks, disp, op, mine, due>>

\* TmrClear, slot by slot: here the memory is released first...
TmrClear(c, s) ==
  /\ op[c] = Idle /\ timers[s] # NULL
  /\ live' = live \ {timers[s]}
  /\ Become(c, [pc |-> "clear", ui |-> s, timer |-> timers[s]])
  /\ UNCHANGED <<timers, fields, disp, mine, due, odd>>

\* ... and then the slot emptied.
ClearSlot(c) ==
  /\ op[c].pc = "clear"
  /\ timers' = [timers EXCEPT ![op[c].ui] = NULL]
  /\ odd' = odd \cup (IF timers[op[c].ui] # op[c].timer \/ op[c].timer \in live
                     THEN {"cleared"} ELSE {})
  /\ Become(c, Idle)
  /\ UNCHANGED <<live, fields, disp, mine, due>>

\* A timer that was released may go to something else than a timer, and have any
\* contents then: the dispatcher may still read them and call what stands in the
\* place of the event.
Overwrite ==
  \E t \in Timers \ live, i \in Intervals, e \in BOOLEAN, k \in 0 .. MaxInterval :
    /\ Reuse(t) # {} /\ odd' = odd \cup Reuse(t)
    /\ interval' = [interval EXCEPT ![t] = i] /\ enabled' = [enabled EXCEPT ![t] = e]
    /\ ticks' = [ticks EXCEPT ![t] = k] /\ due' = [due EXCEPT ![t] = k]
    /\ UNCHANGED <<timers, live, disp, op, mine>>

Caller(c) ==
  \/ \E i \in Intervals : TmrNew(c, i) \/ (\E t \in Timers : TmrSetInterval(c, t, i))
  \/ NewStore(c) \/ ClearSlot(c)
  \/ \E t \in Timers : TmrDelete(c, t) \/ (\E e \in BOOLEAN : TmrEnable(c, t, e))
  \/ \E s \in Slots : TmrClear(c, s)

Next == TmrIncTicks \/ Dispatch \/ Overwrite \/ \E c \in Callers : Caller(c)

\* The interrupt comes again and again, and the scheduler runs timer.sys.
Fairness == WF_vars(TmrIncTicks) /\ WF_vars(Dispatch)

Spec == Init /\ [][Next]_vars /\ Fairness
-----------------------------------------------------------------------------
(* Properties *)

\* Slots hold timers, and no timer's ticks go below zero or beyond an interval.
TypeOK ==
  /\ timers \in [Slots -> Timers \cup {NULL}]
  /\ live \subseteq Timers /\ mine \in [Callers -> SUBSET Timers]
  /\ interval \in [Timers -> Intervals] /\ enabled \in [Timers -> BOOLEAN]
  /\ ticks \in [Timers -> 0 .. MaxInterval]
  /\ disp \in [pc : {"idle", "test", "event", "reset"}, ui : Slots, timer : Timers \cup {NULL}]
  /\ op \in [Callers -> [pc : {"idle", "store", "clear"}, ui : Slots, timer : Timers \cup {NULL}]]
  /\ due \in [Timers -> 0 .. MaxInterval]
  /\ odd \subseteq {"reused", "cleared", "overwritten"}

\* No event comes early: when timer.sys calls it (timer.c:73), the timer has been
\* through as many interrupts, enabled, as its interval was when it was last
\* reset, whatever was stopped, started or changed in between, unless its memory
\* was given out again since timer.sys read the slot, or TmrClear let it into
\* two slots.
NeverEarly ==
  disp.pc = "event" /\ odd \cap {"reused", "cleared"} = {} => due[disp.timer] = 0

\* What the interrupt goes through is allocated (timer.c:52), except a slot
\* that TmrClear is in the middle of.
SlotsLive ==
  \A s \in Slots :
    \/ timers[s] \in live \cup {NULL}
    \/ \E c \in Callers : op[c].pc = "clear" /\ op[c].ui = s
    \/ "cleared" \in odd

\* A timer that TmrNew has returned is in one slot and one only, so that it
\* fires and can be deleted, unless two callers found the same slot or TmrClear
\* met somebody's use of a timer.
InOneSlot ==
  odd \cap {"overwritten", "cleared"} = {} =>
    \A c \in Callers : \A t \in mine[c] \cap live : Cardinality({s \in Slots : timers[s] = t}) = 1

\* A timer that stays enabled in its slot fires: neither the interrupt
\* (timer.c:53) nor the dispatcher (timer.c:73) misses it for ever, unless TmrClear
\* released it and others have its memory.
Fired ==
  \A t \in Timers :
    t \in Linked /\ enabled[t] ~>
      t \notin Linked \/ ~enabled[t] \/ (disp.timer = t /\ disp.pc = "event") \/ "cleared" \in odd
=============================================================================
