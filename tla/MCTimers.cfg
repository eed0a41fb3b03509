SPECIFICATION Spec
CONSTANTS
  Callers = {c1, c2}
  Timers = {a, b}
  NULL = NULL
  MAX_TIMER_COUNT = 2
  MaxInterval = 2
CONSTRAINT Ordinary
INVARIANTS NeverEarly SlotsLive InOneSlot
PROPERTY Fired
