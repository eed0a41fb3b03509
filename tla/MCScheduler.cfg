SPECIFICATION Spec
CONSTANTS
  MAX_TASK_COUNT = 2
  TASK_TICK_HIGH = 3
  TASK_TICK_NORMAL = 4
  TASK_TICK_LOW = 1
  Priorities = {4, 1, 3}
  MaxKills = 2
  LATE_FAILURES = TRUE
CONSTRAINT CountBound
INVARIANT X87NotAnothers
INVARIANT CurrentIsStarted
INVARIANT SseKept
PROPERTY KernelRuns
