SPECIFICATION Spec
CONSTANTS
  MAX_TASK_COUNT = 2
  FAILURES = {"stack", "addr", "pages"}
CONSTRAINT CountBound
INVARIANT WholeTasks
INVARIANT SyncReserved
PROPERTY SystemSparedUnlessRaced
