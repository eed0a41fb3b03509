SPECIFICATION Spec
CONSTANTS
  MAX_TASK_COUNT = 2
  MaxDepth = 2
INVARIANT TypeOK
INVARIANT MutualExclusion
INVARIANT NoInvalidUnlock
INVARIANT EnabledUnlessSlipped
PROPERTY KernelGetsCpu
CHECK_DEADLOCK FALSE
