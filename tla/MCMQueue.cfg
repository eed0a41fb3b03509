SPECIFICATION Spec
CONSTANTS
  Tasks = {t1, t2}
  KERNEL = KERNEL
  System_PCI = n1
  Names = {n1}
  GARBAGE = garbage
  MAX_MESSAGE_COUNT = 2
  MAX_TASK_MQUEUE_COUNT = 1
  MaxQueues = 2
  MaxRequests = 2
CONSTRAINT Ordinary
INVARIANTS LimitUnlessCrowded OneNameUnlessTwins OwnedUnlessKilled AnswerFits
PROPERTY KernelAnswered
CHECK_DEADLOCK FALSE
