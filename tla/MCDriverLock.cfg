SPECIFICATION Spec
CONSTANT MAX_TASK_COUNT = 2
INVARIANT TypeOK
INVARIANT ExcludedUnlessRaced
INVARIANT UsedUnlessLate
INVARIANT NamedUnlessKernel
