SPECIFICATION Spec
CONSTANTS
  WORD = 16
  PAGE = 2
  ALLOC_START_ADDRESS = 2
  MEMORY_SIZE = 12
  MBD_COUNT = 3
  UMBD_COUNT = 3
  LENGTHS = {0, 1, 3, 6, 15}
  STARTS = {2, 5, 14}
CONSTRAINT Ordinary
VIEW Seen
INVARIANT TypeOK
INVARIANT Exclusive
INVARIANT Placed
INVARIANT Findable
INVARIANT Accounting
PROPERTY Implements
