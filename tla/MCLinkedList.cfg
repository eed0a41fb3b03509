SPECIFICATION ListSpec
CONSTANTS
  Users = {a1, a2}
  NODES = 4
CONSTRAINT Ordinary
VIEW Seen
INVARIANTS Represents Counted
CHECK_DEADLOCK FALSE
