SPECIFICATION ListSpec
CONSTANTS
  Users = {a1, a2}
  NODES = 3
INVARIANT AddedIsFound
CHECK_DEADLOCK FALSE
