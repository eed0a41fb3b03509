SPECIFICATION Spec
CONSTANTS
  Tasks = {t1, t2}
  Names = {f, g}
  NONE = NONE
  START_BLOCK_ID = 1
  LastBlock = 3
  DirSize = 2
  FileSize = 1
  DEFAULT_INIT_BAT_COUNT = 2
SYMMETRY Symmetry
VIEW View
CONSTRAINT Ordinary
INVARIANTS BatFree OneOwner DirectoryAgrees LocksHeld
CHECK_DEADLOCK FALSE
