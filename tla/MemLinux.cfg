\* The Linux build, where secure chunks share pages.
SPECIFICATION Spec
CONSTANTS
  NPages = 2
  PageSize = 2
  MaxSize = 2
  MaxChunks = 2
  SizeMod = 8
  Builds <- LinuxBuilds
INVARIANTS
  StaysLocked
CHECK_DEADLOCK FALSE
