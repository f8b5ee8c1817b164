\* The allocator in all four builds.
SPECIFICATION Spec
CONSTANTS
  NPages = 2
  PageSize = 2
  MaxSize = 3
  MaxChunks = 2
  SizeMod = 8
  Builds <- AllBuilds
INVARIANTS
  TypeOK
  EntriesMatchChunks
  SecretsErased
  NoLockLeak
  LockedWhileLive
PROPERTIES
  OthersUntouched
CHECK_DEADLOCK FALSE
