\* The number of metadata items is read without the lock.
SPECIFICATION Spec
SYMMETRY Symmetry
CONSTANTS
  Threads = {t1, t2}
  Refs = {r1, r2}
  Addrs = {a1, a2, a3}
  NULL = NULL
  MaxLibs = 2
  MaxPlugins = 2
  NPaths = 1
  Types = {1}
  Names = {1}
  MetaItems <- MCCountItems
  MetaCounts = {1}
  MaxCalls = 3
INVARIANTS
  LockProtectsEverything
CHECK_DEADLOCK FALSE
