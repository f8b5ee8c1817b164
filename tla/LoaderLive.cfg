\* Progress of the loader when no client passes an item below -1.
SPECIFICATION FairSpec
CONSTANTS
  Threads = {t1, t2}
  Refs = {r1, r2}
  Addrs = {a1, a2}
  NULL = NULL
  MaxLibs = 1
  MaxPlugins = 1
  NPaths = 2
  Types = {1}
  Names = {1}
  MetaItems <- MCCountItems
  MetaCounts = {1}
  MaxCalls = 2
INVARIANTS
  LocksReleased
PROPERTIES
  CallsReturn
CHECK_DEADLOCK FALSE
