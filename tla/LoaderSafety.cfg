\* Safety of the loader with every value of get_metadata's item.
SPECIFICATION Spec
CONSTANTS
  Threads = {t1, t2}
  Refs = {r1, r2}
  Addrs = {a1, a2, a3}
  NULL = NULL
  MaxLibs = 2
  MaxPlugins = 2
  NPaths = 2
  Types = {1}
  Names = {1}
  MetaItems <- MCMetaItems
  MetaCounts = {1}
  MaxCalls = 3
SYMMETRY Symmetry
INVARIANTS
  TypeOK
  TeardownAlone
  NothingLeaked
  ReadersSeeConsistentTables
  LoadedRangeUsable
  AnswersStayTrue
PROPERTIES
  IdsStable
CHECK_DEADLOCK FALSE
