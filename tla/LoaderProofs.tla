--------------------------- MODULE LoaderProofs ---------------------------
(* Theorems about the plugin loader, for any number of threads, references, *)
(* addresses, libraries, plugins and calls.                                 *)
EXTENDS Loader, FiniteSetTheorems, TLAPS

WriterPCs == {"grow", "rebase", "open", "info", "publish", "fill", "wunlock"}

(* The lock: readers and a writer exclude each other. *)
LockInv ==
  /\ \A t \in Threads : readers[t] >= 0 /\ (pc[t] = "read" => readers[t] > 0)
  /\ writer # NULL => \A t \in Threads : readers[t] = 0
  /\ \A t \in Threads : pc[t] \in WriterPCs <=> writer = t

(* The count is the number of references, and only owners are in a call. *)
RefInv ==
  /\ ref_count = Cardinality(Held)
  /\ status = "none" => Held = {} /\ \A t \in Threads : pc[t] = "idle"
  /\ status = "freed" => Held = {} /\ \A t \in Threads : pc[t] = "idle"
  /\ \A t \in Threads : pc[t] \notin {"idle", "teardown"} => Holds(t)
  /\ \A t \in Threads : pc[t] = "teardown" =>
       /\ status = "live" /\ Held = {}
       /\ \A u \in Threads \ {t} : pc[u] # "teardown"

OK(i) == i < nplugins /\ plugin[i].flags = FLAG_PLUGIN_OK

(* The tables: every valid entry has its own block, points into the table  *)
(* the loader's field names, and nothing lies beyond the end.              *)
TableInv ==
  /\ status # "live" => nlibs = 0 /\ nplugins = 0
  /\ handles = nlibs
  /\ nlibs > 0 => libField # NULL
  /\ \A i \in PluginIds : OK(i) =>
       /\ plugin[i].lib.base = libField /\ plugin[i].lib.idx < nlibs
       /\ plugin[i].functbl = i /\ i \in blocks
  /\ \A b \in blocks : OK(b)
  /\ \A i \in PluginIds : i >= nplugins => plugin[i] = ZeroPlugin
  /\ \A t \in Threads : pc[t] = "rebase" => libMem # NULL
  /\ \A t \in Threads : pc[t] = "open" => libField # NULL
  /\ (\A t \in Threads : pc[t] # "rebase") => libField = libMem
  /\ (\A t \in Threads : pc[t] # "publish") => pluginField = pluginMem

(* The load in progress: what its locals say of the tables. *)
LoadInv ==
  \A t \in Threads :
    /\ pc[t] \in {"info", "publish", "fill"} => w.lib < nlibs
    /\ pc[t] \in {"grow", "rebase", "open", "info"} => w.i = 0
    /\ pc[t] \in {"info", "publish"} =>
         \A i \in PluginIds : OK(i) => plugin[i].lib.idx # w.lib
    /\ pc[t] = "publish" =>
         /\ w.offset = nplugins /\ w.i = 0 /\ lib[w.lib].nplugins = w.n
         /\ w.offset + w.n <= MaxPlugins /\ w.offset < MaxPlugins
    /\ pc[t] = "fill" =>
         /\ w.offset + w.n = nplugins /\ w.i < w.n /\ lib[w.lib].nplugins = w.n
         /\ \A i \in PluginIds : w.offset <= i /\ i < w.offset + w.i =>
              OK(i) /\ plugin[i].lib.idx = w.lib
         /\ \A i \in PluginIds : w.offset + w.i <= i => plugin[i].flags = 0

(* The ids a load returned. *)
RangeInv ==
  \A t \in Threads :
    ret[t].op = "load_plugin" /\ ret[t].val >= 0 /\ status # "freed" => Usable(ret[t].val)

(* What a query answered, a, is true of the tables. *)
Stands(a) ==
  /\ a.op = "get_type" => is_valid_id(a.key, 0) /\ plugin[a.key].type = a.val
  /\ a.op \in {"get_functbl", "get_algo_name"} => a.val \in blocks
  /\ a.op = "get_nplugins" /\ a.key = -1 => a.val <= nplugins
  /\ a.op = "get_nplugins" /\ a.key # -1 =>
       /\ is_valid_id(a.key, 1)
       /\ is_valid_id(a.key, 0) => lib[plugin[a.key].lib.idx].nplugins = a.val
  /\ a.op \in {"lookup_by_name", "lookup_by_type"} =>
       /\ is_valid_id(a.val, 0) /\ Matches(a, a.val)
       /\ \A i \in PluginIds : a.start <= i /\ i < a.val =>
            ~(is_valid_id(i, 0) /\ Matches(a, i))

AnswerInv ==
  \A t \in Threads : ret[t].val >= 0 /\ status # "freed" => Stands(ret[t])

IInv == TypeOK /\ LockInv /\ RefInv /\ TableInv /\ LoadInv /\ RangeInv /\ AnswerInv

----------------------------------------------------------------------------
USE NullAssumption, BoundsAssumption, RefsAssumption

(* What the queries have in common: a true answer, the unlock, nothing else. *)
ReadOnly(t) ==
  \E op \in Ops, key \in Int, start \in Int, val \in Int :
    /\ op # "load_plugin" /\ ReadAndReturn(t, op, key, start, val)
    /\ val >= 0 => Stands(Result(op, key, start, val))

(* Every query is one of five steps, and what it answers is a number. *)
LEMMA ReadsAnswer ==
  ASSUME TypeOK, TableInv, NEW t \in Threads, Reads(t)
  PROVE \/ ReaderLock(t) \/ ReadOnly(t)
        \/ (\E id \in Int, item \in MetaItems : GetMetadataNegative(t, id, item))
        \/ (\E id \in Int, stat \in {0, -1} : CountMetadata(t, id, stat))
        \/ CountReturns(t)
<1> USE DEF Ids, PluginIds
<1>1. ASSUME NEW id \in Int, is_valid_id(id, 0)
      PROVE /\ id \in PluginIds /\ plugin[id].lib.idx \in LibIds
            /\ plugin[id].functbl \in Int /\ plugin[id].type \in Int
            /\ lib[plugin[id].lib.idx].nplugins \in Int
            /\ plugin[id].nmetadata \in Int
  <2>1. id \in PluginIds /\ OK(id) BY <1>1 DEF is_valid_id, TypeOK, OK
  <2>2. plugin[id] \in Plugin BY <2>1 DEF TypeOK
  <2>3. plugin[id].lib.idx \in LibIds
    <3>1. plugin[id].lib.idx \in 0 .. MaxLibs BY <2>2 DEF Plugin, LibPtr
    <3>2. plugin[id].lib.idx < nlibs BY <2>1 DEF TableInv
    <3>3. nlibs \in 0 .. MaxLibs BY DEF TypeOK
    <3> QED BY <3>1, <3>2, <3>3 DEF LibIds
  <2>4. lib[plugin[id].lib.idx] \in Library BY <2>3 DEF TypeOK
  <2> QED BY <2>1, <2>2, <2>3, <2>4 DEF Plugin, Library
<1>2. ASSUME NEW id \in Ids, GetNplugins(t, id) PROVE ReadOnly(t)
  <2> DEFINE v == IF id = -1 THEN nplugins
       ELSE IF is_valid_id(id, 0) THEN lib[plugin[id].lib.idx].nplugins
       ELSE IF is_valid_id(id, 1) THEN 0 ELSE -ERR_INVALID
  <2>1. v \in Int BY <1>1 DEF TypeOK, ERR_INVALID
  <2>2. ReadAndReturn(t, "get_nplugins", id, 0, v) BY <1>2 DEF GetNplugins
  <2>3. v >= 0 => Stands(Result("get_nplugins", id, 0, v))
    BY DEF Stands, Result, is_valid_id, ERR_INVALID, TypeOK
  <2> HIDE DEF v
  <2> QED BY <2>1, <2>2, <2>3 DEF ReadOnly, Ops
<1>3. ASSUME NEW id \in Ids, GetType(t, id) PROVE ReadOnly(t)
  <2> DEFINE v == IF is_valid_id(id, 0) THEN plugin[id].type ELSE -ERR_INVALID
  <2>1. v \in Int BY <1>1 DEF TypeOK, ERR_INVALID
  <2>2. ReadAndReturn(t, "get_type", id, 0, v) BY <1>3 DEF GetType
  <2>3. v >= 0 => Stands(Result("get_type", id, 0, v)) BY DEF Stands, Result, ERR_INVALID
  <2> HIDE DEF v
  <2> QED BY <2>1, <2>2, <2>3 DEF ReadOnly, Ops
<1>4. ASSUME NEW id \in Ids, GetFunctbl(t, id) \/ GetAlgoName(t, id) PROVE ReadOnly(t)
  <2> DEFINE v == IF is_valid_id(id, 0) THEN plugin[id].functbl ELSE -ERR_INVALID
  <2>1. v \in Int BY <1>1 DEF TypeOK, ERR_INVALID
  <2>2. \/ ReadAndReturn(t, "get_functbl", id, 0, v)
        \/ ReadAndReturn(t, "get_algo_name", id, 0, v)
    BY <1>4 DEF GetFunctbl, GetAlgoName
  <2>3. v >= 0 => v \in blocks
    BY <1>1 DEF is_valid_id, OK, TableInv, ERR_INVALID
  <2>4. v >= 0 => /\ Stands(Result("get_functbl", id, 0, v))
                   /\ Stands(Result("get_algo_name", id, 0, v))
    BY <2>3 DEF Stands, Result
  <2> QED BY <2>1, <2>2, <2>4 DEF ReadOnly, Ops
<1>5. ASSUME NEW key \in Int, NEW start \in PluginIds, NEW end \in Ids,
             LookupByName(t, key, start, end) \/ LookupByType(t, key, start, end)
      PROVE ReadOnly(t)
  <2> DEFINE r(op, val) == Result(op, key, start, val)
  <2> DEFINE found(op) == {i \in PluginIds : /\ start <= i /\ i < (IF end = -1 THEN nplugins ELSE end)
                                            /\ is_valid_id(i, 0) /\ Matches(r(op, 0), i)}
  <2>1. PICK op \in {"lookup_by_name", "lookup_by_type"},
             val \in PluginIds \cup {-ERR_NONEXISTENT} :
          ReadAndReturn(t, op, key, start, val) /\ LookupAnswers(found(op), val)
    <3>1. CASE LookupByName(t, key, start, end)
      BY <3>1 DEF LookupByName, Found, Matches, Result
    <3>2. CASE LookupByType(t, key, start, end)
      BY <3>2 DEF LookupByType, Found, Matches, Result
    <3> QED BY <1>5, <3>1, <3>2
  <2>2. val \in Int BY DEF ERR_NONEXISTENT
  <2>3. ASSUME val >= 0 PROVE Stands(r(op, val))
    <3>1. val \in found(op) /\ \A i \in found(op) : val <= i
      BY <2>1, <2>3 DEF LookupAnswers, ERR_NONEXISTENT
    <3>2. \A i \in PluginIds : Matches(r(op, 0), i) <=> Matches(r(op, val), i)
      BY DEF Matches, Result
    <3>3. ASSUME NEW i \in PluginIds, start <= i, i < val, is_valid_id(i, 0)
          PROVE ~Matches(r(op, 0), i)
      BY <3>1, <3>3 DEF TypeOK
    <3> QED BY <3>1, <3>2, <3>3 DEF Stands, Result
  <2>4. /\ op \in Ops /\ op # "load_plugin" /\ start \in Int
        /\ val >= 0 => Stands(Result(op, key, start, val))
    BY <2>3 DEF Ops
  <2> QED BY <2>1, <2>2, <2>4 DEF ReadOnly
<1>6. ASSUME NEW id \in Ids, NEW item \in MetaItems, NEW stat \in {0, -1},
             GetMetadata(t, id, item, stat)
      PROVE ReadOnly(t)
  <2> DEFINE v == IF ~is_valid_id(id, 0) THEN -ERR_NONEXISTENT
       ELSE IF item < plugin[id].nmetadata THEN 0
       ELSE special_metadata(id, item - plugin[id].nmetadata, stat)
  <2>1. v \in Int BY DEF special_metadata, ERR_NONEXISTENT
  <2>2. ReadAndReturn(t, "get_metadata", id, item, v) BY <1>6 DEF GetMetadata
  <2>3. Stands(Result("get_metadata", id, item, v)) BY DEF Stands, Result
  <2> HIDE DEF v
  <2> QED BY <2>1, <2>2, <2>3 DEF ReadOnly, Ops
<1>7. /\ \A id \in Ids : id \in Int
      /\ \A item \in MetaItems : item \in Int
      /\ \A n \in Names \cup Types : n \in Int
  OBVIOUS
<1> QED BY <1>2, <1>3, <1>4, <1>5, <1>6, <1>7 DEF Reads

(* One step of the system, by action. *)
OneStep(t) ==
  \/ New(t) \/ (\E u \in Threads : Ref(t, u)) \/ Unref(t) \/ Teardown(t)
  \/ LoadPlugin(t) \/ WriterLock(t) \/ GrowLibTable(t) \/ RebaseLibPointers(t)
  \/ OpenLibrary(t) \/ (\E err \in Nat \ {0} : OpenFails(t, err))
  \/ (\E n \in 0 .. MaxPlugins : GrowPluginTable(t, n))
  \/ EnumerationFails(t) \/ PublishPluginTable(t)
  \/ (\E type, name, m \in Nat : FillPlugin(t, type, name, m))
  \/ (\E err \in Nat \ {0} : FillFails(t, err)) \/ WriterUnlock(t)
  \/ Query(t) \/ ReaderLock(t) \/ ReadOnly(t)
  \/ (\E id, item \in Int : GetMetadataNegative(t, id, item))
  \/ (\E id \in Int, stat \in {0, -1} : CountMetadata(t, id, stat))
  \/ CountReturns(t)

(* The next-state relation is made of these steps. *)
LEMMA NextIsOneStep ==
  ASSUME TypeOK, TableInv, Next PROVE \E t \in Threads : OneStep(t)
<1>1. PICK t \in Threads :
        \/ New(t) \/ (\E u \in Threads : Ref(t, u)) \/ Unref(t)
        \/ LoadPlugin(t) \/ Query(t) \/ Loads(t) \/ Reads(t) \/ Teardown(t)
  BY DEF Next, Step
<1>2. CASE Loads(t)
  BY <1>2 DEF Loads, OneStep, ERR_RESOLUTION, ERR_ENUMERATION, ERR_FUNCTION
<1>3. CASE Reads(t) BY <1>3, ReadsAnswer DEF OneStep
<1> QED BY <1>1, <1>2, <1>3 DEF OneStep

(* What a call returns has a type. *)
LEMMA AnswerType ==
  ASSUME ret \in [Threads -> Results], NEW t \in Threads,
         NEW op \in Ops, NEW key \in Int, NEW start \in Int, NEW val \in Int,
         Answer(t, op, key, start, val)
  PROVE ret' \in [Threads -> Results]
<1>1. Result(op, key, start, val) \in Results BY DEF Result, Results
<1> QED BY <1>1 DEF Answer

(* The same for what a load returns. *)
LEMMA LoadReturnsType ==
  ASSUME ret \in [Threads -> Results], NEW t \in Threads,
         NEW val \in Int, LoadReturns(t, val)
  PROVE ret' \in [Threads -> Results]
BY AnswerType DEF LoadReturns, Ops

(* Storing the number of plugins keeps the library table's type. *)
LEMMA LibraryType ==
  ASSUME NEW L \in [LibIds -> Library], NEW k \in LibIds, NEW n \in Int
  PROVE [L EXCEPT ![k].nplugins = n] \in [LibIds -> Library]
<1>1. [L[k] EXCEPT !.nplugins = n] \in Library BY DEF Library
<1> QED BY <1>1

(* Every action keeps the types. *)
LEMMA TypeStep ==
  ASSUME TypeOK, TableInv, LoadInv, Next PROVE TypeOK'
<1> SUFFICES ASSUME NEW t \in Threads, OneStep(t) PROVE TypeOK'
  BY NextIsOneStep
<1>a. /\ ret \in [Threads -> Results] /\ w \in LoadLocals
      /\ lib \in [LibIds -> Library] /\ plugin \in [PluginIds -> Plugin]
      /\ md \in [Threads -> CountLocals]
  BY DEF TypeOK
<1>b. /\ nlibs \in 0 .. MaxLibs /\ nplugins \in 0 .. MaxPlugins
      /\ handles \in Int /\ blocks \subseteq PluginIds
      /\ libField \in Addrs \cup {NULL} /\ libMem \in Addrs \cup {NULL}
  BY DEF TypeOK
<1>c. /\ w.kind \in Kinds /\ w.tries \in Int /\ w.n \in 0 .. MaxPlugins
      /\ w.offset \in 0 .. MaxPlugins /\ w.lib \in 0 .. MaxLibs
      /\ w.i \in 0 .. MaxPlugins
  BY <1>a DEF LoadLocals
<1> USE DEF Goto, refVars, lockVars, libVars, pluginVars, tableVars, clientVars
<1>1. ASSUME New(t) PROVE TypeOK'
  BY <1>1 DEF New, TypeOK
<1>2. ASSUME NEW u \in Threads, Ref(t, u) PROVE TypeOK'
  BY <1>2 DEF Ref, TypeOK
<1>3. ASSUME Unref(t) PROVE TypeOK'
  BY <1>3 DEF Unref, TypeOK, PCs
<1>4. ASSUME Teardown(t) PROVE TypeOK'
  <2>1. lib' \in [LibIds -> Library] BY <1>4 DEF Teardown, Library, ZeroLibrary
  <2>2. plugin' \in [PluginIds -> Plugin]
    BY <1>4 DEF Teardown, Plugin, ZeroPlugin, LibPtr, NoLib
  <2>3. nlibs' = 0 /\ nplugins' = 0 /\ blocks' \subseteq PluginIds /\ handles' \in Int
    BY <1>4, <1>b DEF Teardown
  <2> QED BY <1>4, <2>1, <2>2, <2>3 DEF Teardown, TypeOK, PCs
<1>5. ASSUME LoadPlugin(t) PROVE TypeOK'
  <2>1. ret' \in [Threads -> Results]
    BY <1>5, <1>a DEF LoadPlugin, Call, NoResult, Results, Ops
  <2>2. calls' \in Nat BY <1>5 DEF LoadPlugin, Call, TypeOK
  <2> QED BY <1>5, <2>1, <2>2 DEF LoadPlugin, Call, TypeOK, PCs
<1>6. ASSUME WriterLock(t) PROVE TypeOK'
  <2>1. PICK k \in Kinds : w' = [Zero EXCEPT !.kind = k,
                                  !.tries = IF k = "search" THEN NPaths ELSE 1]
    BY <1>6 DEF WriterLock
  <2>2. \E n \in Nat : w' = [kind |-> k, tries |-> n, lib |-> 0, n |-> 0,
                               offset |-> 0, i |-> 0]
    BY <2>1 DEF Zero
  <2>3. w' \in LoadLocals BY <2>2 DEF LoadLocals
  <2> QED BY <1>6, <2>3 DEF WriterLock, TypeOK, PCs
<1>7. ASSUME GrowLibTable(t) PROVE TypeOK'
  BY <1>7 DEF GrowLibTable, TypeOK, PCs
<1>8. ASSUME RebaseLibPointers(t) PROVE TypeOK'
  <2>1. ASSUME NEW i \in PluginIds PROVE Rebase(plugin[i]) \in Plugin
    BY <1>a, <1>b DEF Rebase, Plugin, LibPtr
  <2>2. plugin' \in [PluginIds -> Plugin] BY <1>8, <2>1 DEF RebaseLibPointers
  <2> QED BY <1>8, <2>2 DEF RebaseLibPointers, TypeOK, PCs
<1>9. ASSUME OpenLibrary(t) PROVE TypeOK'
  <2>1. nlibs \in LibIds /\ nlibs' \in 0 .. MaxLibs /\ handles' \in Int
    BY <1>9, <1>b DEF OpenLibrary, LibIds
  <2>2. lib' \in [LibIds -> Library] BY <1>9, <1>a, <2>1 DEF OpenLibrary, Library
  <2>3. w' \in LoadLocals BY <1>9, <1>a, <1>b DEF OpenLibrary, LoadLocals
  <2> QED BY <1>9, <2>1, <2>2, <2>3 DEF OpenLibrary, TypeOK, PCs
<1>10. ASSUME NEW err \in Nat \ {0}, OpenFails(t, err) PROVE TypeOK'
  <2>1. CASE w.kind = "search" /\ w.tries > 1
    <3>1. w' \in LoadLocals BY <1>10, <2>1, <1>a DEF OpenFails, LoadLocals
    <3> QED BY <1>10, <2>1, <3>1 DEF OpenFails, TypeOK, PCs
  <2>2. CASE ~(w.kind = "search" /\ w.tries > 1)
    <3> DEFINE v == IF w.kind = "search" THEN -ERR_RESOLUTION ELSE -err
    <3>1. v \in Int BY DEF ERR_RESOLUTION
    <3>2. LoadReturns(t, v) BY <1>10, <2>2 DEF OpenFails
    <3>3. ret' \in [Threads -> Results] BY <3>1, <3>2, <1>a, LoadReturnsType
    <3> QED BY <1>10, <2>2, <3>3 DEF OpenFails, TypeOK, PCs
  <2> QED BY <2>1, <2>2
<1>11. ASSUME NEW n \in 0 .. MaxPlugins, GrowPluginTable(t, n) PROVE TypeOK'
  <2>1. w.lib \in LibIds BY <1>11, <1>b, <1>c DEF GrowPluginTable, LoadInv, LibIds
  <2>2. lib' \in [LibIds -> Library] BY <1>11, <1>a, <2>1, LibraryType DEF GrowPluginTable
  <2>3. w' \in LoadLocals BY <1>11, <1>a, <1>b DEF GrowPluginTable, LoadLocals
  <2> QED BY <1>11, <2>2, <2>3 DEF GrowPluginTable, TypeOK, PCs
<1>12. ASSUME EnumerationFails(t) PROVE TypeOK'
  <2>1. w.lib \in LibIds BY <1>12, <1>b, <1>c DEF EnumerationFails, LoadInv, LibIds
  <2>2. lib' = [lib EXCEPT ![w.lib].nplugins = -1] BY <1>12 DEF EnumerationFails
  <2>3. -1 \in Int OBVIOUS
  <2>4. lib' \in [LibIds -> Library] BY <2>1, <2>2, <2>3, <1>a, LibraryType
  <2>5. ret' \in [Threads -> Results]
    BY <1>12, <1>a, LoadReturnsType DEF EnumerationFails, ERR_ENUMERATION
  <2> QED BY <1>12, <2>4, <2>5 DEF EnumerationFails, TypeOK, PCs
<1>13. ASSUME PublishPluginTable(t) PROVE TypeOK'
  <2>1. plugin' \in [PluginIds -> Plugin]
    BY <1>13, <1>a DEF PublishPluginTable, Plugin, FLAG_PLUGIN_DUMMY
  <2>2. ret' \in [Threads -> Results]
    BY <1>13, <1>a, <1>c, LoadReturnsType DEF PublishPluginTable
  <2>3. nplugins' \in 0 .. MaxPlugins
    BY <1>13, <1>b, <1>c DEF PublishPluginTable, LoadInv
  <2> QED BY <1>13, <2>1, <2>2, <2>3 DEF PublishPluginTable, TypeOK, PCs
<1>14. ASSUME NEW type \in Nat, NEW name \in Nat, NEW m \in Nat,
             FillPlugin(t, type, name, m) PROVE TypeOK'
  <2>1. w.offset + w.n = nplugins /\ w.i < w.n BY <1>14 DEF FillPlugin, FillSlot, LoadInv
  <2>2. w.offset + w.i \in PluginIds /\ w.i + 1 \in 0 .. MaxPlugins
    BY <2>1, <1>b, <1>c DEF PluginIds
  <2> DEFINE e == [flags |-> FLAG_PLUGIN_OK, lib |-> [base |-> libField, idx |-> w.lib],
        type |-> type, name |-> name, functbl |-> w.offset + w.i,
        nmetadata |-> m, id |-> w.offset + w.i]
  <2>3. e \in Plugin BY <1>b, <1>c DEF Plugin, LibPtr, FLAG_PLUGIN_OK
  <2>4. plugin' = [plugin EXCEPT ![w.offset + w.i] = e] BY <1>14 DEF FillPlugin, FillSlot
  <2>5. plugin' \in [PluginIds -> Plugin] BY <1>a, <2>3, <2>4
  <2>6. ret' \in [Threads -> Results]
    BY <1>14, <1>a, <1>c, LoadReturnsType DEF FillPlugin, FillSlot
  <2>7. w' \in LoadLocals BY <1>14, <2>2, <1>a DEF FillPlugin, FillSlot, LoadLocals
  <2>8. blocks' \subseteq PluginIds BY <1>14, <2>2, <1>b DEF FillPlugin, FillSlot
  <2> QED BY <1>14, <2>5, <2>6, <2>7, <2>8 DEF FillPlugin, FillSlot, TypeOK, PCs
<1>15. ASSUME NEW err \in Nat \ {0}, FillFails(t, err) PROVE TypeOK'
  <2>1. ret' \in [Threads -> Results] BY <1>15, <1>a, LoadReturnsType DEF FillFails
  <2> QED BY <1>15, <2>1 DEF FillFails, TypeOK, PCs
<1>16. ASSUME WriterUnlock(t) PROVE TypeOK'
  <2>1. w' \in LoadLocals BY <1>16 DEF WriterUnlock, Zero, LoadLocals, Kinds
  <2> QED BY <1>16, <2>1 DEF WriterUnlock, TypeOK, PCs
<1>17. ASSUME Query(t) PROVE TypeOK'
  <2>1. ret' \in [Threads -> Results]
    BY <1>17, <1>a DEF Query, Call, NoResult, Results, Ops
  <2>2. calls' \in Nat BY <1>17 DEF Query, Call, TypeOK
  <2> QED BY <1>17, <2>1, <2>2 DEF Query, Call, TypeOK, PCs
<1>18. ASSUME ReaderLock(t) PROVE TypeOK'
  BY <1>18 DEF ReaderLock, TypeOK, PCs
<1>19. ASSUME ReadOnly(t) PROVE TypeOK'
  <2>1. PICK op \in Ops, key \in Int, start \in Int, val \in Int :
          ReadAndReturn(t, op, key, start, val)
    BY <1>19 DEF ReadOnly
  <2>2. ret' \in [Threads -> Results] BY <2>1, <1>a, AnswerType DEF ReadAndReturn
  <2>3. readers' \in [Threads -> Int] /\ pc' \in [Threads -> PCs]
    BY <2>1 DEF ReadAndReturn, ReaderUnlock, TypeOK, PCs
  <2>4. UNCHANGED <<refVars, writer, tableVars, w, md, calls>> BY <2>1 DEF ReadAndReturn
  <2> QED BY <2>2, <2>3, <2>4 DEF TypeOK
<1>20. ASSUME NEW id \in Int, NEW item \in Int, GetMetadataNegative(t, id, item) PROVE TypeOK'
  <2>1. ret' \in [Threads -> Results]
    BY <1>20, <1>a, AnswerType DEF GetMetadataNegative, ERR_INVALID, Ops
  <2> QED BY <1>20, <2>1 DEF GetMetadataNegative, TypeOK, PCs
<1>21. ASSUME NEW id \in Int, NEW stat \in {0, -1}, CountMetadata(t, id, stat) PROVE TypeOK'
  <2>1. id \in PluginIds BY <1>21, <1>b DEF CountMetadata, is_valid_id, PluginIds
  <2>2. md' \in [Threads -> CountLocals] BY <1>21, <1>a, <2>1 DEF CountMetadata, CountLocals
  <2> QED BY <1>21, <2>2 DEF CountMetadata, ReaderUnlock, TypeOK, PCs
<1>22. ASSUME CountReturns(t) PROVE TypeOK'
  <2>1. md[t].id \in PluginIds /\ md[t].extra \in {0, 1} BY <1>a DEF CountLocals
  <2>2. md[t].id \in Int /\ plugin[md[t].id].nmetadata \in Int
    BY <1>a, <2>1 DEF PluginIds, Plugin
  <2> DEFINE v == IF pluginField = pluginMem
                  THEN plugin[md[t].id].nmetadata + md[t].extra ELSE Garbage
  <2>3. v \in Int BY <2>1, <2>2 DEF Garbage
  <2>4. Answer(t, "count_metadata", md[t].id, 0, v) BY <1>22 DEF CountReturns
  <2>5. ret' \in [Threads -> Results] BY <2>2, <2>3, <2>4, <1>a, AnswerType DEF Ops
  <2> QED BY <1>22, <2>5 DEF CountReturns, TypeOK, PCs
<1> QED
  BY <1>1, <1>2, <1>3, <1>4, <1>5, <1>6, <1>7, <1>8, <1>9, <1>10, <1>11,
     <1>12, <1>13, <1>14, <1>15, <1>16, <1>17, <1>18, <1>19, <1>20, <1>21, <1>22
  DEF OneStep

(* Every action respects the lock. *)
LEMMA LockStep ==
  ASSUME TypeOK, TableInv, RefInv, LockInv, Next PROVE LockInv'
<1> SUFFICES ASSUME NEW t \in Threads, OneStep(t) PROVE LockInv'
  BY NextIsOneStep
<1> USE DEF TypeOK, LockInv, WriterPCs, PCs, Goto, refVars, lockVars, libVars,
           pluginVars, tableVars, clientVars
<1>1. ASSUME New(t) PROVE LockInv'
  BY <1>1 DEF New, RefInv
<1>2. ASSUME NEW u \in Threads, Ref(t, u) PROVE LockInv'
  BY <1>2 DEF Ref
<1>3. ASSUME Unref(t) PROVE LockInv'
  BY <1>3 DEF Unref
<1>4. ASSUME Teardown(t) PROVE LockInv'
  BY <1>4 DEF Teardown
<1>5. ASSUME LoadPlugin(t) PROVE LockInv'
  BY <1>5 DEF LoadPlugin, Call
<1>6. ASSUME WriterLock(t) PROVE LockInv'
  BY <1>6 DEF WriterLock
<1>7. ASSUME GrowLibTable(t) PROVE LockInv'
  BY <1>7 DEF GrowLibTable
<1>8. ASSUME RebaseLibPointers(t) PROVE LockInv'
  BY <1>8 DEF RebaseLibPointers
<1>9. ASSUME OpenLibrary(t) PROVE LockInv'
  BY <1>9 DEF OpenLibrary
<1>10. ASSUME NEW err \in Nat \ {0}, OpenFails(t, err) PROVE LockInv'
  BY <1>10 DEF OpenFails
<1>11. ASSUME NEW n \in 0 .. MaxPlugins, GrowPluginTable(t, n) PROVE LockInv'
  BY <1>11 DEF GrowPluginTable
<1>12. ASSUME EnumerationFails(t) PROVE LockInv'
  BY <1>12 DEF EnumerationFails
<1>13. ASSUME PublishPluginTable(t) PROVE LockInv'
  BY <1>13 DEF PublishPluginTable
<1>14. ASSUME NEW type \in Nat, NEW name \in Nat, NEW m \in Nat,
             FillPlugin(t, type, name, m) PROVE LockInv'
  BY <1>14 DEF FillPlugin, FillSlot
<1>15. ASSUME NEW err \in Nat \ {0}, FillFails(t, err) PROVE LockInv'
  BY <1>15 DEF FillFails
<1>16. ASSUME WriterUnlock(t) PROVE LockInv'
  BY <1>16 DEF WriterUnlock
<1>17. ASSUME Query(t) PROVE LockInv'
  BY <1>17 DEF Query, Call
<1>18. ASSUME ReaderLock(t) PROVE LockInv'
  BY <1>18 DEF ReaderLock
<1>19. ASSUME ReadOnly(t) PROVE LockInv'
  BY <1>19 DEF ReadOnly, ReadAndReturn, ReaderUnlock
<1>20. ASSUME NEW id \in Int, NEW item \in Int, GetMetadataNegative(t, id, item) PROVE LockInv'
  BY <1>20 DEF GetMetadataNegative
<1>21. ASSUME NEW id \in Int, NEW stat \in {0, -1}, CountMetadata(t, id, stat) PROVE LockInv'
  BY <1>21 DEF CountMetadata, ReaderUnlock
<1>22. ASSUME CountReturns(t) PROVE LockInv'
  BY <1>22 DEF CountReturns
<1> QED
  BY <1>1, <1>2, <1>3, <1>4, <1>5, <1>6, <1>7, <1>8, <1>9, <1>10, <1>11,
     <1>12, <1>13, <1>14, <1>15, <1>16, <1>17, <1>18, <1>19, <1>20, <1>21, <1>22
  DEF OneStep

(* Only finitely many references exist. *)
LEMMA HeldFinite == IsFiniteSet(Held)
BY FS_Subset DEF Held

(* drew_loader_ref adds one to the number of references. *)
LEMMA TakeRef ==
  ASSUME owner \in [Refs -> Threads \cup {NULL}], NEW r \in Refs, NEW u \in Threads,
         owner[r] = NULL, owner' = [owner EXCEPT ![r] = u]
  PROVE Held' = Held \cup {r} /\ Cardinality(Held') = Cardinality(Held) + 1
<1>1. Held' = Held \cup {r} /\ r \notin Held BY DEF Held
<1> QED BY <1>1, HeldFinite, FS_AddElement

(* drew_loader_unref takes one from the number of references. *)
LEMMA DropRef ==
  ASSUME owner \in [Refs -> Threads \cup {NULL}], NEW r \in Refs,
         owner[r] # NULL, owner' = [owner EXCEPT ![r] = NULL]
  PROVE Held' = Held \ {r} /\ Cardinality(Held') = Cardinality(Held) - 1
<1>1. Held' = Held \ {r} /\ r \in Held BY DEF Held
<1> QED BY <1>1, HeldFinite, FS_RemoveElement

(* Every action keeps the count exact. *)
LEMMA RefStep ==
  ASSUME TypeOK, TableInv, RefInv, Next PROVE RefInv'
<1> SUFFICES ASSUME NEW t \in Threads, OneStep(t) PROVE RefInv'
  BY NextIsOneStep
<1> USE DEF RefInv, Goto, refVars, lockVars, libVars, pluginVars, tableVars, clientVars
<1>s. /\ pc \in [Threads -> PCs] /\ status \in {"none", "live", "freed"}
  BY DEF TypeOK
<1>h. owner' = owner => Held' = Held /\ \A v \in Threads : Holds(v)' = Holds(v)
  BY DEF Held, Holds
<1>1. ASSUME New(t) PROVE RefInv'
  <2>1. PICK r \in Refs : owner' = [owner EXCEPT ![r] = t] BY <1>1 DEF New
  <2>2. Held = {} /\ owner[r] = NULL /\ \A u \in Threads : pc[u] = "idle"
    BY <1>1 DEF New, Held
  <2>3. Cardinality(Held) = 0 BY <2>2, FS_EmptySet
  <2>4. owner \in [Refs -> Threads \cup {NULL}] BY DEF TypeOK
  <2>5. Cardinality(Held') = Cardinality(Held) + 1 BY <2>1, <2>2, <2>4, TakeRef
  <2>6. Cardinality(Held') = 1 BY <2>3, <2>5
  <2> QED BY <1>1, <2>2, <2>6 DEF New
<1>2. ASSUME NEW u \in Threads, Ref(t, u) PROVE RefInv'
  <2>1. PICK r \in Refs : owner[r] = NULL /\ owner' = [owner EXCEPT ![r] = u]
    BY <1>2 DEF Ref
  <2>2. Cardinality(Held') = Cardinality(Held) + 1 BY <2>1, TakeRef DEF TypeOK
  <2>3. Held # {} BY <1>2 DEF Ref, Holds, Held
  <2>4. \A v \in Threads : Holds(v) => Holds(v)' BY <2>1 DEF Holds, TypeOK
  <2> QED BY <1>2, <2>2, <2>3, <2>4 DEF Ref
<1>3. ASSUME Unref(t) PROVE RefInv'
  <2>1. PICK r \in Refs : owner[r] = t /\ owner' = [owner EXCEPT ![r] = NULL]
    BY <1>3 DEF Unref
  <2>2. Held' = Held \ {r} /\ Cardinality(Held') = Cardinality(Held) - 1
    BY <2>1, DropRef DEF TypeOK
  <2>3. r \in Held BY <2>1 DEF Held, TypeOK
  <2>4. \A v \in Threads \ {t} : Holds(v) => Holds(v)' BY <2>1 DEF Holds, TypeOK
  <2>5. Holds(t) => Held # {} BY DEF Holds, Held
  <2>6. ref_count - 1 = 0 => Held' = {}
    <3>1. IsFiniteSet(Held') BY <2>2, HeldFinite, FS_Subset
    <3> QED BY <2>2, <3>1, FS_EmptySet DEF RefInv
  <2>7. ref_count' = Cardinality(Held') BY <1>3, <2>2 DEF Unref
  <2>8. status = "live" /\ \A v \in Threads : pc[v] # "teardown" BY <1>3, <2>3 DEF TypeOK
  <2>9. pc' \in [Threads -> PCs] BY <1>3 DEF Unref, TypeOK, PCs
  <2>10. ASSUME NEW v \in Threads, pc'[v] \notin {"idle", "teardown"} PROVE Holds(v)'
    BY <1>3, <2>10, <2>4 DEF Unref, TypeOK
  <2>11. ASSUME NEW v \in Threads, pc'[v] = "teardown"
         PROVE Held' = {} /\ \A u \in Threads \ {v} : pc'[u] # "teardown"
    BY <1>3, <2>6, <2>8, <2>11 DEF Unref, TypeOK
  <2>12. status' = "live" BY <1>3, <2>8 DEF Unref
  <2> QED BY <2>7, <2>10, <2>11, <2>12
<1>4. ASSUME Teardown(t) PROVE RefInv'
  <2>1. \A u \in Threads : Holds(u) => Held # {} BY DEF Holds, Held, TypeOK
  <2>2. Held = {} /\ \A u \in Threads \ {t} : pc[u] = "idle"
    BY <1>4, <2>1 DEF Teardown
  <2> QED BY <1>4, <2>2, <1>s, <1>h DEF Teardown
<1>5. ASSUME LoadPlugin(t) PROVE RefInv'
  BY <1>5, <1>s, <1>h DEF LoadPlugin, Call, Holds, Held
<1>6. ASSUME WriterLock(t) PROVE RefInv'
  BY <1>6, <1>s, <1>h DEF WriterLock
<1>7. ASSUME GrowLibTable(t) PROVE RefInv'
  BY <1>7, <1>s, <1>h DEF GrowLibTable
<1>8. ASSUME RebaseLibPointers(t) PROVE RefInv'
  BY <1>8, <1>s, <1>h DEF RebaseLibPointers
<1>9. ASSUME OpenLibrary(t) PROVE RefInv'
  BY <1>9, <1>s, <1>h DEF OpenLibrary
<1>10. ASSUME NEW err \in Nat \ {0}, OpenFails(t, err) PROVE RefInv'
  BY <1>10, <1>s, <1>h DEF OpenFails
<1>11. ASSUME NEW n \in 0 .. MaxPlugins, GrowPluginTable(t, n) PROVE RefInv'
  BY <1>11, <1>s, <1>h DEF GrowPluginTable
<1>12. ASSUME EnumerationFails(t) PROVE RefInv'
  BY <1>12, <1>s, <1>h DEF EnumerationFails
<1>13. ASSUME PublishPluginTable(t) PROVE RefInv'
  BY <1>13, <1>s, <1>h DEF PublishPluginTable
<1>14. ASSUME NEW type \in Nat, NEW name \in Nat, NEW m \in Nat,
             FillPlugin(t, type, name, m) PROVE RefInv'
  BY <1>14, <1>s, <1>h DEF FillPlugin, FillSlot
<1>15. ASSUME NEW err \in Nat \ {0}, FillFails(t, err) PROVE RefInv'
  BY <1>15, <1>s, <1>h DEF FillFails
<1>16. ASSUME WriterUnlock(t) PROVE RefInv'
  BY <1>16, <1>s, <1>h DEF WriterUnlock
<1>17. ASSUME Query(t) PROVE RefInv'
  BY <1>17, <1>s, <1>h DEF Query, Call, Holds, Held
<1>18. ASSUME ReaderLock(t) PROVE RefInv'
  BY <1>18, <1>s, <1>h DEF ReaderLock
<1>19. ASSUME ReadOnly(t) PROVE RefInv'
  BY <1>19, <1>s, <1>h DEF ReadOnly, ReadAndReturn
<1>20. ASSUME NEW id \in Int, NEW item \in Int, GetMetadataNegative(t, id, item) PROVE RefInv'
  BY <1>20, <1>s, <1>h DEF GetMetadataNegative
<1>21. ASSUME NEW id \in Int, NEW stat \in {0, -1}, CountMetadata(t, id, stat) PROVE RefInv'
  BY <1>21, <1>s, <1>h DEF CountMetadata
<1>22. ASSUME CountReturns(t) PROVE RefInv'
  BY <1>22, <1>s, <1>h DEF CountReturns
<1> QED
  BY <1>1, <1>2, <1>3, <1>4, <1>5, <1>6, <1>7, <1>8, <1>9, <1>10, <1>11,
     <1>12, <1>13, <1>14, <1>15, <1>16, <1>17, <1>18, <1>19, <1>20, <1>21, <1>22
  DEF OneStep

(* Every action keeps the tables consistent. *)
LEMMA TableStep ==
  ASSUME TypeOK, LockInv, RefInv, LoadInv, TableInv, Next PROVE TableInv'
<1> SUFFICES ASSUME NEW t \in Threads, OneStep(t) PROVE TableInv'
  BY NextIsOneStep
<1> USE DEF TableInv, OK, Goto, refVars, lockVars, libVars, pluginVars, tableVars,
           clientVars
<1>p. pc \in [Threads -> PCs] BY DEF TypeOK
<1>q. pc[t] \in WriterPCs => \A u \in Threads \ {t} : pc[u] \notin WriterPCs
  BY DEF LockInv
<1>l. pc[t] \in WriterPCs => status = "live"
  BY DEF RefInv, Holds, Held, TypeOK, WriterPCs
<1>r. /\ nlibs \in 0 .. MaxLibs /\ nplugins \in 0 .. MaxPlugins
      /\ plugin \in [PluginIds -> Plugin] /\ w \in LoadLocals
      /\ blocks \subseteq PluginIds
  BY DEF TypeOK
<1>1. ASSUME New(t) PROVE TableInv'
  BY <1>1, <1>p, <1>q DEF New
<1>2. ASSUME NEW u \in Threads, Ref(t, u) PROVE TableInv'
  BY <1>2, <1>p, <1>q DEF Ref
<1>3. ASSUME Unref(t) PROVE TableInv'
  BY <1>3, <1>p, <1>q DEF Unref
<1>4. ASSUME Teardown(t) PROVE TableInv'
  <2>1. \A u \in Threads : pc'[u] \notin WriterPCs
    <3>1. pc[t] \notin WriterPCs /\ \A u \in Threads \ {t} : pc[u] = "idle"
      BY <1>4 DEF Teardown, RefInv, Holds, Held, TypeOK, WriterPCs
    <3> QED BY <1>4, <3>1, <1>p DEF Teardown, WriterPCs
  <2>2. \A b \in blocks : b \in PluginIds /\ 0 <= b /\ plugin[b].functbl = b
                        /\ b < nplugins /\ plugin[b].flags = FLAG_PLUGIN_OK
    BY <1>r DEF PluginIds
  <2> DEFINE valid == {j \in 0 .. nplugins - 1 : plugin[j].flags = FLAG_PLUGIN_OK}
  <2>3. blocks' = {}
    <3>1. blocks' = blocks \ {plugin[i].functbl : i \in valid} BY <1>4 DEF Teardown
    <3>2. ASSUME NEW b \in blocks PROVE b \in {plugin[i].functbl : i \in valid}
      <4>1. b \in valid BY <2>2, <1>r DEF PluginIds
      <4> QED BY <4>1, <2>2
    <3> HIDE DEF valid
    <3> QED BY <3>1, <3>2
  <2>4. handles' = 0 /\ nlibs' = 0 /\ nplugins' = 0 BY <1>4, <1>r DEF Teardown
  <2> QED BY <1>4, <2>1, <2>3, <2>4 DEF Teardown, WriterPCs, PluginIds
<1>5. ASSUME LoadPlugin(t) PROVE TableInv'
  BY <1>5, <1>p, <1>q DEF LoadPlugin, Call
<1>6. ASSUME WriterLock(t) PROVE TableInv'
  BY <1>6, <1>p, <1>q DEF WriterLock, LockInv, WriterPCs
<1>7. ASSUME GrowLibTable(t) PROVE TableInv'
  <2>1. \A u \in Threads : (pc'[u] = "rebase") = (u = t)
    BY <1>7, <1>p, <1>q DEF GrowLibTable, WriterPCs
  <2>2. \A u \in Threads : pc'[u] \notin {"open", "publish"}
    BY <1>7, <1>p, <1>q DEF GrowLibTable, WriterPCs
  <2> QED BY <1>7, <1>p, <1>q, <2>1, <2>2 DEF GrowLibTable, WriterPCs
<1>8. ASSUME RebaseLibPointers(t) PROVE TableInv'
  <2>1. \A u \in Threads : pc[u] # "publish" /\ pc'[u] \notin {"rebase", "publish"}
    BY <1>8, <1>p, <1>q DEF RebaseLibPointers, WriterPCs
  <2>2. libMem # NULL /\ libField' = libMem /\ libMem' = libMem
    BY <1>8 DEF RebaseLibPointers
  <2>3. ASSUME NEW i \in PluginIds
        PROVE /\ plugin'[i].flags = plugin[i].flags /\ plugin'[i].functbl = plugin[i].functbl
              /\ plugin'[i].lib.idx = plugin[i].lib.idx
              /\ OK(i) => plugin'[i].lib.base = libMem
              /\ plugin[i] = ZeroPlugin => plugin'[i] = ZeroPlugin
    <3>1. plugin'[i] = Rebase(plugin[i]) BY <1>8 DEF RebaseLibPointers
    <3>2. plugin[i] \in Plugin BY <1>r
    <3>3. OK(i) => libField # NULL /\ plugin[i].lib.base = libField
      BY <1>r, <3>2 DEF Plugin, LibPtr
    <3> QED BY <3>1, <3>2, <3>3 DEF Rebase, Plugin, LibPtr, ZeroPlugin, NoLib
  <2>4. /\ nplugins' = nplugins /\ nlibs' = nlibs /\ blocks' = blocks /\ handles' = handles
        /\ pluginField' = pluginField /\ pluginMem' = pluginMem /\ status' = status
    BY <1>8 DEF RebaseLibPointers
  <2> QED BY <2>1, <2>2, <2>3, <2>4, <1>r
<1>9. ASSUME OpenLibrary(t) PROVE TableInv'
  BY <1>9, <1>p, <1>q, <1>l, <1>r DEF OpenLibrary, WriterPCs, Plugin, LibPtr
<1>10. ASSUME NEW err \in Nat \ {0}, OpenFails(t, err) PROVE TableInv'
  BY <1>10, <1>p, <1>q DEF OpenFails, WriterPCs
<1>11. ASSUME NEW n \in 0 .. MaxPlugins, GrowPluginTable(t, n) PROVE TableInv'
  BY <1>11, <1>p, <1>q DEF GrowPluginTable, WriterPCs
<1>12. ASSUME EnumerationFails(t) PROVE TableInv'
  BY <1>12, <1>p, <1>q DEF EnumerationFails
<1>13. ASSUME PublishPluginTable(t) PROVE TableInv'
  <2>1. \A u \in Threads : pc[u] # "rebase" /\ pc'[u] \notin {"rebase", "open", "publish"}
    BY <1>13, <1>p, <1>q DEF PublishPluginTable, WriterPCs
  <2>2. /\ w.offset = nplugins /\ w.offset \in PluginIds /\ w.n \in 0 .. MaxPlugins
        /\ nplugins < nplugins' /\ nplugins' \in 0 .. MaxPlugins
    <3>1. /\ w.offset = nplugins /\ w.offset + w.n <= MaxPlugins /\ w.offset < MaxPlugins
      BY <1>13 DEF PublishPluginTable, LoadInv
    <3>2. w.n \in 0 .. MaxPlugins BY <1>r DEF LoadLocals
    <3>3. nplugins' = nplugins + (IF w.n = 0 THEN 1 ELSE w.n) BY <1>13 DEF PublishPluginTable
    <3> QED BY <3>1, <3>2, <3>3, <1>r DEF PluginIds
  <2>3. \A i \in PluginIds : nplugins <= i => plugin[i].flags = 0 BY <1>r DEF ZeroPlugin
  <2>4. ASSUME NEW i \in PluginIds
        PROVE /\ i # nplugins => plugin'[i] = plugin[i]
              /\ i >= nplugins => plugin'[i].flags # FLAG_PLUGIN_OK
    BY <1>13, <2>2, <2>3, <1>r DEF PublishPluginTable, FLAG_PLUGIN_OK, FLAG_PLUGIN_DUMMY, Plugin
  <2>5. \A i \in PluginIds : i \in Int BY DEF PluginIds
  <2>6. /\ blocks' = blocks /\ handles' = handles /\ nlibs' = nlibs /\ libField' = libField
        /\ libMem' = libMem /\ pluginField' = pluginMem /\ pluginMem' = pluginMem
        /\ status' = "live"
    BY <1>13, <1>l DEF PublishPluginTable, WriterPCs
  <2> QED BY <2>1, <2>2, <2>4, <2>5, <2>6, <1>r
<1>14. ASSUME NEW type \in Nat, NEW name \in Nat, NEW m \in Nat,
             FillPlugin(t, type, name, m) PROVE TableInv'
  <2>1. \A u \in Threads : pc[u] \notin {"rebase", "open", "publish"}
                            /\ pc'[u] \notin {"rebase", "open", "publish"}
    BY <1>14, <1>p, <1>q DEF FillPlugin, FillSlot, WriterPCs
  <2>2. /\ w.offset \in Nat /\ w.i \in Nat /\ w.n \in Nat /\ w.lib \in 0 .. MaxLibs
        /\ w.offset + w.i < nplugins /\ w.lib < nlibs
    BY <1>14, <1>r DEF FillPlugin, FillSlot, LoadInv, LoadLocals
  <2> DEFINE slot == w.offset + w.i
  <2>3. slot \in PluginIds /\ slot \in Int BY <2>2, <1>r DEF PluginIds
  <2>4. /\ plugin'[slot].flags = FLAG_PLUGIN_OK /\ plugin'[slot].functbl = slot
        /\ plugin'[slot].lib.base = libField /\ plugin'[slot].lib.idx = w.lib
        /\ \A i \in PluginIds : i # slot => plugin'[i] = plugin[i]
    BY <1>14, <2>3, <1>r DEF FillPlugin, FillSlot
  <2>5. blocks' = blocks \cup {slot} BY <1>14 DEF FillPlugin, FillSlot
  <2>6. /\ nplugins' = nplugins /\ nlibs' = nlibs /\ handles' = handles
        /\ libField' = libField /\ libMem' = libMem
        /\ pluginField' = pluginField /\ pluginMem' = pluginMem /\ status' = status
    BY <1>14 DEF FillPlugin, FillSlot
  <2> HIDE DEF slot
  <2>7. \A i \in PluginIds : OK(i)' =>
          /\ plugin'[i].lib.base = libField' /\ plugin'[i].lib.idx < nlibs'
          /\ plugin'[i].functbl = i /\ i \in blocks'
    BY <2>2, <2>3, <2>4, <2>5, <2>6
  <2>8. \A b \in blocks' : OK(b)'
    <3> SUFFICES ASSUME NEW b \in blocks' PROVE OK(b)' OBVIOUS
    <3>1. CASE b = slot BY <3>1, <2>2, <2>3, <2>4, <2>6 DEF slot
    <3>2. CASE b # slot BY <3>2, <2>4, <2>5, <2>6, <1>r
    <3> QED BY <3>1, <3>2
  <2>9. \A i \in PluginIds : i >= nplugins' => plugin'[i] = ZeroPlugin
    BY <2>2, <2>4, <2>6, <1>r DEF slot, PluginIds
  <2> QED BY <2>1, <2>6, <2>7, <2>8, <2>9
<1>15. ASSUME NEW err \in Nat \ {0}, FillFails(t, err) PROVE TableInv'
  BY <1>15, <1>p, <1>q DEF FillFails
<1>16. ASSUME WriterUnlock(t) PROVE TableInv'
  BY <1>16, <1>p, <1>q DEF WriterUnlock
<1>17. ASSUME Query(t) PROVE TableInv'
  BY <1>17, <1>p, <1>q DEF Query, Call
<1>18. ASSUME ReaderLock(t) PROVE TableInv'
  BY <1>18, <1>p, <1>q DEF ReaderLock
<1>19. ASSUME ReadOnly(t) PROVE TableInv'
  BY <1>19, <1>p, <1>q DEF ReadOnly, ReadAndReturn
<1>20. ASSUME NEW id \in Int, NEW item \in Int, GetMetadataNegative(t, id, item) PROVE TableInv'
  BY <1>20, <1>p, <1>q DEF GetMetadataNegative
<1>21. ASSUME NEW id \in Int, NEW stat \in {0, -1}, CountMetadata(t, id, stat) PROVE TableInv'
  BY <1>21, <1>p, <1>q DEF CountMetadata
<1>22. ASSUME CountReturns(t) PROVE TableInv'
  BY <1>22, <1>p, <1>q DEF CountReturns
<1> QED
  BY <1>1, <1>2, <1>3, <1>4, <1>5, <1>6, <1>7, <1>8, <1>9, <1>10, <1>11,
     <1>12, <1>13, <1>14, <1>15, <1>16, <1>17, <1>18, <1>19, <1>20, <1>21, <1>22
  DEF OneStep

(* Every action keeps the locals of a load in step with the tables. *)
LEMMA LoadStep ==
  ASSUME TypeOK, LockInv, RefInv, TableInv, LoadInv, Next PROVE LoadInv'
<1> SUFFICES ASSUME NEW t \in Threads, OneStep(t) PROVE LoadInv'
  BY NextIsOneStep
<1> USE DEF LoadInv, OK, Goto, refVars, lockVars, libVars, pluginVars, tableVars,
           clientVars
<1>p. pc \in [Threads -> PCs] BY DEF TypeOK
<1>q. pc[t] \in WriterPCs => \A u \in Threads \ {t} : pc[u] \notin WriterPCs
  BY DEF LockInv
<1>r. /\ nlibs \in 0 .. MaxLibs /\ nplugins \in 0 .. MaxPlugins
      /\ plugin \in [PluginIds -> Plugin] /\ w \in LoadLocals
      /\ lib \in [LibIds -> Library]
  BY DEF TypeOK
<1>1. ASSUME New(t) PROVE LoadInv'
  BY <1>1, <1>p DEF New
<1>2. ASSUME NEW u \in Threads, Ref(t, u) PROVE LoadInv'
  BY <1>2, <1>p DEF Ref
<1>3. ASSUME Unref(t) PROVE LoadInv'
  BY <1>3, <1>p DEF Unref
<1>4. ASSUME Teardown(t) PROVE LoadInv'
  <2>1. \A u \in Threads : pc'[u] = "idle"
    BY <1>4, <1>p DEF Teardown, RefInv, Holds, Held, TypeOK
  <2> QED BY <2>1
<1>5. ASSUME LoadPlugin(t) PROVE LoadInv'
  BY <1>5, <1>p DEF LoadPlugin, Call
<1>6. ASSUME WriterLock(t) PROVE LoadInv'
  <2>1. \A u \in Threads : /\ pc'[u] \notin {"info", "publish", "fill"}
                           /\ pc'[u] \in WriterPCs => u = t
    BY <1>6, <1>p, <1>q DEF WriterLock, LockInv, WriterPCs
  <2>2. pc'[t] \in {"grow", "rebase", "open"} => w'.i = 0
    BY <1>6, <1>r, <1>p DEF WriterLock, Zero
  <2> QED BY <2>1, <2>2 DEF WriterPCs
<1>7. ASSUME GrowLibTable(t) PROVE LoadInv'
  <2>1. \A u \in Threads : /\ pc'[u] \notin {"info", "publish", "fill"}
                           /\ pc'[u] \in WriterPCs => u = t
    BY <1>7, <1>p, <1>q DEF GrowLibTable, WriterPCs
  <2>2. pc'[t] \in {"grow", "rebase", "open"} => w'.i = 0
    BY <1>7, <1>r, <1>p DEF GrowLibTable, LoadLocals
  <2> QED BY <2>1, <2>2 DEF WriterPCs
<1>8. ASSUME RebaseLibPointers(t) PROVE LoadInv'
  <2>1. \A u \in Threads : /\ pc'[u] \notin {"info", "publish", "fill"}
                           /\ pc'[u] \in WriterPCs => u = t
    BY <1>8, <1>p, <1>q DEF RebaseLibPointers, WriterPCs
  <2>2. pc'[t] \in {"grow", "rebase", "open"} => w'.i = 0
    BY <1>8, <1>r, <1>p DEF RebaseLibPointers, LoadLocals
  <2> QED BY <2>1, <2>2 DEF WriterPCs
<1>9. ASSUME OpenLibrary(t) PROVE LoadInv'
  <2>1. \A u \in Threads : pc'[u] \in WriterPCs \ {"wunlock"} => u = t /\ pc'[u] = "info"
    BY <1>9, <1>p, <1>q DEF OpenLibrary, WriterPCs
  <2>2. w'.lib = nlibs /\ w'.i = w.i /\ nlibs' = nlibs + 1
        /\ plugin' = plugin /\ nplugins' = nplugins
    BY <1>9, <1>r DEF OpenLibrary, LoadLocals
  <2>3. w.i = 0 BY <1>9 DEF OpenLibrary
  <2>4. \A i \in PluginIds : OK(i) => plugin[i].lib.idx # nlibs
    BY <1>r DEF TableInv, Plugin, LibPtr
  <2> QED BY <2>1, <2>2, <2>3, <2>4, <1>r DEF WriterPCs
<1>10. ASSUME NEW err \in Nat \ {0}, OpenFails(t, err) PROVE LoadInv'
  <2>1. \A u \in Threads : /\ pc'[u] \notin {"info", "publish", "fill"}
                           /\ pc'[u] \in WriterPCs => u = t
    BY <1>10, <1>p, <1>q DEF OpenFails, WriterPCs
  <2>2. pc'[t] \in {"grow", "rebase", "open"} => w'.i = 0
    BY <1>10, <1>r, <1>p DEF OpenFails, LoadLocals
  <2> QED BY <2>1, <2>2 DEF WriterPCs
<1>11. ASSUME NEW n \in 0 .. MaxPlugins, GrowPluginTable(t, n) PROVE LoadInv'
  <2>1. \A u \in Threads : pc'[u] \in WriterPCs \ {"wunlock"} => u = t /\ pc'[u] = "publish"
    BY <1>11, <1>p, <1>q DEF GrowPluginTable, WriterPCs
  <2>2. /\ w'.lib = w.lib /\ w'.i = w.i /\ w'.n = n /\ w'.offset = nplugins
        /\ nlibs' = nlibs /\ plugin' = plugin /\ nplugins' = nplugins
    BY <1>11, <1>r DEF GrowPluginTable, LoadLocals
  <2>3. w.lib \in LibIds BY <1>11, <1>r DEF GrowPluginTable, LoadLocals, LibIds
  <2>4. lib'[w.lib].nplugins = n BY <1>11, <2>3, <1>r DEF GrowPluginTable, Library
  <2>5. nplugins + n <= MaxPlugins /\ nplugins < MaxPlugins
    BY <1>11, <1>r DEF GrowPluginTable
  <2>6. w.i = 0 /\ w.lib < nlibs /\ \A i \in PluginIds : OK(i) => plugin[i].lib.idx # w.lib
    BY <1>11 DEF GrowPluginTable
  <2> QED BY <2>1, <2>2, <2>4, <2>5, <2>6 DEF WriterPCs
<1>12. ASSUME EnumerationFails(t) PROVE LoadInv'
  <2>1. \A u \in Threads : pc'[u] \notin WriterPCs \ {"wunlock"}
    BY <1>12, <1>p, <1>q DEF EnumerationFails, WriterPCs
  <2> QED BY <2>1 DEF WriterPCs
<1>13. ASSUME PublishPluginTable(t) PROVE LoadInv'
  <2>1. \A u \in Threads : pc'[u] \in WriterPCs \ {"wunlock"} => u = t /\ pc'[u] = "fill"
    BY <1>13, <1>p, <1>q DEF PublishPluginTable, WriterPCs
  <2>2. CASE w.n = 0
    BY <1>13, <2>1, <2>2, <1>p DEF PublishPluginTable, WriterPCs
  <2>3. CASE w.n # 0
    <3>1. w.n \in 0 .. MaxPlugins /\ w.offset \in 0 .. MaxPlugins BY <1>r DEF LoadLocals
    <3>2. /\ w' = w /\ plugin' = plugin /\ lib' = lib /\ nlibs' = nlibs
          /\ nplugins' = nplugins + w.n
      BY <1>13, <2>3 DEF PublishPluginTable
    <3>3. /\ w.offset = nplugins /\ w.i = 0 /\ lib[w.lib].nplugins = w.n /\ w.lib < nlibs
      BY <1>13 DEF PublishPluginTable
    <3>4. \A i \in PluginIds : i \in Int /\ (nplugins <= i => plugin[i].flags = 0)
      BY <1>r DEF TableInv, ZeroPlugin, PluginIds
    <3> QED BY <2>1, <2>3, <3>1, <3>2, <3>3, <3>4, <1>r DEF WriterPCs
  <2> QED BY <2>2, <2>3
<1>14. ASSUME NEW type \in Nat, NEW name \in Nat, NEW m \in Nat,
             FillPlugin(t, type, name, m) PROVE LoadInv'
  <2>1. \A u \in Threads : pc'[u] \in WriterPCs \ {"wunlock"} =>
                             u = t /\ pc'[u] = "fill" /\ w.i + 1 # w.n
    BY <1>14, <1>p, <1>q DEF FillPlugin, FillSlot, WriterPCs
  <2>2. /\ w.offset \in Nat /\ w.i \in Nat /\ w.n \in Nat /\ w.lib \in 0 .. MaxLibs
        /\ w.offset + w.n = nplugins /\ w.i < w.n /\ w.lib < nlibs
        /\ lib[w.lib].nplugins = w.n
    BY <1>14, <1>r DEF FillPlugin, FillSlot, LoadLocals
  <2> DEFINE slot == w.offset + w.i
  <2>3. slot \in PluginIds /\ \A i \in PluginIds : i \in Int
    <3>1. nplugins \in Nat /\ nplugins <= MaxPlugins BY <1>r
    <3>2. slot \in Nat /\ slot < nplugins BY <2>2
    <3> HIDE DEF slot
    <3> QED BY <3>1, <3>2, BoundsAssumption DEF PluginIds
  <2>4. /\ plugin'[slot].flags = FLAG_PLUGIN_OK /\ plugin'[slot].lib.idx = w.lib
        /\ \A i \in PluginIds : i # slot => plugin'[i] = plugin[i]
    BY <1>14, <2>3, <1>r DEF FillPlugin, FillSlot
  <2>5. /\ w'.offset = w.offset /\ w'.n = w.n /\ w'.lib = w.lib /\ w'.i = w.i + 1
        /\ nplugins' = nplugins /\ nlibs' = nlibs /\ lib' = lib
    BY <1>14, <1>r DEF FillPlugin, FillSlot, LoadLocals
  <2>6. /\ \A i \in PluginIds : w.offset <= i /\ i < slot => OK(i) /\ plugin[i].lib.idx = w.lib
        /\ \A i \in PluginIds : slot <= i => plugin[i].flags = 0
    BY <1>14 DEF FillPlugin, FillSlot
  <2>7. \A i \in PluginIds : w.offset <= i /\ i < slot + 1 =>
          i < nplugins /\ plugin'[i].flags = FLAG_PLUGIN_OK /\ plugin'[i].lib.idx = w.lib
    BY <2>2, <2>3, <2>4, <2>6
  <2>8. \A i \in PluginIds : slot + 1 <= i => plugin'[i].flags = 0
    BY <2>2, <2>3, <2>4, <2>6
  <2> QED BY <2>1, <2>2, <2>5, <2>7, <2>8 DEF WriterPCs
<1>15. ASSUME NEW err \in Nat \ {0}, FillFails(t, err) PROVE LoadInv'
  <2>1. \A u \in Threads : pc'[u] \notin WriterPCs \ {"wunlock"}
    BY <1>15, <1>p, <1>q DEF FillFails, WriterPCs
  <2> QED BY <2>1 DEF WriterPCs
<1>16. ASSUME WriterUnlock(t) PROVE LoadInv'
  <2>1. \A u \in Threads : pc'[u] \notin WriterPCs \ {"wunlock"}
    BY <1>16, <1>p, <1>q DEF WriterUnlock, WriterPCs
  <2> QED BY <2>1 DEF WriterPCs
<1>17. ASSUME Query(t) PROVE LoadInv'
  BY <1>17, <1>p DEF Query, Call
<1>18. ASSUME ReaderLock(t) PROVE LoadInv'
  BY <1>18, <1>p DEF ReaderLock
<1>19. ASSUME ReadOnly(t) PROVE LoadInv'
  BY <1>19, <1>p DEF ReadOnly, ReadAndReturn
<1>20. ASSUME NEW id \in Int, NEW item \in Int, GetMetadataNegative(t, id, item) PROVE LoadInv'
  BY <1>20, <1>p DEF GetMetadataNegative
<1>21. ASSUME NEW id \in Int, NEW stat \in {0, -1}, CountMetadata(t, id, stat) PROVE LoadInv'
  BY <1>21, <1>p DEF CountMetadata
<1>22. ASSUME CountReturns(t) PROVE LoadInv'
  BY <1>22, <1>p DEF CountReturns
<1> QED
  BY <1>1, <1>2, <1>3, <1>4, <1>5, <1>6, <1>7, <1>8, <1>9, <1>10, <1>11,
     <1>12, <1>13, <1>14, <1>15, <1>16, <1>17, <1>18, <1>19, <1>20, <1>21, <1>22
  DEF OneStep

(* A step that does not tear the loader down keeps every id in use. *)
Kept ==
  status' # "freed" =>
    /\ nplugins <= nplugins'
    /\ \A i \in PluginIds : i < nplugins /\ plugin[i].flags # 0 =>
         [plugin'[i] EXCEPT !.lib.base = NULL] = [plugin[i] EXCEPT !.lib.base = NULL]
    /\ \A i \in PluginIds : OK(i) =>
         lib'[plugin[i].lib.idx].nplugins = lib[plugin[i].lib.idx].nplugins

(* Every action keeps the ids in use. *)
LEMMA KeptStep ==
  ASSUME TypeOK, LockInv, RefInv, TableInv, LoadInv, Next PROVE Kept
<1> SUFFICES ASSUME NEW t \in Threads, OneStep(t) PROVE Kept
  BY NextIsOneStep
<1> USE DEF Kept, OK, Goto, refVars, lockVars, libVars, pluginVars, tableVars,
           clientVars
<1>r. /\ nlibs \in 0 .. MaxLibs /\ nplugins \in 0 .. MaxPlugins
      /\ plugin \in [PluginIds -> Plugin] /\ w \in LoadLocals
      /\ lib \in [LibIds -> Library] /\ \A i \in PluginIds : i \in Int
  BY DEF TypeOK, PluginIds
<1>x. \A i \in PluginIds : OK(i) => /\ plugin[i].lib.idx \in LibIds
                                     /\ plugin[i].lib.idx < nlibs
  BY <1>r DEF TableInv, Plugin, LibPtr, LibIds
<1>1. ASSUME New(t) PROVE Kept
  BY <1>1, <1>r DEF New
<1>2. ASSUME NEW u \in Threads, Ref(t, u) PROVE Kept
  BY <1>2, <1>r DEF Ref
<1>3. ASSUME Unref(t) PROVE Kept
  BY <1>3, <1>r DEF Unref
<1>4. ASSUME Teardown(t) PROVE Kept
  BY <1>4, <1>r DEF Teardown
<1>5. ASSUME LoadPlugin(t) PROVE Kept
  BY <1>5, <1>r DEF LoadPlugin, Call
<1>6. ASSUME WriterLock(t) PROVE Kept
  BY <1>6, <1>r DEF WriterLock
<1>7. ASSUME GrowLibTable(t) PROVE Kept
  BY <1>7, <1>r DEF GrowLibTable
<1>8. ASSUME RebaseLibPointers(t) PROVE Kept
  <2>1. ASSUME NEW i \in PluginIds
        PROVE [plugin'[i] EXCEPT !.lib.base = NULL] = [plugin[i] EXCEPT !.lib.base = NULL]
    <3>1. plugin'[i] = Rebase(plugin[i]) /\ plugin[i] \in Plugin
      BY <1>8, <1>r DEF RebaseLibPointers
    <3> QED BY <3>1 DEF Rebase, Plugin, LibPtr
  <2> QED BY <1>8, <2>1, <1>r DEF RebaseLibPointers
<1>9. ASSUME OpenLibrary(t) PROVE Kept
  BY <1>9, <1>r, <1>x DEF OpenLibrary
<1>10. ASSUME NEW err \in Nat \ {0}, OpenFails(t, err) PROVE Kept
  BY <1>10, <1>r DEF OpenFails
<1>11. ASSUME NEW n \in 0 .. MaxPlugins, GrowPluginTable(t, n) PROVE Kept
  <2>1. \A i \in PluginIds : OK(i) => plugin[i].lib.idx # w.lib
    BY <1>11 DEF GrowPluginTable, LoadInv
  <2> QED BY <1>11, <2>1, <1>r, <1>x DEF GrowPluginTable
<1>12. ASSUME EnumerationFails(t) PROVE Kept
  <2>1. \A i \in PluginIds : OK(i) => plugin[i].lib.idx # w.lib
    BY <1>12 DEF EnumerationFails, LoadInv
  <2> QED BY <1>12, <2>1, <1>r, <1>x DEF EnumerationFails
<1>13. ASSUME PublishPluginTable(t) PROVE Kept
  <2>1. w.n \in Nat /\ w.offset = nplugins 
    BY <1>13, <1>r DEF PublishPluginTable, LoadInv, LoadLocals
  <2> QED BY <1>13, <2>1, <1>r DEF PublishPluginTable
<1>14. ASSUME NEW type \in Nat, NEW name \in Nat, NEW m \in Nat,
             FillPlugin(t, type, name, m) PROVE Kept
  <2>1. /\ plugin[w.offset + w.i].flags = 0
    <3>1. w.offset \in Nat /\ w.i \in Nat /\ w.n \in Nat BY <1>r DEF LoadLocals
    <3>2. w.offset + w.n = nplugins /\ w.i < w.n BY <1>14 DEF FillPlugin, FillSlot, LoadInv
    <3>3. w.offset + w.i \in PluginIds BY <3>1, <3>2, <1>r DEF PluginIds
    <3> QED BY <1>14, <3>1, <3>3 DEF FillPlugin, FillSlot, LoadInv
  <2> QED BY <1>14, <2>1, <1>r DEF FillPlugin, FillSlot
<1>15. ASSUME NEW err \in Nat \ {0}, FillFails(t, err) PROVE Kept
  BY <1>15, <1>r DEF FillFails
<1>16. ASSUME WriterUnlock(t) PROVE Kept
  BY <1>16, <1>r DEF WriterUnlock
<1>17. ASSUME Query(t) PROVE Kept
  BY <1>17, <1>r DEF Query, Call
<1>18. ASSUME ReaderLock(t) PROVE Kept
  BY <1>18, <1>r DEF ReaderLock
<1>19. ASSUME ReadOnly(t) PROVE Kept
  BY <1>19, <1>r DEF ReadOnly, ReadAndReturn
<1>20. ASSUME NEW id \in Int, NEW item \in Int, GetMetadataNegative(t, id, item) PROVE Kept
  BY <1>20, <1>r DEF GetMetadataNegative
<1>21. ASSUME NEW id \in Int, NEW stat \in {0, -1}, CountMetadata(t, id, stat) PROVE Kept
  BY <1>21, <1>r DEF CountMetadata
<1>22. ASSUME CountReturns(t) PROVE Kept
  BY <1>22, <1>r DEF CountReturns
<1> QED
  BY <1>1, <1>2, <1>3, <1>4, <1>5, <1>6, <1>7, <1>8, <1>9, <1>10, <1>11,
     <1>12, <1>13, <1>14, <1>15, <1>16, <1>17, <1>18, <1>19, <1>20, <1>21, <1>22
  DEF OneStep

(* Ids a load returned stay usable while the loader lives. *)
LEMMA UsableKept ==
  ASSUME TypeOK, TypeOK', Kept, status' # "freed", NEW first \in Int, Usable(first)
  PROVE Usable(first)'
<1> USE DEF is_valid_id
<1>1. /\ nplugins \in 0 .. MaxPlugins /\ nplugins' \in 0 .. MaxPlugins
      /\ plugin \in [PluginIds -> Plugin] /\ plugin' \in [PluginIds -> Plugin]
  BY DEF TypeOK
<1>2. nplugins <= nplugins' BY DEF Kept
<1>3. ASSUME NEW i \in PluginIds, i < nplugins, plugin[i].flags # 0
      PROVE plugin'[i].flags = plugin[i].flags /\ plugin'[i].lib.idx = plugin[i].lib.idx
  <2>1. [plugin'[i] EXCEPT !.lib.base = NULL] = [plugin[i] EXCEPT !.lib.base = NULL]
    BY <1>3 DEF Kept
  <2>2. plugin[i] \in Plugin /\ plugin'[i] \in Plugin BY <1>1
  <2> QED BY <2>1, <2>2 DEF Plugin, LibPtr
<1>4. ASSUME NEW i \in Int, is_valid_id(i, 1)
      PROVE /\ i \in PluginIds /\ is_valid_id(i, 1)'
            /\ plugin'[i].flags = plugin[i].flags /\ plugin'[i].lib.idx = plugin[i].lib.idx
  BY <1>1, <1>2, <1>3, <1>4 DEF PluginIds, FLAG_PLUGIN_OK, FLAG_PLUGIN_DUMMY
<1>5. ASSUME NEW i \in Int, is_valid_id(i, 0)
      PROVE /\ i \in PluginIds /\ OK(i) /\ is_valid_id(i, 0)'
            /\ plugin'[i].lib.idx = plugin[i].lib.idx
  BY <1>1, <1>2, <1>4, <1>5 DEF OK
<1>6. is_valid_id(first, 1)' BY <1>4 DEF Usable
<1>7. ASSUME is_valid_id(first, 0)', NEW i \in 0 .. MaxPlugins,
             i < lib'[plugin'[first].lib.idx].nplugins
      PROVE is_valid_id(first + i, 0)' /\ plugin'[first + i].lib.idx = plugin'[first].lib.idx
  <2>1. is_valid_id(first, 1) BY DEF Usable
  <2>2. is_valid_id(first, 0) BY <2>1, <1>4, <1>7
  <2>3. /\ first \in PluginIds /\ OK(first) /\ plugin'[first].lib.idx = plugin[first].lib.idx
    BY <2>2, <1>5
  <2>4. lib'[plugin[first].lib.idx].nplugins = lib[plugin[first].lib.idx].nplugins
    BY <2>3 DEF Kept
  <2>5. is_valid_id(first + i, 0) /\ plugin[first + i].lib.idx = plugin[first].lib.idx
    BY <2>2, <2>3, <2>4, <1>7 DEF Usable
  <2>6. first + i \in Int OBVIOUS
  <2> HIDE DEF is_valid_id
  <2> QED BY <2>3, <2>5, <2>6, <1>5
<1> QED BY <1>6, <1>7 DEF Usable

(* Every action keeps the ids that loads returned usable. *)
LEMMA RangeStep ==
  ASSUME TypeOK, TypeOK', LockInv, RefInv, TableInv, LoadInv, RangeInv, Next PROVE RangeInv'
<1> SUFFICES ASSUME NEW t \in Threads, OneStep(t) PROVE RangeInv'
  BY NextIsOneStep
<1> USE DEF RangeInv, Goto, refVars, lockVars, libVars, pluginVars, tableVars, clientVars
<1>a. ret \in [Threads -> Results] /\ \A u \in Threads : ret[u].val \in Int
  BY DEF TypeOK, Results
<1>b. /\ nplugins \in 0 .. MaxPlugins /\ nlibs \in 0 .. MaxLibs
      /\ plugin \in [PluginIds -> Plugin] /\ lib \in [LibIds -> Library]
      /\ w \in LoadLocals
  BY DEF TypeOK
<1>k. ASSUME status # "freed", status' # "freed", NEW u \in Threads, ret'[u] = ret[u],
             ret[u].op = "load_plugin", ret[u].val >= 0
      PROVE Usable(ret[u].val)'
  <2>1. PICK v \in Int : v = ret[u].val BY <1>a
  <2>2. Usable(v) BY <1>k, <2>1
  <2>3. Usable(v)' BY <1>k, <2>2, KeptStep, UsableKept
  <2>4. v = ret'[u].val BY <1>k, <2>1
  <2> QED BY <2>3, <2>4
<1>o. ASSUME status' = status, \A u \in Threads \ {t} : ret'[u] = ret[u],
             \/ ret'[t] = ret[t] \/ ret'[t].op # "load_plugin" \/ ret'[t].val < 0
             \/ \E v \in Int : ret'[t].val = v /\ Usable(v)'
      PROVE RangeInv'
  <2>1. ASSUME NEW u \in Threads, ret'[u].op = "load_plugin", ret'[u].val >= 0,
               status' # "freed"
        PROVE Usable(ret[u].val)'
    <3>1. CASE ret'[u] = ret[u] BY <1>k, <1>o, <2>1, <3>1
    <3>2. CASE ret'[u] # ret[u]
      <4>1. u = t BY <1>o, <3>2
      <4>2. ret'[t].val \in Int BY DEF TypeOK, Results
      <4>3. PICK v \in Int : ret'[t].val = v /\ Usable(v)'
        BY <1>o, <2>1, <3>2, <4>1, <4>2
      <4> QED BY <4>1, <4>3
    <3> QED BY <3>1, <3>2
  <2> QED BY <2>1
<1>1. ASSUME New(t) PROVE RangeInv'
  <2>1. ret' = ret /\ status = "none" /\ status' = "live" BY <1>1 DEF New
  <2> QED BY <1>k, <2>1 DEF RefInv
<1>2. ASSUME NEW u \in Threads, Ref(t, u) PROVE RangeInv'
  <2>1. status' = status /\ ret' = ret BY <1>2 DEF Ref
  <2> QED BY <1>o, <2>1
<1>3. ASSUME Unref(t) PROVE RangeInv'
  <2>1. status' = status /\ ret' = ret BY <1>3 DEF Unref
  <2> QED BY <1>o, <2>1
<1>4. ASSUME Teardown(t) PROVE RangeInv'
  BY <1>4 DEF Teardown
<1>5. ASSUME LoadPlugin(t) PROVE RangeInv'
  <2>1. /\ status' = status /\ ret'[t].op = "none"
        /\ \A u \in Threads \ {t} : ret'[u] = ret[u]
    BY <1>5, <1>a DEF LoadPlugin, Call, NoResult
  <2> QED BY <1>o, <2>1
<1>6. ASSUME WriterLock(t) PROVE RangeInv'
  <2>1. status' = status /\ ret' = ret BY <1>6 DEF WriterLock
  <2> QED BY <1>o, <2>1
<1>7. ASSUME GrowLibTable(t) PROVE RangeInv'
  <2>1. status' = status /\ ret' = ret BY <1>7 DEF GrowLibTable
  <2> QED BY <1>o, <2>1
<1>8. ASSUME RebaseLibPointers(t) PROVE RangeInv'
  <2>1. status' = status /\ ret' = ret BY <1>8 DEF RebaseLibPointers
  <2> QED BY <1>o, <2>1
<1>9. ASSUME OpenLibrary(t) PROVE RangeInv'
  <2>1. status' = status /\ ret' = ret BY <1>9 DEF OpenLibrary
  <2> QED BY <1>o, <2>1
<1>10. ASSUME NEW err \in Nat \ {0}, OpenFails(t, err) PROVE RangeInv'
  <2>1. status' = status /\ \A u \in Threads \ {t} : ret'[u] = ret[u]
    BY <1>10, <1>a DEF OpenFails, LoadReturns, Answer
  <2>2. ret'[t] = ret[t] \/ ret'[t].val < 0
    BY <1>10, <1>a DEF OpenFails, LoadReturns, Answer, Result, ERR_RESOLUTION
  <2> QED BY <1>o, <2>1, <2>2
<1>11. ASSUME NEW n \in 0 .. MaxPlugins, GrowPluginTable(t, n) PROVE RangeInv'
  <2>1. status' = status /\ ret' = ret BY <1>11 DEF GrowPluginTable
  <2> QED BY <1>o, <2>1
<1>12. ASSUME EnumerationFails(t) PROVE RangeInv'
  <2>1. /\ status' = status /\ ret'[t].val < 0
        /\ \A u \in Threads \ {t} : ret'[u] = ret[u]
    BY <1>12, <1>a DEF EnumerationFails, LoadReturns, Answer, Result, ERR_ENUMERATION
  <2> QED BY <1>o, <2>1
<1>13. ASSUME PublishPluginTable(t) PROVE RangeInv'
  <2>1. status' = status /\ \A u \in Threads \ {t} : ret'[u] = ret[u]
    BY <1>13, <1>a DEF PublishPluginTable, LoadReturns, Answer
  <2>2. CASE w.n # 0 BY <1>13, <2>1, <2>2, <1>o DEF PublishPluginTable
  <2>3. CASE w.n = 0
    <3>1. PICK off \in PluginIds : off = w.offset /\ off = nplugins
      BY <1>13, <1>b DEF PublishPluginTable, LoadInv, PluginIds
    <3>2. ret'[t].val = off /\ nplugins' = nplugins + 1
      BY <1>13, <2>3, <3>1, <1>a DEF PublishPluginTable, LoadReturns, Answer, Result
    <3>3. plugin'[off].flags = FLAG_PLUGIN_DUMMY
      BY <1>13, <2>3, <3>1, <1>b DEF PublishPluginTable, Plugin
    <3>4. Usable(off)'
      BY <3>1, <3>2, <3>3, <1>b
         DEF Usable, is_valid_id, FLAG_PLUGIN_DUMMY, FLAG_PLUGIN_OK, PluginIds
    <3>5. off \in Int BY DEF PluginIds
    <3> QED BY <1>o, <2>1, <3>2, <3>4, <3>5
  <2> QED BY <2>2, <2>3
<1>14. ASSUME NEW type \in Nat, NEW name \in Nat, NEW m \in Nat,
             FillPlugin(t, type, name, m) PROVE RangeInv'
  <2>1. status' = status /\ \A u \in Threads \ {t} : ret'[u] = ret[u]
    BY <1>14, <1>a DEF FillPlugin, FillSlot, LoadReturns, Answer
  <2>2. CASE w.i + 1 # w.n BY <1>14, <2>1, <2>2, <1>o DEF FillPlugin, FillSlot
  <2>3. CASE w.i + 1 = w.n
    <3>1. /\ w.offset \in Nat /\ w.i \in Nat /\ w.n \in Nat /\ w.lib \in 0 .. MaxLibs
          /\ w.offset + w.n = nplugins /\ w.lib < nlibs /\ lib[w.lib].nplugins = w.n
          /\ \A i \in PluginIds : w.offset <= i /\ i < w.offset + w.i =>
               OK(i) /\ plugin[i].lib.idx = w.lib
      BY <1>14, <1>b DEF FillPlugin, FillSlot, LoadInv, LoadLocals
    <3>2. w.offset + w.i \in PluginIds BY <3>1, <2>3, <1>b DEF PluginIds
    <3>3. /\ ret'[t].val = w.offset /\ nplugins' = nplugins /\ lib' = lib
      BY <1>14, <2>3, <1>a DEF FillPlugin, FillSlot, LoadReturns, Answer, Result
    <3>4. /\ plugin'[w.offset + w.i].flags = FLAG_PLUGIN_OK
          /\ plugin'[w.offset + w.i].lib.idx = w.lib
          /\ \A i \in PluginIds : i # w.offset + w.i => plugin'[i] = plugin[i]
      BY <1>14, <3>2, <1>b DEF FillPlugin, FillSlot
    <3>5. PICK off \in Nat : off = w.offset BY <3>1
    <3>6. PICK n \in Nat : n = w.n /\ n > 0 BY <2>3, <3>1
    <3>7. PICK l \in Nat : l = w.lib BY <3>1
    <3>8. ASSUME NEW i \in Int, off <= i, i < off + n
          PROVE is_valid_id(i, 0)' /\ plugin'[i].lib.idx = l
      <4>1. i \in PluginIds BY <3>1, <3>5, <3>6, <3>8, <1>b DEF PluginIds
      <4>2. plugin'[i].flags = FLAG_PLUGIN_OK /\ plugin'[i].lib.idx = l
        BY <2>3, <3>1, <3>4, <3>5, <3>6, <3>7, <3>8, <4>1 DEF OK
      <4> QED BY <3>1, <3>3, <3>5, <3>6, <3>8, <4>2 DEF is_valid_id
    <3>9. is_valid_id(off, 0)' /\ plugin'[off].lib.idx = l BY <3>6, <3>8
    <3>10. is_valid_id(off, 1)' BY <3>9 DEF is_valid_id
    <3>11. lib'[l].nplugins = n BY <3>1, <3>3, <3>6, <3>7
    <3>12. ASSUME NEW i \in 0 .. MaxPlugins, i < n
           PROVE is_valid_id(off + i, 0)' /\ plugin'[off + i].lib.idx = l
      <4>1. off + i \in Int /\ off <= off + i /\ off + i < off + n BY <3>12
      <4> QED BY <3>8, <4>1
    <3>13. Usable(off)' BY <3>9, <3>10, <3>11, <3>12 DEF Usable
    <3> QED BY <1>o, <2>1, <3>3, <3>5, <3>13
  <2> QED BY <2>2, <2>3
<1>15. ASSUME NEW err \in Nat \ {0}, FillFails(t, err) PROVE RangeInv'
  <2>1. /\ status' = status /\ ret'[t].val < 0
        /\ \A u \in Threads \ {t} : ret'[u] = ret[u]
    BY <1>15, <1>a DEF FillFails, LoadReturns, Answer, Result
  <2> QED BY <1>o, <2>1
<1>16. ASSUME WriterUnlock(t) PROVE RangeInv'
  <2>1. status' = status /\ ret' = ret BY <1>16 DEF WriterUnlock
  <2> QED BY <1>o, <2>1
<1>17. ASSUME Query(t) PROVE RangeInv'
  <2>1. /\ status' = status /\ ret'[t].op = "none"
        /\ \A u \in Threads \ {t} : ret'[u] = ret[u]
    BY <1>17, <1>a DEF Query, Call, NoResult
  <2> QED BY <1>o, <2>1
<1>18. ASSUME ReaderLock(t) PROVE RangeInv'
  <2>1. status' = status /\ ret' = ret BY <1>18 DEF ReaderLock
  <2> QED BY <1>o, <2>1
<1>19. ASSUME ReadOnly(t) PROVE RangeInv'
  <2>1. /\ status' = status /\ ret'[t].op # "load_plugin"
        /\ \A u \in Threads \ {t} : ret'[u] = ret[u]
    BY <1>19, <1>a DEF ReadOnly, ReadAndReturn, Answer, Result
  <2> QED BY <1>o, <2>1
<1>20. ASSUME NEW id \in Int, NEW item \in Int, GetMetadataNegative(t, id, item) PROVE RangeInv'
  <2>1. /\ status' = status /\ ret'[t].op # "load_plugin"
        /\ \A u \in Threads \ {t} : ret'[u] = ret[u]
    BY <1>20, <1>a DEF GetMetadataNegative, Answer, Result
  <2> QED BY <1>o, <2>1
<1>21. ASSUME NEW id \in Int, NEW stat \in {0, -1}, CountMetadata(t, id, stat) PROVE RangeInv'
  <2>1. status' = status /\ ret' = ret BY <1>21 DEF CountMetadata
  <2> QED BY <1>o, <2>1
<1>22. ASSUME CountReturns(t) PROVE RangeInv'
  <2>1. /\ status' = status /\ ret'[t].op # "load_plugin"
        /\ \A u \in Threads \ {t} : ret'[u] = ret[u]
    BY <1>22, <1>a DEF CountReturns, Answer, Result
  <2> QED BY <1>o, <2>1
<1> QED
  BY <1>1, <1>2, <1>3, <1>4, <1>5, <1>6, <1>7, <1>8, <1>9, <1>10, <1>11,
     <1>12, <1>13, <1>14, <1>15, <1>16, <1>17, <1>18, <1>19, <1>20, <1>21, <1>22
  DEF OneStep

(* Entry i of the plugin table, but for the address of its library table. *)
SameEntry(i) ==
  [plugin'[i] EXCEPT !.lib.base = NULL] = [plugin[i] EXCEPT !.lib.base = NULL]

(* A step that does not tear the loader down frees no block, and leaves the *)
(* entries up to any valid one alone: a load writes above all of them.      *)
LEMMA WritesAbove ==
  ASSUME TypeOK, LockInv, RefInv, TableInv, LoadInv, Next, status' # "freed"
  PROVE /\ blocks \subseteq blocks'
        /\ \A i, j \in PluginIds : i <= j /\ OK(j) => SameEntry(i)
<1> SUFFICES ASSUME NEW t \in Threads, OneStep(t)
             PROVE /\ blocks \subseteq blocks'
                   /\ \A i, j \in PluginIds : i <= j /\ OK(j) => SameEntry(i)
  BY NextIsOneStep
<1> USE DEF OK, refVars, lockVars, libVars, pluginVars, tableVars, clientVars
<1>r. /\ nplugins \in 0 .. MaxPlugins /\ plugin \in [PluginIds -> Plugin]
      /\ w \in LoadLocals /\ \A i \in PluginIds : i \in Int
  BY DEF TypeOK, PluginIds
<1>1. CASE plugin' = plugin /\ blocks' = blocks
  BY <1>1 DEF SameEntry
<1>2. CASE RebaseLibPointers(t)
  <2>1. ASSUME NEW i \in PluginIds PROVE SameEntry(i)
    <3>1. plugin'[i] = Rebase(plugin[i]) /\ plugin[i] \in Plugin
      BY <1>2, <1>r DEF RebaseLibPointers
    <3> QED BY <3>1 DEF SameEntry, Rebase, Plugin, LibPtr
  <2> QED BY <1>2, <2>1 DEF RebaseLibPointers
<1>3. CASE PublishPluginTable(t)
  <2>1. w.offset = nplugins BY <1>3 DEF PublishPluginTable, LoadInv
  <2> QED BY <1>3, <2>1, <1>r DEF PublishPluginTable, SameEntry
<1>4. ASSUME NEW type \in Nat, NEW name \in Nat, NEW m \in Nat, FillPlugin(t, type, name, m)
      PROVE /\ blocks \subseteq blocks'
            /\ \A i, j \in PluginIds : i <= j /\ OK(j) => SameEntry(i)
  <2>1. \A j \in PluginIds : w.offset + w.i <= j => plugin[j].flags = 0
    BY <1>4 DEF FillPlugin, FillSlot, LoadInv
  <2>2. \A i \in PluginIds : i # w.offset + w.i => plugin'[i] = plugin[i]
    BY <1>4, <1>r DEF FillPlugin, FillSlot
  <2>3. w.offset + w.i \in Int BY <1>r DEF LoadLocals
  <2>4. \A i, j \in PluginIds : i <= j /\ OK(j) => i < w.offset + w.i
    BY <2>1, <2>3, <1>r DEF FLAG_PLUGIN_OK
  <2>5. \A i, j \in PluginIds : i <= j /\ OK(j) => SameEntry(i)
    BY <2>2, <2>4, <2>3, <1>r DEF SameEntry
  <2> QED BY <1>4, <2>5 DEF FillPlugin, FillSlot
<1>5. ~Teardown(t) BY DEF Teardown
<1>6. ASSUME ~RebaseLibPointers(t), ~PublishPluginTable(t),
             ~(\E type, name, m \in Nat : FillPlugin(t, type, name, m))
      PROVE plugin' = plugin /\ blocks' = blocks
  BY <1>5, <1>6
     DEF OneStep, New, Ref, Unref, LoadPlugin, Query, Call, WriterLock, GrowLibTable, OpenLibrary,
         OpenFails, GrowPluginTable, EnumerationFails, FillFails, WriterUnlock,
         ReaderLock, ReadOnly, ReadAndReturn, GetMetadataNegative, CountMetadata,
         CountReturns
<1> QED BY <1>1, <1>2, <1>3, <1>4, <1>6

(* What a query answered stays true while the loader lives. *)
LEMMA StandsKept ==
  ASSUME TypeOK, TypeOK', LockInv, RefInv, TableInv, LoadInv, Next, status' # "freed",
         NEW a \in Results, a.val >= 0, Stands(a)
  PROVE Stands(a)'
<1>1. /\ nplugins \in 0 .. MaxPlugins /\ nplugins' \in 0 .. MaxPlugins
      /\ plugin \in [PluginIds -> Plugin] /\ plugin' \in [PluginIds -> Plugin]
      /\ a.key \in Int /\ a.val \in Int /\ a.start \in Int
      /\ \A i \in PluginIds : i \in Int
  <2>1. /\ nplugins \in 0 .. MaxPlugins /\ nplugins' \in 0 .. MaxPlugins
        /\ plugin \in [PluginIds -> Plugin] /\ plugin' \in [PluginIds -> Plugin]
    BY DEF TypeOK
  <2>2. a.key \in Int /\ a.val \in Int /\ a.start \in Int BY DEF Results
  <2> QED BY <2>1, <2>2 DEF PluginIds
<1>2. Kept BY KeptStep
<1>3. /\ blocks \subseteq blocks'
      /\ \A i, j \in PluginIds : i <= j /\ OK(j) => SameEntry(i)
  BY WritesAbove
<1>4. nplugins <= nplugins' BY <1>2 DEF Kept
<1>5. ASSUME NEW i \in PluginIds, SameEntry(i)
      PROVE /\ plugin'[i].flags = plugin[i].flags /\ plugin'[i].type = plugin[i].type
            /\ plugin'[i].name = plugin[i].name
            /\ plugin'[i].lib.idx = plugin[i].lib.idx
  <2>1. plugin[i] \in Plugin /\ plugin'[i] \in Plugin BY <1>1
  <2> QED BY <1>5, <2>1 DEF SameEntry, Plugin, LibPtr
<1>6. ASSUME NEW i \in Int, is_valid_id(i, 1)
      PROVE /\ i \in PluginIds /\ i < nplugins /\ SameEntry(i)
            /\ is_valid_id(i, 1)'
            /\ is_valid_id(i, 0)' => is_valid_id(i, 0)
  <2>1. i \in PluginIds /\ i < nplugins /\ plugin[i].flags # 0
    BY <1>1, <1>6 DEF is_valid_id, PluginIds, FLAG_PLUGIN_OK, FLAG_PLUGIN_DUMMY
  <2>2. SameEntry(i) BY <1>2, <2>1 DEF Kept, SameEntry
  <2> QED BY <1>1, <1>4, <1>5, <1>6, <2>1, <2>2 DEF is_valid_id
<1>7. ASSUME NEW i \in Int, is_valid_id(i, 0)
      PROVE i \in PluginIds /\ OK(i) /\ is_valid_id(i, 0)' /\ SameEntry(i)
  <2>1. is_valid_id(i, 1) BY <1>7 DEF is_valid_id
  <2>2. i \in PluginIds /\ SameEntry(i) BY <1>6, <2>1
  <2> QED BY <1>1, <1>4, <1>5, <1>7, <2>2 DEF is_valid_id, OK
<1>8. a.op = "get_type" => is_valid_id(a.key, 0)' /\ plugin'[a.key].type = a.val
  BY <1>1, <1>5, <1>7 DEF Stands
<1>9. a.op \in {"get_functbl", "get_algo_name"} => a.val \in blocks'
  BY <1>3 DEF Stands
<1>10. a.op = "get_nplugins" /\ a.key = -1 => a.val <= nplugins'
  BY <1>1, <1>4 DEF Stands
<1>11. ASSUME a.op = "get_nplugins", a.key # -1
       PROVE /\ is_valid_id(a.key, 1)'
             /\ is_valid_id(a.key, 0)' => lib'[plugin'[a.key].lib.idx].nplugins = a.val
  <2>1. is_valid_id(a.key, 1) BY <1>11 DEF Stands
  <2>2. a.key \in PluginIds /\ SameEntry(a.key) /\ is_valid_id(a.key, 1)'
    BY <1>1, <1>6, <2>1
  <2>3. ASSUME is_valid_id(a.key, 0)'
        PROVE lib'[plugin'[a.key].lib.idx].nplugins = a.val
    <3>1. is_valid_id(a.key, 0) BY <1>1, <1>6, <2>1, <2>3
    <3>2. OK(a.key) BY <1>1, <1>7, <3>1
    <3>3. plugin'[a.key].lib.idx = plugin[a.key].lib.idx BY <1>5, <2>2
    <3>4. lib'[plugin[a.key].lib.idx].nplugins = lib[plugin[a.key].lib.idx].nplugins
      BY <1>2, <2>2, <3>2 DEF Kept
    <3> QED BY <1>11, <3>1, <3>3, <3>4 DEF Stands
  <2> QED BY <2>2, <2>3
<1>12. ASSUME a.op \in {"lookup_by_name", "lookup_by_type"}
       PROVE /\ is_valid_id(a.val, 0)' /\ Matches(a, a.val)'
             /\ \A i \in PluginIds : a.start <= i /\ i < a.val =>
                  ~(is_valid_id(i, 0)' /\ Matches(a, i)')
  <2>1. is_valid_id(a.val, 0) /\ Matches(a, a.val) BY <1>12 DEF Stands
  <2>2. /\ a.val \in PluginIds /\ OK(a.val) /\ is_valid_id(a.val, 0)'
    BY <1>1, <1>7, <2>1
  <2>3. ASSUME NEW i \in PluginIds, i <= a.val
        PROVE /\ Matches(a, i)' <=> Matches(a, i)
              /\ is_valid_id(i, 0)' <=> is_valid_id(i, 0)
    <3>1. SameEntry(i) BY <1>3, <2>2, <2>3
    <3>2. i < nplugins BY <1>1, <2>2, <2>3 DEF OK
    <3> QED BY <1>1, <1>4, <1>5, <3>1, <3>2 DEF Matches, is_valid_id
  <2>4. Matches(a, a.val)' BY <2>1, <2>2, <2>3, <1>1
  <2>5. ASSUME NEW i \in PluginIds, a.start <= i, i < a.val
        PROVE ~(is_valid_id(i, 0)' /\ Matches(a, i)')
    <3>1. ~(is_valid_id(i, 0) /\ Matches(a, i)) BY <1>12, <2>5 DEF Stands
    <3>2. i <= a.val BY <1>1, <2>5
    <3> QED BY <2>3, <3>1, <3>2
  <2> QED BY <2>2, <2>4, <2>5
<1> QED BY <1>8, <1>9, <1>10, <1>11, <1>12 DEF Stands

(* Every action keeps the answers true, and gives true ones. *)
LEMMA AnswerStep ==
  ASSUME TypeOK, TypeOK', LockInv, RefInv, TableInv, LoadInv, AnswerInv, Next
  PROVE AnswerInv'
<1> SUFFICES ASSUME NEW t \in Threads, OneStep(t), status' # "freed" PROVE AnswerInv'
  BY NextIsOneStep DEF AnswerInv
<1>a. ret \in [Threads -> Results] /\ ret' \in [Threads -> Results]
      /\ \A u \in Threads : ret[u].val \in Int
  BY DEF TypeOK, Results
<1>b. status # "freed"
  <2>1. CASE status = "freed"
    <3>1. Held = {} /\ \A u \in Threads : pc[u] = "idle" BY <2>1 DEF RefInv
    <3>2. /\ ~New(t) /\ ~Teardown(t)
      BY <2>1, <3>1 DEF New, Teardown
    <3>3. status' = status
      BY <3>2 DEF OneStep, Ref, Unref, LoadPlugin, Query, Call, WriterLock, GrowLibTable,
             RebaseLibPointers, OpenLibrary,
             OpenFails, GrowPluginTable, EnumerationFails, PublishPluginTable, FillPlugin,
             FillSlot, FillFails, WriterUnlock, ReaderLock, ReadOnly, ReadAndReturn,
             GetMetadataNegative, CountMetadata, CountReturns, refVars
    <3> QED BY <2>1, <3>3
  <2> QED BY <2>1
<1>c. ASSUME NEW u \in Threads, ret'[u] = ret[u], ret'[u].val >= 0
      PROVE Stands(ret[u])'
  <2>1. PICK a \in Results : a = ret[u] BY <1>a
  <2>2. Stands(a) BY <1>b, <1>c, <2>1 DEF AnswerInv
  <2>3. Stands(a)' BY <1>c, <2>1, <2>2, StandsKept
  <2>4. a = ret'[u] BY <1>c, <2>1
  <2> QED BY <2>3, <2>4
<1>d. ASSUME \A u \in Threads \ {t} : ret'[u] = ret[u],
             ret'[t].val >= 0 => ret'[t] = ret[t] \/ Stands(ret[t])'
      PROVE AnswerInv'
  <2>1. ASSUME NEW u \in Threads, ret'[u].val >= 0 PROVE Stands(ret[u])'
    <3>1. CASE ret'[u] = ret[u] BY <1>c, <2>1, <3>1
    <3>2. CASE ret'[u] # ret[u] 
      <4>1. u = t BY <1>d, <3>2
      <4> QED BY <1>d, <2>1, <3>2, <4>1
    <3> QED BY <3>1, <3>2
  <2> QED BY <2>1 DEF AnswerInv
<1>1. CASE ret' = ret BY <1>1, <1>d
<1>2. CASE LoadPlugin(t) \/ Query(t)
  <2>1. ret' = [ret EXCEPT ![t] = NoResult] BY <1>2 DEF LoadPlugin, Query, Call
  <2>2. ret'[t].op = "none" BY <2>1, <1>a DEF NoResult
  <2>3. Stands(ret[t])' BY <2>2 DEF Stands
  <2> QED BY <2>1, <2>3, <1>d, <1>a
<1>3. ASSUME NEW val, LoadReturns(t, val) PROVE AnswerInv'
  <2>1. ret' = [ret EXCEPT ![t] = Result("load_plugin", 0, 0, val)]
    BY <1>3 DEF LoadReturns, Answer
  <2>2. ret'[t].op = "load_plugin" BY <2>1, <1>a DEF Result
  <2>3. Stands(ret[t])' BY <2>2 DEF Stands
  <2> QED BY <2>1, <2>3, <1>d, <1>a
<1>4. CASE ReadOnly(t)
  <2>1. PICK op \in Ops, key \in Int, start \in Int, val \in Int :
          /\ ReadAndReturn(t, op, key, start, val)
          /\ val >= 0 => Stands(Result(op, key, start, val))
    BY <1>4 DEF ReadOnly
  <2>2. PICK a \in Results : a = Result(op, key, start, val) BY DEF Result, Results
  <2>3. ret' = [ret EXCEPT ![t] = a] BY <2>1, <2>2 DEF ReadAndReturn, Answer
  <2>4. a.val = val BY <2>2 DEF Result
  <2>5. ret'[t].val >= 0 => Stands(a)' BY <2>1, <2>2, <2>3, <2>4, <1>a, StandsKept
  <2>6. ret'[t] = a BY <2>3, <1>a
  <2> QED BY <2>3, <2>5, <2>6, <1>d, <1>a
<1>5. CASE CountReturns(t) \/ \E id, item \in Int : GetMetadataNegative(t, id, item)
  <2>1. PICK op \in {"count_metadata", "get_metadata"} : \E key, start, val :
          ret' = [ret EXCEPT ![t] = Result(op, key, start, val)]
    BY <1>5 DEF CountReturns, GetMetadataNegative, Answer
  <2>2. ret'[t].op = op BY <2>1, <1>a DEF Result
  <2>3. Stands(ret[t])' BY <2>2 DEF Stands
  <2> QED BY <2>1, <2>3, <1>d, <1>a
<1>6. \/ ret' = ret \/ LoadPlugin(t) \/ Query(t) \/ (\E val : LoadReturns(t, val))
      \/ ReadOnly(t) \/ CountReturns(t) \/ (\E id, item \in Int : GetMetadataNegative(t, id, item))
  <2> DEFINE Quiet == ret' = ret \/ \E val : LoadReturns(t, val)
  <2>1. ASSUME New(t) \/ (\E u \in Threads : Ref(t, u)) \/ Unref(t) \/ Teardown(t)
               \/ WriterUnlock(t) \/ ReaderLock(t)
               \/ (\E id \in Int, stat \in {0, -1} : CountMetadata(t, id, stat))
        PROVE Quiet
    BY <2>1 DEF New, Ref, Unref, Teardown, WriterUnlock, ReaderLock, CountMetadata, clientVars
  <2>2. ASSUME WriterLock(t) \/ GrowLibTable(t) \/ RebaseLibPointers(t) \/ OpenLibrary(t)
               \/ (\E n \in 0 .. MaxPlugins : GrowPluginTable(t, n))
        PROVE Quiet
    BY <2>2 DEF WriterLock, GrowLibTable, RebaseLibPointers, OpenLibrary, GrowPluginTable
  <2>3. ASSUME NEW err \in Nat \ {0}, OpenFails(t, err) PROVE Quiet
    BY <2>3 DEF OpenFails
  <2>4. ASSUME EnumerationFails(t) \/ \E err \in Nat \ {0} : FillFails(t, err) PROVE Quiet
    BY <2>4 DEF EnumerationFails, FillFails
  <2>5. ASSUME PublishPluginTable(t) PROVE Quiet
    BY <2>5 DEF PublishPluginTable
  <2>6. ASSUME NEW type \in Nat, NEW name \in Nat, NEW m \in Nat, FillPlugin(t, type, name, m)
        PROVE Quiet
    BY <2>6 DEF FillPlugin, FillSlot
  <2> HIDE DEF Quiet
  <2>7. Quiet \/ LoadPlugin(t) \/ Query(t) \/ ReadOnly(t) \/ CountReturns(t)
        \/ (\E id, item \in Int : GetMetadataNegative(t, id, item))
    BY <2>1, <2>2, <2>3, <2>4, <2>5, <2>6 DEF OneStep
  <2> QED BY <2>7 DEF Quiet
<1> QED BY <1>1, <1>2, <1>3, <1>4, <1>5, <1>6

(* The invariant holds before drew_loader_new. *)
LEMMA InitInv == Init => IInv
<1> SUFFICES ASSUME Init PROVE IInv OBVIOUS
<1> USE DEF Init
<1>1. TypeOK
  BY DEF TypeOK, PCs, Library, ZeroLibrary, Plugin, ZeroPlugin, LibPtr, NoLib,
         LoadLocals, Zero, Kinds, CountLocals, Results, NoResult, Ops, PluginIds
<1>2. Held = {} /\ Cardinality(Held) = 0 BY FS_EmptySet DEF Held
<1>3. LockInv BY DEF LockInv, WriterPCs
<1>4. RefInv BY <1>2 DEF RefInv
<1>5. TableInv BY DEF TableInv, OK, PluginIds
<1>6. LoadInv BY DEF LoadInv
<1>7. RangeInv BY DEF RangeInv, NoResult
<1>8. AnswerInv BY DEF AnswerInv, Stands, NoResult
<1> QED BY <1>1, <1>3, <1>4, <1>5, <1>6, <1>7, <1>8 DEF IInv

(* Every step of every thread preserves the invariant. *)
LEMMA StepInv == IInv /\ [Next]_vars => IInv'
<1> SUFFICES ASSUME IInv, [Next]_vars PROVE IInv' OBVIOUS
<1> USE DEF IInv
<1>1. CASE Next
  <2>1. TypeOK' BY <1>1, TypeStep
  <2> QED BY <1>1, <2>1, LockStep, RefStep, TableStep, LoadStep, RangeStep,
            AnswerStep
<1>2. CASE UNCHANGED vars
  <2> USE <1>2 DEF vars, refVars, lockVars, libVars, pluginVars, tableVars, clientVars
  <2>1. TypeOK' BY DEF TypeOK
  <2>2. LockInv' BY DEF LockInv
  <2>3. RefInv' BY DEF RefInv, Held, Holds
  <2>4. TableInv' BY DEF TableInv, OK
  <2>5. LoadInv' BY DEF LoadInv, OK
  <2>6. RangeInv' BY DEF RangeInv, Usable, is_valid_id
  <2>7. AnswerInv' BY DEF AnswerInv, Stands, is_valid_id, Matches
  <2> QED BY <2>1, <2>2, <2>3, <2>4, <2>5, <2>6, <2>7
<1> QED BY <1>1, <1>2

(* The inductive invariant of drew.c: the lock excludes, the count is      *)
(* exact, the tables are consistent outside the two windows of a load.     *)
THEOREM Invariance == Spec => []IInv
<1> QED BY InitInv, StepInv, PTL DEF Spec

(* Every variable of the loader keeps its type. *)
THEOREM TypeCorrect == Spec => []TypeOK
<1>1. IInv => TypeOK BY DEF IInv
<1> QED BY <1>1, Invariance, PTL

(* drew_loader_unref tears down only when nobody is using the loader. *)
THEOREM TeardownIsAlone == Spec => []TeardownAlone
<1>1. IInv => TeardownAlone
  BY DEF IInv, TypeOK, PCs, RefInv, TeardownAlone, Holds, Held
<1> QED BY <1>1, Invariance, PTL

(* The last drew_loader_unref returns every handle and every block. *)
THEOREM NoLeaks == Spec => []NothingLeaked
<1>1. IInv => NothingLeaked
  <2> SUFFICES ASSUME IInv, status = "freed" PROVE blocks = {} /\ handles = 0
    BY DEF NothingLeaked
  <2>1. nlibs = 0 /\ nplugins = 0 /\ handles = 0 BY DEF IInv, TableInv
  <2>2. \A b \in blocks : b \in Nat /\ b < nplugins
    BY DEF IInv, TableInv, OK, TypeOK, PluginIds
  <2> QED BY <2>1, <2>2
<1> QED BY <1>1, Invariance, PTL

(* No query under the reader lock meets a table that a load is moving. *)
THEOREM ReadersAreConsistent == Spec => []ReadersSeeConsistentTables
<1>1. IInv => ReadersSeeConsistentTables
  <2> SUFFICES ASSUME IInv, NEW t \in Threads, pc[t] = "read" PROVE Consistent
    BY DEF ReadersSeeConsistentTables
  <2>1. \A u \in Threads : pc[u] \notin WriterPCs BY DEF IInv, LockInv, TypeOK
  <2>2. libField = libMem /\ pluginField = pluginMem
    BY <2>1 DEF IInv, TableInv, WriterPCs
  <2> QED BY <2>2 DEF IInv, TableInv, OK, Consistent
<1> QED BY <1>1, Invariance, PTL

(* The ids drew_loader_load_plugin returns are good until the loader dies. *)
THEOREM LoadedRangesAreUsable == Spec => []LoadedRangeUsable
<1>1. IInv => LoadedRangeUsable
  BY DEF IInv, RangeInv, LoadedRangeUsable, RefInv, Holds, Held, TypeOK
<1> QED BY <1>1, Invariance, PTL

(* What a query answered is true for as long as the caller owns a reference. *)
THEOREM AnswersAreStable == Spec => []AnswersStayTrue
<1>1. IInv => AnswersStayTrue
  <2> SUFFICES ASSUME IInv, NEW t \in Threads, Holds(t), ret[t].val >= 0
               PROVE Stands(ret[t])
    BY DEF AnswersStayTrue, Stands
  <2>1. status # "freed" BY DEF IInv, RefInv, Holds, Held, TypeOK
  <2> QED BY <2>1 DEF IInv, AnswerInv
<1> QED BY <1>1, Invariance, PTL

(* No load changes what a valid id stands for. *)
THEOREM IdsAreStable == Spec => IdsStable
<1> DEFINE Same == \A i \in PluginIds :
       i < nplugins /\ plugin[i].flags = FLAG_PLUGIN_OK /\ status' # "freed" =>
         /\ i < nplugins'
         /\ [plugin'[i] EXCEPT !.lib.base = NULL] = [plugin[i] EXCEPT !.lib.base = NULL]
<1>1. IInv /\ IInv' /\ [Next]_vars => [Same]_vars
  <2> SUFFICES ASSUME IInv, IInv', Next PROVE Same OBVIOUS
  <2>1. Kept BY KeptStep DEF IInv
  <2>2. nplugins \in Int /\ nplugins' \in Int /\ \A i \in PluginIds : i \in Int
    BY DEF IInv, TypeOK, PluginIds
  <2> QED BY <2>1, <2>2 DEF Kept, FLAG_PLUGIN_OK
<1> QED BY <1>1, Invariance, PTL DEF Spec, IdsStable

(* No client passes an item below -1 to drew_loader_get_metadata. *)
ItemsAreSane == \A item \in MetaItems : item >= -1

(* The reader half is held in a query and at no other place. *)
ReadersInv == \A t \in Threads : readers[t] = IF pc[t] = "read" THEN 1 ELSE 0

(* With such clients every query gives its reader lock back. *)
LEMMA ReadersStep ==
  ASSUME ItemsAreSane, TypeOK, TableInv, LockInv, RefInv, ReadersInv, Next
  PROVE ReadersInv'
<1>0. PICK t \in Threads :
        \/ New(t) \/ (\E u \in Threads : Ref(t, u)) \/ Unref(t)
        \/ LoadPlugin(t) \/ Query(t) \/ Loads(t) \/ Reads(t) \/ Teardown(t)
  BY DEF Next, Step
<1> USE DEF TypeOK, ReadersInv, PCs, Goto, refVars, lockVars, libVars, pluginVars,
           tableVars, clientVars
<1>1. CASE New(t) \/ (\E u \in Threads : Ref(t, u)) \/ Unref(t) \/ Teardown(t)
           \/ LoadPlugin(t) \/ Query(t)
  BY <1>1 DEF New, Ref, Unref, Teardown, LoadPlugin, Query, Call
<1>2. CASE Loads(t)
  <2>1. ASSUME readers' = readers, pc[t] # "read",
               pc' = pc \/ \E label \in PCs \ {"read"} : pc' = [pc EXCEPT ![t] = label]
        PROVE ReadersInv'
    BY <2>1
  <2>2. CASE WriterLock(t) \/ GrowLibTable(t) \/ RebaseLibPointers(t) \/ OpenLibrary(t)
    BY <2>1, <2>2 DEF WriterLock, GrowLibTable, RebaseLibPointers, OpenLibrary
  <2>3. ASSUME NEW err, OpenFails(t, err) PROVE ReadersInv'
    BY <2>1, <2>3 DEF OpenFails
  <2>4. ASSUME NEW n, GrowPluginTable(t, n) PROVE ReadersInv'
    BY <2>1, <2>4 DEF GrowPluginTable
  <2>5. CASE EnumerationFails(t) \/ PublishPluginTable(t) \/ WriterUnlock(t)
    BY <2>1, <2>5 DEF EnumerationFails, PublishPluginTable, WriterUnlock
  <2>6. ASSUME NEW type, NEW name, NEW m, FillPlugin(t, type, name, m) PROVE ReadersInv'
    BY <2>1, <2>6 DEF FillPlugin, FillSlot
  <2>7. ASSUME NEW err, FillFails(t, err) PROVE ReadersInv'
    BY <2>1, <2>7 DEF FillFails
  <2> QED BY <1>2, <2>2, <2>3, <2>4, <2>5, <2>6, <2>7 DEF Loads
<1>3. CASE Reads(t)
  <2>1. CASE ReaderLock(t) BY <2>1 DEF ReaderLock
  <2>2. CASE ReadOnly(t) BY <2>2 DEF ReadOnly, ReadAndReturn, ReaderUnlock
  <2>3. ~ \E id \in Int, item \in MetaItems : GetMetadataNegative(t, id, item)
    BY DEF GetMetadataNegative, ItemsAreSane
  <2>4. ASSUME NEW id, NEW stat, CountMetadata(t, id, stat) PROVE ReadersInv'
    BY <2>4 DEF CountMetadata, ReaderUnlock
  <2>5. CASE CountReturns(t) BY <2>5 DEF CountReturns
  <2> QED BY <1>3, <2>1, <2>2, <2>3, <2>4, <2>5, ReadsAnswer
<1> QED BY <1>0, <1>1, <1>2, <1>3

(* The lock is given back by every call of a client that does not ask for *)
(* an item below -1: drew_loader_load_plugin and every query.             *)
THEOREM LocksAreReleased == ASSUME ItemsAreSane PROVE Spec => []LocksReleased
<1>1. Init => ReadersInv BY DEF Init, ReadersInv
<1>2. IInv /\ ReadersInv /\ [Next]_vars => ReadersInv'
  <2>1. CASE Next BY <2>1, ReadersStep DEF IInv
  <2>2. CASE UNCHANGED vars BY <2>2 DEF ReadersInv, vars, lockVars, clientVars
  <2> QED BY <2>1, <2>2
<1>3. IInv /\ ReadersInv => LocksReleased
  BY DEF IInv, LockInv, WriterPCs, ReadersInv, LocksReleased
<1> QED BY <1>1, <1>2, <1>3, Invariance, PTL DEF Spec
=============================================================================
