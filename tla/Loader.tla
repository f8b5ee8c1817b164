------------------------------ MODULE Loader ------------------------------
(***************************************************************************)
(* The plugin loader of libdrew (lib/libdrew/drew.c).  Client threads      *)
(* share one DrewLoader: they take and drop references, load libraries     *)
(* under the writer half of its GRWLock and query the tables under the     *)
(* reader half.  The two tables (libraries, plugins) are arrays that every *)
(* load reallocates, so their addresses are state: between g_realloc and   *)
(* the assignment of its result the field of the loader names freed        *)
(* memory, and the `lib' pointer of every plugin has to be rebased.        *)
(*                                                                         *)
(* What a library answers to the enumeration calls (how many plugins, of   *)
(* which type and name, and which of the calls fails) is chosen by the     *)
(* environment.  g_realloc and g_malloc abort the process when memory is   *)
(* exhausted, so the -ENOMEM branches of the source are unreachable.       *)
(***************************************************************************)
EXTENDS Integers, FiniteSets

CONSTANTS
  Threads,      \* threads of the client program
  Refs,         \* the references that may exist at the same time
  Addrs,        \* addresses the allocator may give to a table
  NULL,         \* no thread, no address
  MaxLibs,      \* bound: entries of the library table
  MaxPlugins,   \* bound: entries of the plugin table
  NPaths,       \* DIM(paths) of drew_loader_get_search_path
  Types,        \* plugin types the libraries offer
  Names,        \* plugin names the libraries offer
  MetaItems,    \* values of `item' the clients pass to get_metadata
  MetaCounts,   \* numbers of metadata items of a plugin
  MaxCalls      \* bound: queries and loads of all threads together

ASSUME NullAssumption == NULL \notin Threads \cup Addrs
ASSUME BoundsAssumption ==
  /\ MaxLibs \in Nat /\ MaxCalls \in Nat
  /\ MaxPlugins \in Nat \ {0} /\ NPaths \in Nat \ {0}
  /\ Types \subseteq Nat /\ Names \subseteq Nat /\ MetaItems \subseteq Int /\ MetaCounts \subseteq Nat
ASSUME RefsAssumption == IsFiniteSet(Refs)

ERR_RESOLUTION  == 65537
ERR_ENUMERATION == 65538
ERR_FUNCTION    == 65539
ERR_INVALID     == 65542
ERR_NONEXISTENT == 65546
FLAG_PLUGIN_OK    == 1
FLAG_PLUGIN_DUMMY == 2

LibIds == 0 .. MaxLibs - 1
PluginIds == 0 .. MaxPlugins - 1

(* What a client is told when it reads a table that is no longer there. *)
Garbage == -1

(* A library_t *: the table it points into and the index there. *)
LibPtr == [base : Addrs \cup {NULL}, idx : 0 .. MaxLibs]
NoLib == [base |-> NULL, idx |-> 0]

(* library_t: whether it has a path, and the answer to GET_NPLUGINS. *)
Library == [path : {"null", "file"}, nplugins : Int]
ZeroLibrary == [path |-> "null", nplugins |-> 0]

(* plugin_t.  The block that holds the function table, the name and the  *)
(* metadata of a plugin is named after the entry that allocates it; -1   *)
(* is the null pointer.                                                  *)
Plugin == [flags : {0, FLAG_PLUGIN_OK, FLAG_PLUGIN_DUMMY}, lib : LibPtr,
           type : Int, name : Int, functbl : Int, nmetadata : Int, id : Int]
ZeroPlugin == [flags |-> 0, lib |-> NoLib, type |-> 0, name |-> 0,
               functbl |-> -1, nmetadata |-> 0, id |-> 0]

VARIABLES
  status,       \* "none", "live" or "freed"
  ref_count,    \* ldr->ref_count
  owner,        \* which thread answers for each reference
  readers,      \* read-lock holds of each thread
  writer,       \* the thread that holds the write lock
  lib,          \* contents of the library table
  nlibs,        \* ldr->nlibs
  libField,     \* ldr->lib
  libMem,       \* where the library table really is
  plugin,       \* contents of the plugin table
  nplugins,     \* ldr->nplugins
  pluginField,  \* ldr->plugin
  pluginMem,    \* where the plugin table really is
  blocks,       \* live function-table/name/metadata blocks
  handles,      \* GModule handles that are open
  pc,           \* where each thread is
  w,            \* locals of the load in progress
  md,           \* locals of a get_metadata(id, -1) in progress
  ret,          \* what the last call of each thread returned
  calls         \* queries and loads still to be made

refVars == <<status, ref_count, owner>>
lockVars == <<readers, writer>>
libVars == <<lib, nlibs, libField, libMem>>
pluginVars == <<plugin, nplugins, pluginField, pluginMem, blocks>>
tableVars == <<libVars, pluginVars, handles>>
clientVars == <<pc, w, md, ret, calls>>
vars == <<refVars, lockVars, tableVars, clientVars>>

PCs == {"idle", "wlock", "grow", "rebase", "open", "info", "publish", "fill",
        "wunlock", "rlock", "read", "count", "teardown"}
Kinds == {"internal", "path", "search"}
Ops == {"none", "load_plugin", "get_nplugins", "get_type", "get_functbl",
        "get_algo_name", "lookup_by_name", "lookup_by_type", "get_metadata",
        "count_metadata"}

(* The locals of load_plugin, load_library and load_library_info, of        *)
(* get_metadata, and the outcome of a call.                                 *)
LoadLocals == [kind : Kinds, tries : Int, lib : 0 .. MaxLibs, n : 0 .. MaxPlugins,
               offset : 0 .. MaxPlugins, i : 0 .. MaxPlugins]
CountLocals == [id : PluginIds, extra : {0, 1}]
Results == [op : Ops, key : Int, start : Int, val : Int]

NoResult == [op |-> "none", key |-> 0, start |-> 0, val |-> 0]
Zero == [kind |-> "internal", tries |-> 0, lib |-> 0, n |-> 0, offset |-> 0, i |-> 0]

Held == {r \in Refs : owner[r] # NULL}
Holds(t) == \E r \in Refs : owner[r] = t

----------------------------------------------------------------------------
(* References. *)

Init ==
  /\ status = "none" /\ ref_count = 0
  /\ owner = [r \in Refs |-> NULL]
  /\ readers = [t \in Threads |-> 0] /\ writer = NULL
  /\ lib = [l \in LibIds |-> ZeroLibrary] /\ nlibs = 0
  /\ libField = NULL /\ libMem = NULL
  /\ plugin = [i \in PluginIds |-> ZeroPlugin] /\ nplugins = 0
  /\ pluginField = NULL /\ pluginMem = NULL
  /\ blocks = {} /\ handles = 0
  /\ pc = [t \in Threads |-> "idle"]
  /\ w = Zero
  /\ md = [t \in Threads |-> [id |-> 0, extra |-> 0]]
  /\ ret = [t \in Threads |-> NoResult]
  /\ calls = MaxCalls

(* drew_loader_new: a zeroed structure with one reference. *)
New(t) ==
  /\ status = "none"
  /\ status' = "live"
  /\ ref_count' = 1
  /\ \E r \in Refs : owner' = [owner EXCEPT ![r] = t]
  /\ UNCHANGED <<lockVars, tableVars, clientVars>>

(* drew_loader_ref by t, which owns a reference, on behalf of thread u. *)
Ref(t, u) ==
  /\ pc[t] = "idle" /\ Holds(t)
  /\ \E r \in Refs : owner[r] = NULL /\ owner' = [owner EXCEPT ![r] = u]
  /\ ref_count' = ref_count + 1
  /\ UNCHANGED <<status, lockVars, tableVars, clientVars>>

(* Mutant of Unref: the count is compared with one after the decrement. *)
Unref_StopsAtOne(t) ==
  /\ pc[t] = "idle"
  /\ \E r \in Refs : owner[r] = t /\ owner' = [owner EXCEPT ![r] = NULL]
  /\ ref_count' = ref_count - 1
  /\ pc' = [pc EXCEPT ![t] = IF ref_count - 1 <= 1 THEN "teardown" ELSE "idle"]
  /\ UNCHANGED <<status, lockVars, tableVars, w, md, ret, calls>>

(* drew_loader_unref: the thread whose decrement reaches zero tears down. *)
Unref(t) ==
  /\ pc[t] = "idle"
  /\ \E r \in Refs : owner[r] = t /\ owner' = [owner EXCEPT ![r] = NULL]
  /\ ref_count' = ref_count - 1
  /\ pc' = [pc EXCEPT ![t] = IF ref_count - 1 = 0 THEN "teardown" ELSE "idle"]
  /\ UNCHANGED <<status, lockVars, tableVars, w, md, ret, calls>>

(* The rest of the last unref: close every library, free what every entry *)
(* marked OK owns, free both tables and the loader.                       *)
Teardown(t) ==
  /\ pc[t] = "teardown"
  /\ status' = "freed"
  /\ handles' = handles - nlibs
  /\ blocks' = blocks \ {plugin[i].functbl : i \in {j \in 0 .. nplugins - 1 :
                                              plugin[j].flags = FLAG_PLUGIN_OK}}
  /\ lib' = [l \in LibIds |-> ZeroLibrary] /\ nlibs' = 0
  /\ plugin' = [i \in PluginIds |-> ZeroPlugin] /\ nplugins' = 0
  /\ libField' = NULL /\ libMem' = NULL
  /\ pluginField' = NULL /\ pluginMem' = NULL
  /\ pc' = [pc EXCEPT ![t] = "idle"]
  /\ UNCHANGED <<ref_count, owner, lockVars, w, md, ret, calls>>

----------------------------------------------------------------------------
(* drew_loader_load_plugin, under the writer lock. *)

Goto(t, label) == pc' = [pc EXCEPT ![t] = label]

Call(t, label) ==
  /\ pc[t] = "idle" /\ Holds(t) /\ calls > 0
  /\ calls' = calls - 1
  /\ ret' = [ret EXCEPT ![t] = NoResult]
  /\ Goto(t, label)
  /\ UNCHANGED <<refVars, lockVars, tableVars, w, md>>

LoadPlugin(t) == Call(t, "wlock")

(* g_rw_lock_writer_lock; a named plugin without a path is searched for in *)
(* every directory of the search path, anything else is tried once.        *)
WriterLock(t) ==
  /\ pc[t] = "wlock"
  /\ writer = NULL /\ \A u \in Threads : readers[u] = 0
  /\ writer' = t
  /\ \E k \in Kinds :
       w' = [Zero EXCEPT !.kind = k, !.tries = IF k = "search" THEN NPaths ELSE 1]
  /\ Goto(t, "grow")
  /\ UNCHANGED <<refVars, readers, tableVars, md, ret, calls>>

(* load_library: g_realloc of the library table.  Its old address is free  *)
(* from here on, unless the block grew in place.                           *)
GrowLibTable(t) ==
  /\ pc[t] = "grow"
  /\ \E p \in Addrs \ {pluginMem} : libMem' = p
  /\ Goto(t, "rebase")
  /\ UNCHANGED <<refVars, lockVars, lib, nlibs, libField, pluginVars, handles,
                 w, md, ret, calls>>

(* The pointer arithmetic p + (plugin[i].lib - ldr->lib). *)
Rebase(e) ==
  IF e.lib.base = libField /\ libField # NULL
  THEN [e EXCEPT !.lib = [base |-> libMem, idx |-> e.lib.idx]] ELSE e

(* load_library: rebase the plugins' pointers, then store the new address. *)
RebaseLibPointers(t) ==
  /\ pc[t] = "rebase"
  /\ plugin' = [i \in PluginIds |-> Rebase(plugin[i])]
  /\ libField' = libMem
  /\ Goto(t, "open")
  /\ UNCHANGED <<refVars, lockVars, lib, nlibs, libMem, nplugins, pluginField,
                 pluginMem, blocks, handles, w, md, ret, calls>>

Result(op, key, start, val) == [op |-> op, key |-> key, start |-> start, val |-> val]
Answer(t, op, key, start, val) ==
  ret' = [ret EXCEPT ![t] = Result(op, key, start, val)]
LoadReturns(t, val) == Answer(t, "load_plugin", 0, 0, val)

(* load_library: the module opens and has an entry point. *)
OpenLibrary(t) ==
  /\ pc[t] = "open" /\ nlibs < MaxLibs
  /\ lib' = [lib EXCEPT ![nlibs] =
       [path |-> IF w.kind = "internal" THEN "null" ELSE "file", nplugins |-> 0]]
  /\ nlibs' = nlibs + 1
  /\ handles' = handles + 1
  /\ w' = [w EXCEPT !.lib = nlibs]
  /\ Goto(t, "info")
  /\ UNCHANGED <<refVars, lockVars, libField, libMem, pluginVars, md, ret, calls>>

(* Mutant of OpenFails: a module without an entry point stays open. *)
OpenFails_KeepsHandle(t, err) ==
  /\ pc[t] = "open"
  /\ handles' = handles + (IF err = ERR_ENUMERATION THEN 1 ELSE 0)
  /\ LoadReturns(t, -err)
  /\ Goto(t, "wunlock")
  /\ UNCHANGED <<refVars, lockVars, libVars, pluginVars, w, md, calls>>

(* Mutant of OpenFails: the search does not move on to the next directory. *)
OpenFails_SameDirectory(t, err) ==
  /\ pc[t] = "open"
  /\ IF w.kind = "search" THEN Goto(t, "grow") /\ UNCHANGED ret
     ELSE Goto(t, "wunlock") /\ LoadReturns(t, -err)
  /\ UNCHANGED <<refVars, lockVars, tableVars, w, md, calls>>

(* load_library: the module does not open (RESOLUTION), or it has no entry  *)
(* point and is closed again (ENUMERATION); the new table entry is given    *)
(* back.  A search goes on with the next directory.                         *)
OpenFails(t, err) ==
  /\ pc[t] = "open"
  /\ IF w.kind = "search" /\ w.tries > 1
     THEN /\ w' = [w EXCEPT !.tries = @ - 1]
          /\ Goto(t, "grow")
          /\ UNCHANGED ret
     ELSE /\ LoadReturns(t, IF w.kind = "search" THEN -ERR_RESOLUTION ELSE -err)
          /\ Goto(t, "wunlock")
          /\ UNCHANGED w
  /\ UNCHANGED <<refVars, lockVars, tableVars, md, calls>>

(* load_library_info: the library reports n plugins, and the plugin table is *)
(* reallocated; ldr->plugin still names the old block.                       *)
GrowPluginTable(t, n) ==
  /\ pc[t] = "info" /\ nplugins + n + (IF n = 0 THEN 1 ELSE 0) <= MaxPlugins
  /\ lib' = [lib EXCEPT ![w.lib].nplugins = n]
  /\ \E p \in Addrs \ {libMem} : pluginMem' = p
  /\ w' = [w EXCEPT !.n = n, !.offset = nplugins]
  /\ Goto(t, "publish")
  /\ UNCHANGED <<refVars, lockVars, nlibs, libField, libMem, plugin, nplugins,
                 pluginField, blocks, handles, md, ret, calls>>

(* load_library_info: a negative count; the library stays in its table. *)
EnumerationFails(t) ==
  /\ pc[t] = "info"
  /\ lib' = [lib EXCEPT ![w.lib].nplugins = -1]
  /\ LoadReturns(t, -ERR_ENUMERATION)
  /\ Goto(t, "wunlock")
  /\ UNCHANGED <<refVars, lockVars, nlibs, libField, libMem, pluginVars, handles,
                 w, md, calls>>

(* Mutant of PublishPluginTable: the dummy entry is put in the first slot. *)
PublishPluginTable_DummyFirst(t) ==
  /\ pc[t] = "publish"
  /\ pluginField' = pluginMem
  /\ IF w.n = 0
     THEN /\ nplugins' = nplugins + 1
          /\ plugin' = [plugin EXCEPT ![0].flags = FLAG_PLUGIN_DUMMY]
          /\ LoadReturns(t, w.offset)
          /\ Goto(t, "wunlock")
     ELSE /\ nplugins' = nplugins + w.n
          /\ UNCHANGED <<plugin, ret>>
          /\ Goto(t, "fill")
  /\ UNCHANGED <<refVars, lockVars, libVars, pluginMem, blocks, handles, w, md, calls>>

(* load_library_info: the entries, zeroed, become part of the table.  A      *)
(* library without plugins gets one dummy entry.                             *)
PublishPluginTable(t) ==
  /\ pc[t] = "publish"
  /\ pluginField' = pluginMem
  /\ IF w.n = 0
     THEN /\ nplugins' = nplugins + 1
          /\ plugin' = [plugin EXCEPT ![w.offset].flags = FLAG_PLUGIN_DUMMY]
          /\ LoadReturns(t, w.offset)
          /\ Goto(t, "wunlock")
     ELSE /\ nplugins' = nplugins + w.n
          /\ UNCHANGED <<plugin, ret>>
          /\ Goto(t, "fill")
  /\ UNCHANGED <<refVars, lockVars, libVars, pluginMem, blocks, handles, w, md, calls>>

(* load_library_info, one turn of the loop that fills entry `slot': every *)
(* call of the api succeeds.                                              *)
FillSlot(t, slot, type, name, nmetadata) ==
  /\ pc[t] = "fill"
  /\ plugin' = [plugin EXCEPT ![slot] =
       [flags |-> FLAG_PLUGIN_OK, lib |-> [base |-> libField, idx |-> w.lib],
        type |-> type, name |-> name, functbl |-> slot,
        nmetadata |-> nmetadata, id |-> slot]]
  /\ blocks' = blocks \cup {slot}
  /\ w' = [w EXCEPT !.i = @ + 1]
  /\ IF w.i + 1 = w.n
     THEN LoadReturns(t, w.offset) /\ Goto(t, "wunlock")
     ELSE UNCHANGED <<ret, pc>>
  /\ UNCHANGED <<refVars, lockVars, libVars, nplugins, pluginField, pluginMem,
                 handles, md, calls>>

(* Mutants of FillPlugin: it fills the entry after its own, or forgets that *)
(* its entries start at offset.                                             *)
FillPlugin_OffByOne(t, type, name, nmetadata) ==
  FillSlot(t, w.offset + w.i + 1, type, name, nmetadata)
FillPlugin_NoOffset(t, type, name, nmetadata) == FillSlot(t, w.i, type, name, nmetadata)

FillPlugin(t, type, name, nmetadata) ==
  FillSlot(t, w.offset + w.i, type, name, nmetadata)

(* Mutant of FillFails: the error is lost and the offset returned. *)
FillFails_ReturnsOffset(t, err) ==
  /\ pc[t] = "fill"
  /\ LoadReturns(t, w.offset)
  /\ Goto(t, "wunlock")
  /\ UNCHANGED <<refVars, lockVars, tableVars, w, md, calls>>

(* load_library_info, one turn of the loop: a call of the api fails.  What  *)
(* this entry allocated is freed; the entries filled before it stay.        *)
FillFails(t, err) ==
  /\ pc[t] = "fill"
  /\ LoadReturns(t, -err)
  /\ Goto(t, "wunlock")
  /\ UNCHANGED <<refVars, lockVars, tableVars, w, md, calls>>

WriterUnlock(t) ==
  /\ pc[t] = "wunlock"
  /\ writer' = NULL
  /\ w' = Zero
  /\ Goto(t, "idle")
  /\ UNCHANGED <<refVars, readers, tableVars, md, ret, calls>>

----------------------------------------------------------------------------
(* The queries, under the reader lock. *)

Query(t) == Call(t, "rlock")

(* Mutant of ReaderLock: readers do not wait for the writer. *)
ReaderLock_IgnoresWriter(t) ==
  /\ pc[t] = "rlock"
  /\ readers' = [readers EXCEPT ![t] = @ + 1]
  /\ Goto(t, "read")
  /\ UNCHANGED <<refVars, writer, tableVars, w, md, ret, calls>>

ReaderLock(t) ==
  /\ pc[t] = "rlock"
  /\ writer = NULL
  /\ readers' = [readers EXCEPT ![t] = @ + 1]
  /\ Goto(t, "read")
  /\ UNCHANGED <<refVars, writer, tableVars, w, md, ret, calls>>

is_valid_id(id, dummyok) ==
  /\ id >= 0
  /\ id < nplugins
  /\ \/ plugin[id].flags = FLAG_PLUGIN_OK
     \/ dummyok = 1 /\ plugin[id].flags = FLAG_PLUGIN_DUMMY

ReaderUnlock(t) == readers' = [readers EXCEPT ![t] = @ - 1]

(* A query that answers val and lets go of the lock. *)
ReadAndReturn(t, op, key, start, val) ==
  /\ pc[t] = "read"
  /\ Answer(t, op, key, start, val)
  /\ ReaderUnlock(t)
  /\ Goto(t, "idle")
  /\ UNCHANGED <<refVars, writer, tableVars, w, md, calls>>

GetNplugins(t, id) ==
  ReadAndReturn(t, "get_nplugins", id, 0,
    IF id = -1 THEN nplugins
    ELSE IF is_valid_id(id, 0) THEN lib[plugin[id].lib.idx].nplugins
    ELSE IF is_valid_id(id, 1) THEN 0 ELSE -ERR_INVALID)

GetType(t, id) ==
  ReadAndReturn(t, "get_type", id, 0,
    IF is_valid_id(id, 0) THEN plugin[id].type ELSE -ERR_INVALID)

(* The value is the table pointer stored through `tbl'. *)
GetFunctbl(t, id) ==
  ReadAndReturn(t, "get_functbl", id, 0,
    IF is_valid_id(id, 0) THEN plugin[id].functbl ELSE -ERR_INVALID)

(* The value is the pointer to the name, which lives as long as functbl. *)
GetAlgoName(t, id) ==
  ReadAndReturn(t, "get_algo_name", id, 0,
    IF is_valid_id(id, 0) THEN plugin[id].functbl ELSE -ERR_INVALID)

(* The loop of the two lookups over start .. end-1, where end -1 stands for *)
(* the end of the table: the first valid entry that matches.                *)
Found(Match(_), start, end) ==
  {i \in PluginIds : /\ start <= i /\ i < (IF end = -1 THEN nplugins ELSE end)
                     /\ is_valid_id(i, 0) /\ Match(i)}

LookupAnswers(found, val) ==
  \/ found = {} /\ val = -ERR_NONEXISTENT
  \/ val \in found /\ \A i \in found : val <= i

LookupByName(t, name, start, end) ==
  LET Match(i) == plugin[i].name = name IN
  \E val \in PluginIds \cup {-ERR_NONEXISTENT} :
    /\ LookupAnswers(Found(Match, start, end), val)
    /\ ReadAndReturn(t, "lookup_by_name", name, start, val)

LookupByType(t, type, start, end) ==
  LET Match(i) == plugin[i].type = type IN
  \E val \in PluginIds \cup {-ERR_NONEXISTENT} :
    /\ LookupAnswers(Found(Match, start, end), val)
    /\ ReadAndReturn(t, "lookup_by_type", type, start, val)

(* special_metadata succeeds for item <= 0 of a library with a path when   *)
(* stat finds its .rdf file.                                               *)
special_metadata(id, item, stat) ==
  IF item <= 0 /\ lib[plugin[id].lib.idx].path = "file" /\ stat = 0 THEN 0 ELSE -ERR_NONEXISTENT

(* Mutant of GetMetadata: an id that is not valid returns with the lock. *)
GetMetadata_NoUnlock(t, id, item, stat) ==
  /\ pc[t] = "read" /\ ~is_valid_id(id, 0)
  /\ Answer(t, "get_metadata", id, item, -ERR_NONEXISTENT)
  /\ Goto(t, "idle")
  /\ UNCHANGED <<refVars, lockVars, tableVars, w, md, calls>>

(* drew_loader_get_metadata for item >= 0, or for an id that is not valid. *)
GetMetadata(t, id, item, stat) ==
  /\ item >= 0 \/ ~is_valid_id(id, 0)
  /\ ReadAndReturn(t, "get_metadata", id, item,
       IF ~is_valid_id(id, 0) THEN -ERR_NONEXISTENT
       ELSE IF item < plugin[id].nmetadata THEN 0
       ELSE special_metadata(id, item - plugin[id].nmetadata, stat))

(* drew_loader_get_metadata, item < -1: returns without the unlock. *)
GetMetadataNegative(t, id, item) ==
  /\ pc[t] = "read"
  /\ item < -1 /\ is_valid_id(id, 0)
  /\ Answer(t, "get_metadata", id, item, -ERR_INVALID)
  /\ Goto(t, "idle")
  /\ UNCHANGED <<refVars, lockVars, tableVars, w, md, calls>>

(* drew_loader_get_metadata, item = -1: the special item is looked up under *)
(* the lock, the number of plain items is read after it is released.        *)
CountMetadata(t, id, stat) ==
  /\ pc[t] = "read"
  /\ is_valid_id(id, 0)
  /\ md' = [md EXCEPT ![t] = [id |-> id, extra |->
       IF special_metadata(id, -1 - plugin[id].nmetadata, stat) = 0 THEN 1 ELSE 0]]
  /\ ReaderUnlock(t)
  /\ Goto(t, "count")
  /\ UNCHANGED <<refVars, writer, tableVars, w, ret, calls>>

CountReturns(t) ==
  /\ pc[t] = "count"
  /\ Answer(t, "count_metadata", md[t].id, 0,
       IF pluginField = pluginMem
       THEN plugin[md[t].id].nmetadata + md[t].extra ELSE Garbage)
  /\ Goto(t, "idle")
  /\ UNCHANGED <<refVars, lockVars, tableVars, w, md, calls>>

----------------------------------------------------------------------------
(* Arguments a client may pass: -1, every entry, and one past the end. *)
Ids == -1 .. MaxPlugins

Loads(t) ==
  \/ WriterLock(t) \/ GrowLibTable(t) \/ RebaseLibPointers(t) \/ OpenLibrary(t)
  \/ \E err \in {ERR_RESOLUTION, ERR_ENUMERATION} : OpenFails(t, err)
  \/ \E n \in 0 .. MaxPlugins : GrowPluginTable(t, n)
  \/ EnumerationFails(t) \/ PublishPluginTable(t)
  \/ \E type \in Types, name \in Names, m \in MetaCounts : FillPlugin(t, type, name, m)
  \/ \E err \in {ERR_ENUMERATION, ERR_FUNCTION} : FillFails(t, err)
  \/ WriterUnlock(t)

Reads(t) ==
  \/ ReaderLock(t)
  \/ \E id \in Ids : GetNplugins(t, id) \/ GetType(t, id)
                     \/ GetFunctbl(t, id) \/ GetAlgoName(t, id)
  \/ \E name \in Names, start \in PluginIds, end \in Ids :
       LookupByName(t, name, start, end)
  \/ \E type \in Types, start \in PluginIds, end \in Ids :
       LookupByType(t, type, start, end)
  \/ \E id \in Ids, item \in MetaItems, stat \in {0, -1} : GetMetadata(t, id, item, stat)
  \/ \E id \in Ids, item \in MetaItems : GetMetadataNegative(t, id, item)
  \/ \E id \in Ids, stat \in {0, -1} : -1 \in MetaItems /\ CountMetadata(t, id, stat)
  \/ CountReturns(t)

(* What a thread inside a call does next. *)
Step(t) == Loads(t) \/ Reads(t) \/ Teardown(t)

Next == \E t \in Threads :
  \/ New(t) \/ (\E u \in Threads : Ref(t, u)) \/ Unref(t)
  \/ LoadPlugin(t) \/ Query(t) \/ Step(t)

Spec == Init /\ [][Next]_vars

(* A thread that is inside a call keeps running.  Nothing is assumed about *)
(* the lock beyond pthread_rwlock's default: a waiting writer gets it only *)
(* when it stays free.                                                     *)
FairSpec == Spec /\ \A t \in Threads : WF_vars(Step(t))

----------------------------------------------------------------------------
(* Every variable keeps its C type and its bound. *)
TypeOK ==
  /\ status \in {"none", "live", "freed"}
  /\ ref_count \in Int
  /\ owner \in [Refs -> Threads \cup {NULL}]
  /\ readers \in [Threads -> Int] /\ writer \in Threads \cup {NULL}
  /\ lib \in [LibIds -> Library] /\ nlibs \in 0 .. MaxLibs
  /\ libField \in Addrs \cup {NULL} /\ libMem \in Addrs \cup {NULL}
  /\ plugin \in [PluginIds -> Plugin] /\ nplugins \in 0 .. MaxPlugins
  /\ pluginField \in Addrs \cup {NULL} /\ pluginMem \in Addrs \cup {NULL}
  /\ blocks \subseteq PluginIds /\ handles \in Int
  /\ pc \in [Threads -> PCs]
  /\ w \in LoadLocals
  /\ md \in [Threads -> CountLocals]
  /\ ret \in [Threads -> Results]
  /\ calls \in Nat

(* The loader outlives its users: from the moment a thread starts to tear  *)
(* it down, no reference is left and no other thread is inside a call      *)
(* (drew_loader_ref, drew_loader_unref).                                   *)
TeardownAlone ==
  \A t \in Threads :
    /\ pc[t] = "teardown" => Held = {} /\ \A u \in Threads \ {t} : pc[u] = "idle"
    /\ status = "freed" => Held = {} /\ pc[t] = "idle"

(* The last drew_loader_unref closes every module that was opened and      *)
(* frees every block that was allocated, whatever mix of complete, partial *)
(* and failed loads came before it.                                        *)
NothingLeaked == status = "freed" => blocks = {} /\ handles = 0

(* Both tables are where the loader's fields say, and every entry marked   *)
(* OK points into the present library table and at a live block.           *)
Consistent ==
  /\ libField = libMem /\ pluginField = pluginMem
  /\ \A i \in PluginIds : i < nplugins /\ plugin[i].flags = FLAG_PLUGIN_OK =>
       /\ plugin[i].lib.base = libMem /\ plugin[i].lib.idx < nlibs
       /\ plugin[i].functbl \in blocks

(* A thread that holds the reader lock never sees the tables half moved by *)
(* a load (load_library and load_library_info against every query).        *)
ReadersSeeConsistentTables ==
  \A t \in Threads : pc[t] = "read" => Consistent

(* The id `first' is in use, and if it is not a dummy so are the ids of its *)
(* library that follow it.                                                  *)
Usable(first) ==
  /\ is_valid_id(first, 1)
  /\ is_valid_id(first, 0) =>
       \A i \in 0 .. MaxPlugins : i < lib[plugin[first].lib.idx].nplugins =>
         /\ is_valid_id(first + i, 0)
         /\ plugin[first + i].lib.idx = plugin[first].lib.idx

(* When drew_loader_load_plugin returned an id and its caller still owns a *)
(* reference, the caller may use the id the way test/plugin-main.c does:   *)
(* all the plugins of the library are there and stay there.                *)
LoadedRangeUsable ==
  \A t \in Threads : Holds(t) /\ ret[t].op = "load_plugin" /\ ret[t].val >= 0 =>
    Usable(ret[t].val)

Matches(a, i) ==
  IF a.op = "lookup_by_name" THEN plugin[i].name = a.key ELSE plugin[i].type = a.key

(* What a query answered is still true later, after other threads loaded   *)
(* more libraries and moved both tables: a type, a plugin count, a         *)
(* function table or name that can still be used, and a looked-up id that  *)
(* is still the first match of its range.                                  *)
AnswersStayTrue ==
  \A t \in Threads : Holds(t) /\ ret[t].val >= 0 =>
    LET a == ret[t] IN
    /\ a.op = "get_type" => is_valid_id(a.key, 0) /\ plugin[a.key].type = a.val
    /\ a.op \in {"get_functbl", "get_algo_name"} => a.val \in blocks
    /\ a.op = "get_nplugins" /\ a.key = -1 => a.val <= nplugins
    /\ a.op = "get_nplugins" /\ a.key # -1 =>
         /\ is_valid_id(a.key, 1)
         /\ is_valid_id(a.key, 0) => lib[plugin[a.key].lib.idx].nplugins = a.val
    /\ a.op \in {"lookup_by_name", "lookup_by_type"} =>
         /\ is_valid_id(a.val, 0) /\ Matches(a, a.val)
         /\ \A i \in PluginIds : a.start <= i /\ i < a.val =>
              ~(is_valid_id(i, 0) /\ Matches(a, i))

(* An id that is valid keeps its type, name, function table, metadata and  *)
(* library for as long as the loader lives (load_library, load_library_info).*)
IdsStable ==
  [][\A i \in PluginIds :
       i < nplugins /\ plugin[i].flags = FLAG_PLUGIN_OK /\ status' # "freed" =>
         /\ i < nplugins'
         /\ [plugin'[i] EXCEPT !.lib.base = NULL] = [plugin[i] EXCEPT !.lib.base = NULL]
    ]_vars

(* No lock outlives the call that took it: outside a critical section a    *)
(* thread holds neither half of the lock (every query, load_plugin).       *)
LocksReleased ==
  \A t \in Threads :
    /\ readers[t] = IF pc[t] = "read" THEN 1 ELSE 0
    /\ writer = t <=> pc[t] \in {"grow", "rebase", "open", "info", "publish",
                                 "fill", "wunlock"}

(* Every call returns: nobody waits for the lock for ever, and a search    *)
(* through the path ends (drew_loader_load_plugin, every query).           *)
CallsReturn == \A t \in Threads : pc[t] # "idle" ~> pc[t] = "idle"

(* drew_loader_new: "This protects everything except the reference count": *)
(* a query is never answered from a table that a load is moving.           *)
LockProtectsEverything == \A t \in Threads : ret[t].val # Garbage
=============================================================================
