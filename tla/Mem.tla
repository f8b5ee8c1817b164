-------------------------------- MODULE Mem --------------------------------
(***************************************************************************)
(* The memory allocator of libdrew (lib/libdrew/mem.c): a layer over the   *)
(* system's malloc that hands out secure chunks (locked in memory, erased  *)
(* when they are freed) and plain chunks, and keeps a list of the chunks   *)
(* that have to be erased.                                                 *)
(*                                                                         *)
(* Memory is an array of cells, PageSize of them to a page; mlock and      *)
(* munlock work on whole pages.  The two build switches of the source are  *)
(* state that never changes: odd = 1 where ODD_MLOCK_OK (Linux), zero = 1  *)
(* where DREW_MEM_ALWAYS_ZERO is defined.                                  *)
(*                                                                         *)
(* The list pool->alloc is the set of its entries: it is only ever         *)
(* searched for a pointer, and EntriesMatchChunks shows that no two        *)
(* entries hold the same one.  Every operation holds the pool's mutex from *)
(* its first access of the pool to its last, so each is one step; what     *)
(* drew_mem_memdup copies after the unlock is in memory no other thread    *)
(* knows of yet.  No caller can make a pool of its own                     *)
(* (drew_mem_pool_adjust refuses), so the pool is always the default one.  *)
(***************************************************************************)
EXTENDS Integers, FiniteSets

CONSTANTS
  NPages,     \* pages of memory
  PageSize,   \* cells of a page
  MaxSize,    \* bound: the largest size or count a client passes
  MaxChunks,  \* bound: chunks allocated at the same time
  SizeMod,    \* 2^(width of size_t): nmemb * size wraps here
  Builds      \* the builds of the library: records [odd, zero]

ASSUME MemAssumption ==
  /\ NPages \in Nat \ {0} /\ PageSize \in Nat \ {0}
  /\ MaxSize \in Nat /\ MaxChunks \in Nat /\ SizeMod \in Nat \ {0} /\ MaxSize < SizeMod
  /\ Builds \subseteq [odd : {0, 1}, zero : {0, 1}]

(* Every setting of the two switches, and Linux's. *)
AllBuilds == [odd : {0, 1}, zero : {0, 1}]
LinuxBuilds == [odd : {1}, zero : {0}]

NCells == NPages * PageSize
Cells == 0 .. NCells - 1
PageIds == 0 .. NPages - 1

(* The null pointer. *)
Null == -1

MEM_SECMEM == 1
MEM_ALLOC == 2
MEM_POOL == 3
SECMEM_FAIL_OK == 1
SECMEM_NO_LOCK == 2

(* A chunk of the heap as its user sees it.  Foreign chunks come straight   *)
(* from the system's malloc; `locked' is 1 when mlock succeeded on it.      *)
Chunk == [mem : Cells, size : 1 .. NCells, kind : {"plain", "secure", "foreign"},
          locked : {0, 1}]

(* struct allocation without its link. *)
Allocation == [mem : Cells, size : Nat, block : Nat]

VARIABLES
  build,    \* the build switches
  flags,    \* pool->flags, a set of SECMEM_ flags
  entries,  \* pool->alloc
  live,     \* the chunks that are allocated
  data,     \* what was last written to each cell: zeroes, or by whom
  locked,   \* the pages locked in memory
  crashed   \* 1 once the process died

vars == <<build, flags, entries, live, data, locked, crashed>>

Init ==
  /\ build \in Builds
  /\ flags = {} /\ entries = {} /\ live = {} /\ locked = {}
  /\ data = [x \in Cells |-> "zero"]
  /\ crashed = 0

----------------------------------------------------------------------------
(* The cells of n bytes at a, and the pages they touch. *)
Span(a, n) == a .. a + n - 1
Pages(a, n) == {p \in PageIds : p * PageSize < a + n /\ a < (p + 1) * PageSize}
CellsOf(c) == Span(c.mem, c.size)

(* The system's allocator may put n cells at a when they are all free. *)
Fits(chunks, a, n) ==
  /\ Cardinality(chunks) < MaxChunks
  /\ a \in Cells /\ a + n <= NCells
  /\ \A c \in chunks : Span(a, n) \cap CellsOf(c) = {}

(* Mutant of Placeable: secure memory comes from malloc in every build. *)
Placeable_Unaligned(a, n, kind) == Fits(live, a, n)

(* do_allocate: secure memory is page aligned where mlock demands it. *)
Placeable(a, n, kind) ==
  /\ Fits(live, a, n)
  /\ kind = "secure" /\ build.odd = 0 => \E p \in PageIds : a = p * PageSize

(* create_entry: the number of bytes to lock. *)
Block(n, kind) ==
  IF kind # "secure" THEN 0
  ELSE IF build.odd = 1 THEN n
  ELSE ((n + PageSize - 1) \div PageSize) * PageSize

(* Whether do_allocate makes an entry for a chunk of this kind. *)
Tracked(kind) == kind = "secure" \/ (kind = "plain" /\ build.zero = 1)

Entry(c) == [mem |-> c.mem, size |-> c.size, block |-> Block(c.size, c.kind)]

(* What the user of a chunk writes to it. *)
Content(kind) == IF kind = "secure" THEN "secret" ELSE kind

(* do_allocate succeeds with the chunk c and fills it: "keep" leaves what  *)
(* was there (malloc), "zero" clears it (calloc).                          *)
Create(c, fill) ==
  /\ live' = live \cup {c}
  /\ entries' = IF Tracked(c.kind) THEN entries \cup {Entry(c)} ELSE entries
  /\ locked' = IF c.locked = 1
               THEN locked \cup Pages(c.mem, Block(c.size, c.kind)) ELSE locked
  /\ data' = IF fill = "keep" THEN data
             ELSE [x \in Cells |-> IF x \in CellsOf(c) THEN fill ELSE data[x]]
  /\ UNCHANGED <<build, flags, crashed>>

(* Whether the lock of a chunk may come out as l: nothing is locked for    *)
(* plain memory or under NO_LOCK, and mlock may fail only under FAIL_OK.   *)
LockOutcome(kind, l) ==
  /\ l = 1 => kind = "secure" /\ SECMEM_NO_LOCK \notin flags
  /\ l = 0 => kind = "plain" \/ flags # {}

(* Mutant of Allocate: a zero-sized request reaches the system's malloc. *)
Allocate_ZeroSize(n, kind, fill) ==
  \E a \in Cells, l \in {0, 1} :
    /\ Placeable(a, n, kind) /\ LockOutcome(kind, l)
    /\ Create([mem |-> a, size |-> n, kind |-> kind, locked |-> l], fill)

Allocate(n, kind, fill) ==
  /\ n # 0
  /\ \E a \in Cells, l \in {0, 1} :
       /\ Placeable(a, n, kind) /\ LockOutcome(kind, l)
       /\ Create([mem |-> a, size |-> n, kind |-> kind, locked |-> l], fill)

(* drew_mem_malloc, drew_mem_smalloc (and the reallocs of a null pointer). *)
Malloc(n, kind) == crashed = 0 /\ Allocate(n, kind, "keep")

(* drew_mem_calloc, drew_mem_scalloc: the product wraps. *)
Calloc(nmemb, n, kind) == crashed = 0 /\ Allocate((nmemb * n) % SizeMod, kind, "zero")

(* drew_mem_memdup, drew_mem_smemdup. *)
Memdup(n, kind) == crashed = 0 /\ Allocate(n, kind, Content(kind))

(* Any of them: nothing was asked for, or malloc, posix_memalign, the entry *)
(* or mlock failed, and what was allocated so far is freed again.           *)
AllocateFails ==
  /\ crashed = 0
  /\ UNCHANGED vars

(* The client allocates with the system's malloc. *)
SystemMalloc(n) ==
  /\ crashed = 0 /\ n # 0
  /\ \E a \in Cells :
       /\ Fits(live, a, n)
       /\ live' = live \cup {[mem |-> a, size |-> n, kind |-> "foreign", locked |-> 0]}
  /\ UNCHANGED <<build, flags, entries, data, locked, crashed>>

(* The client fills a chunk it owns. *)
Write(c) ==
  /\ crashed = 0 /\ c \in live
  /\ data' = [x \in Cells |-> IF x \in CellsOf(c) THEN Content(c.kind) ELSE data[x]]
  /\ UNCHANGED <<build, flags, entries, live, locked, crashed>>

----------------------------------------------------------------------------
(* Mutants of Erased: too few cells, or as many as were locked. *)
Erased_First(e) == Span(e.mem, 1)
Erased_Block(e) == Span(e.mem, e.block)

(* drew_mem_psfree: what the memset clears. *)
Erased(e) == Span(e.mem, e.size)

(* Mutant of Unlocked: munlock is not called. *)
Unlocked_None(e) == {}

(* drew_mem_psfree: what munlock unlocks. *)
Unlocked(e) == IF e.block # 0 THEN Pages(e.mem, e.block) ELSE {}

(* Mutant of Unlinked: the entry is only unlinked when it was locked. *)
Unlinked_IfLocked(e) == IF e.block # 0 THEN {e} ELSE {}

(* drew_mem_psfree: the entry that leaves the list. *)
Unlinked(e) == {e}

(* drew_mem_psfree: a chunk that has an entry is erased and unlocked. *)
Forget(c) ==
  \/ /\ \A e \in entries : e.mem # c.mem
     /\ UNCHANGED <<data, locked, entries>>
  \/ \E e \in entries :
       /\ e.mem = c.mem
       /\ data' = [x \in Cells |-> IF x \in Erased(e) THEN "zero" ELSE data[x]]
       /\ locked' = locked \ Unlocked(e)
       /\ entries' = entries \ Unlinked(e)

(* drew_mem_sfree of any chunk (and drew_mem_srealloc to no bytes). *)
SFree(c) ==
  /\ crashed = 0 /\ c \in live
  /\ Forget(c)
  /\ live' = live \ {c}
  /\ UNCHANGED <<build, flags, crashed>>

(* drew_mem_free (and drew_mem_realloc to no bytes).  Its callers pass it   *)
(* no secure chunk: without ALWAYS_ZERO it is the system's free.            *)
Free(c) ==
  /\ crashed = 0 /\ c \in live
  /\ IF build.zero = 1 THEN Forget(c)
     ELSE c.kind # "secure" /\ UNCHANGED <<data, locked, entries>>
  /\ live' = live \ {c}
  /\ UNCHANGED <<build, flags, crashed>>

Lesser(m, n) == IF m < n THEN m ELSE n

(* The contents after n cells at b were copied to a. *)
Copied(a, b, n) == [x \in Cells |-> IF x \in Span(a, n) THEN data[b + (x - a)] ELSE data[x]]

(* drew_mem_realloc without ALWAYS_ZERO: the system's realloc, which grows *)
(* or shrinks the chunk in place or moves it.                              *)
Realloc(c, n) ==
  /\ crashed = 0 /\ c \in live /\ c.kind # "secure" /\ n # 0
  /\ build.zero = 0
  /\ \E a \in Cells :
       /\ Fits(live \ {c}, a, n)
       /\ a # c.mem => Span(a, n) \cap CellsOf(c) = {}
       /\ live' = (live \ {c}) \cup {[c EXCEPT !.mem = a, !.size = n]}
       /\ data' = Copied(a, c.mem, Lesser(c.size, n))
  /\ UNCHANGED <<build, flags, entries, locked, crashed>>

(* drew_mem_srealloc, and drew_mem_realloc with ALWAYS_ZERO: once the new  *)
(* chunk is there do_realloc is called with the caller's null pool, and    *)
(* unlike allocate and psfree does not replace it: locking it is fatal.    *)
(* The process and its memory are gone.                                    *)
ReallocCrashes(c, n, kind) ==
  /\ crashed = 0 /\ c \in live /\ n # 0
  /\ kind = "secure" \/ build.zero = 1
  /\ \E a \in Cells, l \in {0, 1} : Placeable(a, n, kind) /\ LockOutcome(kind, l)
  /\ crashed' = 1
  /\ flags' = {} /\ entries' = {} /\ live' = {} /\ locked' = {}
  /\ data' = [x \in Cells |-> "zero"]
  /\ UNCHANGED build

(* drew_mem_pool_adjust: only the flags of the default pool's secure       *)
(* memory can be changed; chunks that exist keep what they got.            *)
PoolAdjust(pool, op, f) ==
  /\ crashed = 0
  /\ flags' = IF pool = Null /\ op = MEM_SECMEM THEN f ELSE flags
  /\ UNCHANGED <<build, entries, live, data, locked, crashed>>

----------------------------------------------------------------------------
Sizes == 0 .. MaxSize
Kinds == {"plain", "secure"}

Next ==
  \/ \E n \in Sizes, kind \in Kinds : Malloc(n, kind) \/ Memdup(n, kind)
  \/ \E nmemb \in Sizes, n \in Sizes, kind \in Kinds : Calloc(nmemb, n, kind)
  \/ AllocateFails
  \/ \E n \in Sizes : SystemMalloc(n)
  \/ \E c \in live : Write(c) \/ SFree(c) \/ Free(c)
  \/ \E c \in live, n \in Sizes : Realloc(c, n)
  \/ \E c \in live, n \in Sizes, kind \in Kinds : ReallocCrashes(c, n, kind)
  \/ \E pool \in {Null, 0}, op \in {MEM_SECMEM, MEM_ALLOC, MEM_POOL},
        f \in SUBSET {SECMEM_FAIL_OK, SECMEM_NO_LOCK} : PoolAdjust(pool, op, f)

Spec == Init /\ [][Next]_vars

----------------------------------------------------------------------------
(* Every variable keeps its type; no chunk is empty or leaves memory. *)
TypeOK ==
  /\ build \in Builds
  /\ flags \subseteq {SECMEM_FAIL_OK, SECMEM_NO_LOCK}
  /\ entries \subseteq Allocation
  /\ live \subseteq Chunk
  /\ data \in [Cells -> {"zero", "plain", "secret", "foreign"}]
  /\ locked \subseteq PageIds
  /\ crashed \in {0, 1}

(* The list of the pool names exactly the live chunks that have to be      *)
(* erased, with the sizes they were made with (do_allocate against         *)
(* psfree and pfree): no entry outlives its chunk, where it would erase    *)
(* and unlock whatever is allocated there next.                            *)
EntriesMatchChunks == entries = {Entry(c) : c \in {d \in live : Tracked(d.kind)}}

(* mem.c's promise: nothing written to secure memory is found in memory    *)
(* that is free or belongs to somebody else, and with ALWAYS_ZERO nothing  *)
(* written to plain Drew memory either, whatever the order in which chunks *)
(* were made, moved and freed (psfree, pfree, realloc).                    *)
SecretsErased ==
  \A x \in Cells :
    /\ data[x] = "secret" => \E c \in live : c.kind = "secure" /\ x \in CellsOf(c)
    /\ data[x] = "plain" /\ build.zero = 1 =>
         \E c \in live : c.kind = "plain" /\ x \in CellsOf(c)

(* Locked memory is a limited resource: a page stays locked only while a   *)
(* secure chunk reaches into it (do_allocate, psfree).                     *)
NoLockLeak ==
  \A p \in locked : \E c \in live : c.kind = "secure" /\ p \in Pages(c.mem, c.size)

(* A secure chunk that was locked stays locked until it is freed, whatever *)
(* other chunks do.                                                        *)
StaysLocked == \A c \in live : c.locked = 1 => Pages(c.mem, c.size) \subseteq locked

(* That holds where secure memory is page aligned (do_allocate with        *)
(* posix_memalign, create_entry's rounding, psfree's munlock).             *)
LockedWhileLive == build.odd = 0 => StaysLocked

(* Making or freeing a chunk changes the contents of no other live chunk   *)
(* (the memset of psfree and the clearing of calloc stay inside theirs).   *)
OthersUntouched ==
  [][live' # live =>
       \A c \in live \cap live' : \A x \in CellsOf(c) : data'[x] = data[x]]_vars
=============================================================================
