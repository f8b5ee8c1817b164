----------------------------- MODULE MemProofs -----------------------------
(***************************************************************************)
(* Proofs about the allocator, for memories, page sizes and builds of      *)
(* every kind.  The invariants lean on two facts about the heap: chunks do *)
(* not overlap, so a pointer finds the entry of its own chunk and of no    *)
(* other; and secure chunks that start on a page boundary share no page,   *)
(* so unlocking one leaves the others locked.                              *)
(***************************************************************************)
EXTENDS Mem, TLAPS

(* Multiplication by a page size keeps and reflects the order. *)
LEMMA MulMono ==
  ASSUME NEW i \in Int, NEW j \in Int, NEW P \in Nat \ {0}, i <= j
  PROVE  i * P <= j * P
  OBVIOUS

LEMMA MulLess ==
  ASSUME NEW i \in Int, NEW j \in Int, NEW P \in Nat \ {0}, i * P < j * P
  PROVE  i < j
  BY MulMono

LEMMA RoundUp ==
  ASSUME NEW n \in Nat, NEW P \in Nat \ {0}
  PROVE  LET m == (n + P - 1) \div P
         IN  m \in Nat /\ n <= m * P /\ m * P <= n + P - 1
  OBVIOUS

LEMMA Constants ==
  /\ PageSize \in Nat \ {0} /\ NPages \in Nat \ {0} /\ NCells \in Nat
  /\ \A p \in PageIds : p * PageSize \in Cells
  BY MemAssumption, MulMono DEF NCells, PageIds, Cells

----------------------------------------------------------------------------
(* Pages of aligned chunks. *)

Starts(a) == \E p \in PageIds : a = p * PageSize

(* A page that an aligned chunk reaches begins with a cell of that chunk. *)
LEMMA HeadCell ==
  ASSUME NEW a \in Cells, Starts(a), NEW n \in Nat \ {0}, NEW p \in Pages(a, n)
  PROVE  p * PageSize \in Span(a, n)
<1>1. PICK k \in PageIds : a = k * PageSize
  BY DEF Starts
<1>2. /\ p \in PageIds /\ p \in Int /\ k \in Int /\ p + 1 \in Int
      /\ p * PageSize < a + n /\ a < (p + 1) * PageSize
  BY Constants DEF Pages, PageIds
<1>3. k < p + 1
  BY <1>1, <1>2, MulLess, Constants
<1>4. k * PageSize <= p * PageSize
  BY <1>2, <1>3, MulMono, Constants
<1>5. p * PageSize \in Int /\ a \in Int
  BY <1>2, Constants DEF Cells
<1> QED
  BY <1>1, <1>2, <1>4, <1>5 DEF Span

(* Rounding the size of an aligned chunk up adds no page to it. *)
LEMMA BlockPages ==
  ASSUME build \in Builds, NEW a \in Cells, NEW n \in Nat \ {0},
         build.odd = 0 => Starts(a)
  PROVE  Pages(a, Block(n, "secure")) = Pages(a, n)
<1>1. CASE build.odd = 1
  BY <1>1 DEF Block
<1>2. CASE build.odd # 1
  <2> DEFINE m == (n + PageSize - 1) \div PageSize
  <2>1. build.odd = 0
    BY <1>2, MemAssumption
  <2>2. PICK k \in PageIds : a = k * PageSize
    BY <2>1 DEF Starts
  <2>3. Block(n, "secure") = m * PageSize
    BY <1>2 DEF Block
  <2>4. m \in Nat /\ n <= m * PageSize /\ m * PageSize <= n + PageSize - 1
    BY RoundUp, Constants
  <2> HIDE DEF m
  <2>5. ASSUME NEW p \in PageIds
        PROVE  p * PageSize < a + m * PageSize /\ a < (p + 1) * PageSize
                 <=> p * PageSize < a + n /\ a < (p + 1) * PageSize
    <3>1. p \in Int /\ k \in Int /\ a \in Int /\ n \in Int
      BY Constants DEF PageIds, Cells
    <3>2. p * PageSize \in Int /\ m * PageSize \in Int /\ k * PageSize \in Int
      BY <3>1, <2>4, Constants
    <3>3. p * PageSize < a + n => p * PageSize < a + m * PageSize
      BY <3>1, <3>2, <2>4
    <3>4. ASSUME p * PageSize < a + m * PageSize
          PROVE  p * PageSize < a + n
      <4>1. a + m * PageSize = (k + m) * PageSize
        BY <2>2, <2>4, <3>1, Constants
      <4>2. p < k + m
        BY <3>1, <3>4, <4>1, <2>4, MulLess, Constants
      <4>3. p * PageSize <= (k + m - 1) * PageSize
        BY <3>1, <4>2, <2>4, MulMono, Constants
      <4>4. (k + m - 1) * PageSize = a + m * PageSize - PageSize
        BY <2>2, <2>4, <3>1, Constants
      <4> QED
        BY <4>3, <4>4, <2>4, <3>1, <3>2, Constants
    <3> QED
      BY <3>3, <3>4
  <2> QED
    BY <2>3, <2>5 DEF Pages
<1> QED
  BY <1>1, <1>2

----------------------------------------------------------------------------
(* The inductive invariant. *)

(* Chunks lie inside memory and do not overlap. *)
HeapInv ==
  /\ \A c \in live : c.mem + c.size <= NCells
  /\ \A c \in live, d \in live : c # d => CellsOf(c) \cap CellsOf(d) = {}

(* Only secure chunks are locked, and they are aligned where mlock says so. *)
AlignInv ==
  /\ \A c \in live : c.locked = 1 => c.kind = "secure"
  /\ build.odd = 0 => \A c \in live : c.kind = "secure" => Starts(c.mem)

IInv ==
  /\ TypeOK /\ HeapInv /\ AlignInv
  /\ EntriesMatchChunks /\ SecretsErased /\ NoLockLeak /\ LockedWhileLive

(* A pointer belongs to one chunk. *)
LEMMA OneChunk ==
  ASSUME TypeOK, HeapInv, NEW c \in live, NEW d \in live, c.mem = d.mem
  PROVE  c = d
<1>1. c.mem \in CellsOf(c) /\ c.mem \in CellsOf(d)
  BY Constants DEF TypeOK, Chunk, CellsOf, Span, Cells
<1> QED
  BY <1>1 DEF HeapInv

(* Where secure memory is aligned, secure chunks share no page. *)
LEMMA PagesApart ==
  ASSUME TypeOK, HeapInv, AlignInv, build.odd = 0,
         NEW c \in live, NEW d \in live, c # d,
         c.kind = "secure", d.kind = "secure"
  PROVE  Pages(c.mem, c.size) \cap Pages(d.mem, d.size) = {}
<1> SUFFICES ASSUME NEW p \in Pages(c.mem, c.size), p \in Pages(d.mem, d.size)
             PROVE  FALSE
  OBVIOUS
<1>1. /\ c.mem \in Cells /\ d.mem \in Cells /\ c.size \in Nat \ {0} /\ d.size \in Nat \ {0}
      /\ Starts(c.mem) /\ Starts(d.mem)
  BY Constants DEF TypeOK, Chunk, AlignInv
<1>2. p * PageSize \in CellsOf(c) /\ p * PageSize \in CellsOf(d)
  BY <1>1, HeadCell DEF CellsOf
<1> QED
  BY <1>2 DEF HeapInv

LEMMA InitIInv == Init => IInv
<1> SUFFICES ASSUME Init PROVE IInv
  OBVIOUS
<1>1. TypeOK
  BY DEF Init, TypeOK
<1>2. HeapInv /\ AlignInv /\ NoLockLeak /\ LockedWhileLive
  BY DEF Init, HeapInv, AlignInv, NoLockLeak, LockedWhileLive, StaysLocked
<1>3. EntriesMatchChunks
  BY DEF Init, EntriesMatchChunks
<1>4. SecretsErased
  BY DEF Init, SecretsErased
<1> QED
  BY <1>1, <1>2, <1>3, <1>4 DEF IInv

----------------------------------------------------------------------------
(* Making a chunk. *)

(* The operators that read the build mean the same after a step. *)
LEMMA SameBuild ==
  ASSUME build' = build
  PROVE  /\ \A n, kind : Block(n, kind)' = Block(n, kind)
         /\ \A kind : Tracked(kind)' = Tracked(kind)
         /\ \A c : Entry(c)' = Entry(c)
  BY DEF Block, Tracked, Entry

LEMMA EntryFacts ==
  ASSUME build \in Builds, NEW c \in Chunk
  PROVE  /\ Entry(c) \in Allocation
         /\ Entry(c).mem = c.mem /\ Entry(c).size = c.size
         /\ Entry(c).block = Block(c.size, c.kind)
         /\ c.kind = "secure" => Entry(c).block # 0
         /\ c.kind # "secure" => Entry(c).block = 0
<1>1. c.mem \in Cells /\ c.size \in Nat \ {0} /\ c.size \in Nat
  BY Constants DEF Chunk
<1>2. c.kind # "secure" => Block(c.size, c.kind) = 0
  BY DEF Block
<1>3. c.kind = "secure" => Block(c.size, c.kind) \in Nat \ {0}
  <2> DEFINE m == (c.size + PageSize - 1) \div PageSize
  <2>1. m \in Nat /\ c.size <= m * PageSize
    BY <1>1, RoundUp, Constants
  <2>2. m * PageSize \in Nat
    BY <2>1, Constants
  <2> QED
    BY <1>1, <2>1, <2>2 DEF Block
<1> QED
  BY <1>1, <1>2, <1>3 DEF Entry, Allocation

(* A new chunk c that fits keeps the invariant. *)
LEMMA CreateStep ==
  ASSUME IInv, NEW n \in Nat \ {0}, NEW kind \in Kinds, NEW a \in Cells, NEW l \in {0, 1},
         NEW fill \in {"keep", "zero", Content(kind)},
         Placeable(a, n, kind), LockOutcome(kind, l),
         Create([mem |-> a, size |-> n, kind |-> kind, locked |-> l], fill)
  PROVE  IInv'
<1> DEFINE c == [mem |-> a, size |-> n, kind |-> kind, locked |-> l]
<1> USE DEF IInv
<1>1. /\ c.mem = a /\ c.size = n /\ c.kind = kind /\ c.locked = l
      /\ CellsOf(c) = Span(a, n)
  BY DEF CellsOf
<1>2. /\ live' = live \cup {c} /\ build' = build /\ flags' = flags /\ crashed' = crashed
      /\ entries' = IF Tracked(kind) THEN entries \cup {Entry(c)} ELSE entries
      /\ locked' = IF l = 1 THEN locked \cup Pages(a, Block(n, kind)) ELSE locked
      /\ data' = IF fill = "keep" THEN data
                 ELSE [x \in Cells |-> IF x \in CellsOf(c) THEN fill ELSE data[x]]
  BY <1>1 DEF Create
<1>3. /\ a + n <= NCells
      /\ \A d \in live : CellsOf(c) \cap CellsOf(d) = {}
      /\ kind = "secure" /\ build.odd = 0 => Starts(a)
  BY <1>1 DEF Placeable, Fits, Starts
<1>4. n \in 1 .. NCells /\ c \in Chunk
  BY <1>3, Constants DEF Chunk, Kinds, Cells
<1>5. /\ l = 1 => kind = "secure"
      /\ Content(kind) \in {"plain", "secret"}
      /\ Content(kind) = "secret" => kind = "secure"
      /\ Content(kind) = "plain" => kind = "plain"
  BY DEF LockOutcome, Content, Kinds
<1> HIDE DEF c
<1>6. TypeOK'
  <2>1. entries' \subseteq Allocation
    BY <1>2, <1>4, EntryFacts DEF TypeOK
  <2>2. locked' \subseteq PageIds
    BY <1>2 DEF TypeOK, Pages
  <2>3. data' \in [Cells -> {"zero", "plain", "secret", "foreign"}]
    BY <1>2, <1>5 DEF TypeOK
  <2> QED
    BY <1>2, <1>4, <2>1, <2>2, <2>3 DEF TypeOK
<1>7. HeapInv'
  BY <1>1, <1>2, <1>3 DEF HeapInv
<1>8. AlignInv'
  BY <1>1, <1>2, <1>3, <1>5 DEF AlignInv
<1>9. EntriesMatchChunks'
  <2>1. \A d : Entry(d)' = Entry(d) /\ Tracked(d.kind)' = Tracked(d.kind)
    BY <1>2, SameBuild
  <2>2. entries = {Entry(d) : d \in {e \in live : Tracked(e.kind)}}
    BY DEF EntriesMatchChunks
  <2>3. entries' = {Entry(d) : d \in {e \in live' : Tracked(e.kind)}}
    BY <1>1, <1>2, <2>2
  <2> QED
    BY <2>1, <2>3 DEF EntriesMatchChunks
<1>10. SecretsErased'
  <2> SUFFICES ASSUME NEW x \in Cells
               PROVE  /\ data'[x] = "secret" => \E d \in live' : d.kind = "secure" /\ x \in CellsOf(d)
                      /\ data'[x] = "plain" /\ build'.zero = 1 =>
                           \E d \in live' : d.kind = "plain" /\ x \in CellsOf(d)
    BY DEF SecretsErased, CellsOf
  <2>1. CASE x \in CellsOf(c) /\ fill # "keep"
    BY <2>1, <1>1, <1>2, <1>5
  <2>2. CASE x \notin CellsOf(c) \/ fill = "keep"
    <3>1. data'[x] = data[x]
      BY <2>2, <1>2 DEF TypeOK
    <3> QED
      BY <3>1, <1>2 DEF SecretsErased
  <2> QED
    BY <2>1, <2>2
<1>11. c.kind = "secure" => Pages(a, Block(n, kind)) = Pages(c.mem, c.size)
  BY <1>1, <1>3, BlockPages DEF TypeOK
<1>12. NoLockLeak'
  <2>1. \A p \in locked' : \E d \in live' : d.kind = "secure" /\ p \in Pages(d.mem, d.size)
    BY <1>1, <1>2, <1>5, <1>11 DEF NoLockLeak
  <2> QED
    BY <2>1 DEF NoLockLeak
<1>13. LockedWhileLive'
  BY <1>1, <1>2, <1>5, <1>11 DEF LockedWhileLive, StaysLocked
<1> QED
  BY <1>6, <1>7, <1>8, <1>9, <1>10, <1>12, <1>13

LEMMA AllocateStep ==
  ASSUME IInv, NEW n \in Nat, NEW kind \in Kinds,
         NEW fill \in {"keep", "zero", Content(kind)}, Allocate(n, kind, fill)
  PROVE  IInv'
<1>1. PICK a \in Cells, l \in {0, 1} :
        /\ Placeable(a, n, kind) /\ LockOutcome(kind, l)
        /\ Create([mem |-> a, size |-> n, kind |-> kind, locked |-> l], fill)
  BY DEF Allocate
<1> QED
  BY <1>1, CreateStep DEF Allocate

(* The list and the locks after a step that changes only chunks the list  *)
(* does not know.                                                          *)
LEMMA SameTracked ==
  ASSUME IInv, build' = build, entries' = entries, locked' = locked,
         \A d : Tracked(d.kind) \/ d.kind = "secure" => (d \in live' <=> d \in live)
  PROVE  EntriesMatchChunks' /\ NoLockLeak'
<1> USE DEF IInv
<1>1. \A d : Entry(d)' = Entry(d) /\ Tracked(d.kind)' = Tracked(d.kind)
  BY SameBuild
<1>2. entries = {Entry(d) : d \in {e \in live : Tracked(e.kind)}}
  BY DEF EntriesMatchChunks
<1>3. {e \in live' : Tracked(e.kind)} = {e \in live : Tracked(e.kind)}
  OBVIOUS
<1>4. EntriesMatchChunks'
  BY <1>1, <1>2, <1>3 DEF EntriesMatchChunks
<1>5. NoLockLeak'
  BY DEF NoLockLeak
<1> QED
  BY <1>4, <1>5

LEMMA SystemMallocStep ==
  ASSUME IInv, NEW n \in Nat, SystemMalloc(n)
  PROVE  IInv'
<1> USE DEF IInv
<1>1. PICK a \in Cells :
        /\ Fits(live, a, n)
        /\ live' = live \cup {[mem |-> a, size |-> n, kind |-> "foreign", locked |-> 0]}
  BY DEF SystemMalloc
<1>2. /\ build' = build /\ flags' = flags /\ entries' = entries /\ data' = data
      /\ locked' = locked /\ crashed' = crashed /\ n # 0
  BY DEF SystemMalloc
<1> DEFINE c == [mem |-> a, size |-> n, kind |-> "foreign", locked |-> 0]
<1>3. c.mem = a /\ c.size = n /\ c.kind = "foreign" /\ c.locked = 0 /\ CellsOf(c) = Span(a, n)
  BY DEF CellsOf
<1>4. /\ a + n <= NCells /\ \A d \in live : CellsOf(c) \cap CellsOf(d) = {}
      /\ live' = live \cup {c}
  BY <1>1, <1>3 DEF Fits
<1>5. c \in Chunk
  BY <1>2, <1>4, Constants DEF Chunk, Cells
<1> HIDE DEF c
<1>6. TypeOK'
  BY <1>2, <1>4, <1>5 DEF TypeOK
<1>7. HeapInv'
  BY <1>3, <1>4 DEF HeapInv
<1>8. AlignInv'
  BY <1>2, <1>3, <1>4 DEF AlignInv
<1>9. EntriesMatchChunks' /\ NoLockLeak'
  BY <1>2, <1>3, <1>4, SameTracked DEF Tracked
<1>10. SecretsErased'
  BY <1>2, <1>4 DEF SecretsErased
<1>11. LockedWhileLive'
  BY <1>2, <1>3, <1>4 DEF LockedWhileLive, StaysLocked
<1> QED
  BY <1>6, <1>7, <1>8, <1>9, <1>10, <1>11

LEMMA WriteStep ==
  ASSUME IInv, NEW c \in live, Write(c)
  PROVE  IInv'
<1> USE DEF IInv
<1>1. /\ data' = [x \in Cells |-> IF x \in CellsOf(c) THEN Content(c.kind) ELSE data[x]]
      /\ build' = build /\ flags' = flags /\ entries' = entries /\ live' = live
      /\ locked' = locked /\ crashed' = crashed
  BY DEF Write
<1>2. /\ Content(c.kind) \in {"plain", "secret", "foreign"}
      /\ Content(c.kind) = "secret" => c.kind = "secure"
      /\ Content(c.kind) = "plain" => c.kind = "plain"
  BY DEF Content, TypeOK, Chunk
<1>3. TypeOK'
  BY <1>1, <1>2 DEF TypeOK
<1>4. HeapInv' /\ AlignInv' /\ LockedWhileLive'
  BY <1>1 DEF HeapInv, AlignInv, LockedWhileLive, StaysLocked
<1>5. EntriesMatchChunks' /\ NoLockLeak'
  BY <1>1, SameTracked
<1>6. SecretsErased'
  <2> SUFFICES ASSUME NEW x \in Cells
               PROVE  /\ data'[x] = "secret" => \E d \in live : d.kind = "secure" /\ x \in CellsOf(d)
                      /\ data'[x] = "plain" /\ build.zero = 1 =>
                           \E d \in live : d.kind = "plain" /\ x \in CellsOf(d)
    BY <1>1 DEF SecretsErased
  <2>1. CASE x \in CellsOf(c)
    BY <2>1, <1>1, <1>2
  <2>2. CASE x \notin CellsOf(c)
    BY <2>2, <1>1 DEF SecretsErased
  <2> QED
    BY <2>1, <2>2
<1> QED
  BY <1>3, <1>4, <1>5, <1>6

----------------------------------------------------------------------------
(* Freeing a chunk. *)

(* psfree finds the entry of its own chunk, if there is one. *)
LEMMA ForgetFacts ==
  ASSUME IInv, NEW c \in live, Forget(c)
  PROVE  \/ /\ Tracked(c.kind)
            /\ data' = [x \in Cells |-> IF x \in CellsOf(c) THEN "zero" ELSE data[x]]
            /\ locked' = locked \ (IF c.kind = "secure" THEN Pages(c.mem, c.size) ELSE {})
            /\ entries' = entries \ {Entry(c)}
         \/ ~Tracked(c.kind) /\ UNCHANGED <<data, locked, entries>>
<1> USE DEF IInv
<1>1. c \in Chunk /\ build \in Builds
  BY DEF TypeOK
<1>2. entries = {Entry(d) : d \in {e \in live : Tracked(e.kind)}}
  BY DEF EntriesMatchChunks
<1>3. ASSUME NEW e \in entries, e.mem = c.mem
      PROVE  e = Entry(c) /\ Tracked(c.kind)
  <2>1. PICK d \in live : Tracked(d.kind) /\ e = Entry(d)
    BY <1>2
  <2>2. d \in Chunk /\ e.mem = d.mem
    BY <2>1, <1>1, EntryFacts DEF TypeOK
  <2>3. d = c
    BY <2>2, <1>3, OneChunk
  <2> QED
    BY <2>1, <2>3
<1>4. CASE \A e \in entries : e.mem # c.mem
  <2>1. ~Tracked(c.kind)
    BY <1>1, <1>2, <1>4, EntryFacts
  <2>2. UNCHANGED <<data, locked, entries>>
    BY <1>4 DEF Forget
  <2> QED
    BY <2>1, <2>2
<1>5. CASE \E e \in entries : e.mem = c.mem
  <2>1. PICK e \in entries :
          /\ e.mem = c.mem
          /\ data' = [x \in Cells |-> IF x \in Erased(e) THEN "zero" ELSE data[x]]
          /\ locked' = locked \ Unlocked(e)
          /\ entries' = entries \ Unlinked(e)
    BY <1>5 DEF Forget
  <2>2. e = Entry(c) /\ Tracked(c.kind)
    BY <1>3, <2>1
  <2>3. Erased(e) = CellsOf(c)
    BY <2>2, <1>1, EntryFacts DEF Erased, CellsOf
  <2>4. Unlocked(e) = IF c.kind = "secure" THEN Pages(c.mem, c.size) ELSE {}
    <3>1. c.mem \in Cells /\ c.size \in Nat \ {0}
      BY <1>1, Constants DEF Chunk
    <3>2. c.kind = "secure" => Pages(c.mem, Block(c.size, c.kind)) = Pages(c.mem, c.size)
      BY <3>1, <1>1, BlockPages DEF AlignInv
    <3> QED
      BY <2>2, <1>1, <3>2, EntryFacts DEF Unlocked
  <2> QED
    BY <2>1, <2>2, <2>3, <2>4 DEF Unlinked
<1> QED
  BY <1>4, <1>5

(* What is left when chunk c is gone. *)
LEMMA DropStep ==
  ASSUME IInv, NEW c \in live, live' = live \ {c},
         build' = build, flags' = flags, crashed' = crashed,
         \/ Forget(c)
         \/ build.zero = 0 /\ c.kind # "secure" /\ UNCHANGED <<data, locked, entries>>
  PROVE  IInv'
<1> USE DEF IInv
<1>1. \/ /\ Tracked(c.kind)
         /\ data' = [x \in Cells |-> IF x \in CellsOf(c) THEN "zero" ELSE data[x]]
         /\ locked' = locked \ (IF c.kind = "secure" THEN Pages(c.mem, c.size) ELSE {})
         /\ entries' = entries \ {Entry(c)}
      \/ ~Tracked(c.kind) /\ UNCHANGED <<data, locked, entries>>
  BY ForgetFacts DEF Tracked
<1>2. c \in Chunk /\ build \in Builds
  BY DEF TypeOK
<1>3. TypeOK'
  BY <1>1 DEF TypeOK
<1>4. HeapInv' /\ AlignInv'
  BY DEF HeapInv, AlignInv
<1>5. EntriesMatchChunks'
  <2>1. \A d : Entry(d)' = Entry(d) /\ Tracked(d.kind)' = Tracked(d.kind)
    BY SameBuild
  <2>2. entries = {Entry(d) : d \in {e \in live : Tracked(e.kind)}}
    BY DEF EntriesMatchChunks
  <2>3. \A d \in live : Entry(d) = Entry(c) => d = c
    BY <1>2, EntryFacts, OneChunk DEF TypeOK
  <2>4. entries' = {Entry(d) : d \in {e \in live' : Tracked(e.kind)}}
    BY <1>1, <2>2, <2>3
  <2> QED
    BY <2>1, <2>4 DEF EntriesMatchChunks
<1>6. SecretsErased'
  <2> SUFFICES ASSUME NEW x \in Cells
               PROVE  /\ data'[x] = "secret" => \E d \in live' : d.kind = "secure" /\ x \in CellsOf(d)
                      /\ data'[x] = "plain" /\ build.zero = 1 =>
                           \E d \in live' : d.kind = "plain" /\ x \in CellsOf(d)
    BY DEF SecretsErased, CellsOf
  <2>1. CASE Tracked(c.kind)
    <3>1. CASE x \in CellsOf(c)
      BY <2>1, <3>1, <1>1
    <3>2. CASE x \notin CellsOf(c)
      BY <2>1, <3>2, <1>1 DEF SecretsErased
    <3> QED
      BY <3>1, <3>2
  <2>2. CASE ~Tracked(c.kind)
    BY <2>2, <1>1 DEF SecretsErased, Tracked
  <2> QED
    BY <2>1, <2>2
<1>7. NoLockLeak'
  <2> SUFFICES ASSUME NEW p \in locked'
               PROVE  \E d \in live' : d.kind = "secure" /\ p \in Pages(d.mem, d.size)
    BY DEF NoLockLeak
  <2>1. p \in locked
    BY <1>1
  <2>2. PICK d \in live : d.kind = "secure" /\ p \in Pages(d.mem, d.size)
    BY <2>1 DEF NoLockLeak
  <2>3. d # c
    BY <2>2, <1>1 DEF Tracked
  <2> QED
    BY <2>2, <2>3
<1>8. LockedWhileLive'
  <2> SUFFICES ASSUME build.odd = 0, NEW d \in live', d.locked = 1
               PROVE  Pages(d.mem, d.size) \subseteq locked'
    BY DEF LockedWhileLive, StaysLocked
  <2>1. d \in live /\ d # c /\ d.kind = "secure"
    BY DEF AlignInv
  <2>2. Pages(d.mem, d.size) \subseteq locked
    BY <2>1 DEF LockedWhileLive, StaysLocked
  <2>3. c.kind = "secure" => Pages(c.mem, c.size) \cap Pages(d.mem, d.size) = {}
    BY <2>1, PagesApart
  <2> QED
    BY <1>1, <2>2, <2>3
<1> QED
  BY <1>3, <1>4, <1>5, <1>6, <1>7, <1>8

----------------------------------------------------------------------------
(* Moving a chunk. *)

LEMMA ReallocStep ==
  ASSUME IInv, NEW c \in live, NEW n \in Nat, Realloc(c, n)
  PROVE  IInv'
<1> USE DEF IInv
<1> DEFINE moved(a) == [c EXCEPT !.mem = a, !.size = n]
<1>1. PICK a \in Cells :
        /\ Fits(live \ {c}, a, n)
        /\ live' = (live \ {c}) \cup {moved(a)}
        /\ data' = Copied(a, c.mem, Lesser(c.size, n))
  BY DEF Realloc
<1>2. /\ build' = build /\ flags' = flags /\ entries' = entries /\ locked' = locked
      /\ crashed' = crashed /\ n # 0 /\ c.kind # "secure" /\ build.zero = 0
  BY DEF Realloc
<1> DEFINE d == moved(a)
           m == Lesser(c.size, n)
<1>3. /\ c \in Chunk /\ c.mem \in Int /\ c.size \in Nat \ {0} /\ a \in Int
      /\ c.mem + c.size <= NCells /\ c.mem >= 0 /\ c.locked # 1
  BY <1>2, Constants DEF TypeOK, Chunk, Cells, HeapInv, AlignInv
<1>4. /\ d.mem = a /\ d.size = n /\ d.kind = c.kind /\ d.locked = c.locked
      /\ CellsOf(d) = Span(a, n)
  BY <1>3 DEF CellsOf, Chunk
<1>5. /\ a + n <= NCells
      /\ \A e \in live \ {c} : CellsOf(d) \cap CellsOf(e) = {}
      /\ live' = (live \ {c}) \cup {d}
  BY <1>1, <1>4 DEF Fits
<1>6. d \in Chunk
  <2>1. n \in 1 .. NCells
    BY <1>2, <1>3, <1>5, Constants DEF Cells
  <2> QED
    BY <1>3, <2>1 DEF Chunk
<1>7. m \in Nat /\ m <= c.size /\ m <= n
  BY <1>3 DEF Lesser
<1> HIDE DEF d, m
<1>8. ASSUME NEW x \in Cells
      PROVE  \/ data'[x] = data[x]
             \/ \E y \in CellsOf(c) : y \in Cells /\ data'[x] = data[y]
  <2>1. data' = [z \in Cells |-> IF z \in Span(a, m) THEN data[c.mem + (z - a)] ELSE data[z]]
    BY <1>1 DEF Copied, m
  <2>2. CASE x \in Span(a, m)
    <3>1. x \in Int /\ a <= x /\ x < a + m
      BY <2>2, <1>3, <1>7 DEF Span
    <3>2. c.mem + (x - a) \in CellsOf(c) /\ c.mem + (x - a) \in Cells
      BY <3>1, <1>3, <1>7, Constants DEF CellsOf, Span, Cells
    <3> QED
      BY <2>1, <2>2, <3>2
  <2>3. CASE x \notin Span(a, m)
    BY <2>1, <2>3
  <2> QED
    BY <2>2, <2>3
<1>9. \A y \in CellsOf(c) : y \in Cells => data[y] # "secret"
  <2> SUFFICES ASSUME NEW y \in CellsOf(c), y \in Cells, data[y] = "secret"
               PROVE  FALSE
    OBVIOUS
  <2>1. PICK e \in live : e.kind = "secure" /\ y \in CellsOf(e)
    BY DEF SecretsErased
  <2> QED
    BY <2>1, <1>2 DEF HeapInv
<1>10. TypeOK'
  <2>1. \A x \in Cells : data'[x] \in {"zero", "plain", "secret", "foreign"}
    BY <1>8 DEF TypeOK
  <2>2. data' = [x \in Cells |-> data'[x]]
    BY <1>1 DEF Copied
  <2>3. data' \in [Cells -> {"zero", "plain", "secret", "foreign"}]
    BY <2>1, <2>2
  <2> QED
    BY <1>2, <1>5, <1>6, <2>3 DEF TypeOK
<1>11. HeapInv'
  BY <1>4, <1>5 DEF HeapInv
<1>12. AlignInv'
  BY <1>2, <1>3, <1>4, <1>5 DEF AlignInv
<1>13. EntriesMatchChunks' /\ NoLockLeak'
  BY <1>2, <1>4, <1>5, SameTracked DEF Tracked
<1>14. SecretsErased'
  <2> SUFFICES ASSUME NEW x \in Cells, data'[x] = "secret"
               PROVE  \E e \in live' : e.kind = "secure" /\ x \in CellsOf(e)
    BY <1>2 DEF SecretsErased
  <2>1. data[x] = "secret"
    BY <1>8, <1>9
  <2>2. PICK e \in live : e.kind = "secure" /\ x \in CellsOf(e)
    BY <2>1 DEF SecretsErased
  <2> QED
    BY <2>2, <1>2, <1>5
<1>15. LockedWhileLive'
  BY <1>2, <1>3, <1>4, <1>5 DEF LockedWhileLive, StaysLocked
<1> QED
  BY <1>10, <1>11, <1>12, <1>13, <1>14, <1>15

LEMMA CrashStep ==
  ASSUME IInv, NEW c \in live, NEW n \in Nat, NEW kind \in Kinds, ReallocCrashes(c, n, kind)
  PROVE  IInv'
<1> USE DEF IInv
<1>1. /\ crashed' = 1 /\ flags' = {} /\ entries' = {} /\ live' = {} /\ locked' = {}
      /\ data' = [x \in Cells |-> "zero"] /\ build' = build
  BY DEF ReallocCrashes
<1>2. TypeOK'
  BY <1>1 DEF TypeOK
<1>3. HeapInv' /\ AlignInv' /\ NoLockLeak' /\ LockedWhileLive'
  BY <1>1 DEF HeapInv, AlignInv, NoLockLeak, LockedWhileLive, StaysLocked
<1>4. EntriesMatchChunks'
  BY <1>1 DEF EntriesMatchChunks
<1>5. SecretsErased'
  BY <1>1 DEF SecretsErased
<1> QED
  BY <1>2, <1>3, <1>4, <1>5

(* Steps that leave the heap alone. *)
LEMMA SameHeap ==
  ASSUME IInv, UNCHANGED <<build, entries, live, data, locked, crashed>>,
         flags' \subseteq {SECMEM_FAIL_OK, SECMEM_NO_LOCK}
  PROVE  IInv'
<1> USE DEF IInv
<1>1. TypeOK'
  BY DEF TypeOK
<1>2. HeapInv' /\ AlignInv' /\ LockedWhileLive' /\ SecretsErased'
  BY DEF HeapInv, AlignInv, LockedWhileLive, StaysLocked, SecretsErased
<1>3. EntriesMatchChunks' /\ NoLockLeak'
  BY SameTracked
<1> QED
  BY <1>1, <1>2, <1>3

----------------------------------------------------------------------------
LEMMA SizesAreNat ==
  /\ Sizes \subseteq Nat
  /\ \A m \in Sizes, n \in Sizes : (m * n) % SizeMod \in Nat
<1>1. \A m \in Nat, n \in Nat : m * n \in Nat
  OBVIOUS
<1> QED
  BY <1>1, MemAssumption DEF Sizes

LEMMA NextIInv == IInv /\ [Next]_vars => IInv'
<1> SUFFICES ASSUME IInv, [Next]_vars PROVE IInv'
  OBVIOUS
<1> USE SizesAreNat
<1>1. ASSUME NEW n \in Sizes, NEW kind \in Kinds, Malloc(n, kind) PROVE IInv'
  BY <1>1, AllocateStep DEF Malloc
<1>2. ASSUME NEW n \in Sizes, NEW kind \in Kinds, Memdup(n, kind) PROVE IInv'
  BY <1>2, AllocateStep DEF Memdup
<1>3. ASSUME NEW m \in Sizes, NEW n \in Sizes, NEW kind \in Kinds, Calloc(m, n, kind)
      PROVE  IInv'
  BY <1>3, AllocateStep DEF Calloc
<1>4. CASE AllocateFails
  BY <1>4, SameHeap DEF AllocateFails, vars, IInv, TypeOK
<1>5. ASSUME NEW n \in Sizes, SystemMalloc(n) PROVE IInv'
  BY <1>5, SystemMallocStep
<1>6. ASSUME NEW c \in live, Write(c) PROVE IInv'
  BY <1>6, WriteStep
<1>7. ASSUME NEW c \in live, SFree(c) PROVE IInv'
  BY <1>7, DropStep DEF SFree
<1>8. ASSUME NEW c \in live, Free(c) PROVE IInv'
  <2>1. build.zero # 1 => build.zero = 0
    BY MemAssumption DEF IInv, TypeOK
  <2> QED
    BY <1>8, <2>1, DropStep DEF Free
<1>9. ASSUME NEW c \in live, NEW n \in Sizes, Realloc(c, n) PROVE IInv'
  BY <1>9, ReallocStep
<1>10. ASSUME NEW c \in live, NEW n \in Sizes, NEW kind \in Kinds, ReallocCrashes(c, n, kind)
       PROVE  IInv'
  BY <1>10, CrashStep
<1>11. ASSUME NEW pool \in {Null, 0}, NEW op \in {MEM_SECMEM, MEM_ALLOC, MEM_POOL},
              NEW f \in SUBSET {SECMEM_FAIL_OK, SECMEM_NO_LOCK}, PoolAdjust(pool, op, f)
       PROVE  IInv'
  BY <1>11, SameHeap DEF PoolAdjust, IInv, TypeOK
<1>12. CASE UNCHANGED vars
  BY <1>12, SameHeap DEF vars, IInv, TypeOK
<1> QED
  BY <1>1, <1>2, <1>3, <1>4, <1>5, <1>6, <1>7, <1>8, <1>9, <1>10, <1>11, <1>12 DEF Next

(* The inductive invariant holds in every reachable state of the allocator. *)
THEOREM Invariance == Spec => []IInv
  BY InitIInv, NextIInv, PTL DEF Spec

(* Every variable of the allocator keeps its type. *)
THEOREM TypeCorrect == Spec => []TypeOK
<1>1. IInv => TypeOK
  BY DEF IInv
<1> QED
  BY Invariance, <1>1, PTL

(* pool->alloc names exactly the live chunks to be erased: psfree never    *)
(* works from the entry of a chunk that is gone.                           *)
THEOREM ListIsExact == Spec => []EntriesMatchChunks
<1>1. IInv => EntriesMatchChunks
  BY DEF IInv
<1> QED
  BY Invariance, <1>1, PTL

(* No secret is left in memory that is not secure: psfree erases the whole *)
(* of the chunk before the system gets it back, in every build.            *)
THEOREM SecretsAreErased == Spec => []SecretsErased
<1>1. IInv => SecretsErased
  BY DEF IInv
<1> QED
  BY Invariance, <1>1, PTL

(* psfree unlocks every page that no secure chunk needs any more. *)
THEOREM NoLockIsLeaked == Spec => []NoLockLeak
<1>1. IInv => NoLockLeak
  BY DEF IInv
<1> QED
  BY Invariance, <1>1, PTL

(* Where secure memory is page aligned, a locked chunk stays locked until  *)
(* it is freed.                                                            *)
THEOREM LockedUntilFreed == Spec => []LockedWhileLive
<1>1. IInv => LockedWhileLive
  BY DEF IInv
<1> QED
  BY Invariance, <1>1, PTL

----------------------------------------------------------------------------
(* What a step leaves alone. *)

Untouched == \A e \in live \cap live' : \A x \in CellsOf(e) : data'[x] = data[x]

LEMMA CellsInMemory ==
  ASSUME TypeOK, HeapInv, NEW e \in live
  PROVE  CellsOf(e) \subseteq Cells
  BY Constants DEF TypeOK, HeapInv, Chunk, CellsOf, Span, Cells

LEMMA AllocateUntouched ==
  ASSUME IInv, NEW n, NEW kind, NEW fill, Allocate(n, kind, fill)
  PROVE  Untouched
<1> USE DEF IInv
<1> SUFFICES ASSUME NEW e \in live, NEW x \in CellsOf(e) PROVE data'[x] = data[x]
  BY DEF Untouched
<1>1. PICK a \in Cells, l \in {0, 1} :
        /\ Placeable(a, n, kind)
        /\ Create([mem |-> a, size |-> n, kind |-> kind, locked |-> l], fill)
  BY DEF Allocate
<1>2. x \notin Span(a, n) /\ x \in Cells
  BY <1>1, CellsInMemory DEF Placeable, Fits
<1>3. CellsOf([mem |-> a, size |-> n, kind |-> kind, locked |-> l]) = Span(a, n)
  BY DEF CellsOf
<1> QED
  BY <1>1, <1>2, <1>3 DEF Create

LEMMA ForgetUntouched ==
  ASSUME IInv, NEW c \in live, live' = live \ {c}, Forget(c) \/ UNCHANGED data
  PROVE  Untouched
<1> USE DEF IInv
<1> SUFFICES ASSUME NEW e \in live, e # c, NEW x \in CellsOf(e) PROVE data'[x] = data[x]
  BY DEF Untouched
<1>1. x \in Cells /\ x \notin CellsOf(c)
  BY CellsInMemory DEF HeapInv
<1> QED
  BY <1>1, ForgetFacts

LEMMA ReallocUntouched ==
  ASSUME IInv, NEW c \in live, NEW n \in Nat, Realloc(c, n)
  PROVE  Untouched
<1> USE DEF IInv
<1>1. PICK a \in Cells :
        /\ Fits(live \ {c}, a, n)
        /\ live' = (live \ {c}) \cup {[c EXCEPT !.mem = a, !.size = n]}
        /\ data' = Copied(a, c.mem, Lesser(c.size, n))
  BY DEF Realloc
<1>2. c \in Chunk /\ c.mem \in Int /\ c.size \in Nat /\ a \in Int
  BY Constants DEF TypeOK, Chunk, Cells
<1>3. Span(a, Lesser(c.size, n)) \subseteq Span(a, n)
  BY <1>2 DEF Span, Lesser
<1> SUFFICES ASSUME NEW e \in live, e \in live', NEW x \in CellsOf(e)
             PROVE  data'[x] = data[x]
  BY DEF Untouched
<1>4. x \in Cells
  BY CellsInMemory
<1>5. CASE e # c
  BY <1>1, <1>3, <1>4, <1>5 DEF Fits, Copied
<1>6. CASE e = c
  <2>1. c = [c EXCEPT !.mem = a, !.size = n]
    BY <1>1, <1>6
  <2>2. c.mem = a
    BY <2>1, <1>2 DEF Chunk
  <2>3. x \in Int /\ c.mem + (x - a) = x
    BY <2>2, <1>2, <1>4 DEF Cells
  <2> QED
    BY <1>1, <1>4, <2>3 DEF Copied
<1> QED
  BY <1>5, <1>6

(* Making, moving or freeing a chunk leaves the contents of all others as  *)
(* they were: the memset of psfree and the fill of calloc stay inside.     *)
THEOREM OthersAreUntouched == Spec => OthersUntouched
<1>1. ASSUME IInv, [Next]_vars, live' # live
      PROVE  Untouched
  <2> USE <1>1, SizesAreNat
  <2>1. ASSUME NEW n \in Sizes, NEW kind \in Kinds, Malloc(n, kind) PROVE Untouched
    BY <2>1, AllocateUntouched DEF Malloc
  <2>2. ASSUME NEW n \in Sizes, NEW kind \in Kinds, Memdup(n, kind) PROVE Untouched
    BY <2>2, AllocateUntouched DEF Memdup
  <2>3. ASSUME NEW m \in Sizes, NEW n \in Sizes, NEW kind \in Kinds, Calloc(m, n, kind)
        PROVE  Untouched
    BY <2>3, AllocateUntouched DEF Calloc
  <2>4. ASSUME NEW n \in Sizes, SystemMalloc(n) PROVE Untouched
    BY <2>4 DEF SystemMalloc, Untouched
  <2>5. ASSUME NEW c \in live, SFree(c) PROVE Untouched
    BY <2>5, ForgetUntouched DEF SFree
  <2>6. ASSUME NEW c \in live, Free(c) PROVE Untouched
    BY <2>6, ForgetUntouched DEF Free
  <2>7. ASSUME NEW c \in live, NEW n \in Sizes, Realloc(c, n) PROVE Untouched
    BY <2>7, ReallocUntouched
  <2>8. ASSUME NEW c \in live, NEW n \in Sizes, NEW kind \in Kinds, ReallocCrashes(c, n, kind)
        PROVE  Untouched
    BY <2>8 DEF ReallocCrashes, Untouched
  <2>9. \/ AllocateFails
        \/ \E c \in live : Write(c)
        \/ \E pool \in {Null, 0}, op \in {MEM_SECMEM, MEM_ALLOC, MEM_POOL},
              f \in SUBSET {SECMEM_FAIL_OK, SECMEM_NO_LOCK} : PoolAdjust(pool, op, f)
        \/ UNCHANGED vars
        => live' = live
    BY DEF AllocateFails, Write, PoolAdjust, vars
  <2> QED
    BY <2>1, <2>2, <2>3, <2>4, <2>5, <2>6, <2>7, <2>8, <2>9 DEF Next
<1>2. IInv /\ [Next]_vars =>
        [live' # live =>
           \A c \in live \cap live' : \A x \in CellsOf(c) : data'[x] = data[x]]_vars
  BY <1>1 DEF Untouched
<1> QED
  BY <1>2, Invariance, PTL DEF Spec, OthersUntouched
=============================================================================
