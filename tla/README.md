# Verification of Drew

Drew is a cryptographic library in which every algorithm is a plugin.  A
program makes a `DrewLoader`, loads plugin libraries into it, looks algorithms
up by name or type and calls them through the function table it is given.
Plugins use each other through the same loader: a mode holds a block cipher, an
HMAC holds a hash, a KDF holds a MAC.  All of them take their memory from a
small allocator that locks and erases what is secret.

This directory holds TLA+ models of the parts of Drew that keep state, TLC
configurations that check them on small instances, and TLAPS proofs for every
size.  `PROJECT.json` maps each definition to the lines it stands for.

## Inventory

| Component | State | Operations | What is hard |
|---|---|---|---|
| Plugin loader, `lib/libdrew/drew.c` | two growing tables (libraries, plugins) with pointers from one into the other, a reader/writer lock, a reference count | new, ref, unref, load_plugin, seven queries | threads; tables that move while pointers into them exist; loads that fail half way; locks that are not released |
| Memory allocator, `lib/libdrew/mem.c` | a list of the chunks to erase, flags, the heap, page locks | malloc, calloc, memdup, realloc, free, each plain and secure; pool_adjust | page locks are not counted; long call sequences; wrap-around; two build switches |
| Block cipher modes, `impl/mode` | iv, feedback or counter block, position in it, the cipher's context and a loader reference | init, setiv, setblock, encrypt, decrypt, the fast variants, final, clone, fini | output must not depend on how input is cut into calls; clone and fini share ownership |
| Hashes, `impl/hash` (`hash.hh`) | chaining value, buffer, two-word length | reset, update, updatefast, pad, final, clone | buffer boundaries, padding, carry |
| MACs, `impl/mac` | inner and outer hash, key, buffer | setkey, reset, update, final, clone | reuse after final, block size |
| KDFs, `impl/kdf` | salt, count, PRF context | setkey, setsalt, setcount, generate, clone | counters, ownership |
| PRNGs, `impl/prng` | state, entropy estimate, reseed counter | init, seed, bytes, entropy | reseeding limits, partial failure |
| Block ciphers, `impl/block` | round keys | setkey, encrypt, decrypt, fast variants | decryption inverts encryption |
| Stream ciphers, `impl/stream` | keystream generator, a buffer of it and how much is left | setkey, setiv, reset, encrypt, fast, clone | buffer position, what a new nonce or a clone leaves behind |
| ECC, public key, `impl/ecc`, `impl/pksig`, `impl/pkenc`, `impl/multi` | keys and parameters held by name | setval, val, sign, verify, ... | arithmetic |
| Bignum wrappers, `impl/bignum` | one library bignum | forwards | nothing of their own |
| Kernel crypto, `impl/multi/linux`, `impl/block/linux` | file descriptors | forwards | descriptor lifetime |
| libmd, `lib/libmd` | one shared loader and function table per algorithm, made on first use under a mutex | Init, Update, Final, ... | lazy initialisation, failed lookup |
| Plugin stub, utilities, tests | - | - | generated code, command lines |

Interactions: plugins call `drew_loader_ref` when a context is made and
`drew_loader_unref` when it ends, take their tables from `get_functbl`, and keep
those pointers while other threads load more libraries.  They allocate iv,
keys and buffers with `drew_mem_smalloc` and free them with `drew_mem_sfree`.

What makes each component correct:

* loader: a reader never sees a half-moved table; an id, a table pointer or an
  answer stays good as long as the caller holds a reference; a load that
  reports success has loaded everything; teardown frees everything, once, and
  alone; every lock taken is released and every call returns;
* allocator: the list is exactly the live chunks that must be erased; nothing
  secret survives its chunk; a page is locked as long as, and only as long as, a
  secure chunk needs it; no operation touches another chunk;
* modes, hashes, MACs, stream ciphers: the result is the one-shot reference
  however the calls are cut; contexts release what they own exactly once;
* KDFs and PRNGs: outputs equal the definition; no output without a seed;
* ciphers and public key: decryption inverts encryption, verification accepts
  what signing made.

The hazards behind these, each at its line, are listed in `PROJECT.json`.

## Modules

| Module | Models | Role |
|---|---|---|
| `Loader` | `drew.c` | specification, properties, mutants |
| `MCLoader` | | instance for TLC |
| `LoaderProofs` | | theorems about `Loader` |
| `Mem` | `mem.c` | specification, properties, mutants |
| `MemProofs` | | theorems about `Mem` |
| `Modes` | `cfb.c`, `ofb.c`, `ctr.cc`, `cbc.c`, `gcm-impl.cc`, `CopyAndXor` in `util.hh` | specification, properties, mutants |
| `Streams` | `impl/stream` | the keystream generators that `Modes` draws from |
| `MCModes` | | instance for TLC: bytes of two bits, a small cipher, field and generators |
| `ModesProofs` | | theorems about `Modes` and `Streams`: types and positions, the keystream and the tag |
| `Arithmetic` | | lemmas: division with remainder, least elements, functions defined step by step |
| `Buffers` | | lemmas: sequences and buffers, words and their sums and rotations, loops that undo one another |
| `Words`, `Gf` | `util.hh`, `gentable.c`, `gcm.cc` | machine words as sets of bit positions; the field behind the tables of AES, Rijndael and ARIA; the two multiplications of GCM |
| `Ciphers64` | `des.cc`, `blowfish.cc`, `rc2.cc`, `tea.cc`, `xtea.cc` | key schedule and both directions of each cipher, as functions |
| `Ciphers128`, `Safer`, `Cast`, `Camellia`, `Serpent`, `Twofish`, `Aes`, `Rijndael`, `Aria` | the sources of that name in `impl/block` (`Ciphers128` has SEED and MARS) | the same for the other ciphers |
| `Block` | `block-plugin.hh`, `blockcipher.hh` | the plugin's calls over those ciphers: specification, properties, mutants |
| `MCBlock` | | instance for TLC |
| `BlockProofs` | | theorems about `Block` with eight of the ciphers: decryption inverts encryption |
| `HashSpec` | `doc/manual/hash.xml` as `hash.hh` is used | abstract specification: what a hash promises its client |
| `HashBase` | `hash.hh` | buffering, counting and padding of the base class |
| `Hash` | `hash-plugin.hh`, `hash.hh` | the plugin's calls over the base class; implements `HashSpec` |
| `MCHash` | | instance for TLC: small blocks and counters |
| `HashProofs` | | theorems about `Hash`: the refinement of `HashSpec` |
| `Md`, `Sha`, `Tiger`, `Whirlpool`, `Keccak`, `Blake`, `Skein`, `Jh`, `Fugue`, `Groestl` | the sources of that name in `impl/hash` (`Md` also has RIPEMD, `Sha` SHACAL, `Skein` Threefish) | compression function, padding and digest of each hash |
| `Digests` | all hash plugins | the plugin's calls over those functions, `HashBase` where the code inherits from it |
| `MCDigests` | | instance for TLC: the real sizes |
| `Mac` | `hmac.c`, `cmac.c`, `pbkdf2.c`, `tls-prf.c` | MACs and key derivation over what `HashSpec` and `Block` promise |
| `MCMac` | | instance for TLC |
| `MacProofs` | | theorems about `Mac`: types, tags and derived keys |

In `PROJECT.json` a definition is mapped to the lines it translates; a small helper of a
cipher or hash without an entry of its own lies within the lines of the definition that uses it.

### Loader

State.  `status`, `ref_count`, `nlibs`, `nplugins` are the fields of the loader.
The tables `lib` and `plugin` have an address as well as contents: `libField`
and `pluginField` are what the loader's pointers say, `libMem` and `pluginMem`
where the block really is.  They differ between `g_realloc` and the assignment
of its result, which is the window the lock has to hide.  `readers` and `writer` are
the GRWLock; `pc`, `w` and `md` hold where each thread is in its call and the
locals it keeps between steps; `ret` is what its last call returned.  `owner`
says which thread answers for each reference, `blocks` and `handles` count what
has to be freed.

Actions.  `New`, `Ref`, `Unref` and `Teardown` are the reference count.
`load_plugin` is cut into steps where the code's memory changes: `WriterLock`,
`GrowLibTable`, `RebaseLibPointers`, `OpenLibrary` or `OpenFails` (which moves
on to the next directory of the search path), `GrowPluginTable` or
`EnumerationFails`, `PublishPluginTable`, `FillPlugin` or `FillFails` once per
plugin, `WriterUnlock`.  A query is `ReaderLock` followed by one of
`GetNplugins`, `GetType`, `GetFunctbl`, `GetAlgoName`, `LookupByName`,
`LookupByType`, `GetMetadata`; `get_metadata` with item -1 is `CountMetadata` and
`CountReturns`, because it reads the table once more after its unlock;
`GetMetadataNegative` is the early return for an item below -1, which keeps the
lock.

Environment.  What a library answers to the enumeration calls is arbitrary, and
so is the outcome of opening it.  `g_realloc` and `g_malloc` abort the process
instead of returning null, so the `-ENOMEM` branches are unreachable.  Clients
follow the contract of reference counting: a thread calls into the loader only
while some reference is its own.  Names, paths and metadata are reduced to what
the code compares.  Entries that are not marked OK keep their old contents in
the code and are zero in the model: every read of an entry is behind
`is_valid_id` or the flag test of the teardown.

### Mem

State.  Memory is an array of cells, some to a page.  `live` is the set of
allocated chunks with their kind (secure, plain, or foreign: made by the system's
malloc), `entries` the pool's list, `data` who wrote each cell last, `locked` the
set of locked pages (page locks are a set because mlock does not nest), `flags`
the pool's flags, `build` the two compile-time switches, `crashed` whether
the process has died.

Actions.  `Malloc`, `Calloc`, `Memdup` with both kinds and their failure
`AllocateFails`; `SFree`, `Free`; `Realloc`; `PoolAdjust`; `SystemMalloc` and
`Write` for the client.  Each holds the pool's mutex from its first access of
the pool to its last, so it is one step.  `ReallocCrashes` is
`drew_mem_srealloc` of a live chunk (and `drew_mem_realloc` where everything is
zeroed): `do_realloc` gets the null pool the public function passed and locks
it.  Where the allocator places a chunk, whether mlock succeeds and
whether anything fails is arbitrary.  Products of sizes wrap at `SizeMod`.

Clients pass `drew_mem_free` no secure chunk unless the build zeroes
everything: that is how the code in `impl/` uses it.

### Modes

State.  One context and one message.  `cf` is the mode with its block size,
feedback, tag length and multiplication, `iv`, `ivlen`, `buf` and `boff` are the fields
of that name, and `reg` is the field that chains blocks (`prev`, `ctr`, `y` in
GCM, or `buf` in CBC).  `auth` holds what GCM authenticates with (`y0`, `x`,
`cbuf` and the two lengths), `tag` the tag it delivered.  `in` and `out` are
the message and what has been written, `pos` how far; `src`, `end` and `fin` are the
pointers of the call in progress and whether it is the final one, and `pc` where it is.
A stream cipher is one more mode: `ks` is its generator and `left` its
`m_nbytes`.  The cipher, the exclusive or, GCM's product and the core functions of the
stream ciphers are parameters of which only the assumptions in the module are known.

Actions.  `SetIv`, `Reset`; `Call`, which enters `encrypt` or `decrypt`, then `Head`
(the rest of the block begun by the call before; `StreamHead` for the buffer of a
stream cipher), `Block` (one turn of the loop), `Tail` (the beginning of one more
block) or `Return`; `CbcBlock` for CBC, and `Refuse` for a length that is no multiple of
its block, and for a final call of GCM without room for the tag (`gcm-impl.cc:419`); `FastCall` and one action for a turn of each fast function.  CFB, OFB,
CTR, GCM and the stream ciphers differ in `CfbUnit`, `OfbUnit`, `CtrUnit`, `GcmUnit` and
`StreamUnit` (how the next keystream block is made) and in what `Consume` keeps
of the ciphertext: CFB its register, GCM (`Absorb`) the hash.  GCM also has `SetData`,
and its final calls end in `GcmFinal`; those of the other modes are the plain ones.
`Clone` is the copy constructor of Salsa20 and ChaCha, which leaves out the buffer.

`TagCorrect` compares the tag with GHASH as a polynomial: the sum of the products
of each block with its power of H, which `MCModes` multiplies as polynomials over
two elements.  The code adds and multiplies block by block, with `mul` (bit by
bit) or `mul_fl` (a table for each byte), both modelled in `Gf`.

`Streams` has the generators: the counter of Salsa20 and ChaCha, the states that
HC, Sosemanuk and Rabbit make of a key and a nonce, and all of RC4, over as many
values as the instance chooses.

`clean` becomes 0 where the code is known to go wrong, so that the properties can
speak of everything else:

* `setiv` in the middle of a block keeps `boff`: the new message starts with bytes
  of the new iv, or of its keystream, as if they were left over;
* `SetNonce` of a stream cipher keeps the bytes that are left of the buffer, that of
  Salsa20 and ChaCha the counter too, and that of Rabbit mixes the nonce into the
  state as it is, which another nonce has already been mixed into;
* `cfb_decrypt` that starts within a block moves `boff` backwards, and keeps the wrong
  value unless the same call begins another block;
* `cfb_encryptfast` and `ofb_encryptfast` with blocks of eight bytes encrypt two
  blocks at once, although the second depends on the result of the first;
* `ctr_encryptfast`, `gcm_encryptfast` and `gcm_decryptfast` of more than 4096 bytes
  advance their input twice;
* the fast functions of GCM count over all of the block, the plain ones over its
  last four bytes: they differ once these wrap;
* `gcm_setiv` that refuses an iv has already cleared the counter block, and a client that goes
  on works with that;
* `gcm_setdata` with a multiple of 16 bytes hashes a block of zeros behind them;
* `FillBuffer` of RC4 begins at `s[0]` where `GetValue` would go on with `s[1]`: the
  keystream is right in the buffer that `Reset` fills, and a call of no bytes right
  after `Reset` loses that buffer;
* a clone of Salsa20 or ChaCha goes on with an uninitialised buffer, and with an
  uninitialised number of bytes in it.

The turns of `cfb_decryptfast`, `ctr_encryptfast` and GCM's fast functions exclusive-or not the
chunk they have prepared but all that is left of the call (`cfb.c:323`): beyond a chunk of 4096
bytes they read behind a local buffer.  What they write there (`Spilled`) is any bytes at all, until
a later turn writes the right ones.

`reset` puts all of them right again (but for the refused iv).  A message that has
gone wrong is followed for `MaxWrong` bytes.  Input and output are taken not to overlap, clients
keep to the order `doc/API` gives (no fast call after a plain one), and a context
is used in one direction.

### Block

A word of w bits is the set of the positions of its one bits: TLC's integers
have 31 bits, and sets are exact for every width.  Each cipher is a module of
functions, `SetKey`, `Encrypt` and `Decrypt`, translated round by round with the
key schedule it has in the code; `Block` puts the plugin's calls on top (`init`,
`setkey`, `clone`, `reset`, `encrypt`, `decrypt`, `encryptfast`, `decryptfast`,
`fini`).  A context keeps what the C++ object keeps between two keys, because a
second key does not always overwrite everything: the choice of routines and
the upper part of the schedule in Camellia, the key size in `AESNI`, the rounds in SAFER.
A cipher that checks the size of a key is also given keys of other sizes, but Camellia none of more
than 32 bytes: it copies the key into a buffer of that size before it looks (`camellia.cc:130`).
Where one cipher has several plugins (AES in tables, in AES-NI instructions and
as Rijndael; the two ARIAs) they are run side by side as one family.

Tables of constants that no inversion rests on are a parameter, `Table`: the
properties hold whatever they contain.  Tables that must be permutations
or inverse to each other (the boxes of AES, ARIA, Serpent, SAFER, the field
multiplications) are computed or written as the logic they are in the code.  With the
real tables in place of the parameter, the models give the published test
vectors that the sources carry.

`book` remembers what was encrypted and decrypted, under which key.
`OnePermutation` relates any two lines of it: under one key there is one
permutation, in whichever context, plugin, direction or kind of call.

### Hash

`HashSpec` is the abstract machine: a context holds a text, `update` appends to
it, `pad` appends the padding, `final` delivers (a symbol for) the digest of
the whole.  `Hash` is `hash-plugin.hh` on `hash.hh`: a buffer of one block, a length of
two words with a carry between them, `Update` with its three parts, `UpdateFast`,
`Pad` with a second block when the length field does not fit.
`KeepsPromise` says that `Hash` implements `HashSpec` under the mapping in which
the text of a context is its blocks followed by the part of the buffer in use.
`LengthCounted` says that the two words hold the number of bytes given.

Blocks, length fields and the width of the counter are parameters, so that a
carry happens after a few calls.

### Digests

The same calls for every hash function, each with its own compression function,
initial value, padding and output, at the real sizes.  Functions that override
the base class (MD2, Skein, BLAKE, BLAKE2b, Keccak, SHA-3, Fugue, Grøstl, Tiger,
SHA-512/t) are modelled as they do it.  `OneDigest` compares every digest with
that of the same text in one plain update by one plugin of the family:
cutting, fast calls, clones, resets, and the three Keccak plugins must make no
difference.  `LastByteCounts` says that texts that differ in their last byte
have different digests (a bit of that byte is changed), which fails when padding or buffering loses the end of a
text.

### Mac

HMAC, CMAC, HMAC-KDF, PBKDF2 and the PRF of TLS are composed with the layers below
by what these promise: a hash context is its text and a keyed cipher is one
function of the block.  The contexts have the fields of the code; `asked` keeps what
the client has asked since the last reset, and `answer` the last output that has a
definition, with its inputs.  An output has one when the client set a key and
began with a fresh context.  `MacCorrect` and `KdfCorrect` compare it with
stateless definitions of the functions; in that of CMAC the subkeys are made
in the field of 2^64 or 2^128 elements and not byte by byte.
A clone of a PBKDF2 context has the same PRF as the original (`pbkdf2.c:140`): `home` names the
slot the PRF was made in, and what one of the contexts does to it the others see (`Keep`).
`fini` frees it for all of them (`freed`).
A key that the cipher of a CMAC context refuses is not reported: `cmac_setkey` returns zero and makes
the subkeys again from the key there is (`CipherTakes`, `cmac.c:182`), so `asked` keeps that key and
the tags are those of it.
`undefined` becomes true when a CMAC context leaves its buffer, or when a PBKDF2 context uses a PRF
that was freed through another one, and the model stops there.

## Runs

| Run | Checks | Shows |
|---|---|---|
| `loader_safety` | `TypeOK`, `TeardownAlone`, `NothingLeaked`, `ReadersSeeConsistentTables`, `LoadedRangeUsable`, `AnswersStayTrue`, `IdsStable` | the loader is safe for two threads, with every outcome of every load and every value of `item` |
| `loader_progress` | `LocksReleased`, `CallsReturn` | every call returns and releases its lock, provided nobody passes an item below -1 |
| `loader_count_race` | `LockProtectsEverything` (violated) | the count of metadata items is read outside the lock, from a block that a load has already moved |
| `mem_safety` | `TypeOK`, `EntriesMatchChunks`, `SecretsErased`, `NoLockLeak`, `LockedWhileLive`, `OthersUntouched` | the allocator keeps its promises in all four builds |
| `mem_linux_lock` | `StaysLocked` (violated) | on Linux two secure chunks can share a page, and freeing one unlocks the other |
| `modes_streams` | `TypeOK`, `StreamCorrect`, `Resumable`, `TagCorrect` | however a message is cut into calls, the result is the one the definition of the mode or the stream cipher gives, between calls the context holds what the next one needs, and the tag of GCM is the one of the standard |
| `modes_cfb_decrypt` | `CfbDecryptCorrect` (violated) | CFB decryption in pieces that end within a block gives wrong bytes |
| `modes_ctr_fast` | `FastCorrect` (violated) | a fast CTR call of more than one buffer gives wrong bytes |
| `block_permutations` | `TypeOK`, `OnePermutation` | every cipher, under every key, is one permutation and its inverse, in all contexts, plugins and calls |
| `hash_promise` | `TypeOK`, `LengthCounted`, `KeepsPromise` | the base class of the hashes implements the abstract hash |
| `digests_agree` | `TypeOK`, `OneDigest`, `LastByteCounts` | for every hash function the digest is that of the text, however it arrives |
| `mac_correct` | `TypeOK`, `MacCorrect`, `KdfCorrect` | tags and derived keys are those of the definitions, for reused and cloned contexts and any pieces |

Bounds.  `loader_safety` has two threads and two references (a sharer, and a
count that reaches zero in either), three addresses (both tables and a free one
to move to), two libraries and two plugins (a second load that moves both
tables under the results of a first, a partial load that consumes ids) and three
calls, so one thread can hold two results while the other loads.
`loader_progress` uses one library but a search path of two directories, and
two calls, one for each thread.  Threads, references and addresses are
interchangeable and used as symmetry sets, except in `loader_progress`, where symmetry
would be unsound.  `mem_safety` has two pages of two cells, two chunks and sizes to
three: chunks smaller than, as large as and larger than a page, two on one page, and
products that wrap at 8.  `modes_streams` has bytes of four values and an
alignment of two, so blocks of one and two bytes stand for those of 8 and 16 and
blocks of three for the sizes without a fast path; the fast functions' buffer
holds four bytes and fast calls go to eight, two buffers; messages of nine bytes are three
units of three, and plain calls of up to six bytes take all three paths at once.
One iv is all threes, so the counter carries through every byte and wraps; CFB
has every feedback of a block of three.  GCM has blocks of two bytes over the field of
16 elements, of which one byte counts and wraps within a message, ivs of the
short form and longer, up to three bytes of data, and a whole and a cut tag.  The
generators of the stream ciphers have units of two and three bytes and 16
states, and a counter of eight; RC4 has four values and skips none, two or five.
A message that has gone wrong is followed for two bytes (all nine in the runs that show a
violation).  Deadlock is not checked: the clients stop when their
calls are used up, in `Mem` when the process died, and in `Modes` when a
position below zero made the next access undefined.

`block_permutations` has two contexts and the real sizes.  Each cipher
but SAFER has keys of two sizes where it takes several, each has at least two keys, Camellia and `AESNI`
one that they refuse; there are up to three keys one after the other where
the schedule depends on an earlier one, two lines in the book, and fast calls of two blocks.  `hash_promise` has blocks of eight bytes, a field of two and words
that count to 32; pieces of 1, 5, 8 and 27 bytes stop before, in and after the
length field and make the low word run over; two contexts (interchangeable, here and in
`mac_correct`), two messages, three calls each.  `digests_agree` has, for each function, pieces of one byte and of a block less one,
fast pieces of a block, and three calls: texts of up to three blocks that end one byte
before, at and after a boundary, each in more than one way.  Clones and resets
are explored for one function of each kind of context.  `mac_correct` has a hash
with blocks of eight bytes and digests of four, keys shorter and longer than a block, two
contexts and three calls of update, final or generate (two for PBKDF2 and for CMAC with
blocks of 16 bytes, where pieces of 8, 16 and 24 bytes meet every branch already); for CMAC with
blocks of 16 bytes also a key that the cipher refuses; pieces
that complete a block of the cipher, run over it or leave it open; outputs of less than one digest and of
one and a quarter, and in PBKDF2 the sum of two iterates.

Some inputs are left out of these four runs because the code is known to go
wrong on them:

* BLAKE2b and texts of whole blocks: `Update` keeps a whole last block in the buffer when the buffer was
  empty (`blake.hh:100`), and `Pad` takes the offset zero for an empty buffer and clears
  it (`blake.hh:112`), so that one update of 128 bytes and updates of 1 and 127
  bytes give two digests;
* Skein and `updatefast`: it inherits a function that counts all of the data
  before the first block is transformed with that count as its position, and that
  does not hold the last block back (`hash.hh:83`);
* one `update` of 2^32 bytes or more where the length words have 32 bits: the carry
  test of `hash.hh:65` does not see it;
* SAFER contexts that get keys of 8 and of 16 bytes: the number of rounds is
  chosen only once (`safer.cc:120`); SAFER-K gets the short ones and SAFER-SK the long ones;
* HMAC with a key of no bytes, after `reset` and so in PBKDF2 (`hmac.c:220`), and
  with a hash whose digest is longer than its block, which is Fugue;
* PBKDF2 with a salt of 256 bytes or more: `pbkdf_setsalt` keeps the length in eight
  bits (`pbkdf2.c:178`).  The salts of the run are shorter; `KdfCorrect` says so, for the proof;
* HMAC-KDF with a `tagLength`: `hmack_generate` returns the rest of its buffer as it found it
  (`hmac.c:510`).

CMAC with blocks of eight bytes is not left out: `cmac.c:233` sets the position to 16, the
next call leaves the buffer, and no tag is delivered.

Deadlock is not checked in these runs either: the client stops when its calls
are used up.

Fairness.  `FairSpec` is weak fairness of each thread's steps inside a call: a
thread that can go on does.  Nothing is assumed of the lock: GRWLock gives a
waiting writer no precedence on every platform, so a writer is only promised the
lock once it stays free, which the bounded number of calls brings about.  With
unbounded queries a writer could wait for ever; that is a property of the lock,
not of this code.

The four violations are disagreements of the code with a comment
(`loader_count_race`, `mem_linux_lock`), a test (`modes_cfb_decrypt`) and
`doc/API` (`modes_ctr_fast`); they are described under `findings` in
`PROJECT.json`.  The test of CFB does not notice the third because, with its messages and
pieces of nine bytes, every call that starts within a block but the last also begins
another one, which sets the position anew.

## Proofs

`LoaderProofs` proves, for any number of threads, references, addresses,
libraries, plugins and calls, every safety property of `loader_safety` and
`LocksReleased`.  The assumptions are those of `Loader`: null is neither a
thread nor an address, the bounds are natural numbers, the set of references
is finite.  `LocksAreReleased` has a hypothesis, `ItemsAreSane`: no client passes
`get_metadata` an item below -1.  It is the client of `loader_progress`, and it
is needed, because `GetMetadataNegative` returns with the reader lock held.
The inductive invariant `IInv` has seven parts.  `LockInv`: readers and
a writer exclude each other, and the writer is the thread whose `pc` is in a
load.  `RefInv`: the count is the cardinality of the references held, and a
thread inside a call holds one; this gives `TeardownAlone`.  `TableInv`: handles
equal libraries, valid entries and blocks correspond one to one, fields and
blocks agree except at the two steps that move them; with `LockInv` this gives
`ReadersSeeConsistentTables`, and `NothingLeaked` at the teardown.  `LoadInv`:
what the locals of the load say of the tables, in particular that the entries
filled so far are exactly the new library's.  `RangeInv`: a range once returned stays
usable, which needs `LoadInv` at the step that returns it and `KeptStep`
(no step disturbs a valid entry) afterwards.  `IdsStable` is `KeptStep` again.
`AnswerInv`: what a query returned still stands.  A load writes only entries above
the ones that were there when any answer was given (`WritesAbove`), so that a
name found first stays first and a range by type stays a range.

`MemProofs` proves every property of `mem_safety`, for any page size, memory
size, bounds and set of builds.  Chunks are disjoint (`HeapInv`), so a pointer
names one chunk and the entry that `Forget` finds is the chunk's own; where the
build aligns secure memory, chunks start on page boundaries (`AlignInv`), so two
secure chunks share no page (`PagesApart`) and unlocking one leaves the other
alone.  The rounding of `create_entry` covers exactly the pages of the chunk
(`BlockPages`).

`HashProofs` proves every property of `hash_promise`, the refinement of `HashSpec`
included, for any block size, length field, set of contexts and pieces.  The
assumptions are those of `Hash`: a field fits in a block, a block divides what a word
counts (`SizesAssumption`); marks and fields are made of bytes (`BytesAssumption`); a
piece is shorter than what a word counts, and there are fewer pieces than that
(`DataAssumption`), which keeps the sum below what two words count.  The
invariant, `IInv`, says of an open context that its two words are the number of bytes it
was given, at most a word's worth for each call, and that a context between blocks has an
empty buffer.  The proof rests on facts about division (`Division`,
`RemainderOfSum`, `RemainderOfWord`), on what the loops of `Update` and `UpdateFast`
do to a buffer (`Split`, `Filled`, `WholeBlocks`, `Cut`), and on the sum with its carry
(`Counted`).  `Text` is the mapping: the blocks followed by the part of the buffer in
use.  `TheText` says that text and length determine the blocks and the buffer, so an
update appends its piece to the text (`Updated`, `UpdatedFast`), and `Pad` with one
block or two appends the padding of the manual (`PaddedWith`, `OnePadding`).

`ModesProofs` proves `TypeOK` of `modes_streams`, for any cipher, field, generator, set of
contexts, ivs and messages.  Most of it is about positions: `boff` stays
within the unit, a call stays within the message, the turns of the fast functions end
where the call does.  The invariant `TInv` adds to the types where each call is
(`Positions`, `Calls`): a fast call has whole chunks left, a plain one leaves room for the next
unit, and only the modes that have a final step reach one.  The assumptions are those of
`Modes`: an exclusive or that undoes itself, ciphers that map blocks to blocks and
have an inverse, generators with a set of states; that the field of GCM is one
(`FieldAssumption`) is not needed for the types.

The second half of `ModesProofs` proves `StreamCorrect`, `Resumable` and `TagCorrect`, and so the rest of
`modes_streams`, under the same assumptions and `FieldAssumption`.  All three speak of a context as long as `clean` is 1, that is, until something is
done that the code gets wrong (`Modes` above says what).  The invariant `Flow` says that every byte
before `pos` is the defined one (`Sound`), which alone is not inductive, and that there is a
position `f`, the end of the units begun, that ties the fields of the context together
(`Linked`): the register holds the iv or the ciphertext chained up to `f`, or the
counter of number `f \div unit` (`RegIs`); the buffer holds the key of the unit that ends
at `f`, as far as it is still to be used (`BufIs`); the generator of a stream cipher has
made `f \div unit` buffers (`GenIs`); `boff`, `left` and the place in the call agree with `f`
(`Place`).  RC4 makes its keystream byte by byte, so it is followed through the
buffer that its reset fills (`Rc4Is`).  What a unit needs is a fact of its own: incrementing
a counter byte by byte, with its carries, adds one (`CounterNext`, `IncrementIs`), also over the chunk of
counters that `ctr_encryptfast` and `gcm_encryptfast` prepare ahead (`CountersAre`); what is written
behind a byte does not change its definition (`DefinedKept`, `KeyKept`); and the first
counter of GCM is the hash of the iv, whose evaluation by Horner's rule equals the sum of
powers that defines it (`J0Is`, `Horner`).  `UnitStep` is the common step of the plain loops; each fast function has a
lemma of its own.  `Flow` held on every state of `modes_streams` in TLC before it was proved.

`TagCorrect` needs a second invariant, `Authentic`: there is a position `s`, a multiple of
the block, such that `x` is the hash of the data and of the ciphertext before `s`
(`Accumulated`) and `cbuf` holds the ciphertext from there to `pos` (`Absorbed`); the
first counter and the length are those of the message, the latter counted when the call begins.
`Flow` then says that `boff` is `pos - s` (`OffsetIs`).  A piece extends `cbuf` or
completes a block (`PieceAuthentic`), a fast turn adds all of its blocks at once
(`GcmFastAuthentic`, `AccumulatedMore`), and what comes later does not change the blocks already
hashed (`AccumulatedSame`).  `setdata` of no bytes hashes a block of zeros, which leaves `x`
zero because the product with zero is zero (`DataHashed`); of a multiple of the block it hashes
one block too many, which is why `clean` is then 0.  At the end the last block is `cbuf`
cleared behind `boff`, and by `Horner` the hash of all the blocks is the polynomial
(`HashedIs`).  `Authentic` too was checked with TLC first.

`MacProofs` proves every property of `mac_correct`, for any hash and any cipher, any keys,
data, salts, counts and lengths of output, any number of contexts and calls.  The assumptions
are those of `Mac`: a digest is no longer than a block of the hash (`SizesAssumption`), and
clients pass buffers of bytes, ask for a tag no longer than there is, and set
no tag length for HMAC-KDF, as the KDFs do that use it (`ClientAssumption`).  What the code gets wrong is in the properties and not in the
assumptions: no answer is noted for a key of no bytes, `KdfCorrect` speaks of salts below 256
bytes, and a CMAC context that leaves its buffer or a PBKDF2 context whose PRF was freed makes `undefined` true.

A PRF that several PBKDF2 contexts share does not disturb the argument, because such a context needs of it
only its shape (`SharedServes`), and a PRF that was freed is not used in a step that delivers.

`MacCorrect` and `KdfCorrect` speak of the last answer only.  The invariant `IInv` adds what
each context holds of its client's calls (`Follows`).  For HMAC (`Keyed`) that is two facts: the
key buffer holds the key or its digest, and, since a reset or a new key, the two hashes hold
the pads and the text.  The first is what lets `reset` restore the second after a `final`
that forgot it (`HmacReset`), and it rests on a digest being no longer than a block, so that
hashing the key buffer in again changes nothing (`KeyOfIs`).  A PBKDF2 context needs of its PRF only
its shape, because `generate` keys it anew (`PbkdfKey`); the TLS context needs `Keyed` and an empty text, because
A(1) is made from the PRF as it stands.  For CMAC (`Summed`) the subkeys are zero
encrypted and multiplied by x and x^2 (`Doubling` shows that shifting bytes with carries is
the product in the field), `hash` is the sum of the blocks of the text that another byte follows
(`Sums`, `Done`), and the buffer holds the rest, which may be a whole block with the position at
16 (`Holds`).  A setkey in the middle of a message leaves sum and
position alone, so only a context without text is still `Chained` after it; with a key that the cipher refuses all of the
context is as before (`SummedRefused`).

The cases of `cmac_update` meet in `BlocksDone`: whole blocks at the front of the input advance the
sum by as many, from any start (`SumNext`, `SameSums`).  `Updated` takes a
context that holds `t` to one that holds `t \o data`; `Finished` and `Tagged` add the last
block, padded or not, and arrive at `CMAC`, whose chain runs over numbers and not over bytes (`CmacIs`).
For the KDFs each loop is compared turn by turn with the definition: `PbkdfBlock` (the
iterates, and what has been added of them), `TlsOut` (the chain A(i)), and `Output`, by which byte p of the chained
blocks is byte p mod n of block p div n, the cut at `outlen` included.  `IInv` is proved
by one lemma for each action, over one lemma for each function and kind of context (`ResetServes`,
`SetkeyServes`, `UpdateServes`, `FinalServes` and so on).

`BlockProofs` is about DES, triple DES, Blowfish, TEA, XTEA, SEED, CAST-128 and CAST-256 (`Invertible`),
with keys of every size they have.  `DecryptUndoesEncrypt` says that each of the two directions
undoes the other on every block.  Of the tables only the width of their entries is used
(`TableAssumption`), so it holds for the real ones.  The argument is the same for all of them: one turn
of the loop is undone by one turn of the other loop (a Feistel turn because exclusive or undoes itself, one of TEA and XTEA
because `Minus` undoes `Plus`, whose carries are followed bit by bit), and a loop whose turns are undone one
by one, in the opposite order, is undone as a whole (`LoopsBack`); around it stand the bytes of a block as words and back
(`Block8`, `Block16`) and, for DES, the two permutations (`IPERM`, `FPERM`, undone step by step).  What
the schedule has to supply differs: DES keeps its subkeys backwards as well (`Reverses`); Blowfish runs the
cipher on unfinished tables, and the loops keep `m_pd` the reversal of `m_p` (`Backwards`,
`BlowfishSchedule`); the sum that decryption starts with is where encryption ends, `delta << 5` for TEA and
`delta * rounds` for XTEA.

From there `OnePermutation` and `TypeOK` of `Block` follow for a client of one of these ciphers
(`Alone`), with any contexts, keys, clones and calls of either kind.  The invariant `IInv` says that a keyed
context holds exactly what a fresh one would hold after the same key (`ContextsOf`; `KeyReplaces`: nothing of an
earlier key is left), and that every line of the book is a block with its encryption under the line's key
(`BookOf`).  Two lines under one key are then two points of one function that has an inverse.  The assumptions are
those of `Block`: the tables (`TableAssumption`), and keys of bytes, of a size the cipher has where it does not
check that itself, and for Camellia of at most 32 bytes (`ClientAssumption`).

`Arithmetic` replaces the induction theorems of the library, whose operator parameters
the provers cannot instantiate: a set of numbers has a least element (`Least`), and so
a set that contains zero and with every number the next contains all
(`Inductive`); a function given step by step exists as it is written
(`Recursion`) and keeps its type (`TypedRecursion`).  `HashProofs`, `ModesProofs`,
`MacProofs` and `BlockProofs` rest on it.  `Buffers` has what `HashProofs`, `MacProofs` and `BlockProofs` need of
sequences and words.

Only model-checked: `CallsReturn`, because liveness under fairness is outside of what TLAPS
proves; `TypeOK` and `OnePermutation` of `Block` for the other ciphers (RC2, Camellia, SHACAL, Serpent,
Twofish, MARS, SAFER, AES, Rijndael, ARIA); and all of `Digests`.  The boxes of AES, Rijndael, ARIA, Serpent and SAFER are inverse
because of what their entries are, which TLC computes and the provers would have to evaluate; the others, and `OneDigest` and
`LastByteCounts` over the rounds of some thirty hash functions, would each be a development of its own.

## Plan

Done: `Loader`, `Mem` and `Hash` with their proofs; streaming of CFB, OFB, CTR, CBC, GCM
and the stream ciphers (`Modes`, `Streams`), with its proofs; the block ciphers (`Block`), with the proofs for eight of them; the hash functions
(`Digests`); MACs and key derivation (`Mac`), with their proofs.

To come, in this order:

1. The lifetime of mode contexts (iv and loader references under init, clone and fini).
2. Generators: seeding and reseeding; libmd's lazy initialisation.
3. Elliptic curves and signatures over tiny fields.

## Not modelled

Generators, elliptic curves, public key algorithms and libmd: see the plan.  The
multiplication of GCM in pclmulqdq and the generators of Salsa20 and ChaCha in
assembler (the resets of the latter do nothing) are outside of the C++ code; the clones
of the modes and of the other stream ciphers belong to the lifetime of contexts.  Within the components that
are modelled, the answers of `info` and `info2`, the self tests, and the contents of the
tables that are parameters.  The bignum wrappers and the kernel interface
forward to other software; the utilities, the test programs and generated code
have no state worth a model.  Power loss and process crashes have no place here:
nothing is persisted.
