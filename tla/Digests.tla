------------------------------ MODULE Digests ------------------------------
(***************************************************************************)
(* The hash functions of src/impl/hash, with their compression functions:  *)
(* what the functions of hash-plugin.hh do for each of them.  Module Hash  *)
(* has the same functions over a free compression function.                *)
(*                                                                         *)
(* A behaviour is a client of one hash function, family, the set of the    *)
(* plugins that implement it.  It feeds contexts with a text: a context    *)
(* has seen the first fed bytes of it, in pieces that the client chooses.  *)
(***************************************************************************)
EXTENDS Words
LOCAL INSTANCE SequencesExt

CONSTANTS Table(_, _, _),   \* the static tables of the hash functions that are given as data
          Slots,            \* the contexts of the client
          Families,         \* the hash functions
          Pieces(_),        \* the lengths of the pieces it updates a family with
          FastPieces(_),    \* and of the pieces it gives to updatefast
          Modulus,          \* bound: stands for the width of m_len, which no text here reaches
          MaxContexts(_),   \* bound on the calls of init, clone and reset
          MaxCalls          \* bound on the calls of update, updatefast, pad and final

VARIABLES family, ctx, contexts, calls
vars == <<family, ctx, contexts, calls>>

MD == INSTANCE Md
SH == INSTANCE Sha
TI == INSTANCE Tiger
WH == INSTANCE Whirlpool
JH == INSTANCE Jh
FU == INSTANCE Fugue
GR == INSTANCE Groestl
KE == INSTANCE Keccak
BL == INSTANCE Blake
SK == INSTANCE Skein

\* The base class, for its blocks and the two byte orders of the length field.
FieldLE4(hi, lo) == BytesLE(4, <<OfNum(32, lo), OfNum(32, hi)>>)
FieldBE4(hi, lo) == BytesBE(4, <<OfNum(32, hi), OfNum(32, lo)>>)
FieldBE8(hi, lo) == BytesBE(8, <<OfNum(64, hi), OfNum(64, lo)>>)
H4 == INSTANCE HashBase WITH BlkSize <- 4, FieldSize <- 8, Mark <- {7}, ZeroByte <- Zero, Field <- FieldBE4
H16 == INSTANCE HashBase WITH BlkSize <- 16, FieldSize <- 2, Modulus <- 256, Mark <- {7},
                              ZeroByte <- Zero, Field <- FieldLE4
H64L == INSTANCE HashBase WITH BlkSize <- 64, FieldSize <- 8, Mark <- {7}, ZeroByte <- Zero, Field <- FieldLE4
H64B == INSTANCE HashBase WITH BlkSize <- 64, FieldSize <- 8, Mark <- {7}, ZeroByte <- Zero, Field <- FieldBE4
H128 == INSTANCE HashBase WITH BlkSize <- 128, FieldSize <- 16, Mark <- {7}, ZeroByte <- Zero, Field <- FieldBE8

------------------------------------------------------------------------------
FugueSize == [Fugue224 |-> "224", Fugue256 |-> "256", Fugue384 |-> "384", Fugue512 |-> "512"]
IsFugue(a) == a \in DOMAIN FugueSize
\* The variant of keccak_f, the byte that pads, and the size of the digest.
KeccakImpl == [Keccak |-> [T |-> 0, pad |-> {0}, size |-> 28],
               KeccakWithLimitedNots |-> [T |-> 1, pad |-> {0}, size |-> 28],
               KeccakCompact |-> [T |-> 2, pad |-> {0}, size |-> 28],
               SHA3224 |-> [T |-> 1, pad |-> {1, 2}, size |-> 28],
               SHA3256 |-> [T |-> 1, pad |-> {1, 2}, size |-> 32],
               SHA3384 |-> [T |-> 1, pad |-> {1, 2}, size |-> 48],
               SHA3512 |-> [T |-> 1, pad |-> {1, 2}, size |-> 64]]
IsKeccak(a) == a \in DOMAIN KeccakImpl
BlakeImpl == [BLAKE224 |-> [v |-> "256", big |-> FALSE, size |-> 28],
              BLAKE256 |-> [v |-> "256", big |-> TRUE, size |-> 32],
              BLAKE384 |-> [v |-> "512", big |-> FALSE, size |-> 48],
              BLAKE512 |-> [v |-> "512", big |-> TRUE, size |-> 64]]
IsBlake(a) == a \in DOMAIN BlakeImpl
\* Grøstl with digests of 28 and of 48 bytes, JH with 48.
IsGroestl(a) == a \in {"Groestl28", "Groestl48"}
\* The classes that use Update and UpdateFast of the base class.
IsBased(a) == ~IsKeccak(a) /\ ~IsBlake(a) /\ ~IsGroestl(a) /\ a \notin {"BLAKE2b", "Skein"}

\* m_hash after Reset, for these.
ResetHash(a) ==
    CASE a = "MD2" -> MD!MD2Reset
      [] a \in {"MD4", "MD5"} -> MD!MD4Reset
      [] a = "RIPEMD128" -> MD!RIPEMD128Reset
      [] a = "RIPEMD160" -> MD!RIPEMD160Reset
      [] a = "RIPEMD256" -> MD!RIPEMD256Reset
      [] a = "RIPEMD320" -> MD!RIPEMD320Reset
      [] a \in {"SHA0", "SHA1"} -> SH!SHA1Reset
      [] a = "SHA224" -> SH!SHA224Reset
      [] a = "SHA256" -> SH!SHA256Reset
      [] a = "SHA384" -> SH!SHA384Reset
      [] a = "SHA512" -> SH!SHA512Reset
      [] a = "Tiger" -> TI!Reset
      [] a = "Whirlpool" -> WH!Reset
      [] a = "JH" -> JH!Reset(48)
      [] a = "Fugue224" -> FU!Fugue224Reset
      [] a = "Fugue256" -> FU!Fugue256Reset
      [] a = "Fugue384" -> FU!Fugue384Reset
      [] a = "Fugue512" -> FU!Fugue512Reset

Transform(a, hash, block) ==
    CASE a = "MD2" -> MD!MD2Transform(hash, block)
      [] a = "MD4" -> MD!MD4Transform(hash, block)
      [] a = "MD5" -> MD!MD5Transform(hash, block)
      [] a = "RIPEMD128" -> MD!RIPEMD128Transform(hash, block)
      [] a = "RIPEMD160" -> MD!RIPEMD160Transform(hash, block)
      [] a = "RIPEMD256" -> MD!RIPEMD256Transform(hash, block)
      [] a = "RIPEMD320" -> MD!RIPEMD320Transform(hash, block)
      [] a \in {"SHA0", "SHA1"} -> SH!SHA1Transform(IF a = "SHA1" THEN 1 ELSE 0, hash, block)
      [] a \in {"SHA224", "SHA256"} -> SH!SHA256Transform(hash, block)
      [] a \in {"SHA384", "SHA512", "SHA512t"} -> SH!SHA512Transform(hash, block)
      [] a = "Tiger" -> TI!Transform(hash, block)
      [] a = "Whirlpool" -> WH!Transform(hash, block)
      [] a = "JH" -> JH!Transform(hash, block)
      [] IsFugue(a) -> FU!Transform(FugueSize[a], hash, block)

\* The base class calls Transform as it goes: the blocks it found go through it.
Drained(a, k) ==
    [k EXCEPT !.hash = FoldLeft(LAMBDA hash, block : Transform(a, hash, block), @, k.blocks),
              !.blocks = <<>>]
BasedUpdate(a, k, data) ==
    Drained(a, CASE a = "MD2" -> H16!Update(k, data)
                 [] IsFugue(a) -> H4!Update(k, data)
                 [] a \in {"SHA384", "SHA512", "SHA512t"} -> H128!Update(k, data)
                 [] OTHER -> H64L!Update(k, data))
BasedUpdateFast(a, k, data) ==
    Drained(a, CASE a = "MD2" -> H16!UpdateFast(k, data)
                 [] IsFugue(a) -> H4!UpdateFast(k, data)
                 [] a \in {"SHA384", "SHA512", "SHA512t"} -> H128!UpdateFast(k, data)
                 [] OTHER -> H64L!UpdateFast(k, data))

\* As many bytes as the block lacks, each with their number, then the checksum,
\* which Transform has made of the blocks before it.
MD2Blocks(k, b) == FoldLeft(LAMBDA hash, block : MD!MD2Transform(hash, block), k.hash, b)
MD2Checksum(k, hash) == [H16!Update(k, SubSeq(hash, 49, 64)) EXCEPT !.hash = hash]
MD2Filled(k) == H16!Update(k, [i \in 1 .. 16 - (k.len[1] % 16) |-> OfNum(8, 16 - (k.len[1] % 16))])
MD2Drained(k) == MD2Checksum([k EXCEPT !.blocks = <<>>], MD2Blocks(k, k.blocks))
MD2Pad(k) == MD2Drained(MD2Filled(k))
\* The mark is 0x01, and the length is two words of 32 bits out of 64.
TigerPad(k) ==
    LET bits == H64L!BitLength(k.len)
    IN  H64L!PadWith(k, {0}, 56, FieldLE4(bits[2], bits[1]))
WhirlpoolPad(k) ==
    LET bits == H64B!BitLength(k.len)
    IN  H64B!PadWith(k, {7}, 32, Zeros(16) \o FieldBE8(bits[2], bits[1]))
BasedPad(a, k) ==
    Drained(a, CASE a = "MD2" -> MD2Pad(k)
                 [] a = "Tiger" -> TigerPad(k)
                 [] a = "Whirlpool" -> WhirlpoolPad(k)
                 [] a = "JH" -> JH!Pad(k, H64B!BitLength(k.len))
                 [] IsFugue(a) -> FU!Pad(k, H4!BitLength(k.len))
                 [] a \in {"SHA384", "SHA512", "SHA512t"} -> H128!Pad(k)
                 [] a \in {"SHA0", "SHA1", "SHA224", "SHA256"} -> H64B!Pad(k)
                 [] a \in {"MD4", "MD5", "RIPEMD128", "RIPEMD160", "RIPEMD256", "RIPEMD320"} -> H64L!Pad(k))

\* What Initialize leaves, with m_hash.
Initialized(a, hash) ==
    LET k == CASE a = "MD2" -> H16!Initialize
               [] IsFugue(a) -> H4!Initialize
               [] a \in {"SHA384", "SHA512", "SHA512t"} -> H128!Initialize
               [] OTHER -> H64L!Initialize
    IN  [hash |-> hash, blocks |-> k.blocks, buf |-> k.buf, len |-> k.len]
\* SHA-512/t, here with t = 256, first hashes its own name.
SHA512tName == <<OfNum(8, \h53), OfNum(8, \h48), OfNum(8, \h41), OfNum(8, \h2d), OfNum(8, \h35),
                 OfNum(8, \h31), OfNum(8, \h32), OfNum(8, \h2f), OfNum(8, \h32), OfNum(8, \h35),
                 OfNum(8, \h36)>>
SHA512tReset ==
    LET k == Initialized("SHA512t", SH!SHA512tStart)
    IN  Initialized("SHA512t", FoldLeft(LAMBDA hash, block : SH!SHA512Transform(hash, block), k.hash,
                                        H128!Pad(H128!Update(k, SHA512tName)).blocks))

------------------------------------------------------------------------------
\* The constructor, which calls Reset; a later Reset keeps nothing but the sizes.
Reset(a) ==
    CASE a = "SHA512t" -> SHA512tReset
      [] IsKeccak(a) -> KE!New(KeccakImpl[a].T, KeccakImpl[a].size, KeccakImpl[a].pad)
      [] a = "BLAKE224" -> BL!Reset224
      [] a = "BLAKE256" -> BL!Reset256
      [] a = "BLAKE384" -> BL!Reset384
      [] a = "BLAKE512" -> BL!Reset512
      [] a = "BLAKE2b" -> BL!Reset2b(64)
      [] a = "Skein" -> SK!Reset(64)
      [] a = "Groestl28" -> GR!New(28)
      [] a = "Groestl48" -> GR!New(48)
      [] OTHER -> Initialized(a, ResetHash(a))
Update(a, k, data) ==
    CASE IsKeccak(a) -> KE!Update(KeccakImpl[a].T, k, data)
      [] IsBlake(a) -> BL!Update(BlakeImpl[a].v, k, data)
      [] a = "BLAKE2b" -> BL!Update("2b", k, data)
      [] a = "Skein" -> SK!Update(k, data)
      [] IsGroestl(a) -> GR!Update(k, data)
      [] OTHER -> BasedUpdate(a, k, data)
UpdateFast(a, k, data) ==
    CASE IsKeccak(a) \/ IsBlake(a) \/ a = "BLAKE2b" -> Update(a, k, data)
      [] a = "Skein" -> SK!UpdateFast(k, data)
      [] IsGroestl(a) -> GR!UpdateFast(k, data)
      [] OTHER -> BasedUpdateFast(a, k, data)
Pad(a, k) ==
    CASE IsKeccak(a) -> KE!Pad(KeccakImpl[a].T, k)
      [] IsBlake(a) -> BL!Pad(BlakeImpl[a].v, k, BlakeImpl[a].big)
      [] a = "BLAKE2b" -> BL!Pad2b(k)
      [] a = "Skein" -> SK!Pad(k)
      [] IsGroestl(a) -> GR!Pad(k)
      [] OTHER -> BasedPad(a, k)

\* GetDigest of a padded context: what it does to the context, and the digest
\* that is then read from it.
Finish(a, k) ==
    CASE IsKeccak(a) -> KE!GetDigestState(KeccakImpl[a].T, k)
      [] IsFugue(a) -> [k EXCEPT !.hash = FU!Final(FugueSize[a], @)]
      [] a = "Skein" -> SK!Output(k)
      [] IsGroestl(a) -> GR!Output(k)
      [] OTHER -> k
digest_size(a) ==
    CASE a \in {"MD2", "MD4", "MD5", "RIPEMD128"} -> 16
      [] a \in {"RIPEMD160", "SHA0", "SHA1"} -> 20
      [] a = "Tiger" -> 24
      [] a \in {"SHA224", "Fugue224", "Groestl28"} -> 28
      [] a \in {"RIPEMD256", "SHA256", "SHA512t", "Fugue256"} -> 32
      [] a = "RIPEMD320" -> 40
      [] a \in {"SHA384", "Fugue384", "Groestl48", "JH"} -> 48
      [] a \in {"SHA512", "Fugue512", "Whirlpool", "BLAKE2b", "Skein"} -> 64
      [] IsKeccak(a) -> KeccakImpl[a].size
      [] IsBlake(a) -> BlakeImpl[a].size
\* Mutant: all of m_hash is copied.
GetDigestWhole(a, k) ==
    CASE a \in {"SHA224", "SHA256"} -> BytesBE(4, k.hash)
      [] a = "SHA384" -> BytesBE(8, k.hash)
      [] OTHER -> [i \in 1 .. digest_size(a) |-> Zero]

GetDigest(a, k) ==
    LET n == digest_size(a)
    IN  CASE IsKeccak(a) -> KE!GetDigest(k, n)
          [] IsGroestl(a) -> GR!Digest(k)
          [] a = "JH" -> JH!GetDigest(k.hash, n)
          [] IsFugue(a) -> FU!GetDigest(FugueSize[a], k.hash)
          [] a = "MD2" -> SubSeq(k.hash, 1, n)
          [] a \in {"SHA0", "SHA1", "SHA224", "SHA256", "BLAKE224", "BLAKE256"} ->
                SubSeq(BytesBE(4, k.hash), 1, n)
          [] a \in {"SHA384", "SHA512", "SHA512t", "Whirlpool", "BLAKE384", "BLAKE512"} ->
                SubSeq(BytesBE(8, k.hash), 1, n)
          [] a \in {"Tiger", "BLAKE2b", "Skein"} -> SubSeq(BytesLE(8, k.hash), 1, n)
          [] OTHER -> SubSeq(BytesLE(4, k.hash), 1, n)

------------------------------------------------------------------------------
\* A context of the client: UNINITIALIZED (None), or [impl, k, state, fed, digest].
None == [impl |-> "none"]
Live(s) == ctx[s] # None
Open(s) == Live(s) /\ ctx[s].state \in {"ALIGNED", "UNALIGNED"}
\* Byte i of the text.
TextByte(i) == OfNum(8, (29 * (i + 1) * (i + 6) + (i \div 7)) % 256)
Text(from, n) == [i \in 1 .. n |-> TextByte(from + i)]
New(a) == [impl |-> a, k |-> Reset(a), state |-> "ALIGNED", fed |-> 0, digest |-> <<>>]

Init ==
    /\ family \in Families
    /\ ctx = [s \in Slots |-> None]
    /\ contexts = 0
    /\ calls = 0

init(s, a) ==
    /\ ~Live(s)
    /\ contexts < MaxContexts(family)
    /\ contexts' = contexts + 1
    /\ ctx' = [ctx EXCEPT ![s] = New(a)]
    /\ UNCHANGED <<family, calls>>

clone(s, t) ==
    /\ Live(s) /\ ~Live(t)
    /\ contexts < MaxContexts(family)
    /\ contexts' = contexts + 1
    /\ ctx' = [ctx EXCEPT ![t] = ctx[s]]
    /\ UNCHANGED <<family, calls>>

reset(s) ==
    /\ Live(s)
    /\ contexts < MaxContexts(family)
    /\ contexts' = contexts + 1
    /\ ctx' = [ctx EXCEPT ![s] = New(@.impl)]
    /\ UNCHANGED <<family, calls>>

update(s, n) ==
    /\ Open(s)
    /\ calls < MaxCalls
    /\ calls' = calls + 1
    /\ LET x == ctx[s]
       IN  ctx' = [ctx EXCEPT ![s].k = Update(x.impl, x.k, Text(x.fed, n)),
                              ![s].state = "UNALIGNED", ![s].fed = @ + n]
    /\ UNCHANGED <<family, contexts>>

updatefast(s, n) ==
    /\ Open(s) /\ ctx[s].state = "ALIGNED"
    /\ calls < MaxCalls
    /\ calls' = calls + 1
    /\ LET x == ctx[s]
       IN  ctx' = [ctx EXCEPT ![s].k = UpdateFast(x.impl, x.k, Text(x.fed, n)), ![s].fed = @ + n]
    /\ UNCHANGED <<family, contexts>>

pad(s) ==
    /\ Open(s)
    /\ calls < MaxCalls
    /\ calls' = calls + 1
    /\ LET x == ctx[s]
       IN  ctx' = [ctx EXCEPT ![s].k = Pad(x.impl, x.k), ![s].state = "PADDED"]
    /\ UNCHANGED <<family, contexts>>

\* With DREW_HASH_NO_PAD in a padded context, without it in an open one.
Delivered(x, k) == [x EXCEPT !.k = k, !.digest = GetDigest(x.impl, k), !.state = "FINISHED"]
final(s) ==
    /\ Live(s) /\ ctx[s].state # "FINISHED"
    /\ calls < MaxCalls
    /\ calls' = calls + 1
    /\ LET x == ctx[s]
       IN  ctx' = [ctx EXCEPT ![s] = Delivered(x, Finish(x.impl, IF Open(s) THEN Pad(x.impl, x.k) ELSE x.k))]
    /\ UNCHANGED <<family, contexts>>

fini(s) ==
    /\ Live(s)
    /\ ctx' = [ctx EXCEPT ![s] = None]
    /\ UNCHANGED <<family, contexts, calls>>

Next ==
    \/ \E s \in Slots, a \in family : init(s, a)
    \/ \E s, t \in Slots : clone(s, t)
    \/ \E s \in Slots : reset(s)
    \/ \E s \in Slots, n \in Pieces(family) : update(s, n)
    \/ \E s \in Slots, n \in FastPieces(family) : updatefast(s, n)
    \/ \E s \in Slots : pad(s)
    \/ \E s \in Slots : final(s)
    \/ \E s \in Slots : fini(s)

Spec == Init /\ [][Next]_vars

------------------------------------------------------------------------------
\* A context belongs to the family, and a digest has the size of its function.
TypeOK ==
    \A s \in Slots : Live(s) =>
        /\ ctx[s].impl \in family
        /\ ctx[s].state \in {"ALIGNED", "UNALIGNED", "PADDED", "FINISHED"}
        /\ ctx[s].fed \in Nat
        /\ Len(ctx[s].digest) = IF ctx[s].state = "FINISHED" THEN digest_size(ctx[s].impl) ELSE 0

\* The digest of a message, by one implementation of the family in one call of
\* update.
OneShot(message) ==
    LET a == CHOOSE i \in family : TRUE
    IN  GetDigest(a, Finish(a, Pad(a, Update(a, Reset(a), message))))
Finished(s) == Live(s) /\ ctx[s].state = "FINISHED"

\* A hash is a function of the bytes: whichever plugin of the function computed
\* it, however the message was cut into pieces, fast or not, and whatever a
\* clone, a reset or an earlier message left in the context, the digest that
\* final delivers is the digest of the message in one piece.
OneDigest == \A s \in Slots : Finished(s) => ctx[s].digest = OneShot(Text(0, ctx[s].fed))

\* No byte is lost between the buffer and the padding: the digest is not the one
\* of the message with a bit of its last byte changed.  A class that keeps the
\* last block back until pad must not have overwritten it by then.
LastByteCounts ==
    \A s \in Slots : Finished(s) /\ ctx[s].fed > 0 =>
        LET n == ctx[s].fed
        IN  ctx[s].digest # OneShot(Append(Text(0, n - 1), Xor(TextByte(n), {0})))
==============================================================================
