-------------------------------- MODULE Block --------------------------------
(***************************************************************************)
(* The block cipher plugins of src/impl/block: the functions of the table  *)
(* that block-plugin.hh generates for every cipher, over the base class of *)
(* blockcipher.hh and the ciphers themselves.                              *)
(*                                                                         *)
(* A behaviour is a client of one cipher, family, the set of the plugins   *)
(* that implement it.  The client holds a few contexts (ctx), gives them   *)
(* keys and has them encrypt and decrypt.  book is a history variable: a   *)
(* line [key, plain, cipher] for each block processed under a key.         *)
(***************************************************************************)
EXTENDS Words, FiniteSets

CONSTANTS Table(_, _, _),   \* the static tables of the ciphers that are given as data
          Slots,            \* the contexts of the client
          Families,         \* the ciphers
          Keys(_),          \* the keys the client has for a cipher
          Flags(_),         \* and the directions it asks for
          Text(_),          \* a block of n bytes
          MaxKeys(_),       \* bound on the calls of setkey
          MaxBook           \* bound on the lines of book

\* The tables of words that the ciphers index with at most ten bits, and the table
\* of bytes of RC2.
WordTables == 100 .. 107 \union {200, 201} \union 400 .. 403 \union 500 .. 507 \union {900}
ASSUME TableAssumption ==
    /\ \A t \in WordTables, x \in Word(10) : Table(32, t, x) \in Word(32)
    /\ \A x \in Byte : Table(8, 300, x) \in Byte

VARIABLES family, ctx, nkeys, book
vars == <<family, ctx, nkeys, book>>

Seqs == INSTANCE SequencesExt
C64 == INSTANCE Ciphers64
C128 == INSTANCE Ciphers128
CA == INSTANCE Cast
CM == INSTANCE Camellia
SH == INSTANCE Sha
SP == INSTANCE Serpent
TF == INSTANCE Twofish
SA == INSTANCE Safer
AE == INSTANCE Aes
RI == INSTANCE Rijndael
AR == INSTANCE Aria

RijndaelNb == [Rijndael128 |-> 4, Rijndael160 |-> 5, Rijndael192 |-> 6, Rijndael224 |-> 7,
               Rijndael256 |-> 8]
IsRijndael(a) == a \in DOMAIN RijndaelNb

block_size(a) ==
    CASE a \in {"DES", "DESede", "Blowfish", "TEA", "XTEA", "RC2", "CAST-128",
                "SAFER-K", "SAFER-SK"} -> 8
      [] a = "SHACAL-1" -> 20
      [] a = "SHACAL-2" -> 32
      [] IsRijndael(a) -> 4 * RijndaelNb[a]
      [] OTHER -> 16

KeySizes(a) ==
    CASE a = "DES" -> {8}
      [] a = "DESede" -> {16, 24}
      [] a = "Blowfish" -> 1 .. 56
      [] a \in {"TEA", "XTEA", "SEED"} -> {16}
      [] a = "RC2" -> 1 .. 128
      [] a = "CAST-128" -> 5 .. 16
      [] a = "CAST-256" \/ IsRijndael(a) -> {16, 20, 24, 28, 32}
      [] a = "MARS" -> {16 + 4*i : i \in 0 .. 10}
      [] a \in {"SAFER-K", "SAFER-SK"} -> {8, 16}
      [] a = "Serpent" -> 1 .. 32
      [] a \in {"SHACAL-1", "SHACAL-2"} -> 1 .. 64
      [] OTHER -> {16, 24, 32}

\* SetKeyInternal refuses a key of a wrong size in these; the others do not look.
Checks(a) == a \in {"AES", "AESNI", "Camellia", "SAFER-K", "SAFER-SK", "ARIA128", "ARIAbyte"}
Accepts(a, key) == Checks(a) => Len(key) \in KeySizes(a)

\* The client's keys are strings of bytes.  Only a cipher that checks the size of a
\* key is given one of a size it does not have, and Camellia none of more than 32
\* bytes: it copies the key to a buffer of that size before it looks.
ASSUME ClientAssumption ==
    \A fam \in Families :
        /\ Flags(fam) \subseteq {"both", "encrypt", "decrypt"}
        /\ \A a \in fam : /\ Text(block_size(a)) \in [1 .. block_size(a) -> Byte]
                          /\ \A key \in Keys(fam) : /\ key \in Seq(Byte)
                                                    /\ ~Checks(a) => Len(key) \in KeySizes(a)
                                                    /\ a = "Camellia" => Len(key) <= 32

\* What the constructor leaves.
Constructed(a) ==
    CASE a = "Camellia" -> CM!Fresh
      [] a \in {"SAFER-K", "SAFER-SK"} -> SA!New(0)
      [] a \in {"AES", "AESNI"} -> [nr |-> 0, rk |-> <<>>, rkd |-> <<>>]
      [] OTHER -> <<>>

SetKeyInternal(a, c, key, flags) ==
    CASE a = "DES" -> C64!DesSetKey(key)
      [] a = "DESede" -> C64!SetKey3(key)
      [] a = "Blowfish" -> C64!BlowfishSetKey(key)
      [] a = "TEA" -> C64!TeaSetKey(key)
      [] a = "XTEA" -> C64!XteaSetKey(32, key)
      [] a = "RC2" -> C64!Rc2SetKey(key)
      [] a = "SEED" -> C128!SeedSetKey(key)
      [] a = "CAST-128" -> CA!SetKey5(key)
      [] a = "CAST-256" -> CA!SetKey6(key)
      [] a = "Camellia" -> CM!SetKey(c, key)
      [] a = "SHACAL-1" -> SH!SetKey1(key)
      [] a = "SHACAL-2" -> SH!SetKey2(key)
      [] a = "Serpent" -> SP!SetKey(key)
      [] a = "Twofish" -> TF!SetKey(key)
      [] a = "MARS" -> C128!MarsSetKey(key)
      [] a = "SAFER-K" -> SA!SetKey(c, key)
      [] a = "SAFER-SK" -> SA!SetKeySK(c, key)
      [] a = "AES" -> AE!SetKey(c, key)
      [] a = "AESNI" -> AE!NiSetKey(c, key, flags)
      [] a = "ARIA128" -> AR!SetKey128(c, key)
      [] a = "ARIAbyte" -> AR!SetKeyBytewise(c, key)
      [] IsRijndael(a) -> RI!SetKey(RijndaelNb[a], key)

EncryptBlock(a, c, in) ==
    CASE a = "DES" -> C64!DesEncrypt(c, in)
      [] a = "DESede" -> C64!Encrypt3(c, in)
      [] a = "Blowfish" -> C64!BlowfishEncrypt(c, in)
      [] a = "TEA" -> C64!TeaEncrypt(c, in)
      [] a = "XTEA" -> C64!XteaEncrypt(c, in)
      [] a = "RC2" -> C64!Rc2Encrypt(c, in)
      [] a = "SEED" -> C128!SeedEncrypt(c, in)
      [] a = "CAST-128" -> CA!Encrypt5(c, in)
      [] a = "CAST-256" -> CA!Encrypt6(c, in)
      [] a = "Camellia" -> CM!Encrypt(c, in)
      [] a = "SHACAL-1" -> SH!Encrypt1(c, in)
      [] a = "SHACAL-2" -> SH!Encrypt2(c, in)
      [] a = "Serpent" -> SP!Encrypt(c, in)
      [] a = "Twofish" -> TF!Encrypt(c, in)
      [] a = "MARS" -> C128!MarsEncrypt(c, in)
      [] a \in {"SAFER-K", "SAFER-SK"} -> SA!Encrypt(c, in)
      [] a = "AES" -> AE!Encrypt(c, in)
      [] a = "AESNI" -> AE!NiEncrypt(c, in)
      [] a \in {"ARIA128", "ARIAbyte"} -> AR!Encrypt(c, in)
      [] IsRijndael(a) -> RI!Encrypt(RijndaelNb[a], c, in)

DecryptBlock(a, c, in) ==
    CASE a = "DES" -> C64!DesDecrypt(c, in)
      [] a = "DESede" -> C64!Decrypt3(c, in)
      [] a = "Blowfish" -> C64!BlowfishDecrypt(c, in)
      [] a = "TEA" -> C64!TeaDecrypt(c, in)
      [] a = "XTEA" -> C64!XteaDecrypt(c, in)
      [] a = "RC2" -> C64!Rc2Decrypt(c, in)
      [] a = "SEED" -> C128!SeedDecrypt(c, in)
      [] a = "CAST-128" -> CA!Decrypt5(c, in)
      [] a = "CAST-256" -> CA!Decrypt6(c, in)
      [] a = "Camellia" -> CM!Decrypt(c, in)
      [] a = "SHACAL-1" -> SH!Decrypt1(c, in)
      [] a = "SHACAL-2" -> SH!Decrypt2(c, in)
      [] a = "Serpent" -> SP!Decrypt(c, in)
      [] a = "Twofish" -> TF!Decrypt(c, in)
      [] a = "MARS" -> C128!MarsDecrypt(c, in)
      [] a \in {"SAFER-K", "SAFER-SK"} -> SA!Decrypt(c, in)
      [] a = "AES" -> AE!Decrypt(c, in)
      [] a = "AESNI" -> AE!NiDecrypt(c, in)
      [] a \in {"ARIA128", "ARIAbyte"} -> AR!Decrypt(c, in)
      [] IsRijndael(a) -> RI!Decrypt(RijndaelNb[a], c, in)

\* The base class does blocks of eight bytes two at a time, n/2 times.
FastBlocks(a, n) == IF block_size(a) = 8 THEN 2 * (n \div 2) ELSE n
EncryptFastBlock(a, c, in) == IF a = "AESNI" THEN AE!NiEncryptFast(c, in) ELSE EncryptBlock(a, c, in)
DecryptFastBlock(a, c, in) == IF a = "AESNI" THEN AE!NiDecryptFast(c, in) ELSE DecryptBlock(a, c, in)

------------------------------------------------------------------------------
\* A context of the client: UNINITIALIZED (None), or [impl, c, keysz, state, key].
\* state and key are the client's view of it: UNKEYED, or READY with a key for
\* both directions or for one, as in the manual.
None == [impl |-> "none"]
States == {"unkeyed", "both", "encrypt", "decrypt"}
Live(s) == ctx[s] # None
Ready(s, direction) == Live(s) /\ ctx[s].state \in {"both", direction}
Line(key, plain, cipher) == [key |-> key, plain |-> plain, cipher |-> cipher]
Texts == {Text(block_size(a)) : a \in family}

Init ==
    /\ family \in Families
    /\ ctx = [s \in Slots |-> None]
    /\ nkeys = 0
    /\ book = {}

init(s, a) ==
    /\ ~Live(s)
    /\ ctx' = [ctx EXCEPT ![s] = [impl |-> a, c |-> Constructed(a), keysz |-> 0,
                                  state |-> "unkeyed", key |-> <<>>]]
    /\ UNCHANGED <<family, nkeys, book>>

\* Mutant: the client is told that a refused key is in force.
setkeyUnchecked(s, key, flags) ==
    /\ Live(s)
    /\ nkeys < MaxKeys(family)
    /\ nkeys' = nkeys + 1
    /\ ctx' = [ctx EXCEPT ![s] = [@ EXCEPT !.keysz = Len(key), !.state = flags, !.key = key]]
    /\ UNCHANGED <<family, book>>

\* keysz is set before the key is looked at, and stays when it is refused.
setkey(s, key, flags) ==
    /\ Live(s)
    /\ nkeys < MaxKeys(family)
    /\ nkeys' = nkeys + 1
    /\ LET ok == Accepts(ctx[s].impl, key)
       IN  ctx' = [ctx EXCEPT ![s] = [@ EXCEPT !.keysz = Len(key),
                                               !.c = SetKeyInternal(ctx[s].impl, @, key, flags),
                                               !.state = IF ok THEN flags ELSE @,
                                               !.key = IF ok THEN key ELSE @]]
    /\ UNCHANGED <<family, book>>

clone(s, t) ==
    /\ Live(s) /\ ~Live(t)
    /\ ctx' = [ctx EXCEPT ![t] = ctx[s]]
    /\ UNCHANGED <<family, nkeys, book>>

\* The base class has nothing to reset, and no cipher overrides it.
reset(s) ==
    /\ Live(s)
    /\ UNCHANGED vars

Note(lines) ==
    /\ Cardinality(book) < MaxBook
    /\ book' = book \union lines
    /\ UNCHANGED <<family, ctx, nkeys>>

encrypt(s, in) ==
    /\ Ready(s, "encrypt")
    /\ Note({Line(ctx[s].key, in, EncryptBlock(ctx[s].impl, ctx[s].c, in))})

decrypt(s, in) ==
    /\ Ready(s, "decrypt")
    /\ Note({Line(ctx[s].key, DecryptBlock(ctx[s].impl, ctx[s].c, in), in)})

\* The manual asks for a multiple of sixteen bytes.  The output of a block that
\* the loop does not reach is what the client's buffer held, here the input.
Reached(s, in, i) == i <= FastBlocks(ctx[s].impl, Len(in))
encryptfast(s, in) ==
    /\ Ready(s, "encrypt")
    /\ Note({Line(ctx[s].key, in[i],
                  IF Reached(s, in, i) THEN EncryptFastBlock(ctx[s].impl, ctx[s].c, in[i]) ELSE in[i])
             : i \in DOMAIN in})

decryptfast(s, in) ==
    /\ Ready(s, "decrypt")
    /\ Note({Line(ctx[s].key,
                  IF Reached(s, in, i) THEN DecryptFastBlock(ctx[s].impl, ctx[s].c, in[i]) ELSE in[i],
                  in[i])
             : i \in DOMAIN in})

fini(s) ==
    /\ Live(s)
    /\ ctx' = [ctx EXCEPT ![s] = None]
    /\ UNCHANGED <<family, nkeys, book>>

\* The client decrypts what was encrypted before, or anything else.
Received == Texts \union {l.cipher : l \in book}

Next ==
    \/ \E s \in Slots, a \in family : init(s, a)
    \/ \E s \in Slots, key \in Keys(family), flags \in Flags(family) :
           setkey(s, key, flags)
    \/ \E s, t \in Slots : clone(s, t)
    \/ \E s \in Slots : reset(s)
    \/ \E s \in Slots, in \in Texts : encrypt(s, in)
    \/ \E s \in Slots, in \in Received : decrypt(s, in)
    \/ \E s \in Slots, in \in Texts : encryptfast(s, <<in, Seqs!Reverse(in)>>)
    \/ \E s \in Slots, in \in Received : decryptfast(s, <<in, Seqs!Reverse(in)>>)
    \/ \E s \in Slots : fini(s)

Spec == Init /\ [][Next]_vars

------------------------------------------------------------------------------
\* The state of the contexts and the book, with the sizes of keys and blocks.
TypeOK ==
    /\ \A s \in Slots : Live(s) =>
         /\ ctx[s].impl \in family
         /\ ctx[s].state \in States
         /\ ctx[s].state # "unkeyed" =>
              Len(ctx[s].key) \in KeySizes(ctx[s].impl)
    /\ \A l \in book, a \in family : /\ Len(l.plain) = block_size(a)
                                     /\ Len(l.cipher) = block_size(a)

\* A cipher under a key is one permutation of the blocks: whichever plugin of
\* the cipher processed them, whichever keys its context had before, whether it
\* was cloned, and by the fast or the plain call, in either direction, two lines
\* of the book under the same key have the same plain text exactly when they
\* have the same cipher text.  setkey replaces all the state an earlier key
\* left, and decrypt undoes encrypt.
OnePermutation ==
    \A l, m \in book : l.key = m.key => ((l.plain = m.plain) <=> (l.cipher = m.cipher))
==============================================================================
