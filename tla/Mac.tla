-------------------------------- MODULE Mac --------------------------------
(***************************************************************************)
(* Message authentication and key derivation on top of the hashes and the  *)
(* block ciphers: HMAC and HMAC-KDF (src/impl/mac/hmac/hmac.c), CMAC       *)
(* (src/impl/mac/cmac/cmac.c), PBKDF2 (src/impl/kdf/pbkdf/pbkdf2.c) and    *)
(* the PRF of TLS (src/impl/kdf/tls/tls-prf.c).                            *)
(*                                                                         *)
(* The plugins below are used by what they promise.  A hash context is the *)
(* text it has been given, as in HashSpec, and Digest is what final makes  *)
(* of it; a keyed block cipher is one function of the block, as in Block.  *)
(* Nothing is assumed of the two but that they are made of bytes.          *)
(* Bytes are those of Words: CMAC and HMAC do arithmetic on them.          *)
(*                                                                         *)
(* A CMAC context whose position has left its buffer (cmac_update sets it  *)
(* to 16 when the blocks have 8 bytes) writes beyond the buffer on the     *)
(* next call, and a PBKDF2 context whose PRF was freed through a clone     *)
(* uses it all the same: undefined is then TRUE, and the model says        *)
(* nothing more.                                                           *)
(***************************************************************************)
EXTENDS Words

CONSTANTS BlkSize,          \* the block of the hash, in bytes
          DigestSize,       \* the digest of the hash, at most a block
          Hashed(_),        \* what the hash makes of a text
          Enciphered(_, _), \* and the cipher of a key and a block
          CipherTakes(_, _), \* whether the cipher takes a key, by kind
          Slots,            \* the client's contexts
          Kinds,            \* the kinds of contexts to look at
          TagLengths(_),    \* tagLength by kind, 0 for the default
          Keys(_), Data(_), Salts, Counts, OutLengths,
          MaxCalls(_)       \* the calls of update, final and generate

AllKinds == {"HMAC", "HMAC-KDF", "CMAC8", "CMAC16", "PBKDF2", "TLS"}

\* hmac_setkey fills a block with the digest of a long key.
ASSUME SizesAssumption == BlkSize \in Nat /\ DigestSize \in 1 .. BlkSize

BUFFER_SIZE == 16           \* of struct cmac
Blk(kind) == IF kind = "CMAC8" THEN 8 ELSE 16

\* A client asks for no more than there is, and KDFs have no tagLength; it passes
\* buffers of bytes.
TagSize(k) == CASE k = "HMAC" -> DigestSize [] k = "HMAC-KDF" -> 0 [] OTHER -> Blk(k)
ASSUME ClientAssumption ==
    /\ Kinds \subseteq AllKinds
    /\ \A k \in Kinds : /\ TagLengths(k) \subseteq 0 .. TagSize(k)
                        /\ Keys(k) \subseteq Seq(Byte) /\ Data(k) \subseteq Seq(Byte)
                        /\ MaxCalls(k) \in Nat
    /\ Salts \subseteq Seq(Byte) /\ Counts \subseteq Nat /\ OutLengths \subseteq Nat

\* The digest of a text, and a block under the cipher.
Digest(t) == LET d == Hashed(t) IN [i \in 1 .. DigestSize |-> d[i] \cap Ones(8)]
Cipher(k, b) == LET e == Enciphered(k, b) IN [i \in DOMAIN b |-> e[i] \cap Ones(8)]

VARIABLES kind,             \* the plugin, the same for all contexts
          ctx,              \* slot -> context
          asked,            \* slot -> what the client asked of the context since reset
          answer,           \* the last output that has a definition, and its inputs
          calls, undefined
vars == <<kind, ctx, asked, answer, calls, undefined>>

None == [kind |-> "none"]
Live(s) == ctx[s] # None /\ ~undefined
NoKey == <<>>
Nothing == [key |-> NoKey, text |-> <<>>, salt |-> <<>>, ok |-> FALSE]

------------------------------------------------------------------------------
\* HMAC.  keybuf holds its keybufsz bytes.
Opad == {2, 3, 4, 6}
Ipad == {1, 2, 4, 5}
KeyPad(b, k) == [i \in 1 .. BlkSize |-> IF i <= Len(k) THEN Xor(b, k[i]) ELSE b]

hmac_init(taglen) ==
    [kind |-> "HMAC", outside |-> <<>>, inside |-> <<>>, keybuf |-> <<>>,
     taglen |-> IF taglen = 0 THEN DigestSize ELSE taglen]

\* Mutant: a long key is not hashed.
hmac_setkeyWhole(c, data) ==
    [c EXCEPT !.keybuf = data, !.outside = KeyPad(Opad, data), !.inside = KeyPad(Ipad, data)]

hmac_setkey(c, data) ==
    LET k == IF Len(data) > BlkSize THEN Digest(data) ELSE data
    IN  [c EXCEPT !.keybuf = k, !.outside = KeyPad(Opad, k), !.inside = KeyPad(Ipad, k)]

\* Mutant: the key is not hashed in again.
hmac_resetForgetsKey(c) == [c EXCEPT !.outside = <<>>, !.inside = <<>>]

\* keybufsz of zero is taken for no key.
hmac_reset(c) ==
    LET fresh == [c EXCEPT !.outside = <<>>, !.inside = <<>>]
    IN  IF c.keybuf = <<>> THEN fresh ELSE hmac_setkey(fresh, c.keybuf)

hmac_update(c, data) == [c EXCEPT !.inside = @ \o data]

\* The tag, and the context that is left: both hashes are reset, without the key.
hmac_tag(c) == SubSeq(Digest(c.outside \o Digest(c.inside)), 1, c.taglen)
hmac_final(c) == [c EXCEPT !.outside = <<>>, !.inside = <<>>]

\* HMAC-KDF: the output of one call, and the context after it.
hmack_out(c, in, outlen) == SubSeq(hmac_tag(hmac_update(c, in)), 1, outlen)
hmack_generate(c, in) == hmac_final(hmac_update(c, in))

------------------------------------------------------------------------------
\* CMAC.
cmac_init(k, taglen) ==
    [kind |-> k, blksize |-> Blk(k), key |-> NoKey, buf |-> Zeros(Blk(k)), hash |-> Zeros(Blk(k)),
     k1 |-> Zeros(Blk(k)), k2 |-> Zeros(Blk(k)), boff |-> 0, nonzero_len |-> FALSE,
     taglen |-> IF taglen = 0 THEN Blk(k) ELSE taglen]

shiftleft(b) ==
    [i \in DOMAIN b |-> Shl(8, b[i], 1) \union (IF i < Len(b) THEN Shr(b[i + 1], 7) ELSE {})]

\* The subkeys.  Neither the position nor the sum is touched.
cmac_subkeys(c, data) ==
    LET rb == IF c.blksize = 16 THEN {0, 1, 2, 7} ELSE {0, 1, 3, 4}
        k0 == Cipher(data, Zeros(c.blksize))
        double(b, carry) == [shiftleft(b) EXCEPT ![c.blksize] = IF carry THEN Xor(@, rb) ELSE @]
        k1 == double(k0, 7 \in k0[1])
    IN  [c EXCEPT !.key = data, !.k1 = k1, !.k2 = double(k1, 6 \in k0[1])]

\* A key that the cipher refuses leaves it with the one it has; nobody looks.
cmac_setkey(c, data) == cmac_subkeys(c, IF CipherTakes(c.kind, data) THEN data ELSE c.key)

cmac_reset(c) ==
    [c EXCEPT !.boff = 0, !.nonzero_len = FALSE, !.hash = Zeros(c.blksize)]

process_block(c, b) == [c EXCEPT !.hash = Cipher(c.key, XorSeq(@, b))]

\* The blocks of the input that another byte follows, and the rest into buf.
cmac_blocks(c, in) ==
    LET n == c.blksize
        whole == IF in = <<>> THEN 0 ELSE (Len(in) - 1) \div n
        sum[i \in 0 .. whole] ==
            IF i = 0 THEN c ELSE process_block(sum[i - 1], SubSeq(in, n*(i-1) + 1, n*i))
        rest == SubSeq(in, n*whole + 1, Len(in))
    IN  IF in = <<>> THEN c ELSE [sum[whole] EXCEPT !.buf = Splice(@, 0, rest), !.boff = Len(rest)]

\* Mutant: a block that the input completes is processed at once.
cmac_updateEager(c, data) ==
    LET room == c.blksize - c.boff
        b == IF c.boff = 0 THEN 0 ELSE IF room < Len(data) THEN room ELSE Len(data)
        filled == [c EXCEPT !.buf = Splice(@, c.boff, SubSeq(data, 1, b)), !.boff = @ + b,
                            !.nonzero_len = TRUE]
        done == IF filled.boff = c.blksize
                THEN [process_block(filled, filled.buf) EXCEPT !.boff = 0]
                ELSE filled
    IN  IF data = <<>> THEN c ELSE cmac_blocks(done, SubSeq(data, b + 1, Len(data)))

\* A buffer that is full and last waits, with its position at 16 whatever the
\* size of a block is.
cmac_update(c, data) ==
    LET room == c.blksize - c.boff
        b == IF c.boff = 0 THEN 0 ELSE IF room < Len(data) THEN room ELSE Len(data)
        filled == [c EXCEPT !.buf = Splice(@, c.boff, SubSeq(data, 1, b)), !.boff = @ + b,
                            !.nonzero_len = TRUE]
        done == IF c.boff # 0 /\ filled.boff = c.blksize
                THEN IF Len(data) # b THEN [process_block(filled, filled.buf) EXCEPT !.boff = 0]
                                      ELSE [filled EXCEPT !.boff = 16]
                ELSE filled
    IN  IF data = <<>> THEN c ELSE cmac_blocks(done, SubSeq(data, b + 1, Len(data)))

\* The context after final: the last block is in, nothing is reset.
cmac_final(c) ==
    LET n == IF c.nonzero_len THEN c.boff ELSE 0
        padded == SubSeq(c.buf, 1, n) \o <<{7}>> \o Zeros(c.blksize - n - 1)
        last == IF c.nonzero_len /\ c.boff = c.blksize THEN XorSeq(c.buf, c.k1)
                                                       ELSE XorSeq(padded, c.k2)
    IN  process_block([c EXCEPT !.buf = last], last)
cmac_tag(c) == SubSeq(cmac_final(c).hash, 1, c.taglen)

\* memcpy and memset with blksize - boff below zero.
OutOfBuffer(c) == c.kind \in {"CMAC8", "CMAC16"} /\ c.boff > c.blksize

------------------------------------------------------------------------------
\* PBKDF2.  The PRF that init makes is shared with all clones, and with theirs:
\* home is the slot it was made in.  Any of them may have freed it.
\* saltsz has eight bits; setsalt keeps the whole salt all the same.
pbkdf_init(s, prf) ==
    [kind |-> "PBKDF2", prf |-> hmac_reset(prf), home |-> s, freed |-> FALSE,
     salt |-> <<>>, count |-> 0]
pbkdf_reset(h) == [h EXCEPT !.prf = hmac_reset(@)]
pbkdf_setsalt(h, salt) == [h EXCEPT !.salt = SubSeq(salt, 1, Len(salt) % 256)]
pbkdf_setcount(h, count) == [h EXCEPT !.count = count]

store_uint32(x) == UnpackBE(4, OfNum(32, x))

\* One block of the output: count outputs of the PRF, each of the one before,
\* added up.  The context of the PRF is keyed again before each.
u(prf, in) == hmack_out(hmac_reset(prf), in, DigestSize)
pbkdf_block(prf, tmp, count) ==
    LET turn[j \in 0 .. count - 1] ==
            IF j = 0 THEN [buf |-> u(prf, tmp), store |-> u(prf, tmp)]
            ELSE LET t == turn[j - 1]
                 IN  [buf |-> u(prf, t.buf), store |-> XorSeq(t.store, u(prf, t.buf))]
    IN  turn[count - 1].store

Turns(outlen) == (outlen + DigestSize - 1) \div DigestSize
pbkdf_out(h, outlen, in) ==
    LET prf == hmac_setkey(hmac_reset(h.prf), in)
        out[i \in 0 .. Turns(outlen)] ==
            IF i = 0 THEN <<>> ELSE out[i - 1] \o pbkdf_block(prf, h.salt \o store_uint32(i), h.count)
    IN  SubSeq(out[Turns(outlen)], 1, outlen)
\* What is left of the PRF: the key, and hashes that final has reset.
pbkdf_generate(h, in) == [h EXCEPT !.prf = hmac_final(hmac_setkey(hmac_reset(@), in))]

------------------------------------------------------------------------------
\* The PRF of TLS: a chain A(1), A(2), ... and an output for each of its members.
\* A(1) comes from the context as the caller left it.
tls_init(prf) == [kind |-> "TLS", prf |-> hmac_reset(prf)]
tls_reset(c) == [c EXCEPT !.prf = hmac_reset(@)]
tls_setkey(c, key) == [c EXCEPT !.prf = hmac_setkey(@, key)]

tls_out(c, outlen, in) ==
    LET turn[i \in 0 .. Turns(outlen)] ==
            IF i = 0 THEN [ai |-> hmack_out(c.prf, in, DigestSize), out |-> <<>>]
            ELSE LET t == turn[i - 1]
                 IN  [ai |-> u(c.prf, t.ai), out |-> t.out \o u(c.prf, t.ai \o in)]
    IN  SubSeq(turn[Turns(outlen)].out, 1, outlen)
\* The loop ends with a final of the PRF.  Without a turn of it the PRF is as before.
tls_generate(c, outlen) ==
    [c EXCEPT !.prf = IF outlen = 0 THEN @ ELSE hmac_final(hmac_reset(@))]

------------------------------------------------------------------------------
IsHmac == kind \in {"HMAC", "HMAC-KDF"}
IsCmac == kind \in {"CMAC8", "CMAC16"}

Init ==
    /\ kind \in Kinds
    /\ ctx = [s \in Slots |-> None]
    /\ asked = [s \in Slots |-> Nothing]
    /\ answer = None
    /\ calls = 0
    /\ undefined = FALSE

\* Two contexts of PBKDF2 with the same PRF, and the second of them when a call has
\* left c of the first: fini frees the PRF of both.
Shares(s, t) ==
    /\ kind = "PBKDF2" /\ ctx[s] # None /\ ctx[t] # None
    /\ ctx[s].home = ctx[t].home /\ ~ctx[s].freed /\ ~ctx[t].freed
Shared(d, c) == IF c = None THEN [d EXCEPT !.freed = TRUE] ELSE [d EXCEPT !.prf = c.prf]
PrfFreed(s) == kind = "PBKDF2" /\ ctx[s].freed

Keep(s, c, what) ==
    /\ ctx' = [t \in Slots |-> IF t = s THEN c ELSE IF Shares(s, t) THEN Shared(ctx[t], c)
                              ELSE ctx[t]]
    /\ asked' = [asked EXCEPT ![s] = what]
    /\ UNCHANGED kind

init(s, taglen) ==
    /\ ~undefined /\ ctx[s] = None
    /\ Keep(s, CASE IsHmac -> hmac_init(taglen)
                 [] IsCmac -> cmac_init(kind, taglen)
                 [] kind = "PBKDF2" -> pbkdf_init(s, hmac_init(0))
                 [] kind = "TLS" -> tls_init(hmac_init(0)),
            [Nothing EXCEPT !.ok = TRUE])
    /\ UNCHANGED <<answer, calls, undefined>>

\* tls_clone fills a context that it does not store in its argument.
clone(s, t) ==
    /\ Live(s) /\ ctx[t] = None
    /\ kind # "TLS"
    /\ Keep(t, ctx[s], asked[s])
    /\ UNCHANGED <<answer, calls, undefined>>

Undefined == undefined' = TRUE /\ UNCHANGED <<kind, ctx, asked, answer>>

fini(s) ==
    /\ Live(s)
    /\ IF PrfFreed(s) THEN Undefined
       ELSE Keep(s, None, Nothing) /\ UNCHANGED <<answer, undefined>>
    /\ UNCHANGED calls

\* A new message, under the key there is.
reset(s) ==
    /\ Live(s)
    /\ IF PrfFreed(s) THEN Undefined
       ELSE /\ Keep(s, CASE IsHmac -> hmac_reset(ctx[s])
                         [] IsCmac -> cmac_reset(ctx[s])
                         [] kind = "PBKDF2" -> pbkdf_reset(ctx[s])
                         [] kind = "TLS" -> tls_reset(ctx[s]),
                    [asked[s] EXCEPT !.text = <<>>, !.ok = TRUE])
            /\ UNCHANGED <<answer, undefined>>
    /\ UNCHANGED calls

\* PBKDF2 has no setkey.  In a CMAC context a new key does not begin a new message,
\* and the key of the message is the last one that the cipher took.
setkey(s, key) ==
    /\ Live(s) /\ kind # "PBKDF2"
    /\ Keep(s, CASE IsHmac -> hmac_setkey(ctx[s], key)
                 [] IsCmac -> cmac_setkey(ctx[s], key)
                 [] kind = "TLS" -> tls_setkey(ctx[s], key),
            IF ~IsCmac THEN [Nothing EXCEPT !.key = key, !.ok = TRUE]
            ELSE IF CipherTakes(kind, key)
                 THEN [asked[s] EXCEPT !.key = key, !.ok = @ /\ asked[s].text = <<>>]
                 ELSE asked[s])
    /\ UNCHANGED <<answer, calls, undefined>>

setsalt(s, salt) ==
    /\ Live(s) /\ kind = "PBKDF2"
    /\ Keep(s, pbkdf_setsalt(ctx[s], salt), [asked[s] EXCEPT !.salt = salt])
    /\ UNCHANGED <<answer, calls, undefined>>

setcount(s, count) ==
    /\ Live(s) /\ kind = "PBKDF2"
    /\ Keep(s, pbkdf_setcount(ctx[s], count), asked[s])
    /\ UNCHANGED <<answer, calls, undefined>>

Call(s) == Live(s) /\ calls < MaxCalls(kind) /\ calls' = calls + 1

\* An output is noted when the client kept to the order of calls: a key of at least
\* a byte (hmac_reset takes none for no key), then from a fresh context the text.
Answer(s, a) ==
    /\ answer' = IF asked[s].ok /\ asked[s].key # NoKey THEN a ELSE answer
    /\ undefined' = FALSE

\* updatefast is the same function.
update(s, data) ==
    /\ kind \in {"HMAC", "CMAC8", "CMAC16"} /\ Call(s)
    /\ IF OutOfBuffer(ctx[s]) /\ data # <<>> THEN Undefined
       ELSE /\ Keep(s, IF IsHmac THEN hmac_update(ctx[s], data) ELSE cmac_update(ctx[s], data),
                    [asked[s] EXCEPT !.text = @ \o data])
            /\ UNCHANGED <<answer, undefined>>

final(s) ==
    /\ kind \in {"HMAC", "CMAC8", "CMAC16"} /\ Call(s)
    /\ IF OutOfBuffer(ctx[s]) THEN Undefined
       ELSE /\ Keep(s, IF IsHmac THEN hmac_final(ctx[s]) ELSE cmac_final(ctx[s]),
                    [asked[s] EXCEPT !.ok = FALSE])
            /\ Answer(s, [kind |-> kind, key |-> asked[s].key, text |-> asked[s].text,
                          out |-> IF IsHmac THEN hmac_tag(ctx[s]) ELSE cmac_tag(ctx[s])])

\* hmack_generate refuses more than a digest, pbkdf_generate no output or no count.
generate(s, outlen, in) ==
    /\ Call(s)
    /\ \/ /\ kind = "HMAC-KDF" /\ outlen <= DigestSize
          /\ Keep(s, hmack_generate(ctx[s], in), [asked[s] EXCEPT !.ok = FALSE])
          /\ Answer(s, [kind |-> kind, key |-> asked[s].key, text |-> in, 
                        out |-> hmack_out(ctx[s], in, outlen)])
       \/ /\ kind = "TLS"
          /\ Keep(s, tls_generate(ctx[s], outlen), [asked[s] EXCEPT !.ok = outlen = 0 /\ @])
          /\ Answer(s, [kind |-> kind, key |-> asked[s].key, text |-> in,
                        out |-> tls_out(ctx[s], outlen, in)])
       \/ /\ kind = "PBKDF2" /\ outlen # 0 /\ ctx[s].count # 0 /\ PrfFreed(s)
          /\ Undefined
       \/ /\ kind = "PBKDF2" /\ outlen # 0 /\ ctx[s].count # 0 /\ ~PrfFreed(s)
          /\ Keep(s, pbkdf_generate(ctx[s], in), asked[s])
          /\ answer' = IF in = NoKey THEN answer
                       ELSE [kind |-> kind, key |-> in, salt |-> asked[s].salt,
                             count |-> ctx[s].count, out |-> pbkdf_out(ctx[s], outlen, in)]
          /\ undefined' = FALSE

Next ==
    \E s \in Slots :
        \/ \E n \in TagLengths(kind) : init(s, n)
        \/ reset(s) \/ fini(s) \/ final(s)
        \/ \E t \in Slots : clone(s, t)
        \/ \E key \in Keys(kind) : setkey(s, key)
        \/ \E salt \in Salts : setsalt(s, salt)
        \/ \E count \in Counts : setcount(s, count)
        \/ \E data \in Data(kind) : update(s, data)
        \/ \E n \in OutLengths, in \in Keys(kind) : generate(s, n, in)

Spec == Init /\ [][Next]_vars

------------------------------------------------------------------------------
\* What the outputs should be, from the definitions of the functions.
HMAC(key, text) ==
    LET k == IF Len(key) > BlkSize THEN Digest(key) ELSE key
        padded == k \o Zeros(BlkSize - Len(k))
        under(b, t) == Digest(XorSeq(padded, [i \in 1 .. BlkSize |-> b]) \o t)
    IN  under(Opad, under(Ipad, text))

\* CMAC in the field of 2^(8n) elements: the subkeys are the image of zero times
\* x and times x^2.
TimesX(n, x) ==
    Xor(Shl(8*n, x, 1), IF 8*n - 1 \in x THEN IF n = 16 THEN {0, 1, 2, 7} ELSE {0, 1, 3, 4} ELSE {})
CMAC(n, key, text) ==
    LET E(x) == PackBE(Cipher(key, UnpackBE(n, x)))
        K1 == TimesX(n, E({}))
        m == IF text = <<>> THEN 1 ELSE (Len(text) + n - 1) \div n
        last == SubSeq(text, n*(m - 1) + 1, Len(text))
        final_ == IF Len(last) = n THEN Xor(PackBE(last), K1)
                  ELSE Xor(PackBE(last \o <<{7}>> \o Zeros(n - 1 - Len(last))), TimesX(n, K1))
        c[i \in 0 .. m] ==
            IF i = 0 THEN {}
            ELSE E(Xor(c[i - 1], IF i = m THEN final_ ELSE PackBE(SubSeq(text, n*(i-1) + 1, n*i))))
    IN  UnpackBE(n, c[m])

PBKDF2(key, salt, count, i) ==
    LET U[j \in 0 .. count] == IF j = 0 THEN salt \o store_uint32(i) ELSE HMAC(key, U[j - 1])
        T[j \in 0 .. count] == IF j = 0 THEN Zeros(DigestSize) ELSE XorSeq(T[j - 1], U[j])
    IN  T[count]

P_hash(key, seed, i) ==
    LET A[j \in 0 .. i] == IF j = 0 THEN seed ELSE HMAC(key, A[j - 1])
    IN  HMAC(key, A[i] \o seed)

\* out is a prefix of the blocks that f makes, of n bytes each.
IsPrefixOf(out, n, f(_)) ==
    \A i \in DOMAIN out : out[i] = f((i - 1) \div n + 1)[((i - 1) % n) + 1]

------------------------------------------------------------------------------
\* Buffers have the size of a block, and the position stays within BUFFER_SIZE.
TypeOK ==
    /\ kind \in Kinds /\ calls \in 0 .. MaxCalls(kind) /\ undefined \in BOOLEAN
    /\ \A s \in Slots : ctx[s] # None =>
         /\ ctx[s].kind = IF kind = "HMAC-KDF" THEN "HMAC" ELSE kind
         /\ IsHmac => Len(ctx[s].keybuf) <= BlkSize
         /\ IsCmac => /\ Len(ctx[s].buf) = ctx[s].blksize /\ Len(ctx[s].hash) = ctx[s].blksize
                      /\ ctx[s].boff \in 0 .. BUFFER_SIZE
         /\ kind \in {"PBKDF2", "TLS"} => Len(ctx[s].prf.keybuf) <= BlkSize

\* A tag that hmac_final or cmac_final delivers is that of the key and of the text
\* since the last reset, however the text was cut into calls, whatever key or
\* message the context had before, whatever keys the cipher refused, and whether
\* it is a clone.
MacCorrect ==
    answer.kind \in {"HMAC", "CMAC8", "CMAC16"} =>
        IsPrefixOf(answer.out, IF answer.kind = "HMAC" THEN DigestSize ELSE Blk(answer.kind),
                   LAMBDA i : IF answer.kind = "HMAC" THEN HMAC(answer.key, answer.text)
                              ELSE CMAC(Blk(answer.kind), answer.key, answer.text))

\* What generate delivers is the output of HMAC, of PBKDF2 or of the PRF of TLS for
\* the key, the salt and the count, of any length, after any number of other
\* outputs of the same context; with PBKDF2 for salts that saltsz can count.
KdfCorrect ==
    /\ answer.kind = "HMAC-KDF" =>
         IsPrefixOf(answer.out, DigestSize, LAMBDA i : HMAC(answer.key, answer.text))
    /\ answer.kind = "PBKDF2" /\ Len(answer.salt) < 256 =>
         IsPrefixOf(answer.out, DigestSize,
                    LAMBDA i : PBKDF2(answer.key, answer.salt, answer.count, i))
    /\ answer.kind = "TLS" =>
         IsPrefixOf(answer.out, DigestSize, LAMBDA i : P_hash(answer.key, answer.text, i))
==============================================================================
