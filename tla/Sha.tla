--------------------------------- MODULE Sha ---------------------------------
(***************************************************************************)
(* The compression functions of SHA-0 and SHA-1 (src/impl/hash/sha1),      *)
(* SHA-224 and SHA-256 (src/impl/hash/sha256) and SHA-384, SHA-512 and     *)
(* SHA-512/t (src/impl/hash/sha512).  The unrolled rounds of the code name *)
(* their variables in rotation; here a round moves the values one place in *)
(* a tuple.  Messages are expanded in place, in a ring of sixteen words,   *)
(* by SHA-1 and SHA-512 and in an array by SHA-256.                        *)
(***************************************************************************)
EXTENDS Words

CONSTANT Table(_, _, _)

TernarySelection(x, y, z) == Xor(z, x \cap Xor(y, z))
TernaryMajority(x, y, z) == (x \cap y) \union (z \cap Xor(x, y))
Sum4(w, a, b, c, d) == Plus(w, Plus(w, a, b), Plus(w, c, d))
AddSeq(w, s, t) == [i \in DOMAIN s |-> Plus(w, s[i], t[i])]

------------------------------------------------------------------------------
ff(x, y, z) == Plus(32, TernarySelection(x, y, z), Hex32(\h5a82, \h7999))
gg(x, y, z) == Plus(32, Xor3(x, y, z), Hex32(\h6ed9, \heba1))
hh(x, y, z) == Plus(32, Plus(32, x \cap y, z \cap Xor(x, y)), Hex32(\h8f1b, \hbcdc))
ii(x, y, z) == Plus(32, Xor3(x, y, z), Hex32(\hca62, \hc1d6))

\* The function of step i, counted from 0.
ff_gg_hh_ii(i, x, y, z) ==
    CASE i < 20 -> ff(x, y, z)
      [] i \in 20 .. 39 -> gg(x, y, z)
      [] i \in 40 .. 59 -> hh(x, y, z)
      [] i >= 60 -> ii(x, y, z)

\* OP on <<a, b, c, d, e>>, followed by the renaming for the next step.
OP(i, v, g) ==
    <<Plus(32, v[5], Plus(32, Rotl(32, v[1], 5),
                          Plus(32, ff_gg_hh_ii(i, v[2], v[3], v[4]), g))),
      v[1], Rotl(32, v[2], 30), v[3], v[4]>>

\* EXPANSION(i) on the ring; Rotate is 1 for SHA-1 and 0 for SHA-0.
EXPANSION(Rotate, blk, i) ==
    LET at(n) == blk[((i + n) % 16) + 1]
    IN  Rotl(32, Xor4(at(13), at(8), at(2), at(0)), Rotate)

SHA1ForwardTransform(Rotate, state, block) ==
    LET Expanded(i, b) ==
            IF i < 16 THEN b ELSE [b EXCEPT ![(i % 16) + 1] = EXPANSION(Rotate, b, i)]
        rest[i \in 0 .. 80, v \in Seq(Word(32)), blk \in Seq(Word(32))] ==
            IF i = 80 THEN v
            ELSE rest[i+1, OP(i, v, blk[(i % 16) + 1]), Expanded(i+1, blk)]
    IN  rest[0, state, SubSeq(block, 1, 16)]

\* INVOP, preceded by the renaming: v is <<b, c, d, e, a>> of the code.
INVOP(i, v, g) ==
    LET b == Rotr(32, v[3], 30)
    IN  <<v[2], b, v[4], v[5],
          Minus(32, v[1], Plus(32, Rotl(32, v[2], 5),
                               Plus(32, ff_gg_hh_ii(i, b, v[4], v[5]), g)))>>

SHA1InverseTransform(state, blk) ==
    LET rest[i \in 0 .. 80, v \in Seq(Word(32))] ==
            IF i = 0 THEN v ELSE rest[i-1, INVOP(i-1, v, blk[i])]
    IN  rest[80, state]

SHA1Reset == <<Hex32(\h6745, \h2301), Hex32(\hefcd, \hab89), Hex32(\h98ba, \hdcfe),
               Hex32(\h1032, \h5476), Hex32(\hc3d2, \he1f0)>>
SHA1Transform(Rotate, state, block) ==
    AddSeq(32, state, SHA1ForwardTransform(Rotate, state, WordsBE(4, block)))

------------------------------------------------------------------------------
\* The word size w tells SHA-256 and SHA-512 apart.
S0(w, x) == IF w = 32 THEN Xor3(Rotr(w, x, 2), Rotr(w, x, 13), Rotr(w, x, 22))
                      ELSE Xor3(Rotr(w, x, 28), Rotr(w, x, 34), Rotr(w, x, 39))
S1(w, x) == IF w = 32 THEN Xor3(Rotr(w, x, 6), Rotr(w, x, 11), Rotr(w, x, 25))
                      ELSE Xor3(Rotr(w, x, 14), Rotr(w, x, 18), Rotr(w, x, 41))
s0(w, x) == IF w = 32 THEN Xor3(Rotr(w, x, 7), Rotr(w, x, 18), Shr(x, 3))
                      ELSE Xor3(Rotr(w, x, 1), Rotr(w, x, 8), Shr(x, 7))
s1(w, x) == IF w = 32 THEN Xor3(Rotr(w, x, 17), Rotr(w, x, 19), Shr(x, 10))
                      ELSE Xor3(Rotr(w, x, 19), Rotr(w, x, 61), Shr(x, 6))

k256(i) == Table(32, 700, OfNum(6, i))
k512(i) == Table(64, 701, OfNum(7, i))

\* ROUND on <<a, ..., h>> and the renaming.
ROUND(w, v, kblk) ==
    LET h == Plus(w, v[8], Plus(w, Plus(w, S1(w, v[5]), TernarySelection(v[5], v[6], v[7])),
                                kblk))
    IN  <<Plus(w, h, Plus(w, S0(w, v[1]), TernaryMajority(v[1], v[2], v[3]))),
          v[1], v[2], v[3], Plus(w, v[4], h), v[5], v[6], v[7]>>

\* The array of SHA-256 (and of SHACAL-2's key schedule): 64 words.
Expand256(block) ==
    LET blk[b \in Seq(Word(32))] ==
            LET i == Len(b) + 1
            IN  IF i > 64 THEN b
                ELSE blk[Append(b, Sum4(32, s1(32, b[i-2]), b[i-7], s0(32, b[i-15]), b[i-16]))]
    IN  blk[SubSeq(block, 1, 16)]

SHA256ForwardTransform(state, block) ==
    LET blk == Expand256(block)
        rest[i \in 1 .. 65, v \in Seq(Word(32))] ==
            IF i > 64 THEN v ELSE rest[i+1, ROUND(32, v, Plus(32, k256(i-1), blk[i]))]
    IN  rest[1, state]

\* INVROUND, preceded by the renaming: v is <<b, ..., h, a>> of the code.
INVROUND(v, kblk) ==
    LET h == Minus(32, v[1], Plus(32, S0(32, v[2]), TernaryMajority(v[2], v[3], v[4])))
    IN  <<v[2], v[3], v[4], Minus(32, v[5], h), v[6], v[7], v[8],
          Minus(32, h, Plus(32, Plus(32, S1(32, v[6]), TernarySelection(v[6], v[7], v[8])),
                            kblk))>>

SHA256InverseTransform(state, blk) ==
    LET rest[i \in 0 .. 64, v \in Seq(Word(32))] ==
            IF i = 0 THEN v ELSE rest[i-1, INVROUND(v, Plus(32, k256(i-1), blk[i]))]
    IN  rest[64, state]

SHA256Reset == <<Hex32(\h6a09, \he667), Hex32(\hbb67, \hae85), Hex32(\h3c6e, \hf372),
                 Hex32(\ha54f, \hf53a), Hex32(\h510e, \h527f), Hex32(\h9b05, \h688c),
                 Hex32(\h1f83, \hd9ab), Hex32(\h5be0, \hcd19)>>
SHA224Reset == <<Hex32(\hc105, \h9ed8), Hex32(\h367c, \hd507), Hex32(\h3070, \hdd17),
                 Hex32(\hf70e, \h5939), Hex32(\hffc0, \h0b31), Hex32(\h6858, \h1511),
                 Hex32(\h64f9, \h8fa7), Hex32(\hbefa, \h4fa4)>>
SHA256Transform(state, block) ==
    AddSeq(32, state, SHA256ForwardTransform(state, WordsBE(4, block)))

------------------------------------------------------------------------------
SHA512Transform(state, block) ==
    LET Expanded(i, b) ==
            LET at(j) == b[((i - j) % 16) + 1]
            IN  IF i < 16 THEN b
                ELSE [b EXCEPT ![(i % 16) + 1] =
                        Sum4(64, @, s1(64, at(2)), at(7), s0(64, at(15)))]
        rest[i \in 0 .. 80, v \in Seq(Word(64)), blk \in Seq(Word(64))] ==
            IF i = 80 THEN v
            ELSE rest[i+1, ROUND(64, v, Plus(64, k512(i), blk[(i % 16) + 1])),
                      Expanded(i+1, blk)]
    IN  AddSeq(64, state, rest[0, state, WordsBE(8, block)])

SHA512Reset ==
    <<Hex64(\h6a09, \he667, \hf3bc, \hc908), Hex64(\hbb67, \hae85, \h84ca, \ha73b),
      Hex64(\h3c6e, \hf372, \hfe94, \hf82b), Hex64(\ha54f, \hf53a, \h5f1d, \h36f1),
      Hex64(\h510e, \h527f, \hade6, \h82d1), Hex64(\h9b05, \h688c, \h2b3e, \h6c1f),
      Hex64(\h1f83, \hd9ab, \hfb41, \hbd6b), Hex64(\h5be0, \hcd19, \h137e, \h2179)>>
SHA384Reset ==
    <<Hex64(\hcbbb, \h9d5d, \hc105, \h9ed8), Hex64(\h629a, \h292a, \h367c, \hd507),
      Hex64(\h9159, \h015a, \h3070, \hdd17), Hex64(\h152f, \hecd8, \hf70e, \h5939),
      Hex64(\h6733, \h2667, \hffc0, \h0b31), Hex64(\h8eb4, \h4a87, \h6858, \h1511),
      Hex64(\hdb0c, \h2e0d, \h64f9, \h8fa7), Hex64(\h47b5, \h481d, \hbefa, \h4fa4)>>
\* SHA512t::Reset starts here and then hashes its own name, padding included.
SHA512tStart == [i \in 1 .. 8 |-> Xor(SHA512Reset[i], {n \in 0 .. 63 : n % 8 \in {0, 2, 5, 7}})]

------------------------------------------------------------------------------
\* SHACAL-1 and SHACAL-2, src/impl/block/shacal/shacal.cc: the compression
\* functions run forwards and backwards as ciphers.  The key, padded with zeros
\* to 64 bytes, is the message, expanded once by SetKeyInternal; encryption
\* expands it again on its own, decryption reads the stored expansion.
PaddedKey(key) == [i \in 1 .. 64 |-> IF i <= Len(key) THEN key[i] ELSE {}]

SetKey1(key) ==
    LET w[b \in Seq(Word(32))] ==
            LET i == Len(b) + 1
            IN  IF i > 80 THEN b
                ELSE w[Append(b, Rotl(32, Xor4(b[i-3], b[i-8], b[i-14], b[i-16]), 1))]
    IN  w[WordsBE(4, PaddedKey(key))]
Encrypt1(m_words, in) == BytesBE(4, SHA1ForwardTransform(1, WordsBE(4, in), m_words))
Decrypt1(m_words, in) == BytesBE(4, SHA1InverseTransform(WordsBE(4, in), m_words))

SetKey2(key) == Expand256(WordsBE(4, PaddedKey(key)))
Encrypt2(m_words, in) == BytesBE(4, SHA256ForwardTransform(WordsBE(4, in), m_words))
Decrypt2(m_words, in) == BytesBE(4, SHA256InverseTransform(WordsBE(4, in), m_words))
==============================================================================
