-------------------------------- MODULE Skein --------------------------------
(***************************************************************************)
(* Skein-512, src/impl/hash/skein, and the cipher inside it, Threefish-512 *)
(* (src/impl/block/threefish/threefish-impl.cc), which only encrypts.      *)
(* A context of Threefish is the nineteen subkeys of eight 64-bit words;   *)
(* one of Skein is [hash, buf, len, full, tweak]: a whole block stays in   *)
(* the buffer, with full set, until more data or Pad tells whether it is   *)
(* the last one.                                                           *)
(***************************************************************************)
EXTENDS Words
LOCAL INSTANCE SequencesExt

Sum8(x, y) == SubSeq([i \in 1 .. 8 |-> Plus(64, x[i], y[i])], 1, 8)

\* m_k[i][j], with b the word of the key that it starts from and m_t the tweak.
Word8(b, m_t, i, j) ==
    CASE j < 5 -> b
      [] j = 5 -> Plus(64, b, m_t[(i % 3) + 1])
      [] j = 6 -> Plus(64, b, m_t[((i+1) % 3) + 1])
      [] j = 7 -> Plus(64, b, OfNum(5, i))
Subkey(buf, m_t, i) ==
    SubSeq([j \in 1 .. 8 |-> Word8(buf[((i + j - 1) % 9) + 1], m_t, i, j - 1)], 1, 8)
Subkeys(buf, m_t) ==
    LET ks[m \in Seq(Seq(Word(64)))] ==
            IF Len(m) = 19 THEN m ELSE ks[Append(m, Subkey(buf, m_t, Len(m)))]
    IN  ks[<<>>]
\* t is the tweak, two words; k the key, eight words, and the ninth that is made of them.
Ninth(k) ==
    LET x[i \in 0 .. 8] == IF i = 0 THEN Hex64(\h1bd1, \h1bda, \ha9fc, \h1a22) ELSE Xor(x[i-1], k[i])
    IN  x[8]
SetKeyWords(t, k) == Subkeys(Append(k, Ninth(k)), <<t[1], t[2], Xor(t[1], t[2])>>)
SetKey(t, key) == SetKeyWords(t, WordsLE(8, key))

\* The constants R_512_i_j, and the same ones again in rc.
rc == <<<<46, 36, 19, 37>>, <<33, 27, 14, 42>>, <<17, 49, 36, 39>>, <<44, 9, 54, 56>>,
        <<39, 30, 34, 24>>, <<13, 50, 10, 17>>, <<25, 29, 39, 43>>, <<8, 35, 56, 22>>>>

\* x[i] += x[j]; x[j] = RotateLeft(x[j], n); x[j] ^= x[i];
Mixed(x, i, j, n, s) == [x EXCEPT ![i] = s, ![j] = Xor(Rotl(64, @, n), s)]
Mix(x, p, n) == Mixed(x, p[1], p[2], n, Plus(64, x[p[1]], x[p[2]]))

\* The words that round d of the unrolled code mixes: the odd ones go round
\* while the even ones stay.
Pairs == <<<<<<1, 2>>, <<3, 4>>, <<5, 6>>, <<7, 8>>>>, <<<<3, 2>>, <<5, 8>>, <<7, 6>>, <<1, 4>>>>,
           <<<<5, 2>>, <<7, 4>>, <<1, 6>>, <<3, 8>>>>, <<<<7, 2>>, <<1, 8>>, <<3, 6>>, <<5, 4>>>>>>
Mix4(x, p, n) == Mix(Mix(Mix(Mix(x, p[1], n[1]), p[2], n[2]), p[3], n[3]), p[4], n[4])
Round(x, d) == Mix4(x, Pairs[(d % 4) + 1], rc[(d % 8) + 1])

EncryptWords(m_k, in) ==
    LET rest[d \in 0 .. 72, x \in Seq(Word(64))] ==
            IF d = 72 THEN Sum8(x, m_k[19])
            ELSE rest[d+1, Round(IF d % 4 = 0 THEN Sum8(x, m_k[(d \div 4) + 1]) ELSE x, d)]
    IN  rest[0, in]
Encrypt(m_k, in) == BytesLE(8, EncryptWords(m_k, WordsLE(8, in)))

----------------------------------------------------------------------------
BIT_FIRST == {62}
BIT_FINAL == {63}
TYPE_CFG == {58}
TYPE_MSG == {60, 61}
TYPE_OUT == 56 .. 61

UBIBlock(state, m, tweak) == XorSeq(EncryptWords(SetKeyWords(tweak, state), m), m)

\* UBI of a message shorter than a block, as all its callers have it.
UBI(state, m, tweak) ==
    UBIBlock(state, SubSeq(WordsLE(8, m \o Zeros(64 - Len(m))), 1, 8),
             <<Plus(64, tweak[1], OfNum(7, Len(m))), tweak[2] \union BIT_FINAL \union BIT_FIRST>>)

Config(m_digest_size) ==
    <<OfNum(8, \h53), OfNum(8, \h48), OfNum(8, \h41), OfNum(8, \h33), {0}, {}, {}, {}>>
    \o UnpackLE(2, OfNum(16, 8 * m_digest_size)) \o Zeros(22)
Reset(m_digest_size) ==
    [hash |-> SubSeq(UBI([i \in 1 .. 8 |-> Zero], Config(m_digest_size),
                         <<Zero, TYPE_CFG \union BIT_FIRST>>), 1, 8),
     buf |-> Zeros(64), len |-> <<Zero, Zero>>, full |-> FALSE,
     tweak |-> <<Zero, TYPE_MSG \union BIT_FIRST>>]

Tweaked(k, m, tweak) ==
    [k EXCEPT !.hash = SubSeq(UBIBlock(@, m, tweak), 1, 8), !.tweak = <<tweak[1], tweak[2] \ BIT_FIRST>>]
Transform(k, data, final) ==
    Tweaked(k, SubSeq(WordsLE(8, data), 1, 8),
            <<k.len[1], IF final THEN k.tweak[2] \union BIT_FINAL ELSE k.tweak[2]>>)

Offset(k) == Num(k.len[1]) % 64
\* Transforms the blocks b, with what m_len is for each of them.
Blocks(k, b) == FoldLeft(LAMBDA x, y : Transform([x EXCEPT !.len = y.len], y.data, FALSE), k, b)
\* The buffer when it and data are not more than a block, and else the blocks that
\* they fill: all but the last bytes, at least one and at most a block.
Stored(k, off, data) ==
    IF off + Len(data) <= 64 THEN [blocks |-> <<>>, buf |-> Splice(k.buf, off, data)]
    ELSE Fill(64, 1, k.buf, off, data)
Fed(k, off, n, f) ==
    [Blocks(k, (IF k.full THEN <<[data |-> k.buf, len |-> k.len]>> ELSE <<>>)
               \o [j \in 1 .. Len(f.blocks) |->
                      [data |-> f.blocks[j], len |-> Counted(64, k.len, 64*j - off)]])
        EXCEPT !.buf = f.buf, !.len = Counted(64, k.len, n), !.full = (off + n) % 64 = 0]
Update(k, data) ==
    IF data = <<>> THEN k ELSE Fed(k, Offset(k), Len(data), Stored(k, Offset(k), data))

\* UpdateFast is the one of the base class: it counts all of the data and then
\* transforms every block, without a look at full.
UpdateFast(k, data) ==
    LET len == Counted(64, k.len, Len(data))
    IN  [Blocks(k, [j \in 1 .. Len(data) \div 64 |->
                      [data |-> SubSeq(data, 64*(j-1) + 1, 64*j), len |-> len]]) EXCEPT !.len = len]

\* Mutant: the block that is kept back is taken for an empty one.
PadForgetsFull(k) ==
    LET buf == Splice(k.buf, Offset(k), Zeros(64 - Offset(k)))
    IN  Transform([k EXCEPT !.buf = buf], buf, TRUE)

Pad(k) ==
    LET off == Offset(k)
        buf == IF k.full THEN k.buf ELSE Splice(k.buf, off, Zeros(64 - off))
    IN  Transform([k EXCEPT !.buf = buf], buf, TRUE)

Output(k) == [k EXCEPT !.hash = SubSeq(UBI(@, Zeros(8), <<Zero, TYPE_OUT \union BIT_FIRST \union BIT_FINAL>>), 1, 8)]
==============================================================================
