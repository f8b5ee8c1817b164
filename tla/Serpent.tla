------------------------------- MODULE Serpent -------------------------------
(***************************************************************************)
(* Serpent, src/impl/block/serpent/serpent-impl.cc.  The boxes s0 .. s7    *)
(* and their inverses are straight-line programs on four words that act on *)
(* every bit position alike: box i is given by what it does to the four    *)
(* bits of one position (bit k of the index is bit k of the words x[k]).   *)
(***************************************************************************)
EXTENDS Words

s0 == <<3, 8, 15, 1, 10, 6, 5, 11, 14, 13, 4, 2, 7, 0, 9, 12>>
s1 == <<15, 12, 2, 7, 9, 0, 5, 10, 1, 11, 14, 8, 6, 13, 3, 4>>
s2 == <<8, 6, 7, 9, 3, 12, 10, 15, 13, 1, 14, 4, 0, 11, 5, 2>>
s3 == <<0, 15, 11, 8, 12, 9, 6, 3, 13, 1, 2, 4, 10, 7, 5, 14>>
s4 == <<1, 15, 8, 3, 12, 0, 11, 6, 2, 5, 4, 10, 9, 14, 7, 13>>
s5 == <<15, 5, 2, 11, 4, 10, 9, 12, 0, 3, 14, 8, 13, 6, 7, 1>>
s6 == <<7, 2, 12, 5, 8, 4, 6, 11, 14, 9, 1, 15, 13, 3, 10, 0>>
s7 == <<1, 13, 15, 0, 14, 8, 2, 11, 7, 4, 12, 10, 9, 3, 5, 6>>
s == <<s0, s1, s2, s3, s4, s5, s6, s7>>

si0 == <<13, 3, 11, 0, 10, 6, 5, 12, 1, 14, 4, 7, 15, 9, 8, 2>>
si1 == <<5, 8, 2, 14, 15, 6, 12, 3, 11, 4, 7, 9, 1, 13, 10, 0>>
si2 == <<12, 9, 15, 4, 11, 14, 1, 2, 0, 3, 6, 13, 5, 8, 10, 7>>
si3 == <<0, 9, 10, 7, 11, 14, 6, 13, 3, 5, 12, 2, 4, 8, 15, 1>>
si4 == <<5, 0, 8, 3, 10, 9, 7, 14, 2, 12, 11, 6, 4, 15, 13, 1>>
si5 == <<8, 15, 2, 9, 4, 1, 13, 14, 11, 6, 5, 3, 7, 12, 10, 0>>
si6 == <<15, 10, 1, 13, 5, 3, 6, 0, 4, 9, 14, 7, 2, 12, 8, 11>>
si7 == <<3, 0, 6, 13, 9, 14, 15, 8, 5, 12, 11, 7, 10, 1, 4, 2>>
si == <<si0, si1, si2, si3, si4, si5, si6, si7>>

Box(t, x) ==
    LET Bit(k, j) == IF j \in x[k] THEN 2^(k-1) ELSE 0
        out(j) == t[Bit(1, j) + Bit(2, j) + Bit(3, j) + Bit(4, j) + 1]
        high(j, k) == (out(j) \div 2^(k-1)) % 2 = 1
    IN  <<{j \in 0 .. 31 : high(j, 1)}, {j \in 0 .. 31 : high(j, 2)},
          {j \in 0 .. 31 : high(j, 3)}, {j \in 0 .. 31 : high(j, 4)}>>

\* m_key: 132 words.  A short key is ended by a single one bit.  The boxes run
\* downwards from s3 over groups of four words.
SetKey(key) ==
    LET bits == PackLE(key) \union (IF Len(key) < 32 THEN {8 * Len(key)} ELSE {})
        phi == Hex32(\h9e37, \h79b9)
        w(b) == LET n == Len(b) + 1
                IN  Rotl(32, Xor4(Xor(b[n-8], b[n-5]), Xor(b[n-3], b[n-1]), phi, OfNum(8, n - 9)), 11)
        words == Grow(SubSeq([i \in 1 .. 8 |-> Field(bits, 32 * (i-1), 32)], 1, 8), 132, w)
        group(g) == Box(s[((3 - g) % 8) + 1], SubSeq(words, 4*g + 9, 4*g + 12))
    IN  [i \in 1 .. 132 |-> group((i-1) \div 4)[((i-1) % 4) + 1]]

Key(k, r) == SubSeq(k, 4*r + 1, 4*r + 4)

\* The linear part, one assignment pair after the other.
Mix1(x) == <<Rotl(32, x[1], 13), x[2], Rotl(32, x[3], 3), x[4]>>
Mix2(b) == <<b[1], Rotl(32, Xor3(b[2], b[3], b[1]), 1), b[3],
             Rotl(32, Xor3(b[4], b[3], Shl(32, b[1], 3)), 7)>>
Mix3(b) == <<Rotl(32, Xor3(b[1], b[4], b[2]), 5), b[2],
             Rotl(32, Xor3(b[3], b[4], Shl(32, b[2], 7)), 22), b[4]>>
eround(b, k, box) == Mix3(Mix2(Mix1(Box(box, XorSeq(b, k)))))

dround(b, k, box) ==
    LET b2 == Xor3(Rotr(32, b[3], 22), b[4], Shl(32, b[2], 7))
        b0 == Xor3(Rotr(32, b[1], 5), b[2], b[4])
        b3 == Xor3(Rotr(32, b[4], 7), b2, Shl(32, b0, 3))
        b1 == Xor3(Rotr(32, b[2], 1), b0, b2)
    IN  XorSeq(Box(box, <<Rotr(32, b0, 13), b1, Rotr(32, b2, 3), b3>>), k)

\* Rounds r, ..., 30: the last one has no linear part.
Encrypt(k, in) ==
    LET go[r \in 0 .. 31, b \in Seq(Word(32))] ==
            IF r = 31 THEN b ELSE go[r+1, eround(b, Key(k, r), s[(r % 8) + 1])]
    IN  BytesLE(4, XorSeq(Box(s7, XorSeq(go[0, WordsLE(4, in)], Key(k, 31))), Key(k, 32)))

Decrypt(k, in) ==
    LET go[r \in 0 .. 31, b \in Seq(Word(32))] ==
            IF r = 0 THEN b ELSE go[r-1, dround(b, Key(k, r-1), si[((r-1) % 8) + 1])]
    IN  BytesLE(4, go[31, XorSeq(Box(si7, XorSeq(WordsLE(4, in), Key(k, 32))), Key(k, 31))])
==============================================================================
