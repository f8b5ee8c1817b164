--------------------------------- MODULE Jh ---------------------------------
(***************************************************************************)
(* JH, src/impl/hash/jh: 1024 bits of state in sixteen words.  Update is   *)
(* the base class's, Pad and GetDigest are JH's own.                       *)
(***************************************************************************)
EXTENDS Words

CONSTANT Table(_, _, _)

ktbl(i) == Table(64, 1140, OfNum(8, i))

\* The S-box on words p, p+4, p+8, p+12 at once; c selects one of the two boxes.
\* The assignments in four groups, each made from the values of the one before.
Box4(t, x0, x1, x2, x3) == <<Xor(x0, x1 \union x3), Xor(x1, t \cap Xor(x0, x1 \union x3)),
                             Xor(x2, t), Xor(x3, x1 \cap x2)>>
Box3(t, x0, x1, x2, x3) == Box4(t, x0, Xor(x1, x0 \cap x2), Xor(x2, x0 \ x3), x3)
Box2(c, x0, x1, x2, x3) ==
    Box3(Xor(c, x0 \cap x1), Xor(x0, x2 \cap x3), x1, x2, Xor(x3, x2 \ x1))
Box1(c, x0, x1, x2, x3) == Box2(c, Xor(x0, c \ x2), x1, x2, Not(64, x3))
Stored(buf, p, m) == [buf EXCEPT ![p] = m[1], ![p+4] = m[2], ![p+8] = m[3], ![p+12] = m[4]]
s(buf, p, c) == Stored(buf, p, Box1(c, buf[p], buf[p+4], buf[p+8], buf[p+12]))

\* The linear layer on the eight words p, p+2, ..., p+14.
l(buf, p) ==
    LET b4 == Xor(buf[p+2], buf[p+4])
        b5 == Xor(buf[p+6], buf[p+8])
        b6 == Xor3(buf[p+10], buf[p+12], buf[p])
        b7 == Xor(buf[p+14], buf[p])
    IN  [buf EXCEPT ![p] = Xor(@, b5), ![p+4] = Xor(@, b6), ![p+8] = Xor3(@, b7, b4),
                    ![p+12] = Xor(@, b4), ![p+2] = b4, ![p+6] = b5, ![p+10] = b6, ![p+14] = b7]

\* The even words, then the odd ones.
Half(state, p, k) == l(s(s(state, p, ktbl(k)), p + 2, ktbl(k + 2)), p)
pround(state, k) == Half(Half(state, 1, k), 2, k + 1)

\* swap1, ..., swap32: the neighbouring groups of n bits exchanged.
swap(n, x) == {IF (i \div n) % 2 = 0 THEN i + n ELSE i - n : i \in x}
SWAP(n, x) == [i \in 1 .. 16 |-> IF i % 4 \in {3, 0} THEN swap(n, x[i]) ELSE x[i]]
SWAP64(x) == <<x[1], x[2], x[4], x[3], x[5], x[6], x[8], x[7],
               x[9], x[10], x[12], x[11], x[13], x[14], x[16], x[15]>>

XorAt(x, p, at) ==
    SubSeq([i \in 1 .. 16 |-> IF i - at \in 1 .. 8 THEN Xor(x[i], p[i - at]) ELSE x[i]], 1, 16)
omega(i, x) == IF i % 7 = 6 THEN SWAP64(x) ELSE SubSeq(SWAP(2^(i % 7), x), 1, 16)
Rounds(x0) ==
    LET go[i \in 0 .. 42, x \in Seq(Word(64))] ==
            IF i = 42 THEN x ELSE go[i+1, omega(i, pround(x, 4*i))]
    IN  go[0, x0]
Absorbed(state, p) == XorAt(Rounds(XorAt(state, p, 0)), p, 8)
Transform(state, block) == Absorbed(state, SubSeq(WordsLE(8, block), 1, 8))

\* The size of the digest in bits, as sixteen bits with their bytes exchanged.
Reset(m_size) ==
    Transform([i \in 1 .. 16 |-> IF i = 1 THEN Rotl(16, OfNum(16, 8 * m_size), 8) ELSE Zero], Zeros(64))

\* A block that is not empty is always filled up: the length, bits in two words
\* with the low one first, has a block of its own.
Pad(k, bits) ==
    LET noff == k.len[1] % 64
        marked == Splice(k.buf, noff, << {7} >> \o Zeros(63 - noff))
        tail == BytesBE(8, <<OfNum(64, bits[2]), OfNum(64, bits[1])>>)
        buf == Splice(IF noff = 0 THEN marked ELSE Zeros(64), 48, tail)
    IN  [k EXCEPT !.buf = buf,
                  !.blocks = @ \o (IF noff = 0 THEN <<>> ELSE <<marked>>) \o <<buf>>]

GetDigest(hash, m_size) == SubSeq(BytesLE(8, hash), 128 - m_size + 1, 128)
==============================================================================
