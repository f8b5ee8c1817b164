-------------------------------- MODULE Aria --------------------------------
(***************************************************************************)
(* ARIA, src/impl/block/aria.  The rounds are shared (aria.hh, aria.cc);   *)
(* the key schedule exists twice, with 128-bit integers (aria128.cc) and   *)
(* with bytes (ariabyte.cc).  The state and the round keys are kept        *)
(* transposed, so that bytes of one substitution box lie together.         *)
(*                                                                         *)
(* A context is [off, ek, dk]; m_off and the keys stay as they were when a *)
(* key of a wrong size is refused.                                         *)
(***************************************************************************)
EXTENDS Gf

sb1(x) == S(x)
sb3(x) == Si(x)
\* The second box is an affine image of the inverse in the field, too.
Affine2(y) ==
    LET col == <<{2, 3, 5, 7}, {0, 2, 3, 4, 5, 6, 7}, {1, 2, 6, 7}, {0, 1, 7}, {1, 2, 5},
                 {0, 1, 2, 5, 7}, {0, 1, 3, 4, 5, 6, 7}, {0, 1, 2, 3, 4, 6}>>
        at(i) == IF i \in y THEN col[i+1] ELSE {}
    IN  Xor3(Xor4(at(0), at(1), at(2), at(3)), Xor4(at(4), at(5), at(6), at(7)), {1, 5, 6, 7})
S2Box == Tabulate(256, LAMBDA x : Affine2(Inverse_(x)))
S2iBox == Tabulate(256, LAMBDA x : OfNum(8, (CHOOSE i \in 1 .. 256 : S2Box[i] = x) - 1))
sb2(x) == S2Box[NumByte(x) + 1]
sb4(x) == S2iBox[NumByte(x) + 1]

Bytes16(f) == SubSeq(f, 1, 16)
Xor16(a, b) == Bytes16(XorSeq(a, b))
Permute(b) == Bytes16([i \in 1 .. 16 |-> b[4*((i-1) % 4) + ((i-1) \div 4) + 1]])

\* Four bytes to a box; the second layer starts at the third box.
sb(n, t) == CASE n = 0 -> sb1(t) [] n = 1 -> sb2(t) [] n = 2 -> sb3(t) [] n = 3 -> sb4(t)
sl(first, in, x) ==
    Bytes16([i \in 1 .. 16 |-> sb((first + ((i-1) \div 4)) % 4, Xor(in[i], x[i]))])
sl1(in, x) == sl(0, in, x)
sl2(in, x) == sl(2, in, x)

\* The diffusion layer, with the code's common subexpressions.
afunc(in) ==
    LET d(i) == in[i+1]
        p349e == Xor4(d(12), d(1), d(6), d(11))
        p0b == Xor(d(0), d(14))
        p1a == Xor(d(4), d(10))
        p6d == Xor(d(9), d(7))
        p7c == Xor(d(13), d(3))
        p258f == Xor4(d(8), d(5), d(2), d(15))
        p16bc == Xor4(d(4), d(9), d(14), d(3))
        p29 == Xor(d(8), d(6))
        p38 == Xor(d(12), d(2))
        p4f == Xor(d(1), d(15))
        p5e == Xor(d(5), d(11))
        p07ad == Xor4(d(0), d(13), d(10), d(7))
    IN  <<Xor3(p349e, p6d, d(2)), Xor3(p258f, p0b, d(11)), Xor3(p07ad, p4f, d(4)),
          Xor3(p16bc, p29, d(13)), Xor3(p258f, p7c, d(6)), Xor3(p349e, p1a, d(15)),
          Xor3(p16bc, p5e, d(0)), Xor3(p07ad, p38, d(9)), Xor3(p16bc, p4f, d(10)),
          Xor3(p07ad, p29, d(3)), Xor3(p258f, p6d, d(12)), Xor3(p349e, p0b, d(5)),
          Xor3(p07ad, p5e, d(14)), Xor3(p16bc, p38, d(7)), Xor3(p349e, p7c, d(8)),
          Xor3(p258f, p1a, d(1))>>
fo(in, x) == afunc(sl1(in, x))
fe(in, x) == afunc(sl2(in, x))

\* Encrypt128, Encrypt192 and Encrypt256 differ in the number of rounds only.
EncryptRounds(rounds, sk, in) ==
    LET go[i \in 1 .. 16, b \in Seq(Byte)] ==
            IF i = rounds THEN Xor16(sl2(b, sk[i]), sk[i+1])
            ELSE go[i+1, afunc(IF i % 2 = 1 THEN sl1(b, sk[i]) ELSE sl2(b, sk[i]))]
    IN  Permute(go[1, Permute(in)])
Rounds(off) == 12 + 2*off
Encrypt(c, in) == EncryptRounds(Rounds(c.off), c.ek, in)
Decrypt(c, in) == EncryptRounds(Rounds(c.off), c.dk, in)

------------------------------------------------------------------------------
C(i) == LET n == i % 3
        IN  CASE n = 0 -> Join(64, Hex64(\h517c, \hc1b7, \h2722, \h0a94), Hex64(\hfe13, \habe8, \hfa9a, \h6ee0))
              [] n = 1 -> Join(64, Hex64(\h6db1, \h4acc, \h9e21, \hc820), Hex64(\hff28, \hb1d5, \hef5d, \he2b0))
              [] n = 2 -> Join(64, Hex64(\hdb92, \h371d, \h2126, \he970), Hex64(\h0324, \h9775, \h04e8, \hc90e))
CBytes(i) == Bytes16(UnpackBE(16, C(i)))
offsets == <<19, 31, 67, 97>>

\* m_ek from ek, and m_dk from it.
Inverted(n, e) ==
    [i \in 1 .. n+1 |-> IF i \in {1, n+1} THEN e[n + 2 - i] ELSE afunc(e[n + 2 - i])]
WithDk(off, e) == [off |-> off, ek |-> e, dk |-> SubSeq(Inverted(Rounds(off), e), 1, Rounds(off) + 1)]
Schedule(off, ek) == WithDk(off, SubSeq([i \in 1 .. 17 |-> Permute(ek[i])], 1, 17))
Padded(key) == [i \in 1 .. 32 |-> IF i <= Len(key) THEN key[i] ELSE {}]
Off(key) == (Len(key) \div 8) - 2

\* aria128.cc.  w is <<kr, kl, w1, w2, w3>>: fo and fe in turn.
Permuted(a) == Permute(UnpackBE(16, a))
fo128(a, b) == PackBE(Permute(fo(Permuted(a), Permuted(b))))
fe128(a, b) == PackBE(Permute(fe(Permuted(a), Permuted(b))))
W128(off, kl, kr) ==
    Grow(<<kr, kl>>, 3, LAMBDA w :
        LET n == Len(w)
        IN  Xor(IF n = 3 THEN fe128(w[3], C(off + 1)) ELSE fo128(w[n], C(off + n - 2)), w[n-1]))
Ek128(w, i) ==
    IF i = 16 THEN Xor(w[2], Rotl(128, w[3], 19))
    ELSE Xor(w[(i % 4) + 2], Rotr(128, w[((i+1) % 4) + 2], offsets[(i \div 4) + 1]))
SetKey128(c, key) ==
    LET All(w) == SubSeq([i \in 1 .. 17 |-> Bytes16(UnpackBE(16, Ek128(w, i - 1)))], 1, 17)
        kl == PackBE(SubSeq(Padded(key), 1, 16))
        kr == PackBE(SubSeq(Padded(key), 17, 32))
    IN  IF Off(key) \notin 0 .. 2 THEN c ELSE Schedule(Off(key), All(W128(Off(key), kl, kr)))

\* ariabyte.cc
RotateRightAndXor(in, x, offset) ==
    LET nbytes == offset \div 8
        nbits == offset % 8
    IN  Bytes16([i \in 1 .. 16 |->
            Xor(Shr(in[((i-1 - nbytes) % 16) + 1], nbits)
                \union Shl(8, in[((i-2 - nbytes) % 16) + 1], 8 - nbits), x[i])])
WBytes(off, kl, kr) ==
    LET go[w \in Seq(Seq(Byte))] ==
            LET n == Len(w)
                k == Permute(CBytes(off + n - 2))
            IN  IF n = 5 THEN w
                ELSE go[Append(w, Xor16(IF n = 3 THEN fe(w[n], k) ELSE fo(w[n], k), w[n-1]))]
    IN  go[<<Permute(kr), Permute(kl)>>]
EkBytes(w, i) ==
    IF i = 16 THEN RotateRightAndXor(w[3], w[2], 109)
    ELSE RotateRightAndXor(w[((i+1) % 4) + 2], w[(i % 4) + 2], offsets[(i \div 4) + 1])
SetKeyBytewise(c, key) ==
    LET Plain(w) == SubSeq([i \in 1 .. 5 |-> Permute(w[i])], 1, 5)
        All(w) == SubSeq([i \in 1 .. 17 |-> EkBytes(w, i - 1)], 1, 17)
        kl == SubSeq(Padded(key), 1, 16)
        kr == SubSeq(Padded(key), 17, 32)
    IN  IF Off(key) \notin 0 .. 2 THEN c
        ELSE Schedule(Off(key), All(Plain(WBytes(Off(key), kl, kr))))
==============================================================================
