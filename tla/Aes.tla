--------------------------------- MODULE Aes ---------------------------------
(***************************************************************************)
(* AES, twice: with tables, src/impl/block/aes/aes.cc, and with the AES    *)
(* instructions of the processor, src/impl/block/aes-native/aesni.cc.      *)
(* The instructions are modelled from their use there.                     *)
(*                                                                         *)
(* A context is [nr, rk, rkd]: the number of rounds and the round keys for *)
(* encryption and decryption, 32-bit words in both models.                 *)
(***************************************************************************)
EXTENDS Gf

\* A word's byte 3 is its first one.  Table n of four is table 0 with its bytes
\* rotated by n: a column of the matrix times the substituted byte.
Col(n, y) == Rotr(32, PackBE(<<mul0x2(y), y, y, mul0x3(y)>>), 8*n)
InvCol(n, y) == Rotr(32, PackBE(<<mul0xe(y), mul0x9(y), mul0xd(y), mul0xb(y)>>), 8*n)
Quad(y) == PackBE(<<y, y, y, y>>)
Te0(x) == Col(0, S(x))
Te1(x) == Col(1, S(x))
Te2(x) == Col(2, S(x))
Te3(x) == Col(3, S(x))
Te4(x) == Quad(S(x))
Td0(x) == InvCol(0, Si(x))
Td1(x) == InvCol(1, Si(x))
Td2(x) == InvCol(2, Si(x))
Td3(x) == InvCol(3, Si(x))
Td4(x) == Quad(Si(x))
Te(n, x) == CASE n = 0 -> Te0(x) [] n = 1 -> Te1(x) [] n = 2 -> Te2(x) [] n = 3 -> Te3(x)
Td(n, x) == CASE n = 0 -> Td0(x) [] n = 1 -> Td1(x) [] n = 2 -> Td2(x) [] n = 3 -> Td3(x)

\* The byte of rcon[i], i from 0, before it is shifted into place.
Rc(i) == CASE i < 8 -> {i} [] i = 8 -> {0, 1, 3, 4} [] i = 9 -> {1, 2, 4, 5}
rcon(i) == Shl(32, Rc(i), 24)

\* Te4 gives the byte for each place, n from the left: the mask keeps one of four.
Kept(n, x) == x \cap (8*(3 - n) .. 8*(3 - n) + 7)
SubWord(x) == XorOf([n \in 0 .. 3 |-> Kept(n, Te4(GetByte(x, 3 - n)))])
SubRotWord(x) == SubWord(Rotl(32, x, 8))

\* The three loops, one for each key size, write words nk, nk+1, ...
SetKeyEncrypt(key) ==
    LET nk == Len(key) \div 4
        words == 4 * (6 + nk + 1)
        go[rk \in Seq(Word(32))] ==
            LET i == Len(rk)
                temp == rk[i]
                t == CASE i % nk = 0 -> Xor(SubRotWord(temp), rcon((i \div nk) - 1))
                       [] nk = 8 /\ i % nk = 4 -> SubWord(temp)
                       [] OTHER -> temp
            IN  IF i = words THEN rk ELSE go[Append(rk, Xor(rk[i - nk + 1], t))]
    IN  go[WordsBE(4, key)]

\* Round keys in reverse order, all but the first and the last through the
\* inverse of the column mixing.
InvMix(x) == XorOf([n \in 0 .. 3 |-> Td(n, GetByte(Te4(GetByte(x, 3 - n)), 0))])
SetKeyDecrypt(nr, rk) ==
    LET go[rkd \in Seq(Word(32))] ==
            LET i == Len(rkd) \div 4
                from == SubSeq(rk, 4 * (nr - i) + 1, 4 * (nr - i) + 4)
            IN  CASE i > nr -> rkd
                  [] i \in {0, nr} -> go[rkd \o from]
                  [] OTHER -> go[rkd \o SubSeq([j \in 1 .. 4 |-> InvMix(from[j])], 1, 4)]
    IN  go[<<>>]

\* Any other size is an error and the context keeps the keys it had.
SetKey(c, key) ==
    IF Len(key) \notin {16, 24, 32} THEN c
    ELSE LET nr == 6 + Len(key) \div 4
             Both(rk) == [nr |-> nr, rk |-> rk, rkd |-> SetKeyDecrypt(nr, rk)]
         IN  Both(SetKeyEncrypt(key))

------------------------------------------------------------------------------
\* s is <<s0, s1, s2, s3>>, rk the four words of the round key.  Column j takes
\* its byte n from the n-th column after it, or before it when decrypting.
After(s, j, n) == GetByte(s[((j + n - 1) % 4) + 1], 3 - n)
Before(s, j, n) == GetByte(s[((j - n - 1) % 4) + 1], 3 - n)
Four(f) == SubSeq(f, 1, 4)
EncryptRound(s, rk) ==
    Four([j \in 1 .. 4 |-> Xor(XorOf([n \in 0 .. 3 |-> Te(n, After(s, j, n))]), rk[j])])
EncryptLast(t, rk) ==
    Four([j \in 1 .. 4 |-> Xor(XorOf([n \in 0 .. 3 |-> Kept(n, Te4(After(t, j, n)))]), rk[j])])
DecryptRound(s, rk) ==
    Four([j \in 1 .. 4 |-> Xor(XorOf([n \in 0 .. 3 |-> Td(n, Before(s, j, n))]), rk[j])])
DecryptLast(t, rk) ==
    Four([j \in 1 .. 4 |-> Xor(XorOf([n \in 0 .. 3 |-> Kept(n, Td4(Before(t, j, n)))]), rk[j])])

RoundKey(rk, i) == SubSeq(rk, 4*i + 1, 4*i + 4)

\* The switch on m_nri jumps into the unrolled rounds so that m_nr - 1 are run.
Encrypt(c, in) ==
    LET go[i \in 1 .. 15, s \in Seq(Word(32))] ==
            IF i = c.nr THEN EncryptLast(s, RoundKey(c.rk, i))
            ELSE go[i+1, EncryptRound(s, RoundKey(c.rk, i))]
    IN  BytesBE(4, go[1, XorSeq(WordsBE(4, in), RoundKey(c.rk, 0))])
Decrypt(c, in) ==
    LET go[i \in 1 .. 15, s \in Seq(Word(32))] ==
            IF i = c.nr THEN DecryptLast(s, RoundKey(c.rkd, i))
            ELSE go[i+1, DecryptRound(s, RoundKey(c.rkd, i))]
    IN  BytesBE(4, go[1, XorSeq(WordsBE(4, in), RoundKey(c.rkd, 0))])

------------------------------------------------------------------------------
\* aesni.cc.  The registers hold sixteen bytes in memory order; the round keys
\* are written through a uint32_t pointer, so a word's first byte is byte 0.
\* aeskeygenassist of a register: the rotated and substituted last word, and
\* the substituted last word.
keygenassist2(x) == PackLE([i \in 1 .. 4 |-> S(GetByte(x, i - 1))])
keygenassist3(x) == keygenassist2(Rotr(32, x, 8))

\* Columns of a register's bytes, after the rows have been shifted.
ShiftRows(b) == [i \in 1 .. 16 |-> b[((i-1 + 4*((i-1) % 4)) % 16) + 1]]
InvShiftRows(b) == [i \in 1 .. 16 |-> b[((i-1 - 4*((i-1) % 4)) % 16) + 1]]
MixColumns(b, m) ==
    [i \in 1 .. 16 |->
        LET r == (i-1) % 4
        IN  XorOf([n \in 0 .. 3 |-> Mul(m[n+1], b[i - r + ((r + n) % 4)])])]
Seq16(f) == SubSeq(f, 1, 16)
SubBytes(b) == Seq16([i \in 1 .. 16 |-> S(b[i])])
InvSubBytes(b) == Seq16([i \in 1 .. 16 |-> Si(b[i])])
mc == <<{1}, {0, 1}, {0}, {0}>>
imc == <<{1, 2, 3}, {0, 1, 3}, {0, 2, 3}, {0, 3}>>
aesenclast(b, k) == Seq16(XorSeq(SubBytes(ShiftRows(b)), k))
aesenc(b, k) == Seq16(XorSeq(MixColumns(SubBytes(ShiftRows(b)), mc), k))
aesdeclast(b, k) == Seq16(XorSeq(InvSubBytes(InvShiftRows(b)), k))
aesdec(b, k) == Seq16(XorSeq(MixColumns(InvSubBytes(InvShiftRows(b)), imc), k))
aesimc(b) == Seq16(MixColumns(b, imc))

NiSetKeyEncrypt(key) ==
    LET nk == Len(key) \div 4
        words == 4 * (6 + nk + 1)
        go[rk \in Seq(Word(32))] ==
            LET i == Len(rk)
                t == CASE i % nk = 0 -> Xor(keygenassist3(rk[i]), Rc((i \div nk) - 1))
                       [] nk = 8 /\ i % nk = 4 -> keygenassist2(rk[i])
                       [] OTHER -> rk[i]
            IN  IF i = words THEN rk ELSE go[Append(rk, Xor(rk[i - nk + 1], t))]
    IN  go[WordsLE(4, key)]

\* Round keys as registers.
Registers(rk) ==
    LET go[m \in Seq(Seq(Byte))] ==
            LET i == 4 * Len(m)
            IN  IF i = Len(rk) THEN m ELSE go[Append(m, SubSeq(BytesLE(4, SubSeq(rk, i+1, i+4)), 1, 16))]
    IN  go[<<>>]
NiSetKeyDecrypt(nr, rk) ==
    LET go[m \in Seq(Seq(Byte))] ==
            LET i == Len(m)
                k == rk[nr - i + 1]
            IN  IF i > nr THEN m
                ELSE go[Append(m, IF i \in {0, nr} THEN k ELSE aesimc(k))]
    IN  go[<<>>]
\* A key for encryption only leaves the decryption keys of the key before it.
NiSetKey(c, key, flags) ==
    IF Len(key) \notin {16, 24, 32} THEN c
    ELSE LET nr == 6 + Len(key) \div 4
             Both(rk) ==
                 [nr |-> nr, rk |-> rk,
                  rkd |-> IF flags = "encrypt" THEN c.rkd ELSE NiSetKeyDecrypt(nr, rk)]
         IN  Both(Registers(NiSetKeyEncrypt(key)))

NiEncrypt(c, in) ==
    LET go[i \in 1 .. 15, d \in Seq(Byte)] ==
            IF i = c.nr THEN aesenclast(d, c.rk[i+1]) ELSE go[i+1, aesenc(d, c.rk[i+1])]
    IN  go[1, Seq16(XorSeq(in, c.rk[1]))]
NiDecrypt(c, in) ==
    LET go[i \in 1 .. 15, d \in Seq(Byte)] ==
            IF i = c.nr THEN aesdeclast(d, c.rkd[i+1]) ELSE go[i+1, aesdec(d, c.rkd[i+1])]
    IN  go[1, Seq16(XorSeq(in, c.rkd[1]))]

\* One block of the unrolled loops of EncryptFast and DecryptFast: nine rounds,
\* then the last one or two more rounds, then the last one or two more.
NiEncryptFast(c, in) ==
    LET x(i) == c.rk[i+1]
        go[i \in 1 .. 14, d \in Seq(Byte)] ==
            IF i \in {10, 12, 14} /\ c.nr = i THEN aesenclast(d, x(i)) ELSE go[i+1, aesenc(d, x(i))]
    IN  go[1, Seq16(XorSeq(in, x(0)))]
NiDecryptFast(c, in) ==
    LET x(i) == c.rkd[i+1]
        go[i \in 1 .. 14, d \in Seq(Byte)] ==
            IF i \in {10, 12, 14} /\ c.nr = i THEN aesdeclast(d, x(i)) ELSE go[i+1, aesdec(d, x(i))]
    IN  go[1, Seq16(XorSeq(in, x(0)))]
==============================================================================
