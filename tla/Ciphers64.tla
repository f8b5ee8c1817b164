------------------------------ MODULE Ciphers64 ------------------------------
(***************************************************************************)
(* Ciphers with a block of eight bytes: DES with triple DES, Blowfish and  *)
(* RC2, with tables given as data, and TEA and XTEA.                       *)
(***************************************************************************)
EXTENDS Words

\* Table(w, t, x) is entry x of the static table t, a word of w bits.  What
\* the properties say holds whatever the entries are.
CONSTANT Table(_, _, _)

(***************************************************************************)
(* DES and two- and three-key triple DES, src/impl/block/des/des.cc.       *)
(* A context is the schedule m_k and its reversal m_kd; a triple DES       *)
(* context is three of them.                                               *)
(***************************************************************************)

pc1 == <<57, 49, 41, 33, 25, 17,  9,  1, 58, 50, 42, 34, 26, 18,
         10,  2, 59, 51, 43, 35, 27, 19, 11,  3, 60, 52, 44, 36,
         63, 55, 47, 39, 31, 23, 15,  7, 62, 54, 46, 38, 30, 22,
         14,  6, 61, 53, 45, 37, 29, 21, 13,  5, 28, 20, 12,  4>>
totrot == <<1, 2, 4, 6, 8, 10, 12, 14, 15, 17, 19, 21, 23, 25, 27, 28>>
pc2 == <<14, 17, 11, 24,  1,  5,  3, 28, 15,  6, 21, 10,
         23, 19, 12,  4, 26,  8, 16,  7, 27, 20, 13,  2,
         41, 52, 31, 37, 47, 55, 30, 40, 51, 45, 33, 48,
         44, 49, 39, 56, 34, 53, 46, 42, 50, 36, 29, 32>>

Spbox(i, x) == Table(32, 100 + i, x)

Nibbles == {i \in 0 .. 31 : (i \div 4) % 2 = 1}     \* 0xf0f0f0f0
Pairs   == {i \in 0 .. 31 : (i \div 2) % 2 = 0}     \* 0x33333333
OddBits == {i \in 0 .. 31 : i % 2 = 1}              \* 0xaaaaaaaa
EvenBytes == {i \in 0 .. 31 : (i \div 8) % 2 = 0}   \* 0x00ff00ff

\* A step of the permutations: one half is rotated left by n, then bits of the
\* two are exchanged; and the other half of the pair.
TurnR(x, n, mask) == SwapBits(x[1], Rotl(32, x[2], n), mask)
TurnL(x, n, mask) == SwapBits(Rotl(32, x[1], n), x[2], mask)
RotateL(x, n) == <<Rotl(32, x[1], n), x[2]>>
IPERM(x) ==
    RotateL(TurnR(TurnR(TurnR(TurnR(TurnR(x, 4, Nibbles), -20, 16 .. 31), -18, Pairs),
                              -6, EvenBytes), 9, OddBits), 1)
FPERM(x) ==
    RotateL(TurnL(TurnL(TurnL(TurnL(TurnR(x, -1, OddBits), -9, EvenBytes), 6, Pairs),
                              18, 16 .. 31), 20, Nibbles), -4)

\* Bit j of the key after pc1 and the rotation of round i (pcr[j]).
RotatedBit(key, i, j) ==
    LET r == j + totrot[i]
        n == IF r < (IF j < 28 THEN 28 ELSE 56) THEN r ELSE r - 28
        l == pc1[n + 1] - 1
    IN  7 - (l % 8) \in key[l \div 8 + 1]

\* m_k[2i-2] takes the even groups of six bits of round i, m_k[2i-1] the odd.
SubkeyWord(key, i, odd) ==
    {8 * (3 - j \div 12) + 5 - (j % 6) :
        j \in {b \in 0 .. 47 : (b \div 6) % 2 = odd /\ RotatedBit(key, i, pc2[b + 1] - 1)}}

DesSetKey(key) ==
    LET k == [n \in 1 .. 32 |-> SubkeyWord(key, (n+1) \div 2, (n-1) % 2)]
    IN  [k |-> k, kd |-> [n \in 1 .. 32 |-> IF n % 2 = 1 THEN k[32 - n] ELSE k[34 - n]]]

\* a and b are the two words that index the tables.
Lookup(a, b) ==
    Xor(XorOf([n \in 0 .. 3 |-> Spbox(6 - 2*n, Field(a, 8*n, 6))]),
        XorOf([n \in 0 .. 3 |-> Spbox(7 - 2*n, Field(b, 8*n, 6))]))
F(k1, k2, r) == Lookup(Xor(Rotr(32, r, 4), k1), Xor(r, k2))

DesLeft(k, i, x) == <<Xor(x[1], F(k[4*i-3], k[4*i-2], x[2])), x[2]>>
DesRight(k, i, x) == <<x[1], Xor(x[2], F(k[4*i-1], k[4*i], x[1]))>>
DesTurn(k, i, x) == DesRight(k, i, DesLeft(k, i, x))
ProcessBlock(k, x0) ==
    Iterated(8, x0, [t \in WordPairs(32) \X (1 .. 8) |-> DesTurn(k, t[2], t[1])])

\* The permutations and the final swap around the core, all four entry points.
Swap(x) == <<x[2], x[1]>>
Finish(x) == BytesBE(4, Swap(FPERM(x)))
Start(in) == IPERM(<<PackBE(SubSeq(in, 1, 4)), PackBE(SubSeq(in, 5, 8))>>)

DesEncrypt(c, in) == Finish(ProcessBlock(c.k, Start(in)))
DesDecrypt(c, in) == Finish(ProcessBlock(c.kd, Start(in)))

SetKey3(key) ==
    LET third == IF Len(key) = 24 THEN 16 ELSE 0
    IN  <<DesSetKey(SubSeq(key, 1, 8)), DesSetKey(SubSeq(key, 9, 16)),
          DesSetKey(SubSeq(key, third + 1, third + 8))>>

\* The middle pass takes the halves in the other order and writes them back.
EDE(k1, k2, k3, in) ==
    Finish(ProcessBlock(k3, Swap(ProcessBlock(k2, Swap(ProcessBlock(k1, Start(in)))))))

Encrypt3(c, in) == EDE(c[1].k, c[2].kd, c[3].k, in)
Decrypt3(c, in) == EDE(c[3].kd, c[2].k, c[1].kd, in)

(***************************************************************************)
(* Blowfish, src/impl/block/blowfish/blowfish.cc.  The key schedule runs   *)
(* the cipher on its own half-finished tables: every word it writes is     *)
(* read by the encryptions that follow.                                    *)
(***************************************************************************)

m_sbox(i) == Table(32, 200, OfNum(10, i))
m_parray(i) == Table(32, 201, OfNum(5, i))

Mixed(t) == Plus(32, Xor(Plus(32, t[0], t[1]), t[2]), t[3])
f(s, x) == Mixed([n \in 0 .. 3 |-> s[256*n + NumByte(GetByte(x, 3 - n))]])

\* Two rounds: a pair of subkeys is added before them.
AddKeys(p, i, d) == <<Xor(d[1], p[2*i]), Xor(d[2], p[2*i + 1])>>
BlowfishRight(s, d) == <<d[1], Xor(d[2], f(s, d[1]))>>
BlowfishLeft(s, d) == <<Xor(d[1], f(s, d[2])), d[2]>>
BlowfishTurn(s, p, i, d) == BlowfishLeft(s, BlowfishRight(s, AddKeys(p, i, d)))
MainAlgorithm(s, p, d) ==
    AddKeys(p, 8, Iterated(8, d, [t \in WordPairs(32) \X (1 .. 8) |-> BlowfishTurn(s, p, t[2] - 1, t[1])]))

\* The key, repeated as often as needed, is added to the eighteen words.
KeyWord(key, i) ==
    PackBE([j \in 1 .. 4 |-> key[((4*i + j-1) % Len(key)) + 1]])

Tables == [s : [0 .. 1023 -> Word(32)], p : [0 .. 17 -> Word(32)],
           pd : [0 .. 17 -> Word(32)], d : WordPairs(32)]

\* One turn of the loop over m_p (and m_pd), and one of the loop over m_s: words
\* i and i + 1 are the encryption of the two before, swapped.
StoreP(c, i, e) ==
    [c EXCEPT !.p = [@ EXCEPT ![i] = e[2], ![i + 1] = e[1]],
              !.pd = [@ EXCEPT ![17 - i] = e[2], ![16 - i] = e[1]],
              !.d = <<e[2], e[1]>>]
StoreS(c, i, e) ==
    [c EXCEPT !.s = [@ EXCEPT ![i] = e[2], ![i + 1] = e[1]], !.d = <<e[2], e[1]>>]
FillP(c, i) == StoreP(c, i, MainAlgorithm(c.s, c.p, c.d))
FillS(c, i) == StoreS(c, i, MainAlgorithm(c.s, c.p, c.d))

\* 512 turns, 32 at a time, so that the nesting stays shallow.
LoopP(c0) == Iterated(9, c0, [t \in Tables \X (1 .. 9) |-> FillP(t[1], 2*t[2] - 2)])
Turns32(c0, m) ==
    Iterated(32, c0, [t \in Tables \X (1 .. 32) |-> FillS(t[1], 64 * (m-1) + 2 * (t[2]-1))])
LoopS(c0) == Iterated(16, c0, [t \in Tables \X (1 .. 16) |-> Turns32(t[1], t[2])])

BlowfishSetKey(key) ==
    LoopS(LoopP([s  |-> [i \in 0 .. 1023 |-> m_sbox(i)],
                 p  |-> [i \in 0 .. 17 |-> Xor(m_parray(i), KeyWord(key, i))],
                 pd |-> [i \in 0 .. 17 |-> {}], d |-> <<{}, {}>>]))

Out(d) == BytesBE(4, <<d[2], d[1]>>)
Crypt(s, p, in) == Out(MainAlgorithm(s, p, <<PackBE(SubSeq(in, 1, 4)), PackBE(SubSeq(in, 5, 8))>>))

BlowfishEncrypt(c, in) == Crypt(c.s, c.p, in)
BlowfishDecrypt(c, in) == Crypt(c.s, c.pd, in)

(***************************************************************************)
(* RC2, src/impl/block/rc2/rc2.cc: keys of 1 to 128 bytes are stretched to *)
(* 64 words; mixing rounds use them in order, mashing rounds use the words *)
(* that the data points at.                                                *)
(***************************************************************************)

pitable(x) == Table(8, 300, x)

\* m_k.  The first loop appends up to 128 bytes, the second walks down from
\* the top len bytes.
Stretch(len, k) == Append(k, pitable(Plus(8, k[Len(k)], k[Len(k) + 1 - len])))
Walk(len, n, k) == [k EXCEPT ![n] = pitable(Xor(k[n + 1], k[n + len]))]
Stretched(key) ==
    Iterated(128 - Len(key), key, [t \in Seq(Byte) \X (1 .. 128 - Len(key)) |-> Stretch(Len(key), t[1])])
Walked(len, k) ==
    Iterated(128 - len, k, [t \in Seq(Byte) \X (1 .. 128 - len) |-> Walk(len, 129 - len - t[2], t[1])])
Rc2SetKey(key) ==
    LET down == [k \in Seq(Byte) |-> Walked(Len(key), k)]
    IN  WordsLE(2, down[[Stretched(key) EXCEPT ![129 - Len(key)] = pitable(@)]])

\* R(i, x) of the code, i counted from 0.
R(r, i, x) == r[((i + x) % 4) + 1]
KeyMix(k, r, i, j) ==
    Plus(16, Plus(16, k[j+1], R(r, i, 3) \cap R(r, i, 2)), R(r, i, 1) \ R(r, i, 3))

Mix(k, r, i, j, s) ==
    [r EXCEPT ![i+1] = Rotl(16, Plus(16, @, KeyMix(k, r, i, j)), s)]
MixRound(k, r, j) ==
    Mix(k, Mix(k, Mix(k, Mix(k, r, 0, j, 1), 1, j+1, 2), 2, j+2, 3), 3, j+3, 5)
Mash(k, r, i) == [r EXCEPT ![i+1] = Plus(16, @, k[Num(Field(R(r, i, 3), 0, 6)) + 1])]
MashRound(k, r) == Mash(k, Mash(k, Mash(k, Mash(k, r, 0), 1), 2), 3)

Rc2Round(k, r, i) ==
    LET m == MixRound(k, r, 4*i - 4) IN IF i \in {5, 11} THEN MashRound(k, m) ELSE m
Rc2Encrypt(k, in) ==
    BytesLE(2, Iterated(16, WordsLE(2, in), [t \in Words(16, 4) \X (1 .. 16) |-> Rc2Round(k, t[1], t[2])]))

RMix(k, r, i, j, s) ==
    LET t == Rotr(16, r[i+1], s)
    IN  [r EXCEPT ![i+1] = Minus(16, t, KeyMix(k, r, i, j))]
RMixRound(k, r, j) ==
    RMix(k, RMix(k, RMix(k, RMix(k, r, 3, j+3, 5), 2, j+2, 3), 1, j+1, 2), 0, j, 1)
RMash(k, r, i) == [r EXCEPT ![i+1] = Minus(16, @, k[Num(Field(R(r, i, 3), 0, 6)) + 1])]
RMashRound(k, r) == RMash(k, RMash(k, RMash(k, RMash(k, r, 3), 2), 1), 0)

RRc2Round(k, r, i) ==
    LET m == RMixRound(k, r, 64 - 4*i) IN IF i \in {5, 11} THEN RMashRound(k, m) ELSE m
Rc2Decrypt(k, in) ==
    BytesLE(2, Iterated(16, WordsLE(2, in), [t \in Words(16, 4) \X (1 .. 16) |-> RRc2Round(k, t[1], t[2])]))

(***************************************************************************)
(* TEA (src/impl/block/tea/tea.cc) and XTEA (src/impl/block/xtea/xtea.cc). *)
(* Decryption starts from the sum that encryption ends with: delta << 5    *)
(* for TEA's fixed 32 rounds, delta * rounds for XTEA, whose number of     *)
(* rounds is a parameter of init.                                          *)
(***************************************************************************)

delta == Hex32(\h9e37, \h79b9)

\* m_k; the key is sixteen bytes, copied big endian.
TeaSetKey(key) == WordsBE(4, key)

TeaMix(k, l, sum, i) ==
    Xor3(Plus(32, Shl(32, l, 4), k[i]), Plus(32, l, sum), Plus(32, Shr(l, 5), k[i+1]))

\* The two halves and the sum.
Summed == Word(32) \X Word(32) \X Word(32)
TeaRound(k, v) ==
    LET sum == Plus(32, v[3], delta)
        a == Plus(32, v[1], TeaMix(k, v[2], sum, 1))
    IN  <<a, Plus(32, v[2], TeaMix(k, a, sum, 3)), sum>>
TeaUnround(k, v) ==
    LET b == Minus(32, v[2], TeaMix(k, v[1], v[3], 3))
    IN  <<Minus(32, v[1], TeaMix(k, b, v[3], 1)), b, Minus(32, v[3], delta)>>

\* n rounds on the two words of a block, from a sum on.
Rounds(n, in, sum, turn) ==
    LET v == WordsBE(4, in)
        w == Iterated(n, <<v[1], v[2], sum>>, turn)
    IN  BytesBE(4, <<w[1], w[2]>>)
TeaEncrypt(k, in) ==
    Rounds(32, in, Zero, [t \in Summed \X (1 .. 32) |-> TeaRound(k, t[1])])
TeaDecrypt(k, in) ==
    Rounds(32, in, Shl(32, delta, 5), [t \in Summed \X (1 .. 32) |-> TeaUnround(k, t[1])])

\* XTEA: the key word is picked by bits of the running sum.
XteaMix(k, z, sum, pick) ==
    Xor(Plus(32, Xor(Shl(32, z, 4), Shr(z, 5)), z), Plus(32, sum, k[Num(pick) + 1]))

XteaRound(k, v) ==
    LET y == Plus(32, v[1], XteaMix(k, v[2], v[3], Field(v[3], 0, 2)))
        sum == Plus(32, v[3], delta)
    IN  <<y, Plus(32, v[2], XteaMix(k, y, sum, Field(sum, 11, 2))), sum>>
XteaUnround(k, v) ==
    LET z == Minus(32, v[2], XteaMix(k, v[1], v[3], Field(v[3], 11, 2)))
        sum == Minus(32, v[3], delta)
    IN  <<Minus(32, v[1], XteaMix(k, z, sum, Field(sum, 0, 2))), z, sum>>

\* delta * n.
Deltas(n) == Iterated(n, Zero, [t \in Word(32) \X (1 .. n) |-> Plus(32, t[1], delta)])
XteaEncrypt(c, in) ==
    Rounds(c.rounds, in, Zero, [t \in Summed \X (1 .. c.rounds) |-> XteaRound(c.k, t[1])])
XteaDecrypt(c, in) ==
    Rounds(c.rounds, in, Deltas(c.rounds), [t \in Summed \X (1 .. c.rounds) |-> XteaUnround(c.k, t[1])])

\* xteainit reads the number of rounds from its parameters, 32 without one.
XteaSetKey(rounds, key) == [k |-> WordsBE(4, key), rounds |-> rounds]
==============================================================================
