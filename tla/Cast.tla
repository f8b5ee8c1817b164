-------------------------------- MODULE Cast --------------------------------
(***************************************************************************)
(* CAST-128 (src/impl/block/cast/cast5.cc) and CAST-256 (cast6.cc) with    *)
(* the three round functions they share (cast.hh) and the tables they      *)
(* share (sboxes.cc).                                                      *)
(***************************************************************************)
EXTENDS Words

CONSTANT Table(_, _, _)

\* The eight rows of m_s.
m_s0(x) == Table(32, 500, x)
m_s1(x) == Table(32, 501, x)
m_s2(x) == Table(32, 502, x)
m_s3(x) == Table(32, 503, x)
m_s4(x) == Table(32, 504, x)
m_s5(x) == Table(32, 505, x)
m_s6(x) == Table(32, 506, x)
m_s7(x) == Table(32, 507, x)
m_s(t, x) == CASE t = 0 -> m_s0(x) [] t = 1 -> m_s1(x) [] t = 2 -> m_s2(x) [] t = 3 -> m_s3(x)
               [] t = 4 -> m_s4(x) [] t = 5 -> m_s5(x) [] t = 6 -> m_s6(x) [] t = 7 -> m_s7(x)

item(t, val) == m_s(t, GetByte(val, 3 - t))
Add(x, y) == Plus(32, x, y)
Sub(x, y) == Minus(32, x, y)

items(v) == [t \in 0 .. 3 |-> item(t, v)]
Sum1(t) == Add(Sub(Xor(t[0], t[1]), t[2]), t[3])
Sum2(t) == Xor(Add(Sub(t[0], t[1]), t[2]), t[3])
Sum3(t) == Sub(Xor(Add(t[0], t[1]), t[2]), t[3])

f1(x, km, kr) == Sum1(items(Rotl(32, Add(km, x), NumByte(kr))))
f2(x, km, kr) == Sum2(items(Rotl(32, Xor(km, x), NumByte(kr))))
f3(x, km, kr) == Sum3(items(Rotl(32, Sub(km, x), NumByte(kr))))

InTurn(n, x, km, kr) ==
    CASE n % 3 = 0 -> f1(x, km, kr) [] n % 3 = 1 -> f2(x, km, kr) [] n % 3 = 2 -> f3(x, km, kr)

------------------------------------------------------------------------------
\* sx and sz of the code: table a at byte b of four words, high byte first.
S(x, a, b) == m_s(a, GetByte(x[b \div 4 + 1], 3 - (b % 4)))

\* The entries of tables 4 to 7 at the bytes p of y, xored.
Mix(y, p) == XorOf([i \in 0 .. 3 |-> S(y, 4 + i, p[i+1])])

\* Word n of the new set is word [1] of the old one, mixed with the bytes [2] of
\* the words before it (the first one of the old set) and byte [4] of the old
\* set in table [3].
NextSet(x, steps) ==
    Grow(<<>>, 4, LAMBDA z :
        LET p == steps[Len(z) + 1]
        IN  Xor3(x[p[1]], Mix(IF z = <<>> THEN x ELSE z, p[2]), S(x, p[3], p[4])))
ZSteps == << <<1, <<13, 15, 12, 14>>, 6, 8>>, <<3, <<0, 2, 1, 3>>, 7, 10>>,
             <<4, <<7, 6, 5, 4>>, 4, 9>>, <<2, <<10, 9, 11, 8>>, 5, 11>> >>
XSteps == << <<3, <<5, 7, 4, 6>>, 6, 0>>, <<1, <<0, 2, 1, 3>>, 7, 2>>,
             <<2, <<7, 6, 5, 4>>, 4, 1>>, <<4, <<10, 9, 11, 8>>, 5, 3>> >>
ComputeZSet(x) == NextSet(x, ZSteps)
ComputeXSet(z) == NextSet(z, XSteps)

\* Four subkeys: rows of bytes to mix and a byte last[i] in table i of 4 .. 7.
SubkeySet(z, rows, last) ==
    SubSeq([i \in 1 .. 4 |-> Xor(Mix(z, rows[i]), S(z, 3 + i, last[i]))], 1, 4)
ComputeSubkeySetA(z, last) ==
    SubkeySet(z, << <<8, 9, 7, 6>>, <<10, 11, 5, 4>>, <<12, 13, 3, 2>>, <<14, 15, 1, 0>> >>, last)
ComputeSubkeySetB(z, last) ==
    SubkeySet(z, << <<3, 2, 12, 13>>, <<1, 0, 14, 15>>, <<7, 6, 8, 9>>, <<5, 4, 10, 11>> >>, last)

\* Sixteen subkeys after those of c, and the set the next sixteen start from.
TakeA(sk, z, last) == [sk |-> sk \o ComputeSubkeySetA(z, last), x |-> z]
TakeB(sk, z, last) == [sk |-> sk \o ComputeSubkeySetB(z, last), x |-> z]
HalfSubkeys(c) ==
    LET A1(d) == TakeA(d.sk, ComputeZSet(d.x), <<2, 6, 9, 12>>)
        B1(d) == TakeB(d.sk, ComputeXSet(d.x), <<8, 13, 3, 7>>)
        B2(d) == TakeB(d.sk, ComputeZSet(d.x), <<9, 12, 2, 6>>)
        A2(d) == TakeA(d.sk, ComputeXSet(d.x), <<3, 7, 8, 13>>)
    IN  A2(B2(B1(A1(c))))

\* The key is padded with zeros to sixteen bytes; up to ten bytes it is short.
SetKey5(key) ==
    LET buf == [i \in 1 .. 16 |-> IF i <= Len(key) THEN key[i] ELSE {}]
        Split(sk) == [km |-> SubSeq(sk, 1, 16), kr |-> [i \in 1 .. 16 |-> Field(sk[16 + i], 0, 5)],
                      longkey |-> Len(key) > 10]
    IN  Split(HalfSubkeys(HalfSubkeys([sk |-> <<>>, x |-> WordsBE(4, buf)])).sk)

\* The rounds use f1, f2 and f3 in turn; i counts from 1.
Round5(c, i, r) == InTurn(i - 1, r, c.km[i], c.kr[i])

Feistel5(c, i, p) == <<p[2], Xor(p[1], Round5(c, i, p[2]))>>
Swapped(p) == <<p[2], p[1]>>
\* A long key has a sixteenth round; the halves end up exchanged either way.
Iters(c) == IF c.longkey THEN 16 ELSE 12
Encrypt5(c, in) ==
    BytesBE(4, Swapped(Iterated(Iters(c), WordsBE(4, in),
        [t \in WordPairs(32) \X (1 .. Iters(c)) |-> Feistel5(c, t[2], t[1])])))
Decrypt5(c, in) ==
    BytesBE(4, Swapped(Iterated(Iters(c), WordsBE(4, in),
        [t \in WordPairs(32) \X (1 .. Iters(c)) |-> Feistel5(c, Iters(c) + 1 - t[2], t[1])])))

------------------------------------------------------------------------------
\* tm[j][i] and tr[j][i]: the n-th values, n = 8i + j, of two linear sequences.
tm(n) == Add(Hex32(\h5a82, \h7999), Times(32, Hex32(\h6ed9, \heba1), OfNum(8, n)))
tr(n) == OfNum(5, (19 + 17 * n) % 32)

\* Words 6, 5, ..., 0 and then 7 (from 0) in place, each from the one after it.
W(k0, i) ==
    LET go[j \in 0 .. 8, k \in Seq(Word(32))] ==
            LET a == IF j = 7 THEN 8 ELSE 7 - j
                n == 8*i + j
            IN  IF j = 8 THEN k
                ELSE go[j+1, [k EXCEPT ![a] = Xor(@, InTurn(j, k[(a % 8) + 1], tm(n), tr(n)))]]
    IN  go[0, k0]

\* Keys of up to 32 bytes, the rest zero; m_km and m_kr take words after each
\* second W.
SetKey6(key) ==
    LET buf == [i \in 1 .. 32 |-> IF i <= Len(key) THEN key[i] ELSE {}]
        w[k \in Seq(Word(32)), i \in 0 .. 23] == W(k, i)
        With(c, k) == [km |-> Append(c.km, <<k[8], k[6], k[4], k[2]>>),
                       kr |-> Append(c.kr, <<Field(k[1], 0, 5), Field(k[3], 0, 5),
                                             Field(k[5], 0, 5), Field(k[7], 0, 5)>>)]
        go[i \in 0 .. 12, k \in Seq(Word(32)), c \in [km : Seq(Seq(Word(32))), kr : Seq(Seq(Word(5)))]] ==
            IF i = 12 THEN c
            ELSE LET n == w[w[k, 2*i], 2*i + 1] IN go[i+1, n, With(c, n)]
    IN  go[0, SubSeq(WordsBE(4, buf), 1, 8), [km |-> <<>>, kr |-> <<>>]]

\* The four assignments of Q, each to one word from another, and of Qbar.
Third(c, i, d) == [d EXCEPT ![3] = Xor(@, f1(d[4], c.km[i+1][1], c.kr[i+1][1]))]
Second(c, i, d) == [d EXCEPT ![2] = Xor(@, f2(d[3], c.km[i+1][2], c.kr[i+1][2]))]
First(c, i, d) == [d EXCEPT ![1] = Xor(@, f3(d[2], c.km[i+1][3], c.kr[i+1][3]))]
Fourth(c, i, d) == [d EXCEPT ![4] = Xor(@, f1(d[1], c.km[i+1][4], c.kr[i+1][4]))]
Q(c, d, i) == Fourth(c, i, First(c, i, Second(c, i, Third(c, i, d))))
Qbar(c, d, i) == Third(c, i, Second(c, i, First(c, i, Fourth(c, i, d))))

\* Turn i of either, with key i or with the keys backwards.
Turn6(c, i, key, d) == IF i <= 6 THEN Q(c, d, key) ELSE Qbar(c, d, key)
Encrypt6(c, in) ==
    BytesBE(4, Iterated(12, WordsBE(4, in),
        [t \in Words(32, 4) \X (1 .. 12) |-> Turn6(c, t[2], t[2] - 1, t[1])]))
Decrypt6(c, in) ==
    BytesBE(4, Iterated(12, WordsBE(4, in),
        [t \in Words(32, 4) \X (1 .. 12) |-> Turn6(c, t[2], 12 - t[2], t[1])]))
==============================================================================
