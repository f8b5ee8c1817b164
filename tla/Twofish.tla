------------------------------- MODULE Twofish -------------------------------
(***************************************************************************)
(* Twofish, src/impl/block/twofish/twofish.cc.  The key-dependent boxes    *)
(* m_s are what h0 and mds make of the Reed-Solomon code of the key; the   *)
(* code tabulates them for all 256 bytes, the model applies them.          *)
(***************************************************************************)
EXTENDS Words

CONSTANT Table(_, _, _)

q0(x) == Table(8, 800, x)
q1(x) == Table(8, 801, x)
\* The four rows of mds.
mds0(x) == Table(32, 802, x)
mds1(x) == Table(32, 803, x)
mds2(x) == Table(32, 804, x)
mds3(x) == Table(32, 805, x)
mds(n, x) == CASE n = 0 -> mds0(x) [] n = 1 -> mds1(x) [] n = 2 -> mds2(x) [] n = 3 -> mds3(x)

\* The remainder of the byte c times the generator, in all four coefficients.
RsMod == {0, 2, 3, 6, 8}
Spread(c, c1, c2) == c \union Shl(32, c1, 8) \union Shl(32, c2, 16) \union Shl(32, c1, 24)
Mod2(c, c2) == Spread(c, Xor3(c2, Shr(c, 1), IF 0 \in c THEN Shr(RsMod, 1) ELSE {}), c2)
Mod(c) == Mod2(c, Xor(Shl(32, c, 1), IF 7 \in c THEN RsMod ELSE {}))

ReedSolomon(hi, lo) ==
    LET step[i \in 0 .. 8, h \in Word(32), l \in Word(32)] ==
            IF i = 8 THEN h
            ELSE step[i+1, Xor3(Mod(Shr(h, 24)), Shl(32, h, 8), Shr(l, 24)), Shl(32, l, 8)]
    IN  step[0, hi, lo]

\* One of q0 and q1 for each byte of t; which says TRUE for q1.
Q(which, t) ==
    PackLE([i \in 1 .. 4 |-> IF which[i] THEN q1(GetByte(t, i-1)) ELSE q0(GetByte(t, i-1))])

\* x is a byte; the longer keys fall through to the cases below them.
Stage(min, len, which, k, i, x) == IF len < min THEN x ELSE Xor(Q(which, x), k[i])
h0(x, k, len) ==
    Stage(0, len, <<FALSE, FALSE, TRUE, TRUE>>, k, 1,
    Stage(0, len, <<FALSE, TRUE, FALSE, TRUE>>, k, 3,
    Stage(3, len, <<TRUE, TRUE, FALSE, FALSE>>, k, 5,
    Stage(4, len, <<TRUE, FALSE, FALSE, TRUE>>, k, 7, PackLE(<<x, x, x, x>>)))))

mdsAll(x) == XorOf([n \in 0 .. 3 |-> mds(n, GetByte(x, n))])
h(x, k, len) == mdsAll(h0(x, k, len))

\* a and b of the loop over the subkeys, and the two subkeys they give.
Subkeys(a, b) == <<Plus(32, a, b), Rotl(32, Plus(32, a, Shl(32, b, 1)), 9)>>
SetKey(key) ==
    LET m == WordsLE(4, key)
        len == Len(key) \div 8
        ks[s \in Seq(Word(32))] ==
            LET i == Len(s)
            IN  IF i = 40 THEN s
                ELSE ks[s \o Subkeys(h(OfNum(8, i), m, len),
                                     Rotl(32, h(OfNum(8, i + 1), Tail(m) \o <<{}>>, len), 8))]
        svec[s \in Seq(Word(32))] ==
            LET i == Len(s) \div 2
            IN  IF i = len THEN s
                ELSE svec[<<ReedSolomon(m[2*i + 2], m[2*i + 1]), {}>> \o s]
    IN  [k |-> ks[<<>>], svec |-> svec[<<>>], len |-> len]

m_s(c, n, x) == mds(n, GetByte(h0(x, c.svec, c.len), n))
g0(c, x) == XorOf([n \in 0 .. 3 |-> m_s(c, n, GetByte(x, n))])
g1(c, x) == XorOf([n \in 0 .. 3 |-> m_s(c, n, GetByte(x, (n - 1) % 4))])

\* k is the index of the first of the two subkeys; v is <<a, b, c, d>> and the
\* result is v for the next call, with the roles of the halves exchanged.  x and
\* y are the locals of the same names, after and before their addition.
Forward(c, k, v, x, y) ==
    <<Rotr(32, Xor(v[3], Plus(32, x, c.k[k+1])), 1),
      Xor(Rotl(32, v[4], 1), Plus(32, y, Plus(32, x, c.k[k+2]))), v[1], v[2]>>
Backward(c, k, v, x, y) ==
    <<Xor(Rotl(32, v[3], 1), Plus(32, x, c.k[k+1])),
      Rotr(32, Xor(v[4], Plus(32, Plus(32, y, x), c.k[k+2])), 1), v[1], v[2]>>
ForwardSum(c, k, v, x, y) == Forward(c, k, v, Plus(32, x, y), y)
BackwardSum(c, k, v, x, y) == Backward(c, k, v, Plus(32, x, y), y)
f(c, k, v) == ForwardSum(c, k, v, g0(c, v[1]), g1(c, v[2]))
finv(c, k, v) == BackwardSum(c, k, v, g0(c, v[1]), g1(c, v[2]))

Exchanged(v) == <<v[3], v[4], v[1], v[2]>>
Encrypt(c, in) ==
    LET rounds[i \in 0 .. 16, v \in Seq(Word(32))] ==
            IF i = 16 THEN Exchanged(v) ELSE rounds[i+1, f(c, 8 + 2*i, v)]
    IN  BytesLE(4, XorSeq(rounds[0, XorSeq(WordsLE(4, in), SubSeq(c.k, 1, 4))], SubSeq(c.k, 5, 8)))

Decrypt(c, in) ==
    LET rounds[i \in 0 .. 16, v \in Seq(Word(32))] ==
            IF i = 16 THEN Exchanged(v) ELSE rounds[i+1, finv(c, 38 - 2*i, v)]
    IN  BytesLE(4, XorSeq(rounds[0, XorSeq(WordsLE(4, in), SubSeq(c.k, 5, 8))], SubSeq(c.k, 1, 4)))
==============================================================================
