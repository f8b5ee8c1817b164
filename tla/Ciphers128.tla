----------------------------- MODULE Ciphers128 ------------------------------
(***************************************************************************)
(* Two ciphers with a block of sixteen bytes: SEED and MARS.               *)
(***************************************************************************)
EXTENDS Words

CONSTANT Table(_, _, _)

(***************************************************************************)
(* SEED, src/impl/block/seed/seed.cc: sixteen Feistel rounds on 64-bit     *)
(* halves.  m_k holds one 64-bit subkey a round.                           *)
(***************************************************************************)

ss0(x) == Table(32, 400, x)
ss1(x) == Table(32, 401, x)
ss2(x) == Table(32, 402, x)
ss3(x) == Table(32, 403, x)

g(x) == Xor4(ss0(GetByte(x, 0)), ss1(GetByte(x, 1)), ss2(GetByte(x, 2)), ss3(GetByte(x, 3)))

GenerateSubkey(k, kci) ==
    Join(32, g(Minus(32, Plus(32, k[1], k[3]), kci)),
             g(Plus(32, Minus(32, k[2], k[4]), kci)))

\* What OddKey and EvenKey do to k after taking their subkey.
OddKey(k) == LET sk == Rotr(64, Join(32, k[1], k[2]), 8)
             IN  <<High(32, sk), Low(32, sk), k[3], k[4]>>
EvenKey(k) == LET sk == Rotl(64, Join(32, k[3], k[4]), 8)
              IN  <<k[1], k[2], High(32, sk), Low(32, sk)>>

\* The sixteen constants of SetKeyInternal: the first, rotated left each time.
kc(i) == Rotl(32, Hex32(\h9e37, \h79b9), i)

SeedSetKey(key) ==
    LET go[i \in 0 .. 16, k \in Seq(Word(32)), m_k \in Seq(Word(64))] ==
            IF i = 16 THEN m_k
            ELSE go[i+1, IF i % 2 = 0 THEN OddKey(k) ELSE EvenKey(k),
                    Append(m_k, GenerateSubkey(k, kc(i)))]
    IN  go[0, WordsBE(4, key), <<>>]

f(k, r) ==
    LET a0 == Xor(High(32, r), High(32, k))
        ga == g(Xor3(a0, Low(32, r), Low(32, k)))
        gg == g(Plus(32, ga, a0))
        r1p == g(Plus(32, gg, ga))
    IN  Join(32, Plus(32, r1p, gg), r1p)

Halves(in) == <<PackBE(SubSeq(in, 1, 8)), PackBE(SubSeq(in, 9, 16))>>

\* The last round does not exchange the halves.
SeedRound(k, i, p) == <<p[2], Xor(p[1], f(k[i], p[2]))>>
SeedUnround(k, i, p) == <<Xor(p[2], f(k[i], p[1])), p[1]>>
SeedLast(k, p) == <<Xor(p[1], f(k[16], p[2])), p[2]>>

SeedEncrypt(k, in) ==
    BytesBE(8, SeedLast(k, Iterated(15, Halves(in),
                   [t \in WordPairs(64) \X (1 .. 15) |-> SeedRound(k, t[2], t[1])])))
SeedDecrypt(k, in) ==
    BytesBE(8, Iterated(15, SeedLast(k, Halves(in)),
                   [t \in WordPairs(64) \X (1 .. 15) |-> SeedUnround(k, 16 - t[2], t[1])]))

(***************************************************************************)
(* MARS, src/impl/block/mars/mars.cc.                                      *)
(***************************************************************************)

sbox(x) == Table(32, 900, x)              \* nine bits in
sbox0(b) == sbox(b)
sbox1(b) == sbox(b \union {8})            \* sbox[256 + b]

B == <<Hex32(\ha4a8, \hd57b), Hex32(\h5b5d, \h193b), Hex32(\hc8a8, \h309b),
       Hex32(\h73f9, \ha978)>>

\* One pass over t, in place: linear transformation, then stirring.
Linear(t, j) ==
    LET at[i \in 0 .. 15, u \in Seq(Word(32))] ==
            IF i = 15 THEN u
            ELSE at[i+1, [u EXCEPT ![i+1] =
                    Xor3(@, Rotl(32, Xor(u[((i+8) % 15) + 1], u[((i+13) % 15) + 1]), 3),
                         OfNum(6, 4*i + j))]]
    IN  at[0, t]
Stir(t) ==
    LET at[i \in 0 .. 60, u \in Seq(Word(32))] ==
            IF i = 60 THEN u
            ELSE at[i+1, [u EXCEPT ![(i % 15) + 1] =
                    Rotl(32, Plus(32, @, sbox(u[((i+14) % 15) + 1] \cap (0 .. 8))), 9)]]
    IN  at[0, t]

\* The multiplication keys get no run of ten equal bits: m marks the inside of
\* the runs, shrunk and grown again.
Inside(w) == Not(32, Xor(w, Shl(32, w, 1))) \cap Not(32, Xor(w, Shr(w, 1))) \cap (1 .. 30)
Shrink(m, n) == m \cap Shr(m, n)
Extend(m, n) == m \union Shl(32, m, n)
Runs(w) ==
    Extend(Extend(Extend(Shrink(Shrink(Shrink(Inside(w), 1), 2), 4), 1), 2), 4) \cap (2 .. 30)
FixRuns(m_k, i) ==
    LET w == m_k[i] \union {0, 1}
        p == Rotl(32, B[NumByte(m_k[i] \cap {0, 1}) + 1], NumByte(m_k[i-1] \cap (0 .. 4)))
    IN  Xor(w, p \cap Runs(w))

MarsSetKey(key) ==
    LET n == Len(key) \div 4
        kw == WordsLE(4, key)
        t0 == [i \in 1 .. 15 |-> IF i <= n THEN kw[i]
                                 ELSE IF i = n+1 THEN OfNum(4, n) ELSE {}]
        Take(t) == [i \in 1 .. 10 |-> t[((4*(i-1)) % 15) + 1]]
        ks[j \in 0 .. 4, t \in Seq(Word(32)), s \in Seq(Word(32))] ==
            LET taken == IF j = 0 THEN s ELSE s \o Take(t)
            IN  IF j = 4 THEN taken ELSE ks[j+1, Stir(Linear(t, j)), taken]
        fix[i \in 6 .. 38, s \in Seq(Word(32))] ==
            IF i > 36 THEN s ELSE fix[i+2, [s EXCEPT ![i] = FixRuns(s, i)]]
    IN  fix[6, ks[0, SubSeq(t0, 1, 15), <<>>]]

\* <<l, m, r>>, from m and the r of the two rotations.
Outs(m, r1, r2) == <<Rotl(32, Xor3(sbox(m \cap (0 .. 8)), r1, r2), NumByte(r2 \cap (0 .. 4))),
                     Rotl(32, m, NumByte(r1 \cap (0 .. 4))), r2>>
e1(m, r1) == Outs(m, r1, Rotl(32, r1, 5))
e(in, k1, k2) == e1(Plus(32, in, k1), Rotl(32, Times(32, Rotl(32, in, 13), k2), 5))

\* The steps act on v = <<a, b, c, d>>; Next4 names the words for the next one.
Next4(v) == <<v[2], v[3], v[4], v[1]>>
Last4(v) == <<v[4], v[1], v[2], v[3]>>

ForwardMixing(v) ==
    LET a == v[1]
    IN  <<Rotr(32, a, 24),
          Plus(32, Xor(v[2], sbox0(GetByte(a, 0))), sbox1(GetByte(a, 1))),
          Plus(32, v[3], sbox0(GetByte(a, 2))),
          Xor(v[4], sbox1(GetByte(a, 3)))>>
ReverseMixing(v) ==
    LET a == v[1]
    IN  <<Rotl(32, a, 24),
          Xor(v[2], sbox1(GetByte(a, 0))),
          Minus(32, v[3], sbox0(GetByte(a, 3))),
          Xor(Minus(32, v[4], sbox1(GetByte(a, 2))), sbox0(GetByte(a, 1)))>>

EncryptWith(first, v, o) ==
    LET c == Plus(32, v[3], o[2])
    IN  IF first THEN <<Rotl(32, v[1], 13), Plus(32, v[2], o[1]), c, Xor(v[4], o[3])>>
                 ELSE <<Rotl(32, v[1], 13), Xor(v[2], o[3]), c, Plus(32, v[4], o[1])>>
EncryptCore(i, v, k1, k2) == EncryptWith(i < 8, v, e(v[1], k1, k2))

\* The first word takes another one in two of four turns of the mixing loops.
PlusWord(u, i, p, q) ==
    [u EXCEPT ![1] = Plus(32, @, CASE i % 4 = p -> u[4] [] i % 4 = q -> u[2] [] OTHER -> {})]
MinusWord(u, i, p, q) ==
    [u EXCEPT ![1] = Minus(32, @, CASE i % 4 = p -> u[4] [] i % 4 = q -> u[2] [] OTHER -> {})]
PlusKey(m_k, n, v) == SubSeq([i \in 1 .. 4 |-> Plus(32, v[i], m_k[n + i])], 1, 4)
MinusKey(m_k, n, v) == SubSeq([i \in 1 .. 4 |-> Minus(32, v[i], m_k[n + i])], 1, 4)

MarsEncrypt(m_k, in) ==
    LET fwd[i \in 0 .. 8, v \in Seq(Word(32))] ==
            IF i = 8 THEN v ELSE fwd[i+1, Next4(PlusWord(ForwardMixing(v), i, 0, 1))]
        core[i \in 0 .. 16, v \in Seq(Word(32))] ==
            IF i = 16 THEN v
            ELSE core[i+1, Next4(EncryptCore(i, v, m_k[2*i + 5], m_k[2*i + 6]))]
        rev[i \in 0 .. 8, v \in Seq(Word(32))] ==
            IF i = 8 THEN v ELSE rev[i+1, MinusWord(Next4(ReverseMixing(v)), i, 1, 2)]
    IN  BytesLE(4, MinusKey(m_k, 36, rev[0, core[0, fwd[0, PlusKey(m_k, 0, WordsLE(4, in))]]]))

\* The loops of Decrypt, each after the renaming at its head.
UnreverseMixing(i, w) ==
    LET a == Rotr(32, w[1], 24)
    IN  PlusWord(<<a, Xor(w[2], sbox1(GetByte(a, 0))), Plus(32, w[3], sbox0(GetByte(a, 3))),
                   Plus(32, Xor(w[4], sbox0(GetByte(a, 1))), sbox1(GetByte(a, 2)))>>, i, 2, 3)
DecryptWith(first, a, w, o) ==
    LET c == Minus(32, w[3], o[2])
    IN  IF first THEN <<a, Minus(32, w[2], o[1]), c, Xor(w[4], o[3])>>
                 ELSE <<a, Xor(w[2], o[3]), c, Minus(32, w[4], o[1])>>
DecryptCore(i, w, k1, k2) ==
    LET a == Rotr(32, w[1], 13) IN DecryptWith(i < 8, a, w, e(a, k1, k2))
Unforwarded(a, w) ==
    <<a, Xor(Minus(32, w[2], sbox1(GetByte(a, 1))), sbox0(GetByte(a, 0))),
      Minus(32, w[3], sbox0(GetByte(a, 2))), Xor(w[4], sbox1(GetByte(a, 3)))>>
UnforwardMixing(i, w) == Unforwarded(Rotl(32, MinusWord(w, i, 0, 1)[1], 24), w)

MarsDecrypt(m_k, in) ==
    LET rev[i \in 0 .. 8, v \in Seq(Word(32))] ==
            IF i = 0 THEN v ELSE rev[i-1, UnreverseMixing(i-1, Last4(v))]
        core[i \in 0 .. 16, v \in Seq(Word(32))] ==
            IF i = 0 THEN v
            ELSE core[i-1, DecryptCore(i-1, Last4(v), m_k[2*i + 3], m_k[2*i + 4])]
        fwd[i \in 0 .. 8, v \in Seq(Word(32))] ==
            IF i = 0 THEN v ELSE fwd[i-1, UnforwardMixing(i-1, Last4(v))]
    IN  BytesLE(4, MinusKey(m_k, 0, fwd[8, core[16, rev[8, PlusKey(m_k, 36, WordsLE(4, in))]]]))
==============================================================================
