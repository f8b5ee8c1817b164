-------------------------------- MODULE Safer --------------------------------
(***************************************************************************)
(* SAFER K and SAFER SK, src/impl/block/safer/safer.cc.  A context is      *)
(* [rounds, k]: rounds is zero until the first key sets it, and a key of   *)
(* another size does not change it afterwards.                             *)
(***************************************************************************)
EXTENDS Words

\* s is the table of the powers of 45 modulo 257 and sinv the one of their
\* logarithms, both reduced to a byte: 45^128 = 256 is the byte 0.
exptab == Grow(<<{0}>>, 255, LAMBDA t : OfNum(9, (45 * Num(t[Len(t)])) % 257))
logtab == Grow(<<>>, 256, LAMBDA t : OfNum(8, (CHOOSE i \in 1 .. 256 : exptab[i] \ {8} = OfNum(8, Len(t))) - 1))
s(x) == exptab[NumByte(x) + 1] \ {8}
sinv(x) == logtab[NumByte(x) + 1]
MAX_ROUNDS == 16

\* The constructors SAFER(r); SAFER() is r = 0.
New(r) == [rounds |-> r, k |-> <<>>]
Rounds(c, key) == IF c.rounds # 0 THEN c.rounds ELSE IF Len(key) = 8 THEN 6 ELSE 10

\* Byte j (from 0) of the bias of subkey i.
Bias(i, j) == s(s(OfNum(8, 9*(i+1) + j + 1)))
Rotated(r, n) == [j \in DOMAIN r |-> Rotl(8, r[j], n % 8)]

\* k[0] .. k[2 * rounds].  K(i, j) is the byte of the rotated key that subkey i
\* takes at position j: each half of a 16 byte key is rotated every other time.
Schedule(rounds, k0, K(_, _)) ==
    LET ks[n \in 1 .. 2*rounds + 1, t \in Seq(Seq(Byte))] ==
            IF n > 2*rounds THEN t
            ELSE ks[n+1, Append(t, SubSeq([j \in 1 .. 8 |-> Plus(8, K(n, j-1), Bias(n, j-1))], 1, 8))]
    IN  ks[1, <<k0>>]

Parity(r) == LET p[j \in 0 .. 8] == IF j = 0 THEN {} ELSE Xor(p[j-1], r[j]) IN Append(r, p[8])

\* A key of a wrong size is refused and the context keeps its schedule.
SetKey(c, key) ==
    LET rounds == Rounds(c, key)
        r1 == SubSeq(key, 1, 8)
        r2 == SubSeq(key, 9, 16)
        K8(i, j) == Rotated(r1, 3*i)[j+1]
        K16(i, j) == IF i % 2 = 1 THEN Rotated(r1, 3*i)[j+1] ELSE Rotated(r2, 3*i)[j+1]
    IN  CASE Len(key) \notin {8, 16} \/ rounds > MAX_ROUNDS -> c
          [] Len(key) = 8 -> [rounds |-> rounds, k |-> Schedule(rounds, r1, K8)]
          [] Len(key) = 16 -> [rounds |-> rounds, k |-> Schedule(rounds, r2, K16)]

SetKeySK(c, key) ==
    LET rounds == Rounds(c, key)
        r1 == Parity(SubSeq(key, 1, 8))
        r2 == Parity(SubSeq(key, 9, 16))
        K8(i, j) == Rotated(r1, 3*i)[((i + j) % 9) + 1]
        K16(i, j) == IF i % 2 = 1 THEN Rotated(r1, 3*i)[((i + j) % 9) + 1]
                                  ELSE Rotated(r2, 3*i)[((i + j) % 9) + 1]
    IN  CASE Len(key) \notin {8, 16} \/ rounds > MAX_ROUNDS -> c
          [] Len(key) = 8 -> [rounds |-> rounds, k |-> Schedule(rounds, SubSeq(key, 1, 8), K8)]
          [] Len(key) = 16 -> [rounds |-> rounds, k |-> Schedule(rounds, SubSeq(key, 9, 16), K16)]

------------------------------------------------------------------------------
\* Positions 1, 4, 5 and 8 are the ones of the xor layer of ForwardA.
Outer == {1, 4, 5, 8}

F(l, r) == <<Plus(8, Shl(8, l, 1), r), Plus(8, l, r)>>
FInverse(l, r) == <<Minus(8, l, r), Minus(8, Shl(8, r, 1), l)>>

ForwardA(x, sk) == [i \in 1 .. 8 |-> IF i \in Outer THEN Xor(x[i], sk[i]) ELSE Plus(8, x[i], sk[i])]
InverseA(x, sk) == [i \in 1 .. 8 |-> IF i \in Outer THEN Xor(x[i], sk[i]) ELSE Minus(8, x[i], sk[i])]
ForwardB(x, sk) == [i \in 1 .. 8 |-> IF i \in Outer THEN Plus(8, x[i], sk[i]) ELSE Xor(x[i], sk[i])]
InverseB(x, sk) == [i \in 1 .. 8 |-> IF i \in Outer THEN Minus(8, x[i], sk[i]) ELSE Xor(x[i], sk[i])]
SubstituteForward(x) == [i \in 1 .. 8 |-> IF i \in Outer THEN s(x[i]) ELSE sinv(x[i])]
SubstituteInverse(x) == [i \in 1 .. 8 |-> IF i \in Outer THEN sinv(x[i]) ELSE s(x[i])]

\* F of the pairs of positions p, one after the other.
Pairs(x, p) == F(x[p[1]], x[p[2]]) \o F(x[p[3]], x[p[4]]) \o F(x[p[5]], x[p[6]]) \o F(x[p[7]], x[p[8]])
DoF(x) == Pairs(x, <<1, 2, 3, 4, 5, 6, 7, 8>>)
DoFInverse(x) ==
    FInverse(x[1], x[2]) \o FInverse(x[3], x[4]) \o FInverse(x[5], x[6]) \o FInverse(x[7], x[8])
PermuteForward(x) == Pairs(x, <<1, 3, 5, 7, 2, 4, 6, 8>>)
Unshuffled(y) == <<y[1], y[5], y[2], y[6], y[3], y[7], y[4], y[8]>>
PermuteInverse(x) == Unshuffled(DoFInverse(x))

Encrypt(c, in) ==
    LET rest[i \in 0 .. MAX_ROUNDS, x \in Seq(Byte)] ==
            IF i = c.rounds THEN ForwardA(x, c.k[2*i + 1])
            ELSE rest[i+1, PermuteForward(PermuteForward(DoF(
                    ForwardB(SubstituteForward(ForwardA(x, c.k[2*i + 1])), c.k[2*i + 2]))))]
    IN  rest[0, in]

Decrypt(c, in) ==
    LET rest[i \in 0 .. MAX_ROUNDS, x \in Seq(Byte)] ==
            IF i = 0 THEN x
            ELSE rest[i-1, InverseA(SubstituteInverse(InverseB(
                    DoFInverse(PermuteInverse(PermuteInverse(x))), c.k[2*i])), c.k[2*i - 1])]
    IN  rest[c.rounds, InverseA(in, c.k[2*c.rounds + 1])]
==============================================================================
