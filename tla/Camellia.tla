------------------------------ MODULE Camellia ------------------------------
(***************************************************************************)
(* Camellia, src/impl/block/camellia/camellia.cc.  A context holds kw, ku, *)
(* kl and which pair of routines (fenc, fdec) the last key selected.       *)
(* A 128-bit key writes only part of ku and kl: the rest is what a longer  *)
(* key before it left there.  A key of any other size is refused.          *)
(***************************************************************************)
EXTENDS Words

CONSTANT Table(_, _, _)

\* The eight rows of s.
s0(x) == Table(64, 600, x)
s1(x) == Table(64, 601, x)
s2(x) == Table(64, 602, x)
s3(x) == Table(64, 603, x)
s4(x) == Table(64, 604, x)
s5(x) == Table(64, 605, x)
s6(x) == Table(64, 606, x)
s7(x) == Table(64, 607, x)

Pair(k) == <<High(64, k), Low(64, k)>>

\* rolpair on the 128-bit value of two words; the code passes the words in the
\* other order and n - 64 when n is 64 or more.
rolpair(x, n) == Pair(Rotl(128, Join(64, x[1], x[2]), n))

spfunc(x) ==
    Xor(Xor4(s0(GetByte(x, 7)), s1(GetByte(x, 6)), s2(GetByte(x, 5)), s3(GetByte(x, 4))),
        Xor4(s4(GetByte(x, 3)), s5(GetByte(x, 2)), s6(GetByte(x, 1)), s7(GetByte(x, 0))))
f(x, k) == spfunc(Xor(x, k))
\* The two assignments of a Feistel step: to the second word, then to the first.
Step2(d, k) == <<d[1], Xor(d[2], f(d[1], k))>>
Step1(d, k) == <<Xor(d[1], f(d[2], k)), d[2]>>

fl(x, k) ==
    LET yr == Xor(Rotl(32, High(32, x) \cap High(32, k), 1), Low(32, x))
    IN  Join(32, Xor(yr \union Low(32, k), High(32, x)), yr)
flinv(y, k) ==
    LET xl == Xor(Low(32, y) \union Low(32, k), High(32, y))
    IN  Join(32, xl, Xor(Rotl(32, xl \cap High(32, k), 1), Low(32, y)))

\* Two Feistel steps with constant keys.
Stir(d, c1, c2) == Step1(Step2(d, c1), c2)
KA(d, ko) ==
    Stir(XorSeq(Stir(d, Hex64(\ha09e, \h667f, \h3bcc, \h908b), Hex64(\hb67a, \he858, \h4caa, \h73b2)), ko),
         Hex64(\hc6ef, \h372f, \he94f, \h82be), Hex64(\h54ff, \h53a5, \hf1d3, \h6f1c))

Long(kl, kr, ka, kb) ==
    [kw |-> kl \o rolpair(kb, 111),
     ku |-> kb \o rolpair(kr, 15) \o rolpair(ka, 15) \o rolpair(kb, 30)
               \o rolpair(kl, 45) \o rolpair(ka, 45) \o rolpair(kr, 60)
               \o rolpair(kb, 60) \o rolpair(kl, 77) \o rolpair(kr, 94)
               \o rolpair(ka, 94) \o rolpair(kl, 111),
     kl |-> rolpair(kr, 30) \o rolpair(kl, 60) \o rolpair(ka, 77),
     long |-> TRUE]
WithKA(kl, kr, ka) ==
    Long(kl, kr, ka, Stir(XorSeq(ka, kr), Hex64(\h10e5, \h27fa, \hde68, \h2d1d),
                                          Hex64(\hb056, \h88c2, \hb3e6, \hc1fd)))
SetKey256(ko) ==
    LET kl == <<ko[1], ko[2]>>
        kr == <<ko[3], ko[4]>>
    IN  WithKA(kl, kr, KA(XorSeq(kl, kr), kl))
SetKey192(ko) == SetKey256(Append(ko, Not(64, ko[3])))

\* Mutant: the short key does not select the short routines again.
SetKey128StaysLong(c, ko) ==
    LET ka == KA(ko, ko)
    IN  [kw |-> ko \o rolpair(ka, 111),
         ku |-> ka \o SubSeq(c.ku, 3, 24), kl |-> c.kl, long |-> c.long]

Short(c, ko, ka) ==
    [kw |-> ko \o rolpair(ka, 111),
     ku |-> ka \o rolpair(ko, 15) \o rolpair(ka, 15) \o rolpair(ko, 45)
               \o <<rolpair(ka, 45)[1], rolpair(ko, 60)[2]>> \o rolpair(ka, 60)
               \o rolpair(ko, 94) \o rolpair(ka, 94) \o rolpair(ko, 111)
               \o SubSeq(c.ku, 19, 24),
     kl |-> rolpair(ka, 30) \o rolpair(ko, 77) \o SubSeq(c.kl, 5, 6),
     long |-> FALSE]
SetKey128(c, ko) == Short(c, ko, KA(ko, ko))

\* The context a constructor leaves (its words are not initialised in the code
\* and not read before a key is set).
Fresh == [kw |-> <<{}, {}, {}, {}>>, ku |-> [i \in 1 .. 24 |-> {}],
          kl |-> [i \in 1 .. 6 |-> {}], long |-> FALSE]

\* c is the context before: what SetKeyInternal leaves when it refuses the key.  A
\* refused key was copied to ko, of 32 bytes, all the same; ClientAssumption of
\* Block has none that is longer, which would leave ko.
SetKey(c, key) ==
    CASE Len(key) = 16 -> SetKey128(c, WordsBE(8, key))
      [] Len(key) = 24 -> SetKey192(WordsBE(8, key))
      [] Len(key) = 32 -> SetKey256(WordsBE(8, key))
      [] OTHER -> c

EncryptPair(c, d, n) == Step1(Step2(d, c.ku[n+1]), c.ku[n+2])
DecryptPair(c, d, n) == Step1(Step2(d, c.ku[n+2]), c.ku[n+1])

\* Encrypt128 and Encrypt256: fl and flinv after every third pair but the last.
Layer(on, e, k1, k2) == IF on THEN <<fl(e[1], k1), flinv(e[2], k2)>> ELSE e
Whiten(l, k1, k2) == BytesBE(8, <<Xor(l[2], k1), Xor(l[1], k2)>>)
EncryptWith(c, pairs, in) ==
    LET d[i \in 0 .. pairs] ==
            LET n == 2 * (i \div 3)
            IN  IF i = 0 THEN XorSeq(WordsBE(8, in), <<c.kw[1], c.kw[2]>>)
                ELSE Layer(i % 3 = 0 /\ i < pairs, EncryptPair(c, d[i-1], 2*i - 2),
                           c.kl[n-1], c.kl[n])
    IN  Whiten(d[pairs], c.kw[3], c.kw[4])
DecryptWith(c, pairs, in) ==
    LET d[i \in 0 .. pairs] ==
            LET n == 2 * ((pairs - i) \div 3)
            IN  IF i = 0 THEN XorSeq(WordsBE(8, in), <<c.kw[3], c.kw[4]>>)
                ELSE Layer(i % 3 = 0 /\ i < pairs, DecryptPair(c, d[i-1], 2 * (pairs - i)),
                           c.kl[n], c.kl[n-1])
    IN  Whiten(d[pairs], c.kw[1], c.kw[2])

Encrypt(c, in) == EncryptWith(c, IF c.long THEN 12 ELSE 9, in)
Decrypt(c, in) == DecryptWith(c, IF c.long THEN 12 ELSE 9, in)
==============================================================================
