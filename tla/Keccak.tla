-------------------------------- MODULE Keccak --------------------------------
(***************************************************************************)
(* Keccak and SHA-3, src/impl/hash/keccak.  There are three               *)
(* implementations of the permutation, one of which a build selects:       *)
(* keccak_f<0>, step by step; keccak_f<1>, which keeps six lanes           *)
(* complemented to save negations (KeccakWithLimitedNots); and             *)
(* keccak_f<2>, which carries the column parities from one round to the    *)
(* next (KeccakCompact).  A state is 25 lanes of 64 bits, lane x+5*y of    *)
(* the code at x+5*y+1.  A context is [hash, buf, len, t, pad]: the        *)
(* capacity m_c is 2*t and the rate m_r is 200 - 2*t.                      *)
(***************************************************************************)
EXTENDS Words
LOCAL INSTANCE SequencesExt

Lanes == [i \in 1 .. 25 |-> Zero]
x_(i) == (i - 1) % 5
y_(i) == (i - 1) \div 5

Parity(a) == SubSeq([x \in 1 .. 5 |-> Xor(a[x], Xor4(a[x+5], a[x+10], a[x+15], a[x+20]))], 1, 5)
\* d of column x from the parities c.
Effect(c) == SubSeq([x \in 1 .. 5 |-> Xor(c[((x + 3) % 5) + 1], Rotl(64, c[(x % 5) + 1], 1))], 1, 5)

Crossed(a, d) == [i \in 1 .. 25 |-> Xor(a[i], d[x_(i) + 1])]
theta(a) == Crossed(a, Effect(Parity(a)))

\* rotation[y+1][x+1] is the amount for lane x+5*y.
rotation == <<<<0, 1, 62, 28, 27>>, <<36, 44, 6, 55, 20>>, <<3, 10, 43, 25, 39>>,
              <<41, 45, 15, 21, 8>>, <<18, 2, 61, 56, 14>>>>
\* b[y + 5*((2*x + 3*y) % 5)] = RotateLeft(a[x + 5*y], rotation), read backwards:
\* lane y+5*z of b comes from the x with 2*x + 3*y = z modulo 5.
Source(y, z) == CHOOSE x \in 0 .. 4 : (2*x + 3*y) % 5 = z
Turned(a, x, y) == Rotl(64, a[x + 5*y + 1], rotation[y + 1][x + 1])
rhopi(a) == SubSeq([i \in 1 .. 25 |-> Turned(a, Source(x_(i), y_(i)), x_(i))], 1, 25)

\* Lane n places to the right of lane i in its plane.
At(b, i, n) == b[5 * y_(i) + ((x_(i) + n) % 5) + 1]
chi0(b) == [i \in 1 .. 25 |-> Xor(b[i], At(b, i, 2) \ At(b, i, 1))]

\* The connectives of chi<1>, lane by lane: form[x+1][y+1].  A "~" in front
\* negates the first lane, an "n" the operand on its side.
form == <<<<"|", "|", "|", "&", "n&">>, <<"n|", "&", "&", "|", "~|">>,
          <<"&", "|n", "n&", "n|", "&">>, <<"|", "|", "~|", "~&", "|">>,
          <<"&", "&", "&", "|", "&">>>>
Lane(f, a, p, q) ==
    Xor(IF f \in {"~|", "~&"} THEN Not(64, a) ELSE a,
        CASE f \in {"|", "~|"} -> p \union q
          [] f \in {"&", "~&"} -> p \cap q
          [] f = "n&" -> q \ p
          [] f = "n|" -> Not(64, p) \union q
          [] f = "|n" -> p \union Not(64, q))
chi1(b) == [i \in 1 .. 25 |-> Lane(form[x_(i) + 1][y_(i) + 1], b[i], At(b, i, 1), At(b, i, 2))]

iota(a, k) == [a EXCEPT ![1] = Xor(@, k)]

rc == LET w(a, b, c) == Hex64(a, 0, b, c)
      IN  <<w(0, 0, \h0001), w(0, 0, \h8082), w(\h8000, 0, \h808a), w(\h8000, \h8000, \h8000),
            w(0, 0, \h808b), w(0, \h8000, \h0001), w(\h8000, \h8000, \h8081), w(\h8000, 0, \h8009),
            w(0, 0, \h008a), w(0, 0, \h0088), w(0, \h8000, \h8009), w(0, \h8000, \h000a),
            w(0, \h8000, \h808b), w(\h8000, 0, \h008b), w(\h8000, 0, \h8089), w(\h8000, 0, \h8003),
            w(\h8000, 0, \h8002), w(\h8000, 0, \h0080), w(0, 0, \h800a), w(\h8000, \h8000, \h000a),
            w(\h8000, \h8000, \h8081), w(\h8000, 0, \h8080), w(0, \h8000, \h0001),
            w(\h8000, \h8000, \h8008)>>

chi(T, b) == IF T = 1 THEN chi1(b) ELSE chi0(b)
round(T, a, k) == iota(SubSeq(chi(T, rhopi(theta(a))), 1, 25), k)

\* The five pieces of round2 and round3: the lanes they take, and by how much
\* they turn them.
pieces == <<<<0, 6, 12, 18, 24>>, <<3, 9, 10, 16, 22>>, <<1, 7, 13, 19, 20>>,
            <<4, 5, 11, 17, 23>>, <<2, 8, 14, 15, 21>>>>
amounts == <<<<0, 44, 43, 21, 14>>, <<28, 20, 3, 45, 61>>, <<1, 6, 25, 8, 18>>,
             <<27, 36, 10, 15, 56>>, <<62, 55, 39, 41, 2>>>>
\* The new lanes, with c the parities of the old ones.
Taken5(a, d, lanes, by) ==
    SubSeq([j \in 1 .. 5 |-> Rotl(64, Xor(a[lanes[j] + 1], d[(lanes[j] % 5) + 1]), by[j])], 1, 5)
Plane(v) == [j \in 1 .. 5 |-> Xor(v[j], v[((j + 1) % 5) + 1] \ v[(j % 5) + 1])]
Piece(a, d, p) == Plane(Taken5(a, d, pieces[p], amounts[p]))
Planes(a, d) == Piece(a, d, 1) \o Piece(a, d, 2) \o Piece(a, d, 3) \o Piece(a, d, 4) \o Piece(a, d, 5)
round3(a, c, k) == iota(Planes(a, Effect(c)), k)
\* round1 computes the parities, round2 passes on those of its result.
WithParity(a) == <<a, Parity(a)>>
keccak_f2(a0) ==
    LET go[i \in 1 .. 25, x \in Seq(Seq(Word(64)))] ==
            IF i > 24 THEN x[1] ELSE go[i+1, WithParity(round3(x[1], x[2], rc[i]))]
    IN  go[1, WithParity(a0)]
keccak_f(T, a0) ==
    LET go[i \in 1 .. 25, a \in Seq(Word(64))] == IF i > 24 THEN a ELSE go[i+1, round(T, a, rc[i])]
    IN  IF T = 2 THEN keccak_f2(a0) ELSE go[1, a0]

------------------------------------------------------------------------------
Rate(k) == 200 - 2 * k.t

XorLanes(hash, b) ==
    SubSeq([i \in 1 .. 25 |-> IF i <= Len(b) THEN Xor(hash[i], b[i]) ELSE hash[i]], 1, 25)
Transform(T, hash, block) == keccak_f(T, XorLanes(hash, WordsLE(8, block)))

\* The lanes that KeccakWithLimitedNots keeps complemented.
Complemented == {2, 3, 9, 13, 18, 21}
Flip(a) == [i \in 1 .. 25 |-> IF i \in Complemented THEN Not(64, a[i]) ELSE a[i]]

Reset(T, k) == [k EXCEPT !.hash = IF T = 1 THEN Flip(Lanes) ELSE Lanes, !.len = 0,
                         !.buf = [i \in 1 .. 144 |-> Zero]]
New(T, t, pad) == Reset(T, [hash |-> Lanes, buf |-> <<>>, len |-> 0, t |-> t, pad |-> pad])

\* The blocks go through Transform, what is left is in the front of the buffer.
Absorb(T, k, f) ==
    [k EXCEPT !.hash = FoldLeft(LAMBDA h, b : Transform(T, h, b), @, f.blocks), !.buf = f.buf]
Update(T, k, data) ==
    Absorb(T, [k EXCEPT !.len = @ + Len(data)], Fill(Rate(k), 0, k.buf, k.len % Rate(k), data))

Padded(k, r, noff) ==
    [[Splice(k.buf, noff, Zeros(r - noff)) EXCEPT ![noff + 1] = k.pad] EXCEPT ![r] = @ \union {7}]
Pad(T, k) ==
    LET buf == Padded(k, Rate(k), k.len % Rate(k))
    IN  Absorb(T, k, [blocks |-> <<SubSeq(buf, 1, Rate(k))>>, buf |-> buf])

\* Mutant: the lanes stay complemented.
GetDigestStateFlipped(T, k) == k

\* What GetDigest does to the state, and then the digest: it is cut out of one and
\* the same state however many times the rate it is long.
GetDigestState(T, k) == IF T = 1 THEN [k EXCEPT !.hash = Flip(@)] ELSE k

GetDigest(k, len) ==
    LET r == Rate(k)
        b == BytesLE(8, SubSeq(k.hash, 1, r \div 8))
    IN  [i \in 1 .. len |-> b[((i - 1) % r) + 1]]
==============================================================================
