---------------------------------- MODULE Md ----------------------------------
(***************************************************************************)
(* The compression functions of MD2, MD4 and MD5 (src/impl/hash/md2, md4   *)
(* and md5), and of RIPEMD (src/impl/hash/ripe160/ripe160.cc).  The state  *)
(* of MD2 is 64 bytes, the last 16 its checksum; that of the others is     *)
(* words.                                                                  *)
(***************************************************************************)
EXTENDS Words

CONSTANT Table(_, _, _)

sbox(x) == Table(8, 1100, x)

MD2Reset == [i \in 1 .. 64 |-> Zero]

\* The first loop of MD2: the checksum, with l the byte before.
MD2Checksum(csum, block) ==
    LET go[i \in 1 .. 17, l \in Byte, c \in Seq(Byte)] ==
            IF i > 16 THEN c
            ELSE LET n == Xor(csum[i], sbox(Xor(block[i], l)))
                 IN  go[i+1, n, Append(c, n)]
    IN  go[1, csum[16], <<>>]

\* The second loop: eighteen passes over the 48 bytes in front of the checksum.
MD2Passes(x) ==
    LET pass[j \in 1 .. 49, t \in Byte, s \in Seq(Byte)] ==
            IF j > 48 THEN s
            ELSE LET n == Xor(s[j], sbox(t)) IN pass[j+1, n, [s EXCEPT ![j] = n]]
        go[i \in 0 .. 18, t \in Byte, s \in Seq(Byte)] ==
            IF i = 18 THEN s
            ELSE LET n == pass[1, t, s] IN go[i+1, Plus(8, n[48], OfNum(8, i)), n]
    IN  go[0, Zero, x]

MD2Transform(state, block) ==
    LET s == SubSeq(state, 1, 16)
    IN  MD2Passes(s \o block \o XorSeq(s, block))
        \o MD2Checksum(SubSeq(state, 49, 64), block)

------------------------------------------------------------------------------
\* Of MD4 and MD5: G and H differ in name only where the code has both.
F(x, y, z) == Xor(z, x \cap Xor(y, z))
G4(x, y, z) == (x \cap y) \union (z \cap (x \union y))
G5(x, y, z) == F(z, x, y)
H(x, y, z) == Xor3(x, y, z)
I(x, y, z) == Xor(y, x \union Not(32, z))

MD4Reset == <<Hex32(\h6745, \h2301), Hex32(\hefcd, \hab89), Hex32(\h98ba, \hdcfe),
              Hex32(\h1032, \h5476)>>

\* The words of the block in the order of the steps, and the rotations, which
\* are the same in each group of four steps.
Word4(i) == LET j == i % 16
            IN  CASE i < 16 -> j
                  [] i \in 16 .. 31 -> 4 * (j % 4) + j \div 4
                  [] i >= 32 -> 8 * (j % 2) + 4 * ((j \div 2) % 2)
                                + 2 * ((j \div 4) % 2) + j \div 8
Shift4 == <<<<3, 7, 11, 19>>, <<3, 5, 9, 13>>, <<3, 9, 11, 15>>>>
Word5(i) == CASE i < 16 -> i
              [] i \in 16 .. 31 -> (5*i + 1) % 16
              [] i \in 32 .. 47 -> (3*i + 5) % 16
              [] i >= 48 -> (7*i) % 16
Shift5 == <<<<7, 12, 17, 22>>, <<5, 9, 14, 20>>, <<4, 11, 16, 23>>, <<6, 10, 15, 21>>>>
Constant5(i) == Table(32, 1101, OfNum(6, i))

\* FF, GG, HH and II on v = <<a, b, c, d>>, followed by the renaming.
OP4(v, i, blk) ==
    LET f == CASE i < 16 -> F(v[2], v[3], v[4])
               [] i \in 16 .. 31 -> Plus(32, G4(v[2], v[3], v[4]), Hex32(\h5a82, \h7999))
               [] i >= 32 -> Plus(32, H(v[2], v[3], v[4]), Hex32(\h6ed9, \heba1))
        x == Rotl(32, Plus(32, Plus(32, v[1], f), blk[Word4(i) + 1]),
                  Shift4[(i \div 16) + 1][(i % 4) + 1])
    IN  <<v[4], x, v[2], v[3]>>
op(v, i, blk) ==
    LET f == CASE i < 16 -> F(v[2], v[3], v[4])
               [] i \in 16 .. 31 -> G5(v[2], v[3], v[4])
               [] i \in 32 .. 47 -> H(v[2], v[3], v[4])
               [] i >= 48 -> I(v[2], v[3], v[4])
        x == Rotl(32, Plus(32, Plus(32, v[1], f), Plus(32, blk[Word5(i) + 1], Constant5(i))),
                  Shift5[(i \div 16) + 1][(i % 4) + 1])
    IN  <<v[4], Plus(32, v[2], x), v[2], v[3]>>

Sum(s, t) == [i \in DOMAIN s |-> Plus(32, s[i], t[i])]
MD4Transform(state, block) ==
    LET blk == WordsLE(4, block)
        go[i \in 0 .. 48, v \in Seq(Word(32))] == IF i = 48 THEN v ELSE go[i+1, OP4(v, i, blk)]
    IN  Sum(state, go[0, state])
MD5Transform(state, block) ==
    LET blk == WordsLE(4, block)
        go[i \in 0 .. 64, v \in Seq(Word(32))] == IF i = 64 THEN v ELSE go[i+1, op(v, i, blk)]
    IN  Sum(state, go[0, state])

----------------------------------------------------------------------------
\* The RIPEMD compression functions.  Two lines of steps run side by side: the
\* left one takes the words of the block in the order r and the right one in the
\* order rp.  A line is four words in RIPEMD-128 and RIPEMD-256 and five in
\* RIPEMD-160 and RIPEMD-320; the double-width functions exchange a word of the
\* lines after each round.

ff(x, y, z) == Xor3(x, y, z)
gg(x, y, z) == (x \cap y) \union (z \ x)
hh(x, y, z) == Xor(x \union Not(32, y), z)
ii(x, y, z) == (x \cap z) \union (y \ z)
jj(x, y, z) == Xor(x, y \union Not(32, z))

r == <<0, 1, 2, 3, 4, 5, 6, 7, 8, 9, 10, 11, 12, 13, 14, 15,
       7, 4, 13, 1, 10, 6, 15, 3, 12, 0, 9, 5, 2, 14, 11, 8,
       3, 10, 14, 4, 9, 15, 8, 1, 2, 7, 0, 6, 13, 11, 5, 12,
       1, 9, 11, 10, 0, 8, 12, 4, 13, 3, 7, 15, 14, 5, 6, 2,
       4, 0, 5, 9, 7, 12, 2, 10, 14, 1, 3, 8, 11, 6, 15, 13>>
rp == <<5, 14, 7, 0, 9, 2, 11, 4, 13, 6, 15, 8, 1, 10, 3, 12,
        6, 11, 3, 7, 0, 13, 5, 10, 14, 15, 8, 12, 4, 9, 1, 2,
        15, 5, 1, 3, 7, 14, 6, 9, 11, 8, 12, 2, 10, 0, 4, 13,
        8, 6, 4, 1, 3, 11, 15, 0, 5, 12, 2, 13, 9, 7, 10, 14,
        12, 15, 10, 4, 1, 5, 8, 7, 6, 2, 13, 14, 0, 3, 9, 11>>
s == <<11, 14, 15, 12, 5, 8, 7, 9, 11, 13, 14, 15, 6, 7, 9, 8,
       7, 6, 8, 13, 11, 9, 7, 15, 7, 12, 15, 9, 11, 7, 13, 12,
       11, 13, 6, 7, 14, 9, 13, 15, 14, 8, 13, 6, 5, 12, 7, 5,
       11, 12, 14, 15, 14, 15, 9, 8, 9, 14, 5, 6, 8, 6, 5, 12,
       9, 15, 5, 11, 6, 8, 13, 12, 5, 12, 13, 14, 11, 8, 5, 6>>
sp == <<8, 9, 9, 11, 13, 15, 15, 5, 7, 7, 8, 11, 14, 14, 12, 6,
        9, 13, 15, 7, 12, 8, 9, 11, 7, 7, 12, 7, 6, 15, 13, 11,
        9, 7, 15, 11, 8, 6, 6, 14, 12, 13, 5, 14, 13, 13, 7, 5,
        15, 5, 8, 11, 14, 14, 6, 14, 6, 9, 12, 9, 12, 5, 15, 8,
        8, 5, 12, 9, 12, 5, 14, 6, 8, 13, 6, 5, 15, 13, 11, 11>>

\* The constants of the rounds of the left and the right line.
Left == <<{}, Hex32(\h5a82, \h7999), Hex32(\h6ed9, \heba1), Hex32(\h8f1b, \hbcdc),
          Hex32(\ha953, \hfd4e)>>
Right == <<Hex32(\h50a2, \h8be6), Hex32(\h5c4d, \hd124), Hex32(\h6d70, \h3ef3),
           Hex32(\h7a6d, \h76e9), {}>>

\* Function number n, from ff to jj.
fgh(n, x, y, z) == CASE n = 1 -> ff(x, y, z) [] n = 2 -> gg(x, y, z) [] n = 3 -> hh(x, y, z)
                     [] n = 4 -> ii(x, y, z) [] n = 5 -> jj(x, y, z)

\* OP and SOP: f is the number of the function and v the line, of five words
\* or of four.
OP(f, v, blk, rot, k) ==
    <<v[5], Plus(32, v[5], Rotl(32, Plus(32, Plus(32, v[1], fgh(f, v[2], v[3], v[4])),
                                             Plus(32, blk, k)), rot)),
      v[2], Rotl(32, v[3], 10), v[4]>>
SOP(f, v, blk, rot, k) ==
    <<v[4], Rotl(32, Plus(32, Plus(32, v[1], fgh(f, v[2], v[3], v[4])), Plus(32, blk, k)), rot),
      v[2], v[3]>>

\* n rounds of both lines.  Swap names the word they exchange after each round,
\* 0 for none.  The right line of RIPEMD-128 and RIPEMD-256 ends with no
\* constant, one round earlier than that of the others.
Step(n, f, v, b, rot, k) == IF n = 5 THEN OP(f, v, b, rot, k) ELSE SOP(f, v, b, rot, k)
Exchange(l, w) ==
    IF w = 0 THEN l ELSE <<[l[1] EXCEPT ![w] = l[2][w]], [l[2] EXCEPT ![w] = l[1][w]]>>
Steps(n, i, j, l, blk) ==
    <<Step(n, j, l[1], blk[r[i] + 1], s[i], Left[j]),
      Step(n, n + 1 - j, l[2], blk[rp[i] + 1], sp[i], IF j = n THEN {} ELSE Right[j])>>
Lines(n, lines, blk, swap) ==
    LET go[i \in 1 .. 81, l \in Seq(Seq(Word(32)))] ==
            LET j == (i - 1) \div 16 + 1
            IN  IF i > 16 * n THEN l
                ELSE go[i+1, Exchange(Steps(n, i, j, l, blk), IF i % 16 = 0 /\ j < n THEN swap[j] ELSE 0)]
    IN  go[1, lines]

RIPEMD128Reset == <<Hex32(\h6745, \h2301), Hex32(\hefcd, \hab89), Hex32(\h98ba, \hdcfe),
                    Hex32(\h1032, \h5476)>>
RIPEMD160Reset == Append(RIPEMD128Reset, Hex32(\hc3d2, \he1f0))
SecondLine == <<Hex32(\h7654, \h3210), Hex32(\hfedc, \hba98), Hex32(\h89ab, \hcdef),
                Hex32(\h0123, \h4567)>>
RIPEMD256Reset == RIPEMD128Reset \o SecondLine
RIPEMD320Reset == RIPEMD160Reset \o Append(SecondLine, Hex32(\h3c2d, \h1e0f))

\* The lines l, crossed over into the state h, whose n words the second line takes
\* from the one after the place it is crossed to.
Sum3(x, y, z) == Plus(32, x, Plus(32, y, z))
CrossSum(n, h, l) ==
    [i \in 1 .. n |-> Sum3(h[(i % n) + 1], l[1][((i + 1) % n) + 1], l[2][((i + 2) % n) + 1])]
\* The double-width functions: the last words of the lines are exchanged too.
Side(n, l) == SubSeq(l[1], 1, n - 1) \o <<l[2][n]>> \o SubSeq(l[2], 1, n - 1) \o <<l[1][n]>>
SideSum(h, v) == [i \in DOMAIN h |-> Plus(32, h[i], v[i])]

RIPEMD128Transform(h, block) ==
    CrossSum(4, h, Lines(4, <<h, h>>, WordsLE(4, block), <<0, 0, 0>>))
RIPEMD160Transform(h, block) ==
    CrossSum(5, h, Lines(5, <<h, h>>, WordsLE(4, block), <<0, 0, 0, 0>>))
RIPEMD256Transform(h, block) ==
    SideSum(h, Side(4, Lines(4, <<SubSeq(h, 1, 4), SubSeq(h, 5, 8)>>, WordsLE(4, block), <<1, 2, 3>>)))
RIPEMD320Transform(h, block) ==
    SideSum(h, Side(5, Lines(5, <<SubSeq(h, 1, 5), SubSeq(h, 6, 10)>>, WordsLE(4, block), <<2, 4, 1, 3>>)))
==============================================================================
