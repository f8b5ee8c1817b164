-------------------------------- MODULE Fugue --------------------------------
(***************************************************************************)
(* Fugue-224, -256, -384 and -512, src/impl/hash/fugue.  The state is 30    *)
(* words of 32 bits, or 36 for the two larger ones; the block is one word. *)
(* Update is the base class's, Pad and GetDigest are Fugue's own.          *)
(***************************************************************************)
EXTENDS Gf

sbox(x) == S(x)
mul4(x) == Mul({2}, x)
mul5(x) == Mul({0, 2}, x)
mul6(x) == Mul({1, 2}, x)
mul7(x) == Mul({0, 1, 2}, x)

W(a, b) == Hex32(a, b)
None(n) == [i \in 1 .. n |-> Zero]
Fugue256Reset ==
    None(22) \o <<W(\he952, \hbdde), W(\h6671, \h135f), W(\he0d4, \hf668), W(\hd2b0, \hb594),
                  W(\hf96c, \h621d), W(\hfbf9, \h29de), W(\h9149, \he899), W(\h34f8, \hc248)>>
Fugue224Reset ==
    None(23) \o <<W(\hf4c9, \h120d), W(\h6286, \hf757), W(\hee39, \he01c), W(\he074, \he3cb),
                  W(\ha112, \h7c62), W(\h9a43, \hd215), W(\hbd8d, \h679a)>>
Fugue384Reset ==
    None(24) \o <<W(\haa61, \hec0d), W(\h3125, \h2e1f), W(\ha01d, \hb4c7), W(\h0060, \h0985),
                  W(\h215e, \hf44a), W(\h741b, \h5e9c), W(\hfa69, \h3e9a), W(\h473e, \hb040),
                  W(\he502, \hae8a), W(\ha99c, \h25e0), W(\hbc95, \h517c), W(\h5c10, \h95a1)>>
Fugue512Reset ==
    None(20) \o <<W(\h8807, \ha57e), W(\he616, \haf75), W(\hc5d3, \he4db), W(\hac9a, \hb027),
                  W(\hd915, \hf117), W(\hb6ee, \hcc54), W(\h06e8, \h020b), W(\h4a92, \hefd1),
                  W(\haac6, \he2c9), W(\hddb2, \h1398), W(\hcae6, \h5838), W(\h437f, \h203f),
                  W(\h25ea, \h78e7), W(\h951f, \hddd6), W(\hda6e, \hd11d), W(\he13e, \h3567)>>

\* The old s[0] goes into another word, p takes its place and is crossed into
\* s[8], and some words are crossed over.  s[i] of the code is s[i+1].
tix_256(s, p) ==
    [s EXCEPT ![11] = Xor(@, s[1]), ![1] = p, ![9] = Xor(@, p), ![2] = Xor(@, s[25])]
tix_384(s, p) ==
    [s EXCEPT ![17] = Xor(@, s[1]), ![1] = p, ![9] = Xor(@, p), ![2] = Xor(@, s[28]),
              ![5] = Xor(@, s[31])]
tix_512(s, p) ==
    [s EXCEPT ![23] = Xor(@, s[1]), ![1] = p, ![9] = Xor(@, p), ![2] = Xor(@, s[25]),
              ![5] = Xor(@, s[28]), ![8] = Xor(@, s[31])]

ror(s, off) == SubSeq(s, Len(s) - off + 1, Len(s)) \o SubSeq(s, 1, Len(s) - off)
\* Three words to the right, then words 4 to 6 crossed into the first three and
\* into the three from the middle on.
ror3cmix(s) ==
    LET t == ror(s, 3)
        h == Len(s) \div 2
    IN  [t EXCEPT ![1] = Xor(@, t[5]), ![2] = Xor(@, t[6]), ![3] = Xor(@, t[7]),
                  ![h+1] = Xor(@, t[5]), ![h+2] = Xor(@, t[6]), ![h+3] = Xor(@, t[7])]

\* Row i are the multiples of the sixteen substituted bytes that make byte i.
N == <<<<1, 4, 7, 1, 1, 0, 0, 0, 1, 0, 0, 0, 1, 0, 0, 0>>,
      <<0, 1, 0, 0, 1, 1, 4, 7, 0, 1, 0, 0, 0, 1, 0, 0>>,
      <<0, 0, 1, 0, 0, 0, 1, 0, 7, 1, 1, 4, 0, 0, 1, 0>>,
      <<0, 0, 0, 1, 0, 0, 0, 1, 0, 0, 0, 1, 4, 7, 1, 1>>,
      <<0, 0, 0, 0, 0, 4, 7, 1, 1, 0, 0, 0, 1, 0, 0, 0>>,
      <<0, 1, 0, 0, 0, 0, 0, 0, 1, 0, 4, 7, 0, 1, 0, 0>>,
      <<0, 0, 1, 0, 0, 0, 1, 0, 0, 0, 0, 0, 7, 1, 0, 4>>,
      <<4, 7, 1, 0, 0, 0, 0, 1, 0, 0, 0, 1, 0, 0, 0, 0>>,
      <<0, 0, 0, 0, 7, 0, 0, 0, 6, 4, 7, 1, 7, 0, 0, 0>>,
      <<0, 7, 0, 0, 0, 0, 0, 0, 0, 7, 0, 0, 1, 6, 4, 7>>,
      <<7, 1, 6, 4, 0, 0, 7, 0, 0, 0, 0, 0, 0, 0, 7, 0>>,
      <<0, 0, 0, 7, 4, 7, 1, 6, 0, 0, 0, 7, 0, 0, 0, 0>>,
      <<0, 0, 0, 0, 4, 0, 0, 0, 4, 0, 0, 0, 5, 4, 7, 1>>,
      <<1, 5, 4, 7, 0, 0, 0, 0, 0, 4, 0, 0, 0, 4, 0, 0>>,
      <<0, 0, 4, 0, 7, 1, 5, 4, 0, 0, 0, 0, 0, 0, 4, 0>>,
      <<0, 0, 0, 4, 0, 0, 0, 4, 4, 7, 1, 5, 0, 0, 0, 0>>>>
Multiple(c, x) == CASE c = 0 -> {} [] c = 1 -> x [] c = 4 -> mul4(x) [] c = 5 -> mul5(x)
                    [] c = 6 -> mul6(x) [] c = 7 -> mul7(x)
\* Byte i of the sixteen, from the substituted bytes t.
Row(i, t) == XorOf([a \in 0 .. 3 |->
                XorOf([b \in 0 .. 3 |-> Multiple(N[i][4*a + b + 1], t[4*a + b + 1])])])
Rows(t) == SubSeq([i \in 1 .. 16 |-> Row(i, t)], 1, 16)
Substituted(b) == SubSeq([i \in 1 .. 16 |-> sbox(b[i])], 1, 16)
smix(s) == WordsBE(4, Rows(Substituted(BytesBE(4, SubSeq(s, 1, 4))))) \o SubSeq(s, 5, Len(s))

Mixed(n, s0) ==
    LET go[i \in Nat, s \in Seq(Word(32))] == IF i = n THEN s ELSE go[i+1, smix(ror3cmix(s))]
    IN  go[0, s0]

\* Fugue256Transform, which Fugue-224 shares, Fugue384Transform and
\* Fugue512Transform: they differ in tix and in the number of subrounds.
tix(f, s, p) == CASE f \in {"224", "256"} -> tix_256(s, p)
                  [] f = "384" -> tix_384(s, p)
                  [] f = "512" -> tix_512(s, p)
Subrounds(f) == CASE f \in {"224", "256"} -> 2 [] f = "384" -> 3 [] f = "512" -> 4
Transform(f, s, block) == Mixed(Subrounds(f), tix(f, s, PackBE(block)))

\* Transform is given what is left in the buffer, then the length, bits in two words
\* with the low one first, which also replaces the length in bytes.
Pad(k, bits) ==
    LET off == k.len[1] % 4
        word(i) == UnpackBE(4, OfNum(32, bits[i]))
    IN  [k EXCEPT !.len = <<bits[2], bits[1]>>,
                  !.blocks = @ \o (IF off = 0 THEN <<>> ELSE <<SubSeq(k.buf, 1, off) \o Zeros(4 - off)>>)
                             \o <<word(2), word(1)>>]

\* Word 0 crossed into the words of the set, and the shift that follows.
Cross(s, at) == [i \in 1 .. Len(s) |-> IF i - 1 \in at THEN Xor(s[i], s[1]) ELSE s[i]]
Turn(s, at, off) == smix(ror(SubSeq(Cross(s, at), 1, Len(s)), off))
\* The subrounds that GetDigest starts with, and the sets and shifts of each of the
\* thirteen times that it turns the state.  The first set is crossed once more.
Final256 == [rounds |-> 10, at |-> <<{4, 15}, {4, 16}>>, off |-> <<15, 14>>]
Final384 == [rounds |-> 18, at |-> <<{4, 12, 24}, {4, 13, 24}, {4, 13, 25}>>, off |-> <<12, 12, 11>>]
Final512 == [rounds |-> 32, at |-> <<{4, 9, 18, 27}, {4, 10, 18, 27}, {4, 10, 19, 27}, {4, 10, 19, 28}>>,
             off |-> <<9, 9, 9, 8>>]
Turns(p, s0) ==
    LET n == Len(p.off)
        go[i \in Nat, s \in Seq(Word(32))] ==
            IF i = 13 * n THEN Cross(s, p.at[1])
            ELSE go[i+1, Turn(s, p.at[(i % n) + 1], p.off[(i % n) + 1])]
    IN  go[0, Mixed(p.rounds, s0)]
Final(f, s) ==
    Turns(CASE f \in {"224", "256"} -> Final256 [] f = "384" -> Final384 [] f = "512" -> Final512, s)

\* The digest is words 1 to 4 and then four words from each of these places on.
DigestWords(s, at) == BytesBE(4, SubSeq(s, 2, 5) \o SubSeq(s, at + 1, at + 4))
GetDigest256(s) == DigestWords(s, 15)
GetDigest224(s) == SubSeq(DigestWords(s, 15), 1, 28)
GetDigest384(s) == DigestWords(s, 12) \o BytesBE(4, SubSeq(s, 25, 28))
GetDigest512(s) == DigestWords(s, 9) \o BytesBE(4, SubSeq(s, 19, 22) \o SubSeq(s, 28, 31))
GetDigest(f, s) ==
    CASE f = "224" -> GetDigest224(s) [] f = "256" -> GetDigest256(s)
      [] f = "384" -> GetDigest384(s) [] f = "512" -> GetDigest512(s)
==============================================================================
