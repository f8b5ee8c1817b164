-------------------------------- MODULE Blake --------------------------------
(***************************************************************************)
(* BLAKE-224, -256, -384, -512 and BLAKE2b, src/impl/hash/blake.  A context *)
(* is [hash, buf, len]; len counts bytes in two words.  The variants are   *)
(* "256" (words of 32 bits), "512" and "2b" (of 64).                       *)
(***************************************************************************)
EXTENDS Words
LOCAL INSTANCE SequencesExt

CONSTANT Table(_, _, _)

w_(v) == IF v = "256" THEN 32 ELSE 64
Blk(v) == 2 * w_(v)                     \* the block, in bytes

k256(i) == Table(32, 1130, OfNum(4, i))
k512(i) == Table(64, 1131, OfNum(4, i))
iv512(i) == Table(64, 1132, OfNum(3, i))

sigma ==
    <<<<0, 1, 2, 3, 4, 5, 6, 7, 8, 9, 10, 11, 12, 13, 14, 15>>,
      <<14, 10, 4, 8, 9, 15, 13, 6, 1, 12, 0, 2, 11, 7, 5, 3>>,
      <<11, 8, 12, 0, 5, 2, 15, 13, 10, 14, 3, 6, 7, 1, 9, 4>>,
      <<7, 9, 3, 1, 13, 12, 11, 14, 2, 6, 5, 10, 4, 0, 15, 8>>,
      <<9, 0, 5, 7, 2, 4, 10, 15, 14, 1, 11, 12, 6, 8, 3, 13>>,
      <<2, 12, 6, 10, 0, 11, 8, 3, 4, 13, 7, 5, 15, 14, 1, 9>>,
      <<12, 5, 1, 15, 14, 13, 4, 10, 0, 7, 6, 3, 9, 2, 8, 11>>,
      <<13, 11, 7, 14, 12, 1, 3, 9, 5, 0, 15, 4, 8, 6, 2, 10>>,
      <<6, 15, 14, 9, 11, 3, 0, 8, 12, 2, 13, 7, 1, 4, 10, 5>>,
      <<10, 2, 8, 4, 7, 6, 1, 5, 15, 11, 9, 14, 3, 12, 13, 0>>>>

\* G on q = <<a, b, c, d>> with the two words to add; n are the four rotations.
\* Each half of it adds x to a, and has a, then d, then c, and b at last.
WithC(w, a, b, c, d, n) == <<a, Rotr(w, Xor(b, c), n), c, d>>
WithD(w, a, b, c, d, n) == WithC(w, a, b, Plus(w, c, d), d, n)
WithA(w, a, q, n1, n2) == WithD(w, a, q[2], q[3], Rotr(w, Xor(q[4], a), n1), n2)
Half(w, q, x, n1, n2) == WithA(w, Plus(w, q[1], Plus(w, q[2], x)), q, n1, n2)
Gn(w, q, x, y, n) == Half(w, Half(w, q, x, n[1], n[2]), y, n[3], n[4])
G256 == <<16, 12, 8, 7>>
G512 == <<32, 25, 16, 11>>
G2b == <<32, 24, 16, 63>>
Rotations(v) == CASE v = "256" -> G256 [] v = "512" -> G512 [] v = "2b" -> G2b

\* G with the words m[r0] and m[r1], for BLAKE crossed with the constants.
Constant(v, i) == CASE v = "256" -> k256(i) [] v = "512" -> k512(i) [] v = "2b" -> {}
Masked(v, m, i, j) == Xor(m[i+1], Constant(v, j))
G(v, q, m, r0, r1) == Gn(w_(v), q, Masked(v, m, r0, r1), Masked(v, m, r1, r0), Rotations(v))

\* The columns, then the diagonals.
Lanes == <<<<1, 5, 9, 13>>, <<2, 6, 10, 14>>, <<3, 7, 11, 15>>, <<4, 8, 12, 16>>,
           <<1, 6, 11, 16>>, <<2, 7, 12, 13>>, <<3, 8, 9, 14>>, <<4, 5, 10, 15>>>>
Put(x, l, q) == [x EXCEPT ![l[1]] = q[1], ![l[2]] = q[2], ![l[3]] = q[3], ![l[4]] = q[4]]
Step(v, x, l, m, r0, r1) == Put(x, l, G(v, <<x[l[1]], x[l[2]], x[l[3]], x[l[4]]>>, m, r0, r1))
Round(v, s, r, m) ==
    LET go[i \in 1 .. 9, x \in Seq(Word(64))] ==
            IF i > 8 THEN x ELSE go[i+1, Step(v, x, Lanes[i], m, r[2*i - 1], r[2*i])]
    IN  go[1, s]

Count(v) == CASE v = "256" -> 14 [] v = "512" -> 16 [] v = "2b" -> 12
Rounds(v, s, m) ==
    LET go[i \in Nat, x \in Seq(Word(64))] ==
            IF i = Count(v) THEN x ELSE go[i+1, Round(v, x, sigma[(i % 10) + 1], m)]
    IN  go[0, s]

\* XorAligned(v, v+8); XorAligned(state, v);
Folded(state, x) == SubSeq([i \in 1 .. 8 |-> Xor3(state[i], x[i], x[i+8])], 1, 8)

\* The other half of the words that the rounds start from: constants, of which the
\* last four are crossed with the length, in bits but for BLAKE2b.
Start256(len) == <<k256(0), k256(1), k256(2), k256(3), Xor(k256(4), len[1]), Xor(k256(5), len[1]),
                   Xor(k256(6), len[2]), Xor(k256(7), len[2])>>
Start512(len) == <<k512(0), k512(1), k512(2), k512(3), Xor(k512(4), len[1]), Xor(k512(5), len[1]),
                   Xor(k512(6), len[2]), Xor(k512(7), len[2])>>
Start2b(len, is_final) ==
    <<iv512(0), iv512(1), iv512(2), iv512(3), Xor(iv512(4), len[1]), Xor(iv512(5), len[2]),
      IF is_final THEN Not(64, iv512(6)) ELSE iv512(6), iv512(7)>>
Start(v, len, is_final) ==
    CASE v = "256" -> Start256(Bits(32, len))
      [] v = "512" -> Start512(Bits(64, len))
      [] v = "2b" -> Start2b(len, is_final)
Message(v, block) == SubSeq(IF v = "2b" THEN WordsLE(8, block) ELSE WordsBE(w_(v) \div 8, block), 1, 16)
\* Transform of the class v; only the one of BLAKE2b has is_final.
Transform(v, state, block, len, is_final) ==
    Folded(state, Rounds(v, state \o Start(v, len, is_final), Message(v, block)))

------------------------------------------------------------------------------
Fresh(v, hash) == [hash |-> hash, buf |-> Zeros(Blk(v)), len |-> <<Zero, Zero>>]
Reset256 == Fresh("256", <<Hex32(\h6a09, \he667), Hex32(\hbb67, \hae85), Hex32(\h3c6e, \hf372),
                           Hex32(\ha54f, \hf53a), Hex32(\h510e, \h527f), Hex32(\h9b05, \h688c),
                           Hex32(\h1f83, \hd9ab), Hex32(\h5be0, \hcd19)>>)
Reset224 == Fresh("256", <<Hex32(\hc105, \h9ed8), Hex32(\h367c, \hd507), Hex32(\h3070, \hdd17),
                           Hex32(\hf70e, \h5939), Hex32(\hffc0, \h0b31), Hex32(\h6858, \h1511),
                           Hex32(\h64f9, \h8fa7), Hex32(\hbefa, \h4fa4)>>)
Iv512 == <<iv512(0), iv512(1), iv512(2), iv512(3), iv512(4), iv512(5), iv512(6), iv512(7)>>
Reset512 == Fresh("512", Iv512)
Reset384 == Fresh("512", <<Hex64(\hcbbb, \h9d5d, \hc105, \h9ed8), Hex64(\h629a, \h292a, \h367c, \hd507),
                           Hex64(\h9159, \h015a, \h3070, \hdd17), Hex64(\h152f, \hecd8, \hf70e, \h5939),
                           Hex64(\h6733, \h2667, \hffc0, \h0b31), Hex64(\h8eb4, \h4a87, \h6858, \h1511),
                           Hex64(\hdb0c, \h2e0d, \h64f9, \h8fa7), Hex64(\h47b5, \h481d, \hbefa, \h4fa4)>>)
Reset2b(digestlen) ==
    Fresh("2b", [Iv512 EXCEPT ![1] = Xor3(@, Hex32(\h0101, 0), OfNum(16, digestlen))])

\* Transforms the blocks b, each with the length that counts for it.
Blocks(v, k, b, is_final) ==
    [k EXCEPT !.hash = FoldLeft(LAMBDA h, x : Transform(v, h, x.data, x.len, is_final), @, b)]
Offset(v, k) == Num(k.len[1]) % Blk(v)
\* A block is counted before it is transformed.
Fed(v, k, off, n, f) ==
    [Blocks(v, k, [j \in 1 .. Len(f.blocks) |->
                     [data |-> f.blocks[j], len |-> Counted(w_(v), k.len, Blk(v)*j - off)]], FALSE)
        EXCEPT !.buf = f.buf, !.len = Counted(w_(v), @, n)]
\* BLAKE transforms every whole block, BLAKE2b keeps the last bytes back.
Update(v, k, data) ==
    Fed(v, k, Offset(v, k), Len(data),
        Fill(Blk(v), IF v = "2b" THEN 1 ELSE 0, k.buf, Offset(v, k), data))

\* big: the digest is half as long as the block.
Pad(v, k, big) ==
    LET b == Blk(v)
        w == w_(v)
        trip == b - w \div 4
        noff == Offset(v, k)
        second == noff >= trip
        marked == Splice(k.buf, noff, << {7} >> \o Zeros(b - noff - 1))
        rest == IF second THEN Zeros(b) ELSE marked
        len == Bits(w, k.len)
        last == [rest EXCEPT ![trip] = IF big THEN @ \union {0} ELSE @]
        buf == Splice(last, trip, BytesBE(w \div 8, <<len[2], len[1]>>))
        ctr == IF noff # 0 /\ ~second THEN k.len ELSE <<Zero, Zero>>
    IN  [Blocks(v, k, (IF second THEN <<[data |-> marked, len |-> k.len]>> ELSE <<>>)
                      \o <<[data |-> buf, len |-> ctr]>>, FALSE) EXCEPT !.buf = buf]
Pad2b(k) ==
    LET off == Offset("2b", k)
        buf == Splice(k.buf, off, Zeros(128 - off))
    IN  [Blocks("2b", k, <<[data |-> buf, len |-> k.len]>>, TRUE) EXCEPT !.buf = buf]
==============================================================================
