-------------------------------- MODULE MCMac --------------------------------
(* A hash with blocks of eight bytes and digests of four, and ciphers with  *)
(* blocks of 8 and 16 bytes.                                                *)
EXTENDS Mac, TLC
LOCAL INSTANCE SequencesExt

Symmetry == Permutations(Slots)

\* Stand for the hash and the cipher: any functions will do.  Mix is a
\* substitution of bytes, and every byte of the result depends on all of the input.
Mixed == SubSeq([n \in 1 .. 256 |-> OfNum(8, (91*n + 7*(n \div 16) + ((n*n) % 61)) % 256)], 1, 256)
Mix(x) == Mixed[Num(x) + 1]
Absorb(h, x) == <<h[2], h[3], h[4], Mix(Xor3(h[1], x, Rotl(8, h[4], 3)))>>
MCHashed(t) == FoldLeft(Absorb, <<{0}, {1}, {2}, {3}>>, t \o Zeros(4))
Chain(key, b) ==
    Grow(<<>>, Len(b), LAMBDA s : Mix(Xor3(b[Len(s) + 1], key[(Len(s) % Len(key)) + 1],
                                          IF s = <<>> THEN b[Len(b)] ELSE s[Len(s)])))
\* A context without a key has some schedule all the same.
MCEnciphered(key, b) == LET k == IF key = NoKey THEN <<{}>> ELSE key IN Chain(k, Chain(k, b))

Text(n, k) == [i \in 1 .. n |-> OfNum(8, (k * (i + 1) * (i + 6) + i) % 256)]
\* A key shorter than a block of the hash, and a longer one; in CMAC also one that
\* the cipher refuses.
MCKeys(k) == CASE k = "CMAC8" -> {Text(3, 5)}
               [] k = "CMAC16" -> {Text(3, 5), Text(9, 7), Text(4, 3)}
               [] OTHER -> {Text(3, 5), Text(9, 7)}
MCCipherTakes(k, key) == k = "CMAC16" => Len(key) # 4
MCSalts == {Text(2, 11)}
\* Pieces that leave a block open, complete one, and run over.
MCData(k) ==
    {Text(n, 29) : n \in CASE k = "HMAC" -> {1, 8} [] k = "CMAC8" -> {0, 3, 5, 13} [] OTHER -> {8, 16, 24}}
MCTagLengths(k) == IF k = "CMAC16" THEN {10} ELSE IF k = "HMAC" THEN {0, 2} ELSE {0}
MCMaxCalls(k) == IF k \in {"PBKDF2", "CMAC16"} THEN 2 ELSE 3
==============================================================================
