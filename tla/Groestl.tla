------------------------------- MODULE Groestl -------------------------------
(***************************************************************************)
(* Groestl, src/impl/hash/groestl (spelt with an o with stroke): eight     *)
(* columns of 64 bits for digests of at most 32 bytes, sixteen above.  A   *)
(* context is [hash, buf, off, nblocks, size]: off counts the bytes that   *)
(* Update was given and nblocks the blocks that were transformed.          *)
(***************************************************************************)
EXTENDS Gf
LOCAL INSTANCE SequencesExt

\* The eight tables of 256 columns.  The first holds multiples of the
\* substituted byte, the others the same columns turned.
Multiples(y) == PackBE(<<mul0x2(y), Mul({0, 1, 2}, y), Mul({0, 2}, y), mul0x3(y),
                         Mul({0, 2}, y), Mul({2}, y), mul0x3(y), mul0x2(y)>>)
Columns == Tabulate(256, LAMBDA x : Multiples(S(x)))
T0(x) == Columns[NumByte(x) + 1]
\* An entry of the other tables, from the entry y of the first.
T1(y) == Rotr(64, y, 8)
T2(y) == Rotr(64, y, 16)
T3(y) == Rotr(64, y, 24)
T4(y) == Rotr(64, y, 32)
T5(y) == Rotr(64, y, 40)
T6(y) == Rotr(64, y, 48)
T7(y) == Rotr(64, y, 56)
T(n, y) == CASE n = 0 -> y [] n = 1 -> T1(y) [] n = 2 -> T2(y) [] n = 3 -> T3(y)
             [] n = 4 -> T4(y) [] n = 5 -> T5(y) [] n = 6 -> T6(y) [] n = 7 -> T7(y)

\* Byte 7-i of column c_i, through table i.
ComputeColumn(x, c) == XorOf8([i \in 0 .. 7 |-> T(i, T0(GetByte(x[c[i + 1]], 7 - i)))])

CombineP(x, off, rc) == Xor3(x, {60 + i : i \in OfNum(4, off)}, {56 + i : i \in OfNum(4, rc)})
CombineQ(x, off, rc) == Xor3(x, Not(64, {4 + i : i \in OfNum(4, off)}), OfNum(4, rc))

\* The columns that are combined into column i: i plus the shifts.
Shifted(x, sh) ==
    LET n == Len(x)
        go[y \in Seq(Word(64))] ==
            IF Len(y) = n THEN y
            ELSE go[Append(y, ComputeColumn(x, [j \in 1 .. 8 |-> ((Len(y) + sh[j]) % n) + 1]))]
    IN  go[<<>>]
shiftP256 == <<0, 1, 2, 3, 4, 5, 6, 7>>
shiftQ256 == <<1, 3, 5, 7, 0, 2, 4, 6>>
shiftP512 == <<0, 1, 2, 3, 4, 5, 6, 11>>
shiftQ512 == <<1, 3, 5, 11, 0, 2, 4, 6>>
ComputeP(x, rc) ==
    Shifted(SubSeq([i \in 1 .. Len(x) |-> CombineP(x[i], i - 1, rc)], 1, Len(x)),
            IF Len(x) = 8 THEN shiftP256 ELSE shiftP512)
ComputeQ(x, rc) ==
    Shifted(SubSeq([i \in 1 .. Len(x) |-> CombineQ(x[i], i - 1, rc)], 1, Len(x)),
            IF Len(x) = 8 THEN shiftQ256 ELSE shiftQ512)

Rounds(x) == IF Len(x) = 8 THEN 10 ELSE 14
P(x0) == LET go[i \in Nat, x \in Seq(Word(64))] == IF i = Rounds(x) THEN x ELSE go[i+1, ComputeP(x, i)]
         IN  go[0, x0]
Q(x0) == LET go[i \in Nat, x \in Seq(Word(64))] == IF i = Rounds(x) THEN x ELSE go[i+1, ComputeQ(x, i)]
         IN  go[0, x0]

XorWords(x, y) == SubSeq(XorSeq(x, y), 1, Len(x))
Compressed(h, b) == XorWords(h, XorWords(Q(b), P(XorWords(h, b))))
Compress(h, block) == Compressed(h, SubSeq(WordsBE(8, block), 1, Len(h)))
Transform(k, block) == [k EXCEPT !.hash = Compress(@, block), !.nblocks = @ + 1]

------------------------------------------------------------------------------
\* Both constructors, and Reset, which keeps the size.
New(size) ==
    LET n == IF size <= 32 THEN 8 ELSE 16
    IN  [hash |-> [i \in 1 .. n |-> IF i = n THEN OfNum(16, 8 * size) ELSE Zero],
         buf |-> Zeros(8 * n), off |-> 0, nblocks |-> 0, size |-> size]
Reset(k) == New(k.size)
GetBlockSize(k) == 8 * Len(k.hash)

Absorb(k, f) == [FoldLeft(Transform, k, f.blocks) EXCEPT !.buf = f.buf]
Update(k, data) ==
    Absorb([k EXCEPT !.off = @ + Len(data)],
           Fill(GetBlockSize(k), 0, k.buf, k.off % GetBlockSize(k), data))
\* It does not count in off.
UpdateFast(k, data) == Absorb(k, [blocks |-> Whole(GetBlockSize(k), data), buf |-> k.buf])

\* The number of the last block goes into it; nblocks counts that block twice.
Pad(k) ==
    LET b == GetBlockSize(k)
        noff == k.off % b
        marked == Splice(k.buf, noff, << {7} >> \o Zeros(b - noff - 1))
        second == noff >= b - 8
        n == k.nblocks + (IF second THEN 2 ELSE 1)
        buf == Splice(IF second THEN Zeros(b) ELSE marked, b - 8, UnpackBE(8, OfNum(64, n)))
    IN  Absorb([k EXCEPT !.nblocks = @ + 1],
               [blocks |-> (IF second THEN <<marked>> ELSE <<>>) \o <<buf>>, buf |-> buf])

Output(k) == [k EXCEPT !.hash = XorWords(@, P(@))]
Digest(k) == LET b == BytesBE(8, k.hash) IN SubSeq(b, Len(b) - k.size + 1, Len(b))
==============================================================================
