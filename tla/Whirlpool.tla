------------------------------ MODULE Whirlpool ------------------------------
(***************************************************************************)
(* The compression function of Whirlpool,                                  *)
(* src/impl/hash/whirlpool/whirlpool.cc.  Its padding is in Digests.       *)
(***************************************************************************)
EXTENDS Words

CONSTANT Table(_, _, _)

\* The eight tables are rotations of the first.
C0(x) == Table(64, 1120, x)
\* An entry of the other tables, from the entry y of the first.
C1(y) == Rotr(64, y, 8)
C2(y) == Rotr(64, y, 16)
C3(y) == Rotr(64, y, 24)
C4(y) == Rotr(64, y, 32)
C5(y) == Rotr(64, y, 40)
C6(y) == Rotr(64, y, 48)
C7(y) == Rotr(64, y, 56)
C(n, y) == CASE n = 0 -> y [] n = 1 -> C1(y) [] n = 2 -> C2(y) [] n = 3 -> C3(y)
             [] n = 4 -> C4(y) [] n = 5 -> C5(y) [] n = 6 -> C6(y) [] n = 7 -> C7(y)
rc(i) == Table(64, 1121, OfNum(4, i))

Reset == [i \in 1 .. 8 |-> Zero]

\* Row r of the result takes byte 7-i of row r-i through table Ci.
Row(in, r) == XorOf8([i \in 0 .. 7 |-> C(i, C0(GetByte(in[((r - i) % 8) + 1], 7 - i)))])
Round(in) == SubSeq([r \in 1 .. 8 |-> Row(in, r - 1)], 1, 8)

\* The next key, L, and the state crossed with it.
NextKey(K, i) == [Round(K) EXCEPT ![1] = Xor(@, rc(i))]
Keyed(L, state) == <<L, SubSeq(XorSeq(Round(state), L), 1, 8)>>
Rounds(K, state) ==
    LET go[i \in 0 .. 10, x \in Seq(Seq(Word(64)))] ==
            IF i = 10 THEN x[2] ELSE go[i+1, Keyed(NextKey(x[1], i), x[2])]
    IN  go[0, <<K, state>>]
Crossed(hash, block) == XorSeq(hash, XorSeq(Rounds(hash, SubSeq(XorSeq(block, hash), 1, 8)), block))
Transform(hash, blk) == SubSeq(Crossed(hash, WordsBE(8, blk)), 1, 8)
==============================================================================
