------------------------------- MODULE MCHash -------------------------------
(* Blocks of eight bytes, a length field of two, and counters of five bits. *)
EXTENDS Hash, TLC

Symmetry == Permutations(Slots)

\* Byte i of a piece for message m: neither zero nor the mark nor a length.
Piece(m, n) == [i \in 1 .. n |-> 1000 * m + 100 + i]
\* Less than a block, up to the length field and into it, whole blocks, and a
\* piece that makes the low word of the counter run over.
MCData(m) == {Piece(m, n) : n \in {1, 5, 8, 27}}
MCByte == 0 .. 2200
BigEndianField(hi, lo) == <<hi, lo>>
==============================================================================
