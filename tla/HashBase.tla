------------------------------ MODULE HashBase ------------------------------
(***************************************************************************)
(* The class template Hash of src/impl/hash/hash.hh, the base of most of   *)
(* the hash functions.  A context has                                      *)
(*   blocks  the blocks given to Transform, in their order;                *)
(*   buf     m_buf, one block;                                             *)
(*   len     m_len, the bytes so far in two words, the low one first.      *)
(* Transform itself is the business of the derived class: what it makes of *)
(* m_hash is determined by the blocks it was given.                        *)
(***************************************************************************)
EXTENDS Integers, Sequences

CONSTANTS BlkSize,          \* the block, in bytes
          FieldSize,        \* sizeof(len): the length field of the padding
          Modulus,          \* a word of m_len counts modulo this, a multiple of 8
          Mark,             \* the byte 0x80
          ZeroByte,         \* the byte 0
          Field(_, _)       \* the bytes of the length field, from its two words

ZeroBytes(n) == [i \in 1 .. n |-> ZeroByte]
\* memcpy(buf + off, data, Len(data))
CopyTo(buf, off, data) ==
    SubSeq(buf, 1, off) \o data \o SubSeq(buf, off + Len(data) + 1, Len(buf))

\* The whole blocks of data, and what is left.
Whole(data) == [i \in 1 .. Len(data) \div BlkSize |-> SubSeq(data, BlkSize*(i-1) + 1, BlkSize*i)]
Left(data) == SubSeq(data, Len(data) - (Len(data) % BlkSize) + 1, Len(data))

\* Mutant: the carry is dropped.
CountNoCarry(len, n) == <<(len[1] + n) % Modulus, len[2]>>

\* if ((m_len[0] += len) < t) m_len[1]++;
Count(len, n) ==
    LET lo == (len[1] + n) % Modulus
    IN  <<lo, IF lo < len[1] THEN (len[2] + 1) % Modulus ELSE len[2]>>

\* Reset, as far as the base class goes, with Initialize.
Initialize == [blocks |-> <<>>, buf |-> ZeroBytes(BlkSize), len |-> <<0, 0>>]

\* Mutant: the room left in the buffer is not looked at.
UpdateOverrun(k, data) ==
    LET off == k.len[1] % BlkSize
        i == IF off = 0 THEN 0 ELSE Len(data)
        buf == CopyTo(k.buf, off, SubSeq(data, 1, i))
        blocks == IF off # 0 /\ i + off = BlkSize THEN Append(k.blocks, buf) ELSE k.blocks
        rest == SubSeq(data, i + 1, Len(data))
    IN  [k EXCEPT !.blocks = blocks \o Whole(rest), !.buf = CopyTo(buf, 0, Left(rest)),
                  !.len = Count(@, Len(data))]

Update(k, data) ==
    LET off == k.len[1] % BlkSize
        i == IF off = 0 THEN 0 ELSE IF BlkSize - off < Len(data) THEN BlkSize - off ELSE Len(data)
        buf == CopyTo(k.buf, off, SubSeq(data, 1, i))
        blocks == IF off # 0 /\ i + off = BlkSize THEN Append(k.blocks, buf) ELSE k.blocks
        rest == SubSeq(data, i + 1, Len(data))
    IN  [k EXCEPT !.blocks = blocks \o Whole(rest), !.buf = CopyTo(buf, 0, Left(rest)),
                  !.len = Count(@, Len(data))]

\* No look at the buffer.
UpdateFast(k, data) == [k EXCEPT !.blocks = @ \o Whole(data), !.len = Count(@, Len(data))]

\* Mutant: the field is taken to fit behind data that reaches up to it.
PadWithOne(k, mark, trip, field) ==
    LET noff == k.len[1] % BlkSize
        marked == CopyTo(k.buf, noff, <<mark>> \o ZeroBytes(BlkSize - noff - 1))
        buf == CopyTo(IF noff > trip THEN ZeroBytes(BlkSize) ELSE marked, trip, field)
    IN  [k EXCEPT !.blocks = Append(IF noff > trip THEN Append(@, marked) ELSE @, buf), !.buf = buf]

\* Pad, with its mark, the place of the length field and the field.  When data or
\* mark reach into the field, a block is filled up with zeros and the field goes
\* into a second one.
PadWith(k, mark, trip, field) ==
    LET noff == k.len[1] % BlkSize
        marked == CopyTo(k.buf, noff, <<mark>> \o ZeroBytes(BlkSize - noff - 1))
        buf == CopyTo(IF noff >= trip THEN ZeroBytes(BlkSize) ELSE marked, trip, field)
    IN  [k EXCEPT !.blocks = Append(IF noff >= trip THEN Append(@, marked) ELSE @, buf), !.buf = buf]

\* Bytes to bits: the two words, the low one first, shifted left by three.
BitLength(len) ==
    <<(len[1] * 8) % Modulus, ((len[2] * 8) % Modulus) + (len[1] \div (Modulus \div 8))>>
Pad(k) == PadWith(k, Mark, BlkSize - FieldSize, Field(BitLength(k.len)[2], BitLength(k.len)[1]))
==============================================================================
