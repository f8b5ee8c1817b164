-------------------------------- MODULE Words --------------------------------
(***************************************************************************)
(* Machine words for the models of ciphers, hashes and stream generators.  *)
(* A word of w bits is the set of the positions of its one bits, a subset  *)
(* of 0 .. w-1 (bit 0 is the least significant).  The widths are the       *)
(* code's own: TLC's integers have 31 bits and could not hold a uint32_t,  *)
(* sets of positions hold words of any width exactly.  A byte is a word    *)
(* of 8 bits and a buffer is a sequence of bytes.                          *)
(***************************************************************************)
EXTENDS Integers, Sequences
LOCAL INSTANCE FiniteSetsExt

Word(w) == SUBSET (0 .. w-1)
Byte == Word(8)
WordPairs(w) == Word(w) \X Word(w)
Words(w, n) == [1 .. n -> Word(w)]
Zero == {}
Ones(w) == 0 .. w-1

Xor(x, y) == (x \ y) \union (y \ x)
Not(w, x) == (0 .. w-1) \ x
Xor3(x, y, z) == Xor(Xor(x, y), z)
Xor4(x, y, z, t) == Xor(Xor(x, y), Xor(z, t))
XorOf(f) == Xor4(f[0], f[1], f[2], f[3])
XorOf8(f) == Xor(XorOf(f), Xor4(f[4], f[5], f[6], f[7]))

\* Exchanges the bits of x and y at the positions in mask: the effect of
\*   work = (x ^ y) & mask; x ^= work; y ^= work;
SwapBits(x, y, mask) ==
    <<(x \ mask) \union (y \cap mask), (y \ mask) \union (x \cap mask)>>

Rotl(w, x, n) == {(i + n) % w : i \in x}
Rotr(w, x, n) == {(i - n) % w : i \in x}
Shl(w, x, n) == {i + n : i \in {j \in x : j + n < w}}
Shr(x, n) == {i - n : i \in {j \in x : j >= n}}

\* n bits of x from position lo upwards.
Field(x, lo, n) == {i - lo : i \in x \cap (lo .. lo+n-1)}

\* E::GetByte(x, n): byte n of x, byte 0 being the least significant one.
GetByte(x, n) == Field(x, 8*n, 8)

\* x + y: the sum without its carries, to which the carries, one place up, are
\* added until none is left.  Minus does so with the borrows.
Plus(w, x, y) ==
    LET add[t \in WordPairs(w)] ==
            IF t[2] = {} THEN t[1] ELSE add[<<Xor(t[1], t[2]), Shl(w, t[1] \cap t[2], 1)>>]
    IN  add[<<x, y>>]
Minus(w, x, y) ==
    LET sub[t \in WordPairs(w)] ==
            IF t[2] = {} THEN t[1] ELSE sub[<<Xor(t[1], t[2]), Shl(w, t[2] \ t[1], 1)>>]
    IN  sub[<<x, y>>]

Times(w, x, y) == FoldSet(LAMBDA i, acc : Plus(w, acc, Shl(w, x, i)), {}, y)

\* Words of at most sixteen bits as numbers: indices and rotation amounts.
NumByte(x) ==
    (IF 0 \in x THEN 1 ELSE 0) + (IF 1 \in x THEN 2 ELSE 0) + (IF 2 \in x THEN 4 ELSE 0)
    + (IF 3 \in x THEN 8 ELSE 0) + (IF 4 \in x THEN 16 ELSE 0) + (IF 5 \in x THEN 32 ELSE 0)
    + (IF 6 \in x THEN 64 ELSE 0) + (IF 7 \in x THEN 128 ELSE 0)
Num(x) == NumByte(x) + 256 * NumByte(GetByte(x, 1))
OfNum(w, n) == {i \in 0 .. w-1 : i < 31 /\ (n \div 2^i) % 2 = 1}   \* n < 2^31

\* Constants, sixteen bits at a time.
Hex32(a, b) == {i + 16 : i \in OfNum(16, a)} \union OfNum(16, b)
Hex64(a, b, c, d) == {i + 32 : i \in Hex32(a, b)} \union Hex32(c, d)
Join(w, hi, lo) == {i + w : i \in hi} \union lo
High(w, x) == Field(x, w, w)
Low(w, x) == Field(x, 0, w)

\* BigEndian and LittleEndian Copy of include/util.hh, both ways.
PackBE(b) == UNION {{8 * (Len(b)-i) + j : j \in b[i]} : i \in DOMAIN b}
PackLE(b) == UNION {{8 * (i-1) + j : j \in b[i]} : i \in DOMAIN b}
UnpackBE(n, x) == [i \in 1 .. n |-> GetByte(x, n - i)]
UnpackLE(n, x) == [i \in 1 .. n |-> GetByte(x, i - 1)]

\* A buffer as words of n bytes, and back.
WordsBE(n, b) == [i \in 1 .. Len(b) \div n |-> PackBE(SubSeq(b, n*(i-1)+1, n*i))]
WordsLE(n, b) == [i \in 1 .. Len(b) \div n |-> PackLE(SubSeq(b, n*(i-1)+1, n*i))]
BytesBE(n, s) == [i \in 1 .. n*Len(s) |-> GetByte(s[(i-1) \div n + 1], n-1 - ((i-1) % n))]
BytesLE(n, s) == [i \in 1 .. n*Len(s) |-> GetByte(s[(i-1) \div n + 1], (i-1) % n)]

\* n turns of a loop from x on: turn takes <<state, number of the turn>>, the number
\* counting from 1, to the next state.
Iterated(n, x, turn) ==
    LET h[i \in 0 .. n] == IF i = 0 THEN x ELSE turn[<<h[i-1], i>>]
    IN  h[n]

\* n more elements at the end of s0, each made from all before it; by halves, so
\* that a long sequence does not nest deeply.
Grow(s0, n, next(_)) ==
    LET go[k \in Nat, s \in Seq(SUBSET Nat)] ==
            CASE k = 0 -> s
              [] k = 1 -> Append(s, next(s))
              [] k > 1 -> go[k - (k \div 2), go[k \div 2, s]]
    IN  go[n, s0]

XorSeq(s, t) == [i \in DOMAIN s |-> Xor(s[i], t[i])]

\* memcpy(buf + off, data, Len(data)) and n zero bytes.
Splice(buf, off, data) == SubSeq(buf, 1, off) \o data \o SubSeq(buf, off + Len(data) + 1, Len(buf))
Zeros(n) == [i \in 1 .. n |-> Zero]

\* The whole blocks of n bytes in data, and how a buffer of n bytes that holds off
\* bytes takes data: it is filled up, then come whole blocks, and the rest is kept;
\* with keep = 1 the last bytes are kept even if they are a whole block.
Whole(n, data) == [j \in 1 .. Len(data) \div n |-> SubSeq(data, n*(j-1) + 1, n*j)]
Room(n, off, data) == IF off = 0 THEN 0 ELSE IF n - off < Len(data) THEN n - off ELSE Len(data)
Rest(n, keep, data) == IF data = <<>> THEN 0 ELSE n * ((Len(data) - keep) \div n)
Taken(n, buf, first, data, whole) ==
    [blocks |-> (IF first THEN <<SubSeq(buf, 1, n)>> ELSE <<>>) \o Whole(n, SubSeq(data, 1, whole)),
     buf |-> Splice(buf, 0, SubSeq(data, whole + 1, Len(data)))]
Fill(n, keep, buf, off, data) ==
    LET i == Room(n, off, data)
        rest == SubSeq(data, i + 1, Len(data))
    IN  Taken(n, Splice(buf, off, SubSeq(data, 1, i)), off # 0 /\ i + off = n, rest, Rest(n, keep, rest))

\* Less(x, y): x < y as numbers.  A counter of two words of w bits, the low one
\* first, as n < 2^w bytes more are counted: the carry is seen by the low word
\* coming out less than it was.
Less(x, y) == \E i \in y \ x : \A j \in x \ y : j < i
Carried(w, len, lo) == <<lo, Plus(w, len[2], IF Less(lo, len[1]) THEN {0} ELSE {})>>
Counted(w, len, n) == Carried(w, len, Plus(w, len[1], OfNum(w, n)))
\* The two words shifted left by three: bytes counted in bits.
Bits(w, len) == <<Shl(w, len[1], 3), Shl(w, len[2], 3) \union Shr(len[1], w - 3)>>
==============================================================================
