------------------------------ MODULE Rijndael ------------------------------
(***************************************************************************)
(* Rijndael with blocks and keys of 16, 20, 24, 28 and 32 bytes,           *)
(* src/impl/block/rijndael/rijndael.cc.  Encryption works on bytes in      *)
(* memory order, decryption on four rows held as words of m_bc bits; each  *)
(* has its own copy of the round keys (m_rkb and m_rk).                    *)
(*                                                                         *)
(* nb is the number of columns of the block.  A context is [nr, rk]: the   *)
(* number of rounds and the round keys, each four rows, byte i of a row    *)
(* being that of column i.                                                 *)
(***************************************************************************)
EXTENDS Gf

MaxOf(a, b) == IF a > b THEN a ELSE b
rcon(i) == LET p[j \in 0 .. 29] == IF j = 0 THEN {0} ELSE mul0x2(p[j-1]) IN p[i]

Et0(x) == PackLE(<<mul0x2(x), x, x, mul0x3(x)>>)
Et1(x) == PackLE(<<mul0x3(x), mul0x2(x), x, x>>)
Et2(x) == PackLE(<<x, mul0x3(x), mul0x2(x), x>>)
Et3(x) == PackLE(<<x, x, mul0x3(x), mul0x2(x)>>)
Et(n, x) == CASE n = 0 -> Et0(x) [] n = 1 -> Et1(x) [] n = 2 -> Et2(x) [] n = 3 -> Et3(x)

\* tk is the key as columns of four bytes; one pass of the while loop.  Every
\* column is added to the one before it: the last one of tk, rotated and
\* substituted, before the first.
SubColumn(p, n) == SubSeq([i \in 1 .. 4 |-> S(p[((i - 1 + n) % 4) + 1])], 1, 4)
Plus4(p, q) == SubSeq(XorSeq(p, q), 1, 4)
NextTk(tk, ri) ==
    LET nk == Len(tk)
        go[t \in Seq(Seq(Byte))] ==
            LET j == Len(t) + 1
            IN  IF j > nk THEN t
                ELSE go[Append(t, Plus4(tk[j],
                        CASE j = 1 -> Plus4(SubColumn(tk[nk], 1), <<rcon(ri), {}, {}, {}>>)
                          [] nk > 6 /\ j = 5 -> SubColumn(t[4], 0)
                          [] OTHER -> t[j-1]))]
    IN  go[<<>>]

\* Columns 0 .. (nr+1)*nb-1 of the key schedule.
Columns(tk, n) ==
    LET go[ri \in 0 .. 29, cols \in Seq(Seq(Byte))] ==
            IF Len(cols) >= n THEN SubSeq(cols, 1, n)
            ELSE go[ri+1, cols \o NextTk(SubSeq(cols, Len(cols) - Len(tk) + 1, Len(cols)), ri)]
    IN  go[0, tk]

\* The columns as round keys of four rows.
RoundKeys(nb, nr, cols) ==
    LET row(n, i) == UNION {{8*(j-1) + b : b \in cols[n*nb + j][i]} : j \in 1 .. nb}
        key(n) == SubSeq([i \in 1 .. 4 |-> row(n, i)], 1, 4)
    IN  SubSeq([n \in 1 .. nr+1 |-> key(n - 1)], 1, nr + 1)

SetKey(nb, key) ==
    LET nk == Len(key) \div 4
        nr == 6 + MaxOf(nb, nk)
        tk == SubSeq([j \in 1 .. nk |-> SubSeq(key, 4*j - 3, 4*j)], 1, nk)
    IN  [nr |-> nr, rk |-> RoundKeys(nb, nr, Columns(tk, (nr+1) * nb))]

------------------------------------------------------------------------------
\* By how many columns row r is shifted, for nb columns.
shifts0(nb) == CASE nb <= 6 -> <<0, 1, 2, 3>> [] nb = 7 -> <<0, 1, 2, 4>> [] nb = 8 -> <<0, 1, 3, 4>>
shifts1(nb) == CASE nb = 4 -> <<0, 3, 2, 1>> [] nb = 5 -> <<0, 4, 3, 2>> [] nb = 6 -> <<0, 5, 4, 3>>
                 [] nb = 7 -> <<0, 6, 5, 3>> [] nb = 8 -> <<0, 7, 5, 4>>

\* The byte of the state, or of a round key, at row r and column c (from 0), as
\* the index macros of the code find it: the round keys are big endian words.
StateByte(buf, r, c) == buf[4*c + r + 1]
KeyByte(rk, r, c) == GetByte(rk[r+1], c)
Sub(nb, buf, rk, r, c) ==
    LET d == (c + shifts0(nb)[r+1]) % nb
    IN  S(Xor(StateByte(buf, r, d), KeyByte(rk, r, d)))

\* R128R for every column, and R128F for every byte.
Round(nb, buf, rk) ==
    LET col(c) == UnpackLE(4, XorOf([r \in 0 .. 3 |-> Et(r, Sub(nb, buf, rk, r, c))]))
        go[o \in Seq(Byte)] == IF Len(o) = 4*nb THEN o ELSE go[o \o col(Len(o) \div 4)]
    IN  go[<<>>]
Final(nb, buf, rk, rknext) ==
    [x \in 1 .. 4*nb |-> LET r == (x-1) % 4
                             c == (x-1) \div 4
                         IN  Xor(Sub(nb, buf, rk, r, c), KeyByte(rknext, r, c))]

Encrypt(nb, k, in) ==
    LET go[i \in 1 .. 14, p \in Seq(Byte)] ==
            IF i = k.nr THEN Final(nb, p, k.rk[i], k.rk[i+1])
            ELSE go[i+1, Round(nb, p, k.rk[i])]
    IN  SubSeq(go[1, in], 1, 4*nb)

------------------------------------------------------------------------------
KeyAddition(state, rk) == Plus4(state, rk)
\* shift of rijndael.hh: a rotation of m_bc bits.
ShiftRow(nb, state) ==
    LET sh(r) == Rotr(8*nb, state[r], 8 * shifts1(nb)[r])
    IN  <<state[1], sh(2), sh(3), sh(4)>>
ApplyS(nb, r) == UNION {{8*i + b : b \in Si(GetByte(r, i))} : i \in 0 .. nb-1}
Substitution(nb, state) == SubSeq([r \in 1 .. 4 |-> ApplyS(nb, state[r])], 1, 4)
Factor == <<{1, 2, 3}, {0, 1, 3}, {0, 2, 3}, {0, 3}>>       \* 0xe, 0xb, 0xd, 0x9
InvMixColumn(nb, state) ==
    LET out(r, i) == XorOf([n \in 0 .. 3 |-> Mul(Factor[n+1], GetByte(state[((r + n) % 4) + 1], i))])
        row(r) == UNION {{8*i + b : b \in out(r, i)} : i \in 0 .. nb-1}
    IN  SubSeq([r \in 1 .. 4 |-> row(r - 1)], 1, 4)

PackBlock(nb, state) == [x \in 1 .. 4*nb |-> GetByte(state[((x-1) % 4) + 1], (x-1) \div 4)]
UnpackBlock(nb, blk) ==
    LET row(r) == UNION {{8*c + b : b \in blk[4*c + r]} : c \in 0 .. nb-1}
    IN  <<row(1), row(2), row(3), row(4)>>

DecryptBlock(nb, k, state) ==
    LET Undo(s) == ShiftRow(nb, Substitution(nb, s))
        go[i \in 0 .. 14, s \in Seq(Word(64))] ==
            IF i = 0 THEN KeyAddition(s, k.rk[1])
            ELSE go[i-1, Undo(InvMixColumn(nb, KeyAddition(s, k.rk[i+1])))]
    IN  go[k.nr - 1, Undo(KeyAddition(state, k.rk[k.nr + 1]))]
Decrypt(nb, k, in) ==
    SubSeq(PackBlock(nb, DecryptBlock(nb, k, UnpackBlock(nb, in))), 1, 4*nb)
==============================================================================
