--------------------------------- MODULE Gf ---------------------------------
(***************************************************************************)
(* The field of 256 elements behind the tables of Rijndael and its kin.    *)
(* src/impl/block/rijndael/gentable.c generates the multiplication tables  *)
(* of rijndael.cc from a table of logarithms; the tables of aes.cc and     *)
(* aria.cc are given as data.  All are computed here.                      *)
(***************************************************************************)
EXTENDS Words

\* Multiplication by x, and by the constant whose bits are n.
xtime(x) == Xor(Shl(8, x, 1), IF 7 \in x THEN {0, 1, 3, 4} ELSE {})
Combine(n, x, x2, x4) ==
    Xor4(IF 0 \in n THEN x ELSE {}, IF 1 \in n THEN x2 ELSE {},
         IF 2 \in n THEN x4 ELSE {}, IF 3 \in n THEN xtime(x4) ELSE {})
Mul(n, x) == Combine(n, x, xtime(x), xtime(xtime(x)))
mul0x2(x) == xtime(x)
mul0x3(x) == Xor(x, xtime(x))
mul0x9(x) == Mul({0, 3}, x)
mul0xb(x) == Mul({0, 1, 3}, x)
mul0xd(x) == Mul({0, 2, 3}, x)
mul0xe(x) == Mul({1, 2, 3}, x)

\* aLogtable: the powers of 3, from the zeroth.  The code stores them twice to
\* save a reduction modulo 255.
aLogtable == Grow(<<{0}>>, 254, LAMBDA t : mul0x3(t[Len(t)]))

PowerOf(n) == aLogtable[(n % 255) + 1]
Log(x) == CHOOSE i \in 0 .. 254 : PowerOf(i) = x
Inverse_(x) == IF x = {} THEN {} ELSE PowerOf(255 - Log(x))

\* The substitution box of Rijndael, its inverse, and the second box of ARIA
\* with its inverse, as tables from 1 to 256.
Affine(y) == Xor(Xor3(y, Rotl(8, y, 1), Rotl(8, y, 2)),
                 Xor3(Rotl(8, y, 3), Rotl(8, y, 4), {0, 1, 5, 6}))
Tabulate(n, f(_)) == Grow(<<>>, n, LAMBDA t : f(OfNum(8, Len(t))))
SBox == Tabulate(256, LAMBDA x : Affine(Inverse_(x)))
SiBox == Tabulate(256, LAMBDA x : OfNum(8, (CHOOSE i \in 1 .. 256 : SBox[i] = x) - 1))
S(x) == SBox[NumByte(x) + 1]
Si(x) == SiBox[NumByte(x) + 1]

------------------------------------------------------------------------------
\* GCM, src/impl/mode/gcm.cc: a field of 2^w elements (w = 128), the first
\* coefficient in the highest bit; R is what a bit that falls off at the end
\* puts back, 0xe1 << 120.

\* v, and how it goes on; powers(v)[i] is v times the i-th power of x.
Halved(R, v) == Xor(Shr(v, 1), IF 0 \in v THEN R ELSE {})
powers(w, R, v) == LET p[i \in 0 .. w - 1] == IF i = 0 THEN v ELSE Halved(R, p[i - 1]) IN p

\* mul, bit by bit of h.
mul(w, R, h, x) ==
    LET p == powers(w, R, x)
        z[i \in 0 .. w] == IF i = 0 THEN {}
                           ELSE Xor(z[i - 1], IF w - i \in h THEN p[i - 1] ELSE {})
    IN  z[w]

\* gen_table_fl: for the i-th byte, of n bits, what every value of it contributes.
\* The powers of two come from h, the sums from the entries before them.
Highest(y) == CHOOSE j \in y : \A k \in y : k <= j
gen_table_fl(w, n, R, h) ==
    LET p == powers(w, R, h)
        row(i) == LET t[y \in Word(n)] ==
                          IF y = {} THEN {}
                          ELSE IF y = {Highest(y)} THEN p[n * i + n - 1 - Highest(y)]
                          ELSE Xor(t[{Highest(y)}], t[y \ {Highest(y)}])
                  IN  t
    IN  [i \in 0 .. (w \div n) - 1 |-> row(i)]

\* mul_fl: one entry for every byte.
mul_fl(w, n, R, h, x) ==
    LET t == gen_table_fl(w, n, R, h)
        a[i \in 0 .. w \div n] ==
            IF i = 0 THEN {} ELSE Xor(a[i - 1], t[i - 1][Field(x, w - n * i, n)])
    IN  a[w \div n]
==============================================================================
