------------------------------ MODULE MCModes ------------------------------
(* The modes over bytes of two bits, with units of one to four bytes. *)
EXTENDS Modes, FiniteSetsExt, TLC

MCXor(a, b) == ((a + b) % 2) + 2 * (((a \div 2) + (b \div 2)) % 2)

(* A permutation of the blocks of n bytes: an affine map of the number they *)
(* stand for, with the bytes in reverse order.                              *)
NumberOf(x, n) == MapThenSumSet(LAMBDA k : x[k] * NByte ^ k, 0 .. n - 1)
Digits(v, n) == [k \in 0 .. n - 1 |-> (v \div NByte ^ k) % NByte]
Turned(x, n) == [k \in 0 .. n - 1 |-> x[n - 1 - k]]
MCEnc(x) ==
  LET n == Cardinality(DOMAIN x) IN
  Turned(Digits((7 * NumberOf(x, n) + 3) % NByte ^ n, n), n)

(* 7 * 183 = 1 modulo 256, and modulo every smaller power of four. *)
MCDec(x) ==
  LET n == Cardinality(DOMAIN x) IN
  Digits((183 * (NumberOf(Turned(x, n), n) + NByte ^ n - 3)) % NByte ^ n, n)

(* GCM over the field of 16 elements, with blocks of two bytes of two bits; *)
(* x^4 = x + 1.                                                             *)
G == INSTANCE Gf
BitsOf(x) == UNION {{2 * (1 - k) + j : j \in {j \in {0, 1} : (x[k] \div 2 ^ j) % 2 = 1}} : k \in {0, 1}}
FromBits(s) ==
  [k \in {0, 1} |-> MapThenSumSet(LAMBDA j : IF 2 * (1 - k) + j \in s THEN 2 ^ j ELSE 0, {0, 1})]
MCMul(name, h, x) ==
  FromBits(CASE name = "mul" -> G!mul(4, {3, 2}, BitsOf(h), BitsOf(x))
             [] name = "mul_fl" -> G!mul_fl(4, 2, {3, 2}, BitsOf(h), BitsOf(x)))

(* The product of polynomials, the powers from the fourth on reduced: the   *)
(* sets of powers that have an odd number of sources.                       *)
Reduced == <<{0}, {1}, {2}, {3}, {0, 1}, {1, 2}, {2, 3}>>
MCTimes(x, y) ==
  LET Powers(z) == {3 - b : b \in BitsOf(z)}
      Sources(n) == {p \in Powers(x) \X Powers(y) : n \in Reduced[p[1] + p[2] + 1]} IN
  FromBits({b \in 0 .. 3 : Cardinality(Sources(3 - b)) % 2 = 1})

(* Any block that tells lengths apart will do. *)
MCLenBlock(a, n) == [k \in {0, 1} |-> ((IF k = 0 THEN a ELSE n) * 3) % NByte]

Gcm(taglen, mul) ==
  [mode |-> "gcm", blksize |-> 2, feedback |-> 2, taglen |-> taglen, mul |-> mul, drop |-> 0]
MCIvLens(c) == IF c.mode = "gcm" THEN {1, 3} ELSE {c.blksize}
MCAadBytes == [i \in Aad |-> (i + 1) % NByte]

Cfg(mode, blksize, feedback) ==
  [mode |-> mode, blksize |-> blksize, feedback |-> feedback, taglen |-> 0, mul |-> "none",
   drop |-> 0]

(* Keystreams: numbers modulo 16, whose digits are the bytes. *)
Stream(mode, size, drop) == [Cfg(mode, size, size) EXCEPT !.drop = drop]
MCGenStates == 0 .. 15
MCExpand(v) == (v[0] + 4 * v[1] + 5) % 16
MCMix(g, v) == (3 * g + 4 * v[0] + v[1] + 1) % 16
MCAdvance(g) == (5 * g + 7) % 16
MCYield(n, g) == [k \in 0 .. n - 1 |-> (g \div 4 + k * g) % 4]
MCCore(n, v, d) == [k \in 0 .. n - 1 |-> (v[k] + d * (k + 1) + 1) % 4]
MCRc4Key == 0 :> 2 @@ 1 :> 7

(* With Align = 2, blocks of 1 and 2 stand for those of 8 and 16 bytes. *)
MCConfigs ==
  {Cfg("cfb", 1, 1), Cfg("cfb", 2, 2), Cfg("cfb", 3, 3), Cfg("cfb", 3, 2), Cfg("cfb", 3, 1),
   Cfg("ofb", 1, 1), Cfg("ofb", 2, 2), Cfg("ofb", 3, 3),
   Cfg("ctr", 1, 1), Cfg("ctr", 2, 2), Cfg("ctr", 3, 3),
   Cfg("cbc", 1, 1), Cfg("cbc", 2, 2), Cfg("cbc", 3, 3),
   Gcm(2, "mul"), Gcm(1, "mul_fl"),
   Stream("salsa20", 2, 0), Stream("hc", 3, 0), Stream("sosemanuk", 2, 0),
   Stream("rabbit", 3, 0), Stream("rc4", 4, 0), Stream("rc4", 4, 2), Stream("rc4", 4, 5)}
CfbConfigs == {Cfg("cfb", 3, 3)}
CtrConfigs == {Cfg("ctr", 2, 2)}

(* The counter wraps on its way through the message. *)
MCIVs == {[k \in Cells |-> 3], [k \in Cells |-> (2 * k + 1) % 4]}
MCNewIVs == {[k \in Cells |-> IF k = 0 THEN 1 ELSE 3]}
NoIVs == {}
MCMessages == {[i \in Idx |-> <<2, 0, 3, 1, 1, 3, 0, 2, 3, 3, 1, 0>>[i + 1]]}
=============================================================================
