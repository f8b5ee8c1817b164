----------------------------- MODULE ModesProofs -----------------------------
(***************************************************************************)
(* Theorems about the block cipher modes and the stream ciphers, for every *)
(* cipher, generator, block size, feedback and message: their types; that  *)
(* however a message is cut into calls, every byte is the one the          *)
(* definition gives; and that what the tag of GCM is made of is the data   *)
(* and the ciphertext.                                                     *)
(***************************************************************************)
EXTENDS Modes, Arithmetic, TLAPS

Area == [Cells -> Byte]
Blocks == [Block0 -> Byte]
Text == [Idx -> Byte]

----------------------------------------------------------------------------
(* RC4: permutations of n values, and the bytes drawn from them. *)

Perms(n) == [s : [0 .. n-1 -> 0 .. n-1], i : 0 .. n-1, j : 0 .. n-1]
Drawn(n) == [byte : 0 .. n-1, ks : Perms(n)]

LEMMA Remainder ==
  ASSUME NEW n \in Nat \ {0}, NEW a \in Nat
  PROVE  a % n \in 0 .. n-1
OBVIOUS

LEMMA PermOf ==
  ASSUME NEW n, NEW s \in [0 .. n-1 -> 0 .. n-1], NEW i \in 0 .. n-1, NEW j \in 0 .. n-1
  PROVE  [s |-> s, i |-> i, j |-> j] \in Perms(n)
<1> DEFINE A == [0 .. n-1 -> 0 .. n-1]
           B == 0 .. n-1
<1>1. Perms(n) = [s : A, i : B, j : B] BY DEF Perms
<1>2. s \in A /\ i \in B /\ j \in B OBVIOUS
<1> HIDE DEF A, B
<1> QED BY <1>1, <1>2

LEMMA Swapped ==
  ASSUME NEW n \in Nat \ {0}, NEW s \in [0 .. n-1 -> 0 .. n-1], NEW a \in 0 .. n-1, NEW b \in 0 .. n-1
  PROVE  Swap(s, a, b) \in [0 .. n-1 -> 0 .. n-1]
BY DEF Swap

LEMMA ByteDrawn ==
  ASSUME NEW n \in Nat \ {0}, NEW k \in Perms(n), NEW i \in 0 .. n-1
  PROVE  ByteAt(n, k, i) \in Drawn(n)
<1> DEFINE j == (k.j + k.s[i]) % n
           s == Swap(k.s, i, j)
<1>1. k.j \in 0 .. n-1 /\ k.s \in [0 .. n-1 -> 0 .. n-1] /\ k.i \in 0 .. n-1 BY DEF Perms
<1>2. k.j + k.s[i] \in Nat
  <2>1. k.j \in Nat /\ k.s[i] \in Nat BY <1>1
  <2> QED BY <2>1
<1>3. j \in 0 .. n-1 BY <1>2, Remainder
<1>4. s \in [0 .. n-1 -> 0 .. n-1] BY <1>1, <1>3, Swapped
<1> HIDE DEF j
<1>5. s[i] + s[j] \in Nat
  <2>1. s[i] \in 0 .. n-1 /\ s[j] \in 0 .. n-1 BY <1>3, <1>4
  <2> HIDE DEF s
  <2> QED BY <2>1
<1>6. (s[i] + s[j]) % n \in 0 .. n-1 BY <1>5, Remainder
<1> HIDE DEF s
<1>7. s[(s[i] + s[j]) % n] \in 0 .. n-1 BY <1>4, <1>6
<1>8. [k EXCEPT !.s = s, !.j = j] \in Perms(n) BY <1>3, <1>4 DEF Perms
<1>9. ByteAt(n, k, i) = [byte |-> s[(s[i] + s[j]) % n], ks |-> [k EXCEPT !.s = s, !.j = j]]
  BY DEF ByteAt, s, j
<1> QED BY <1>7, <1>8, <1>9 DEF Drawn

LEMMA ValueDrawn ==
  ASSUME NEW n \in Nat \ {0}, NEW k \in Perms(n)
  PROVE  GetValue(n, k) \in Drawn(n)
<1>1. k.i + 1 \in Nat
  <2>1. PICK i : i = k.i OBVIOUS
  <2>2. i \in 0 .. n-1 BY <2>1, Zenon DEF Perms
  <2>3. i \in Nat BY <2>2
  <2> QED BY <2>1, <2>3
<1>2. (k.i + 1) % n \in 0 .. n-1 BY <1>1, Remainder
<1>3. [k EXCEPT !.i = (k.i + 1) % n] \in Perms(n) BY <1>2 DEF Perms
<1> QED BY <1>2, <1>3, ByteDrawn DEF GetValue

LEMMA ValuesDrawn ==
  ASSUME NEW n \in Nat \ {0}, NEW m \in Nat, NEW k \in Perms(n)
  PROVE  /\ Values(n, m, k) \in [0 .. m -> Drawn(n)]
         /\ Values(n, m, k)[0] = [byte |-> 0, ks |-> k]
         /\ \A i \in 1 .. m : Values(n, m, k)[i] = GetValue(n, Values(n, m, k)[i-1].ks)
<1> DEFINE a == [byte |-> 0, ks |-> k]
           G == [x \in Drawn(n) \X (1 .. m) |-> GetValue(n, x[1].ks)]
           Is(f) == f = [i \in 0 .. m |-> IF i = 0 THEN a ELSE GetValue(n, f[i-1].ks)]
           v == CHOOSE f : Is(f)
<1>1. a \in Drawn(n) BY DEF Drawn
<1>2. \A i \in 1 .. m : \A d \in Drawn(n) : G[<<d, i>>] = GetValue(n, d.ks) OBVIOUS
<1>a. \A d \in Drawn(n) : GetValue(n, d.ks) \in Drawn(n) BY ValueDrawn DEF Drawn
<1>b. StepsIn(m, Drawn(n), G) BY <1>2, <1>a DEF StepsIn
<1> HIDE DEF a, G
<1>3. PICK f \in [0 .. m -> Drawn(n)] : Recursive(f, m, a, G) BY <1>1, <1>b, Recursion
<1>4. f[0] = a /\ \A i \in 1 .. m : f[i] = GetValue(n, f[i-1].ks)
  <2>1. f[0] = a BY <1>3 DEF Recursive
  <2>2. ASSUME NEW i \in 1 .. m PROVE f[i] = GetValue(n, f[i-1].ks)
    <3>1. f[i-1] \in Drawn(n) BY <1>3
    <3> QED BY <1>2, <1>3, <3>1 DEF Recursive
  <2> QED BY <2>1, <2>2
<1>5. Is(f) BY <1>3, <1>4
<1>6. Is(v) BY <1>5
<1>7. Values(n, m, k) = v BY DEF Values, a
<1> HIDE DEF v
<1>8. v[0] = a /\ \A i \in 1 .. m : v[i] = GetValue(n, v[i-1].ks) BY <1>6
<1>9. \A i \in 1 .. m : v[i-1] \in Drawn(n) => v[i] \in Drawn(n) BY <1>8, <1>a
<1>10. v = [i \in 0 .. m |-> v[i]] BY <1>6
<1>11. v \in [0 .. m -> Drawn(n)] BY <1>1, <1>8, <1>9, <1>10, TypedRecursion
<1> QED BY <1>7, <1>8, <1>11 DEF a

LEMMA FillDrawn ==
  ASSUME NEW n \in Nat \ {0}, NEW k \in Perms(n)
  PROVE  Rc4Fill(n, k).buf \in [0 .. n-1 -> 0 .. n-1] /\ Rc4Fill(n, k).ks \in Perms(n)
<1> DEFINE a == [byte |-> 0, ks |-> k]
           G == [x \in Drawn(n) \X (1 .. n) |-> ByteAt(n, x[1].ks, x[2]-1)]
           Is(f) == f = [i \in 0 .. n |-> IF i = 0 THEN a ELSE ByteAt(n, f[i-1].ks, i-1)]
           v == CHOOSE f : Is(f)
<1>1. a \in Drawn(n) BY DEF Drawn
<1>2. \A i \in 1 .. n : \A d \in Drawn(n) : G[<<d, i>>] = ByteAt(n, d.ks, i-1) OBVIOUS
<1>3. \A i \in 1 .. n : \A d \in Drawn(n) : ByteAt(n, d.ks, i-1) \in Drawn(n)
  <2> TAKE i \in 1 .. n
  <2> TAKE d \in Drawn(n)
  <2>1. i-1 \in 0 .. n-1 /\ d.ks \in Perms(n) BY DEF Drawn
  <2> QED BY <2>1, ByteDrawn
<1>4. StepsIn(n, Drawn(n), G) BY <1>2, <1>3 DEF StepsIn
<1> HIDE DEF a, G
<1>5. PICK f \in [0 .. n -> Drawn(n)] : Recursive(f, n, a, G) BY <1>1, <1>4, Recursion
<1>6. f[0] = a /\ \A i \in 1 .. n : f[i] = ByteAt(n, f[i-1].ks, i-1)
  <2>1. f[0] = a BY <1>5 DEF Recursive
  <2>2. ASSUME NEW i \in 1 .. n PROVE f[i] = ByteAt(n, f[i-1].ks, i-1)
    <3>1. f[i-1] \in Drawn(n) BY <1>5
    <3> QED BY <1>2, <1>5, <3>1 DEF Recursive
  <2> QED BY <2>1, <2>2
<1>7. Is(f) BY <1>5, <1>6
<1>8. Is(v) BY <1>7
<1>9. Rc4Fill(n, k) = [buf |-> [i \in 0 .. n-1 |-> v[i+1].byte], ks |-> v[n].ks] BY DEF Rc4Fill, a
<1> HIDE DEF v
<1>10. v[0] = a /\ \A i \in 1 .. n : v[i] = ByteAt(n, v[i-1].ks, i-1) BY <1>8
<1>11. \A i \in 1 .. n : v[i-1] \in Drawn(n) => v[i] \in Drawn(n) BY <1>3, <1>10
<1>12. v = [i \in 0 .. n |-> v[i]] BY <1>8
<1>13. v \in [0 .. n -> Drawn(n)] BY <1>1, <1>10, <1>11, <1>12, TypedRecursion
<1>14. v[n] \in Drawn(n) /\ \A i \in 0 .. n-1 : v[i+1] \in Drawn(n) BY <1>13
<1>15. v[n].ks \in Perms(n) /\ \A i \in 0 .. n-1 : v[i+1].byte \in 0 .. n-1 BY <1>14 DEF Drawn
<1> QED BY <1>9, <1>15

\* The state of the key schedule.
Keying(n) == [s : [0 .. n-1 -> 0 .. n-1], j : 0 .. n-1]
KeyStep(n, d, i) ==
  LET j == (d.j + d.s[i-1] + Rc4Key[(i-1) % Rc4KeySize]) % n IN [s |-> Swap(d.s, i-1, j), j |-> j]

LEMMA KeyStepType ==
  ASSUME NEW n \in Nat \ {0}, NEW i \in 1 .. n, NEW d \in Keying(n)
  PROVE  KeyStep(n, d, i) \in Keying(n)
<1> DEFINE j == (d.j + d.s[i-1] + Rc4Key[(i-1) % Rc4KeySize]) % n
<1>1. d.j \in Nat /\ d.s \in [0 .. n-1 -> 0 .. n-1] /\ i-1 \in 0 .. n-1 /\ i-1 \in Nat BY DEF Keying
<1>2. d.s[i-1] \in 0 .. n-1 BY <1>1
<1>3. (i-1) % Rc4KeySize \in 0 .. Rc4KeySize-1 BY <1>1, StreamAssumption, Remainder
<1>4. Rc4Key[(i-1) % Rc4KeySize] \in Nat BY <1>3, StreamAssumption
<1>5. d.j + d.s[i-1] + Rc4Key[(i-1) % Rc4KeySize] \in Nat
  <2>1. PICK x \in Nat, y \in Nat : x = d.s[i-1] /\ y = Rc4Key[(i-1) % Rc4KeySize] BY <1>2, <1>4
  <2>2. PICK z \in Nat : z = d.j BY <1>1
  <2>3. z + x + y \in Nat OBVIOUS
  <2> QED BY <2>1, <2>2, <2>3
<1>6. j \in 0 .. n-1 BY <1>5, Remainder
<1>7. KeyStep(n, d, i) = [s |-> Swap(d.s, i-1, j), j |-> j] BY DEF KeyStep
<1> HIDE DEF j
<1>8. Swap(d.s, i-1, j) \in [0 .. n-1 -> 0 .. n-1] BY <1>1, <1>6, Swapped
<1> DEFINE s == Swap(d.s, i-1, j)
<1>9. s \in [0 .. n-1 -> 0 .. n-1] /\ KeyStep(n, d, i) = [s |-> s, j |-> j] BY <1>7, <1>8
<1> HIDE DEF s
<1>10. [s |-> s, j |-> j] \in Keying(n)
  <2> DEFINE A == [0 .. n-1 -> 0 .. n-1]
             B == 0 .. n-1
  <2>1. s \in A /\ j \in B BY <1>6, <1>9
  <2>2. Keying(n) = [s : A, j : B] BY DEF Keying
  <2> HIDE DEF A, B
  <2> QED BY <2>1, <2>2
<1> QED BY <1>9, <1>10

LEMMA Keyed ==
  ASSUME NEW n \in Nat \ {0}
  PROVE  Rc4SetKey(n) \in Perms(n)
<1> DEFINE a == [s |-> [k \in 0 .. n-1 |-> k], j |-> 0]
           G == [x \in Keying(n) \X (1 .. n) |-> KeyStep(n, x[1], x[2])]
           Is(f) == f = [i \in 0 .. n |-> IF i = 0 THEN a ELSE KeyStep(n, f[i-1], i)]
           v == CHOOSE f : Is(f)
<1>1. a \in Keying(n) BY DEF Keying
<1>2. \A i \in 1 .. n : \A d \in Keying(n) : G[<<d, i>>] = KeyStep(n, d, i) OBVIOUS
<1>3. StepsIn(n, Keying(n), G) BY <1>2, KeyStepType DEF StepsIn
<1> HIDE DEF a, G
<1>4. PICK f \in [0 .. n -> Keying(n)] : Recursive(f, n, a, G) BY <1>1, <1>3, Recursion
<1>5. f[0] = a /\ \A i \in 1 .. n : f[i] = KeyStep(n, f[i-1], i)
  <2>1. f[0] = a BY <1>4 DEF Recursive
  <2>2. ASSUME NEW i \in 1 .. n PROVE f[i] = KeyStep(n, f[i-1], i)
    <3>1. f[i-1] \in Keying(n) BY <1>4
    <3> QED BY <1>2, <1>4, <3>1 DEF Recursive
  <2> QED BY <2>1, <2>2
<1>6. Is(f) BY <1>4, <1>5
<1>7. Is(v) BY <1>6
<1>8. Rc4SetKey(n) = [s |-> v[n].s, i |-> 0, j |-> 0] BY DEF Rc4SetKey, KeyStep, a
<1> HIDE DEF v
<1>9. v[0] = a /\ \A i \in 1 .. n : v[i] = KeyStep(n, v[i-1], i) BY <1>7
<1>10. \A i \in 1 .. n : v[i-1] \in Keying(n) => v[i] \in Keying(n) BY <1>9, KeyStepType
<1>11. v = [i \in 0 .. n |-> v[i]] BY <1>7
<1>12. v \in [0 .. n -> Keying(n)] BY <1>1, <1>9, <1>10, <1>11, TypedRecursion
<1>13. v[n] \in Keying(n) BY <1>12
<1>14. v[n].s \in [0 .. n-1 -> 0 .. n-1]
  <2> DEFINE A == [0 .. n-1 -> 0 .. n-1]
             B == 0 .. n-1
  <2>1. Keying(n) = [s : A, j : B] BY DEF Keying
  <2> HIDE DEF A, B
  <2>2. v[n].s \in A BY <1>13, <2>1
  <2> QED BY <2>2 DEF A
<1>15. PICK s \in [0 .. n-1 -> 0 .. n-1] : s = v[n].s BY <1>14
<1>16. PICK z \in 0 .. n-1 : z = 0 OBVIOUS
<1>17. [s |-> s, i |-> z, j |-> z] \in Perms(n) BY PermOf
<1> QED BY <1>8, <1>15, <1>16, <1>17

----------------------------------------------------------------------------
(* Arrays. *)

\* What is known of the context's parameters.
LEMMA Parameters ==
  ASSUME cf \in Configs
  PROVE  /\ Align \in Nat \ {0} /\ NByte \in Nat \ {0, 1} /\ FastBuf \in Nat \ {0}
         /\ MaxLen \in Nat \ {0} /\ MaxAad \in Nat /\ CtrBytes \in 1 .. Align-1
         /\ cf.blksize \in Nat \ {0} /\ cf.blksize <= 2 * Align /\ unit \in 1 .. cf.blksize
         /\ cf.mode \in Modes /\ (cf.mode # "cfb" => unit = cf.blksize)
         /\ cf.mode = "gcm" => cf.blksize = Align /\ cf.taglen \in 1 .. Align
         /\ cf.mode = "rc4" => cf.blksize <= NByte /\ cf.drop \in Nat
         /\ IvLens(cf) \subseteq 1 .. 2 * Align
         /\ cf.mode # "gcm" => IvLens(cf) = {cf.blksize}
         /\ leftover = cf.blksize - unit /\ leftover \in Nat
BY SizesAssumption, ConfigsAssumption DEF unit, leftover

LEMMA OverType ==
  ASSUME NEW f \in Area, NEW n \in Int, NEW g, \A k \in Cells : k < n => g[k] \in Byte
  PROVE  Over(f, g, n) \in Area
BY DEF Area, Over

LEMMA AtType ==
  ASSUME cf \in Configs, NEW f \in Area, NEW o \in Nat, o + cf.blksize <= 2 * Align
  PROVE  At(f, o) \in Blocks
<1> SUFFICES ASSUME NEW k \in Block0 PROVE f[o + k] \in Byte BY DEF At, Blocks
<1>1. o + k \in Cells BY Parameters DEF Block0, Cells
<1> QED BY <1>1 DEF Area

LEMMA AtText ==
  ASSUME cf \in Configs, NEW f \in Text, NEW o \in Nat, o + cf.blksize <= MaxLen
  PROVE  At(f, o) \in Blocks
<1> SUFFICES ASSUME NEW k \in Block0 PROVE f[o + k] \in Byte BY DEF At, Blocks
<1>1. o + k \in Idx BY Parameters DEF Block0, Idx
<1> QED BY <1>1 DEF Text

LEMMA OverBlock ==
  ASSUME cf \in Configs, NEW f \in Area, NEW g \in Blocks
  PROVE  Over(f, g, cf.blksize) \in Area
<1>1. \A k \in Cells : k < cf.blksize => k \in Block0 BY Parameters DEF Cells, Block0
<1>2. \A k \in Cells : k < cf.blksize => g[k] \in Byte BY <1>1 DEF Blocks
<1> QED BY <1>2, OverType, Parameters

LEMMA CipherType ==
  ASSUME cf \in Configs, NEW x \in Blocks
  PROVE  Enc(x) \in Blocks /\ Dec(x) \in Blocks
BY CipherAssumption DEF Blocks, Block0

LEMMA XorType ==
  ASSUME NEW x \in Blocks, NEW y \in Blocks
  PROVE  XorBlock(x, y) \in Blocks
BY XorAssumption DEF XorBlock, Blocks

LEMMA ZeroType ==
  ASSUME cf \in Configs
  PROVE  ZeroBlock \in Blocks /\ 0 \in Byte
BY Parameters DEF ZeroBlock, Blocks, Byte

LEMMA PaddedType ==
  ASSUME cf \in Configs, NEW v, NEW n \in Int, NEW o \in Nat, \A k \in 0 .. n-1 : v[k] \in Byte
  PROVE  Padded(v, n, o) \in Blocks
<1> SUFFICES ASSUME NEW k \in Block0 PROVE (IF o + k < n THEN v[o + k] ELSE 0) \in Byte
  BY DEF Padded, Blocks
<1>1. k \in Nat BY Parameters DEF Block0
<1> QED BY <1>1, ZeroType

----------------------------------------------------------------------------
(* GHASH. *)

LEMMA HashType ==
  ASSUME cf \in Configs, cf.mode = "gcm", NEW x \in Blocks, NEW b \in Blocks
  PROVE  H \in Blocks /\ hash(x, b) \in Blocks
<1>1. H \in Blocks BY ZeroType, CipherType DEF H
<1>2. XorBlock(x, b) \in Blocks BY XorType
<1>3. \A h \in Blocks, y \in Blocks : MulBlock(cf.mul, h, y) \in Blocks
  BY CipherAssumption DEF Blocks, Block0
<1> QED BY <1>1, <1>2, <1>3 DEF hash

\* The values hash_blocks goes through.
Hashing(x, m, f) ==
  CHOOSE acc : acc = [i \in 0 .. m |-> IF i = 0 THEN x ELSE hash(acc[i-1], f[i-1])]

LEMMA HashingType ==
  ASSUME cf \in Configs, cf.mode = "gcm", NEW x \in Blocks, NEW m \in Nat, NEW f,
         \A i \in 0 .. m-1 : f[i] \in Blocks
  PROVE  /\ Hashing(x, m, f) \in [0 .. m -> Blocks]
         /\ Hashing(x, m, f)[0] = x
         /\ \A i \in 1 .. m : Hashing(x, m, f)[i] = hash(Hashing(x, m, f)[i-1], f[i-1])
         /\ hash_blocks(x, m, f) = Hashing(x, m, f)[m]
<1> DEFINE G == [e \in Blocks \X (1 .. m) |-> hash(e[1], f[e[2]-1])]
           Is(a) == a = [i \in 0 .. m |-> IF i = 0 THEN x ELSE hash(a[i-1], f[i-1])]
           v == CHOOSE a : Is(a)
<1>1. \A i \in 1 .. m : \A y \in Blocks : G[<<y, i>>] = hash(y, f[i-1]) OBVIOUS
<1>2. \A i \in 1 .. m : \A y \in Blocks : hash(y, f[i-1]) \in Blocks
  <2> TAKE i \in 1 .. m
  <2>1. f[i-1] \in Blocks OBVIOUS
  <2> QED BY <2>1, HashType
<1>3. StepsIn(m, Blocks, G) BY <1>1, <1>2 DEF StepsIn
<1> HIDE DEF G
<1>4. PICK a \in [0 .. m -> Blocks] : Recursive(a, m, x, G) BY <1>3, Recursion
<1>5. a[0] = x /\ \A i \in 1 .. m : a[i] = hash(a[i-1], f[i-1])
  <2>1. a[0] = x BY <1>4 DEF Recursive
  <2>2. ASSUME NEW i \in 1 .. m PROVE a[i] = hash(a[i-1], f[i-1])
    <3>1. a[i-1] \in Blocks BY <1>4
    <3> QED BY <1>1, <1>4, <3>1 DEF Recursive
  <2> QED BY <2>1, <2>2
<1>6. Is(a) BY <1>4, <1>5
<1>7. Is(v) BY <1>6
<1>8. Hashing(x, m, f) = v BY DEF Hashing
<1> HIDE DEF v
<1>9. v[0] = x /\ \A i \in 1 .. m : v[i] = hash(v[i-1], f[i-1]) BY <1>7
<1>10. \A i \in 1 .. m : v[i-1] \in Blocks => v[i] \in Blocks BY <1>2, <1>9
<1>11. v = [i \in 0 .. m |-> v[i]] BY <1>7
<1>12. v \in [0 .. m -> Blocks] BY <1>9, <1>10, <1>11, TypedRecursion
<1>13. hash_blocks(x, m, f) = Hashing(x, m, f)[m] BY DEF hash_blocks, Hashing
<1> QED BY <1>8, <1>9, <1>12, <1>13

LEMMA HashBlocksType ==
  ASSUME cf \in Configs, cf.mode = "gcm", NEW x \in Blocks, NEW m \in Nat, NEW f,
         \A i \in 0 .. m-1 : f[i] \in Blocks
  PROVE  hash_blocks(x, m, f) \in Blocks
BY HashingType

----------------------------------------------------------------------------
(* What setiv and reset make of an iv. *)

AuthRecord == [y0 : Blocks, x : Blocks, cbuf : Blocks, alen : 0 .. MaxAad, clen : 0 .. MaxLen]

LEMMA HashedType ==
  ASSUME cf \in Configs, cf.mode = "gcm", NEW v \in Area, NEW n \in IvLens(cf)
  PROVE  HashedIv(v, n) \in Blocks /\ LenBlock(0, n) \in Blocks
<1> DEFINE m == (n + cf.blksize - 1) \div cf.blksize
           f == [i \in 0 .. m-1 |-> Padded(v, n, i * cf.blksize)]
<1>1. n \in 1 .. 2 * Align /\ cf.blksize \in Nat \ {0} /\ cf.blksize = Align BY Parameters
<1>2. m \in Nat
  <2>1. PICK a \in Nat : a = n + cf.blksize - 1 BY <1>1
  <2>2. a \div cf.blksize \in Nat BY <1>1, DivisionExists
  <2> QED BY <2>1, <2>2
<1>3. \A i \in 0 .. m-1 : f[i] \in Blocks
  <2> TAKE i \in 0 .. m-1
  <2>1. i * cf.blksize \in Nat BY <1>1, <1>2
  <2>2. \A k \in 0 .. n-1 : v[k] \in Byte BY <1>1 DEF Area, Cells
  <2>3. Padded(v, n, i * cf.blksize) \in Blocks BY <1>1, <2>1, <2>2, PaddedType
  <2> QED BY <2>3
<1>4. LenBlock(0, n) \in Blocks
  <2>1. 0 \in 0 .. MaxAad /\ n \in 0 .. MaxLen + 2 * Align BY <1>1, Parameters
  <2> QED BY <1>1, <2>1, LengthAssumption DEF Blocks, Block0
<1>5. HashedIv(v, n) = hash(hash_blocks(ZeroBlock, m, f), LenBlock(0, n)) BY DEF HashedIv
<1> HIDE DEF m, f
<1>6. hash_blocks(ZeroBlock, m, f) \in Blocks BY <1>2, <1>3, ZeroType, HashBlocksType
<1> QED BY <1>4, <1>5, <1>6, HashType

LEMMA IvType ==
  ASSUME cf \in Configs, cf.mode = "gcm", NEW v \in Area, NEW n \in IvLens(cf)
  PROVE  Y0(v, n) \in Blocks /\ IvBuffer(n) \in Blocks
<1>1. /\ n \in 1 .. 2 * Align /\ cf.blksize \in Nat \ {0}
      /\ NByte \in Nat \ {0, 1} /\ Align \in Nat
  BY Parameters
<1>2. \A k \in 0 .. n-1 : v[k] \in Byte
  <2>1. \A k \in 0 .. n-1 : k \in Cells BY <1>1 DEF Cells
  <2> QED BY <2>1 DEF Area
<1>3. Padded(v, n, 0) \in Blocks BY <1>1, <1>2, PaddedType
<1>4. 1 \in Byte BY <1>1 DEF Byte
<1>5. [Padded(v, n, 0) EXCEPT ![cf.blksize - 1] = 1] \in Blocks BY <1>3, <1>4 DEF Blocks
<1> QED BY <1>5, ZeroType, HashedType DEF Y0, IvBuffer

LEMMA FreshType ==
  ASSUME cf \in Configs, cf.mode = "gcm", NEW v \in Area, NEW n \in IvLens(cf),
         NEW a \in 0 .. MaxAad, NEW c \in 0 .. MaxLen
  PROVE  FreshAuth(v, n, a, c) \in AuthRecord
<1>1. Y0(v, n) \in Blocks /\ ZeroBlock \in Blocks BY IvType, ZeroType
<1>2. 0 \in 0 .. MaxAad /\ 0 \in 0 .. MaxLen BY Parameters
<1> DEFINE A == 0 .. MaxAad
           C == 0 .. MaxLen
           y == Y0(v, n)
           z == ZeroBlock
           d == IF Refused(n) THEN a ELSE 0
           e == IF Refused(n) THEN c ELSE 0
<1>3. d \in A /\ e \in C BY <1>2
<1>4. FreshAuth(v, n, a, c) = [y0 |-> y, x |-> z, cbuf |-> z, alen |-> d, clen |-> e] BY DEF FreshAuth
<1>5. AuthRecord = [y0 : Blocks, x : Blocks, cbuf : Blocks, alen : A, clen : C] BY DEF AuthRecord
<1>6. y \in Blocks /\ z \in Blocks BY <1>1
<1> HIDE DEF A, C, d, e, y, z
<1> QED BY <1>3, <1>4, <1>5, <1>6

LEMMA IvFields ==
  ASSUME cf \in Configs, NEW r \in Area, NEW b \in Area, NEW v \in Area, NEW n \in IvLens(cf)
  PROVE  IvReg(r, v, n) \in Area /\ IvBuf(b, v, n) \in Area
<1>1. n \in Int BY Parameters
<1>2. Over(r, v, n) \in Area /\ Over(b, v, n) \in Area BY <1>1, OverType DEF Area
<1>3. CASE cf.mode = "gcm"
  <2>1. Over(r, Y0(v, n), cf.blksize) \in Area /\ Over(b, IvBuffer(n), cf.blksize) \in Area
    BY <1>3, IvType, OverBlock
  <2> QED BY <1>3, <2>1 DEF IvReg, IvBuf
<1>4. CASE cf.mode # "gcm" BY <1>2, <1>4 DEF IvReg, IvBuf
<1> QED BY <1>3, <1>4

----------------------------------------------------------------------------
(* The stream ciphers. *)

SalsaStates == [nonce : Area, ctr : 0 .. NCtr-1]

LEMMA KsTypes ==
  /\ cf.mode = "salsa20" => KsType = SalsaStates
  /\ cf.mode = "rc4" => KsType = Perms(unit)
  /\ cf.mode \in {"hc", "sosemanuk", "rabbit"} => KsType = GenStates
  /\ ~IsStream => KsType = {<<>>}
<1>1. cf.mode \in {"hc", "sosemanuk", "rabbit"} => IsStream /\ cf.mode \notin {"salsa20", "rc4"}
  BY DEF IsStream, StreamModes
<1>2. ~IsStream => cf.mode \notin {"salsa20", "rc4"} BY DEF IsStream, StreamModes
<1> QED BY <1>1, <1>2 DEF KsType, SalsaStates, Perms, Area

LEMMA SalsaState ==
  ASSUME NEW v \in Area, NEW c \in 0 .. NCtr-1
  PROVE  [nonce |-> v, ctr |-> c] \in SalsaStates
<1> DEFINE C == 0 .. NCtr-1
<1>1. c \in C /\ SalsaStates = [nonce : Area, ctr : C] BY DEF SalsaStates
<1> HIDE DEF C
<1> QED BY <1>1

LEMMA StreamMode ==
  ASSUME cf \in Configs, IsStream
  PROVE  /\ cf.mode = "salsa20" \/ cf.mode = "rc4" \/ cf.mode \in {"hc", "sosemanuk", "rabbit"}
         /\ unit = cf.blksize /\ cf.mode \notin {"cfb", "ofb", "ctr", "cbc", "gcm"}
BY Parameters DEF IsStream, StreamModes

LEMMA Rc4ResetType ==
  ASSUME cf \in Configs, cf.mode = "rc4", NEW b \in Area
  PROVE  /\ Rc4Reset(unit, cf.drop, b).buf \in Area
         /\ Rc4Reset(unit, cf.drop, b).left \in 1 .. unit
         /\ Rc4Reset(unit, cf.drop, b).ks \in Perms(unit)
<1> DEFINE n == unit
           at == cf.drop % n
           m == cf.drop + n - at
           run == Values(n, m, Rc4SetKey(n))
<1>1. n \in Nat \ {0} /\ cf.drop \in Nat /\ n <= NByte /\ NByte \in Nat BY Parameters
<1>2. at \in 0 .. n-1 BY <1>1, Remainder
<1>3. m \in Nat BY <1>1, <1>2
<1> HIDE DEF n, m
<1>4. run \in [0 .. m -> Drawn(n)] BY <1>1, <1>3, Keyed, ValuesDrawn
<1> HIDE DEF run, at
<1>5. \A k \in Cells : at <= k /\ k < n => run[cf.drop + k - at + 1].byte \in Byte
  <2> SUFFICES ASSUME NEW k \in Cells, at <= k, k < n
               PROVE  run[cf.drop + k - at + 1].byte \in Byte
    OBVIOUS
  <2>1. cf.drop + k - at + 1 \in 0 .. m BY <1>1, <1>2 DEF m, Cells
  <2>2. run[cf.drop + k - at + 1] \in Drawn(n) BY <1>4, <2>1
  <2>3. run[cf.drop + k - at + 1].byte \in 0 .. n-1 BY <2>2 DEF Drawn
  <2> QED BY <1>1, <2>3 DEF Byte
<1>6. run[m].ks \in Perms(n)
  <2>1. run[m] \in Drawn(n) BY <1>3, <1>4
  <2> QED BY <2>1 DEF Drawn
<1> DEFINE c == [k \in Cells |-> IF at <= k /\ k < n THEN run[cf.drop + k - at + 1].byte ELSE b[k]]
<1>7. c \in Area BY <1>5 DEF Area
<1>8. Rc4Reset(n, cf.drop, b) = [buf |-> c, left |-> n - at, ks |-> run[m].ks]
  <2>1. DOMAIN b = Cells BY DEF Area
  <2> QED BY <2>1 DEF Rc4Reset, run, m, at
<1> HIDE DEF c
<1>9. n - at \in 1 .. n BY <1>1, <1>2
<1> QED BY <1>6, <1>7, <1>8, <1>9 DEF n

LEMMA ResetType ==
  ASSUME cf \in Configs, IsStream, NEW b \in Area, NEW v \in Area
  PROVE  /\ Restarted(b, v).buf \in Area
         /\ Restarted(b, v).left \in 0 .. cf.blksize
         /\ Restarted(b, v).ks \in KsType
         /\ cf.mode # "rc4" => Restarted(b, v).left = 0 /\ Restarted(b, v).buf = b
<1>0. unit = cf.blksize /\ cf.blksize \in Nat BY StreamMode, Parameters
<1>1. CASE cf.mode = "salsa20"
  <2>1. Restarted(b, v) = [buf |-> b, left |-> 0, ks |-> [nonce |-> v, ctr |-> 0]]
    BY <1>1 DEF Restarted, ResetStream
  <2>2. 0 \in 0 .. NCtr-1 BY StreamAssumption
  <2>3. [nonce |-> v, ctr |-> 0] \in SalsaStates BY <2>2, SalsaState
  <2> QED BY <1>0, <1>1, <2>1, <2>3, KsTypes
<1>2. CASE cf.mode = "rc4"
  <2>1. Restarted(b, v) = Rc4Reset(unit, cf.drop, b) BY <1>0, <1>2 DEF Restarted, ResetStream
  <2> QED BY <1>0, <1>2, <2>1, Rc4ResetType, KsTypes
<1>3. CASE cf.mode \in {"hc", "sosemanuk", "rabbit"}
  <2>1. Expand(v) \in GenStates /\ Mix(KeyState, v) \in GenStates BY StreamAssumption DEF Area
  <2>2. \E k \in GenStates : Restarted(b, v) = [buf |-> b, left |-> 0, ks |-> k]
    BY <1>3, <2>1 DEF Restarted, ResetStream
  <2>3. KsType = GenStates BY <1>3, KsTypes
  <2> QED BY <1>0, <1>3, <2>2, <2>3
<1> QED BY <1>1, <1>2, <1>3, StreamMode

LEMMA NonceType ==
  ASSUME cf \in Configs, IsStream, cf.mode # "rc4", ks \in KsType, NEW v \in Area
  PROVE  SetNonce(cf.mode, ks, v) \in KsType
<1>1. CASE cf.mode = "salsa20"
  <2>1. SetNonce(cf.mode, ks, v) = [ks EXCEPT !.nonce = v] BY <1>1 DEF SetNonce
  <2>2. ks \in SalsaStates BY <1>1, KsTypes
  <2>3. [ks EXCEPT !.nonce = v] \in SalsaStates BY <2>2 DEF SalsaStates
  <2> QED BY <1>1, <2>1, <2>3, KsTypes
<1>2. CASE cf.mode \in {"hc", "sosemanuk", "rabbit"}
  <2>1. KsType = GenStates BY <1>2, KsTypes
  <2>2. Expand(v) \in GenStates /\ Mix(ks, v) \in GenStates BY <2>1, StreamAssumption DEF Area
  <2> QED BY <1>2, <2>1, <2>2 DEF SetNonce
<1> QED BY <1>1, <1>2, StreamMode

LEMMA FillType ==
  ASSUME cf \in Configs, IsStream, ks \in KsType
  PROVE  /\ FillBuffer(cf.mode, unit, ks).buf \in Blocks
         /\ FillBuffer(cf.mode, unit, ks).ks \in KsType
<1>0. unit = cf.blksize /\ cf.blksize \in Nat \ {0} BY StreamMode, Parameters
<1>1. CASE cf.mode = "salsa20"
  <2>1. ks \in SalsaStates BY <1>1, KsTypes
  <2>2. FillBuffer(cf.mode, unit, ks) =
        [buf |-> Core(unit, ks.nonce, ks.ctr), ks |-> [ks EXCEPT !.ctr = (@ + 1) % NCtr]]
    BY <1>1 DEF FillBuffer
  <2>3. ks.nonce \in Area /\ ks.ctr \in 0 .. NCtr-1 BY <2>1 DEF SalsaStates
  <2>4. Core(unit, ks.nonce, ks.ctr) \in Blocks
    BY <1>0, <2>3, StreamAssumption DEF Area, Blocks, Block0
  <2>5. (ks.ctr + 1) % NCtr \in 0 .. NCtr-1
    <3>1. ks.ctr + 1 \in Nat /\ NCtr \in Nat \ {0} BY <2>3, StreamAssumption
    <3> QED BY <3>1, Remainder
  <2>6. [ks EXCEPT !.ctr = (@ + 1) % NCtr] \in SalsaStates BY <2>1, <2>5 DEF SalsaStates
  <2> QED BY <1>1, <2>2, <2>4, <2>6, KsTypes
<1>2. CASE cf.mode = "rc4"
  <2>1. FillBuffer(cf.mode, unit, ks) = Rc4Fill(unit, ks) BY <1>2 DEF FillBuffer
  <2>2. ks \in Perms(unit) BY <1>2, KsTypes
  <2>3. /\ Rc4Fill(unit, ks).buf \in [0 .. unit-1 -> 0 .. unit-1]
        /\ Rc4Fill(unit, ks).ks \in Perms(unit)
    BY <1>0, <2>2, FillDrawn
  <2>4. Rc4Fill(unit, ks).buf \in Blocks
    <3>1. cf.blksize <= NByte /\ NByte \in Nat BY <1>2, Parameters
    <3>2. \A k \in 0 .. unit-1 : k \in Byte BY <1>0, <3>1 DEF Byte
    <3> QED BY <1>0, <2>3, <3>2 DEF Blocks, Block0
  <2> QED BY <1>2, <2>1, <2>3, <2>4, KsTypes
<1>3. CASE cf.mode \in {"hc", "sosemanuk", "rabbit"}
  <2>1. KsType = GenStates BY <1>3, KsTypes
  <2>2. Advance(ks) \in GenStates /\ Yield(unit, ks) \in Blocks
    BY <1>0, <2>1, StreamAssumption DEF Blocks, Block0
  <2>3. FillBuffer(cf.mode, unit, ks) = [buf |-> Yield(unit, ks), ks |-> Advance(ks)]
    BY <1>3 DEF FillBuffer
  <2> QED BY <2>1, <2>2, <2>3
<1> QED BY <1>1, <1>2, <1>3, StreamMode

----------------------------------------------------------------------------
(* Counters, and the next unit. *)

LEMMA IncrementType ==
  ASSUME NEW c \in Area, NEW n \in Int
  PROVE  increment_counter(c, n) \in Area /\ gcm_increment(c, n) \in Area
<1>1. \A k \in Cells : (c[k] + 1) % NByte \in Byte
  <2> TAKE k \in Cells
  <2>1. PICK x \in Nat : x = c[k] BY SizesAssumption DEF Area, Byte
  <2>2. (x + 1) % NByte \in 0 .. NByte-1 BY SizesAssumption, Remainder
  <2> QED BY <2>1, <2>2 DEF Byte
<1>2. increment_counter(c, n) \in Area BY <1>1 DEF increment_counter, Area
<1> QED BY <1>2 DEF gcm_increment, Area

LEMMA CountersType ==
  ASSUME cf \in Configs, NEW r \in Area, NEW n \in Nat
  PROVE  /\ Counters(r, n) \in [0 .. n -> Area]
         /\ Counters(r, n)[0] = r
         /\ \A j \in 1 .. n : Counters(r, n)[j] = increment_counter(Counters(r, n)[j-1], cf.blksize)
<1> DEFINE w == cf.blksize
           G == [e \in Area \X (1 .. n) |-> increment_counter(e[1], w)]
           Is(f) == f = [j \in 0 .. n |-> IF j = 0 THEN r ELSE increment_counter(f[j-1], w)]
           v == CHOOSE f : Is(f)
<1>0. w \in Int BY Parameters
<1>1. \A j \in 1 .. n : \A c \in Area : G[<<c, j>>] = increment_counter(c, w) OBVIOUS
<1>2. \A c \in Area : increment_counter(c, w) \in Area BY <1>0, IncrementType
<1>3. StepsIn(n, Area, G) BY <1>1, <1>2 DEF StepsIn
<1>a. Counters(r, n) = v BY DEF Counters
<1> HIDE DEF G, w
<1>4. PICK f \in [0 .. n -> Area] : Recursive(f, n, r, G) BY <1>3, Recursion
<1>5. f[0] = r /\ \A j \in 1 .. n : f[j] = increment_counter(f[j-1], w)
  <2>1. f[0] = r BY <1>4 DEF Recursive
  <2>2. ASSUME NEW j \in 1 .. n PROVE f[j] = increment_counter(f[j-1], w)
    <3>1. f[j-1] \in Area BY <1>4
    <3> QED BY <1>1, <1>4, <3>1 DEF Recursive
  <2> QED BY <2>1, <2>2
<1>6. Is(f) BY <1>4, <1>5
<1>7. Is(v) BY <1>6
<1> HIDE DEF v
<1>8. v[0] = r /\ \A j \in 1 .. n : v[j] = increment_counter(v[j-1], w) BY <1>7
<1>9. \A j \in 1 .. n : v[j-1] \in Area => v[j] \in Area BY <1>2, <1>8
<1>10. v = [j \in 0 .. n |-> v[j]] BY <1>7
<1>11. v \in [0 .. n -> Area] BY <1>8, <1>9, <1>10, TypedRecursion
<1> QED BY <1>a, <1>8, <1>11 DEF w

LEMMA UnitType ==
  ASSUME cf \in Configs, cf.mode # "cbc", reg \in Area, buf \in Area, ks \in KsType
  PROVE  NextUnit.key \in Area /\ NextUnit.reg \in Area
<1>0. cf.blksize \in Nat \ {0} /\ cf.blksize <= 2 * Align /\ unit \in 1 .. cf.blksize BY Parameters
<1>1. \A r \in Area : Over(buf, Enc(At(r, 0)), cf.blksize) \in Area
  <2> TAKE r \in Area
  <2>1. At(r, 0) \in Blocks BY <1>0, AtType
  <2>2. Enc(At(r, 0)) \in Blocks BY <2>1, CipherType
  <2> QED BY <2>2, OverBlock
<1>2. CASE IsStream
  <2>1. FillBuffer(cf.mode, unit, ks).buf \in Blocks BY <1>2, FillType
  <2>2. unit = cf.blksize BY <1>2, StreamMode
  <2>3. Over(buf, FillBuffer(cf.mode, unit, ks).buf, unit) \in Area BY <2>1, <2>2, OverBlock
  <2> QED BY <1>2, <2>3, StreamMode DEF NextUnit, StreamUnit
<1>3. CASE ~IsStream
  <2>1. cf.mode \in {"cfb", "ofb", "ctr", "gcm"}
    BY <1>3, Parameters DEF IsStream, Modes
  <2>2. CASE cf.mode = "cfb"
    <3>1. \A k \in Cells : k < leftover => k + unit \in Cells BY <1>0, Parameters DEF Cells
    <3>2. [k \in Cells |-> IF k < leftover THEN reg[k + unit] ELSE reg[k]] \in Area
      BY <3>1 DEF Area
    <3> QED BY <1>1, <1>3, <2>2, <3>2 DEF NextUnit, CfbUnit
  <2>3. CASE cf.mode = "ofb" BY <1>1, <1>3, <2>3 DEF NextUnit, OfbUnit
  <2>4. CASE cf.mode = "ctr"
    <3>1. increment_counter(reg, cf.blksize) \in Area BY <1>0, IncrementType
    <3> QED BY <1>1, <1>3, <2>4, <3>1 DEF NextUnit, CtrUnit
  <2>5. CASE cf.mode = "gcm"
    <3>1. gcm_increment(reg, cf.blksize) \in Area BY <1>0, IncrementType
    <3> QED BY <1>1, <1>3, <2>5, <3>1 DEF NextUnit, GcmUnit
  <2> QED BY <2>1, <2>2, <2>3, <2>4, <2>5
<1> QED BY <1>2, <1>3

----------------------------------------------------------------------------
(* A piece of a unit. *)

AuthIn(a) == IF cf.mode = "gcm" THEN a \in AuthRecord ELSE a = <<>>

LEMMA AbsorbType ==
  ASSUME cf \in Configs, cf.mode = "gcm", auth \in AuthRecord, pos \in Nat, NEW f \in Text,
         NEW m \in Nat, NEW o \in Nat, pos + m <= MaxLen
  PROVE  Absorb(m, o, f) \in AuthRecord
<1> DEFINE c == [k \in Block0 |-> IF o <= k /\ k < o + m THEN f[pos + k - o] ELSE auth.cbuf[k]]
<1>1. auth.cbuf \in Blocks /\ auth.x \in Blocks BY DEF AuthRecord
<1>2. c \in Blocks
  <2> SUFFICES ASSUME NEW k \in Block0
               PROVE  (IF o <= k /\ k < o + m THEN f[pos + k - o] ELSE auth.cbuf[k]) \in Byte
    BY DEF Blocks
  <2>1. CASE o <= k /\ k < o + m
    <3>1. pos + k - o \in Idx BY <2>1, Parameters DEF Block0, Idx
    <3> QED BY <2>1, <3>1 DEF Text
  <2>2. CASE ~ (o <= k /\ k < o + m) BY <1>1, <2>2 DEF Blocks
  <2> QED BY <2>1, <2>2
<1>3. hash(auth.x, c) \in Blocks BY <1>1, <1>2, HashType
<1>4. Absorb(m, o, f) = [auth EXCEPT !.cbuf = IF m = unit THEN @ ELSE c,
                                     !.x = IF o + m = unit THEN hash(@, c) ELSE @]
  BY DEF Absorb
<1> HIDE DEF c
<1>5. PICK d \in Blocks : d = IF m = unit THEN auth.cbuf ELSE c BY <1>1, <1>2
<1>6. PICK x \in Blocks : x = IF o + m = unit THEN hash(auth.x, c) ELSE auth.x BY <1>1, <1>3
<1>7. Absorb(m, o, f) = [auth EXCEPT !.cbuf = d, !.x = x] BY <1>4, <1>5, <1>6 DEF AuthRecord
<1>8. [auth EXCEPT !.cbuf = d, !.x = x] \in AuthRecord BY DEF AuthRecord
<1> QED BY <1>7, <1>8

LEMMA ConsumeType ==
  ASSUME cf \in Configs, in \in Text, out \in Text, AuthIn(auth), pos \in Nat,
         NEW m \in Nat, NEW b \in Area, NEW o \in Nat, NEW r \in Area,
         o + m <= unit, pos + m <= MaxLen, Consume(m, b, o, r)
  PROVE  out' \in Text /\ pos' = pos + m /\ AuthIn(auth') /\ reg' \in Area /\ buf' \in Area
<1> DEFINE new == [i \in Idx |-> IF pos <= i /\ i < pos + m THEN XorByte(b[o + i - pos], in[i])
                                 ELSE out[i]]
           f == IF dir = "enc" THEN new ELSE in
<1>0. unit \in 1 .. cf.blksize /\ cf.blksize <= 2 * Align /\ cf.blksize \in Nat /\ MaxLen \in Nat
      /\ Align \in Nat
  BY Parameters
<1>1. new \in Text
  <2> SUFFICES ASSUME NEW i \in Idx
               PROVE  (IF pos <= i /\ i < pos + m THEN XorByte(b[o + i - pos], in[i]) ELSE out[i])
                      \in Byte
    BY DEF Text
  <2>1. CASE pos <= i /\ i < pos + m
    <3>1. o + i - pos \in Cells BY <1>0, <2>1 DEF Idx, Cells
    <3>2. b[o + i - pos] \in Byte /\ in[i] \in Byte BY <3>1 DEF Area, Text
    <3> QED BY <2>1, <3>2, XorAssumption
  <2>2. CASE ~ (pos <= i /\ i < pos + m) BY <2>2 DEF Text
  <2> QED BY <2>1, <2>2
<1>2. f \in Text BY <1>1
<1>3. /\ out' = new /\ pos' = pos + m
      /\ auth' = IF cf.mode = "gcm" THEN Absorb(m, o, f) ELSE auth
      /\ reg' = IF cf.mode # "cfb" THEN r
                ELSE [k \in Cells |-> IF leftover + o <= k /\ k < leftover + o + m
                                      THEN f[pos + k - leftover - o] ELSE r[k]]
      /\ buf' = IF cf.mode = "cfb" /\ dir = "enc"
                THEN [k \in Cells |-> IF o <= k /\ k < o + m THEN new[pos + k - o] ELSE b[k]]
                ELSE b
  BY DEF Consume
<1> HIDE DEF new, f
<1>4. AuthIn(auth') BY <1>2, <1>3, AbsorbType DEF AuthIn
<1>5. [k \in Cells |-> IF leftover + o <= k /\ k < leftover + o + m
                       THEN f[pos + k - leftover - o] ELSE r[k]] \in Area
  <2> SUFFICES ASSUME NEW k \in Cells
               PROVE  (IF leftover + o <= k /\ k < leftover + o + m
                       THEN f[pos + k - leftover - o] ELSE r[k]) \in Byte
    BY DEF Area
  <2>1. CASE leftover + o <= k /\ k < leftover + o + m
    <3>1. pos + k - leftover - o \in Idx BY <1>0, <2>1, Parameters DEF Cells, Idx
    <3> QED BY <1>2, <2>1, <3>1 DEF Text
  <2>2. CASE ~ (leftover + o <= k /\ k < leftover + o + m) BY <2>2 DEF Area
  <2> QED BY <2>1, <2>2
<1>6. [k \in Cells |-> IF o <= k /\ k < o + m THEN new[pos + k - o] ELSE b[k]] \in Area
  <2> SUFFICES ASSUME NEW k \in Cells
               PROVE  (IF o <= k /\ k < o + m THEN new[pos + k - o] ELSE b[k]) \in Byte
    BY DEF Area
  <2>1. CASE o <= k /\ k < o + m
    <3>1. pos + k - o \in Idx BY <1>0, <2>1 DEF Cells, Idx
    <3> QED BY <1>1, <2>1, <3>1 DEF Text
  <2>2. CASE ~ (o <= k /\ k < o + m) BY <2>2 DEF Area
  <2> QED BY <2>1, <2>2
<1> QED BY <1>1, <1>3, <1>4, <1>5, <1>6

----------------------------------------------------------------------------
(* The invariant behind TypeOK: the data, the positions, and which of them *)
(* a context of a given mode can be in.                                    *)

Tags == {NoTag} \cup [0 .. cf.taglen - 1 -> Byte]

Data ==
  /\ cf \in Configs /\ dir \in Dirs
  /\ iv \in Area /\ reg \in Area /\ buf \in Area
  /\ ivlen \in IvLens(cf)
  /\ in \in Text /\ out \in Text
  /\ AuthIn(auth) /\ ks \in KsType /\ tag \in Tags

Positions ==
  /\ left \in 0 .. cf.blksize + 1 /\ boff \in -cf.blksize .. unit - 1 /\ pos \in 0 .. MaxLen
  /\ src \in Nat /\ end \in 0 .. MaxLen /\ fin \in {0, 1}
  /\ pc \in {"idle", "head", "body", "cbc", "fast", "final", "done", "undefined"}
  /\ slow \in {0, 1} /\ clean \in {0, 1}

Working == pc \in {"head", "body", "cbc", "fast"}

Calls ==
  /\ Working => pos <= end
  /\ pc = "cbc" => cf.mode = "cbc" /\ (end - pos) % cf.blksize = 0
  /\ pc \in {"head", "body"} => cf.mode # "cbc"
  /\ pc = "fast" =>
       /\ HasFast /\ cf.mode # "cbc"
       /\ (end - pos) % cf.blksize = 0 \/ ~IsStream
       /\ (end - pos) % Align = 0 \/ IsStream
  /\ fin = 1 \/ pc \in {"final", "done"} => cf.mode = "gcm"
  /\ IF IsStream THEN boff = 0 ELSE left = 0

TInv == Data /\ Positions /\ Calls

LEMMA TypeOfTInv == TInv => TypeOK
BY DEF TInv, Data, Positions, TypeOK, AuthIn, AuthRecord, AuthType, Blocks, Area, Text, Tags

\* The configuration is never changed, and so the types are not.
LEMMA SameConfig ==
  ASSUME cf' = cf
  PROVE  /\ unit' = unit /\ leftover' = leftover /\ IsStream' = IsStream /\ HasFast' = HasFast
         /\ Block0' = Block0 /\ Blocks' = Blocks /\ AuthRecord' = AuthRecord
         /\ KsType' = KsType /\ Tags' = Tags
<1>1. unit' = unit /\ leftover' = leftover BY DEF unit, leftover
<1>2. IsStream' = IsStream BY DEF IsStream
<1>3. HasFast' = HasFast BY <1>1, <1>2 DEF HasFast
<1>4. Block0' = Block0 BY DEF Block0
<1>5. Blocks' = Blocks BY <1>4 DEF Blocks
<1>6. AuthRecord' = AuthRecord BY <1>5 DEF AuthRecord
<1>7. KsType' = KsType BY <1>1, <1>2 DEF KsType
<1>8. Tags' = Tags BY DEF Tags
<1> QED BY <1>1, <1>2, <1>3, <1>4, <1>5, <1>6, <1>7, <1>8

LEMMA DataNext ==
  ASSUME Data, cf' = cf, dir' = dir, in' = in, iv' \in Area, ivlen' \in IvLens(cf),
         reg' \in Area, buf' \in Area, out' \in Text,
         AuthIn(auth'), ks' \in KsType, tag' \in Tags
  PROVE  Data'
<1>1. AuthIn(auth)' BY SameConfig DEF AuthIn
<1>2. Area' = Area /\ Text' = Text BY DEF Area, Text
<1> QED BY <1>1, <1>2, SameConfig DEF Data

LEMMA PositionsNext ==
  ASSUME cf' = cf,
         left' \in 0 .. cf.blksize + 1, boff' \in -cf.blksize .. unit - 1, pos' \in 0 .. MaxLen,
         src' \in Nat, end' \in 0 .. MaxLen, fin' \in {0, 1},
         pc' \in {"idle", "head", "body", "cbc", "fast", "final", "done", "undefined"},
         slow' \in {0, 1}, clean' \in {0, 1}
  PROVE  Positions'
BY SameConfig DEF Positions

\* Multiples of n.
LEMMA Multiples ==
  ASSUME NEW n \in Nat \ {0}, NEW a \in Nat, a % n = 0
  PROVE  /\ a # 0 => n <= a
         /\ \A b \in Nat : b <= a /\ b % n = 0 => (a - b) % n = 0
<1>1. PICK q \in Nat, r \in 0 .. n-1 : q = a \div n /\ r = a % n /\ a = n*q + r BY DivisionExists
<1>2. a = n*q BY <1>1
<1>3. ASSUME a # 0 PROVE n <= a
  <2>1. q # 0 BY <1>2, <1>3
  <2>2. n*1 <= n*q BY <2>1, TimesMonotonic
  <2> QED BY <1>2, <2>2
<1>4. ASSUME NEW b \in Nat, b <= a, b % n = 0 PROVE (a - b) % n = 0
  <2>1. PICK p \in Nat, t \in 0 .. n-1 : p = b \div n /\ t = b % n /\ b = n*p + t BY DivisionExists
  <2>2. b = n*p BY <1>4, <2>1
  <2>3. n*(q - p) = n*q - n*p OBVIOUS
  <2>4. PICK d \in Int : d = n*(q - p) OBVIOUS
  <2>5. a - b = d + 0 BY <1>2, <2>2, <2>3, <2>4
  <2>6. (n*(q - p) + 0) % n = 0 BY Division
  <2> QED BY <2>4, <2>5, <2>6
<1> QED BY <1>3, <1>4

\* The chunks of a fast call: n bytes after another n are a whole number of units.
LEMMA NextChunk ==
  ASSUME NEW n \in Nat \ {0}, NEW p \in Nat, NEW e \in Nat, p <= e, p # e, (e - p) % n = 0
  PROVE  p + n <= e /\ (e - (p + n)) % n = 0
<1>1. PICK a \in Nat : a = e - p OBVIOUS
<1>2. n <= a BY <1>1, Multiples
<1>3. n % n = 0
  <2>1. (n*1 + 0) % n = 0 BY Division
  <2> QED BY <2>1
<1>4. (a - n) % n = 0 BY <1>1, <1>2, <1>3, Multiples
<1>5. a - n = e - (p + n) BY <1>1
<1> QED BY <1>1, <1>2, <1>4, <1>5

----------------------------------------------------------------------------
(* Each action keeps the types. *)

LEMMA InitTyped == Init => TInv
<1> SUFFICES ASSUME Init PROVE TInv OBVIOUS
<1>1. PICK g \in Byte :
        LET old == [k \in Cells |-> g] IN
        /\ reg = IvReg(old, iv, ivlen)
        /\ buf = IF IsStream THEN Restarted(old, iv).buf ELSE IvBuf(old, iv, ivlen)
        /\ ks = IF IsStream THEN Restarted(old, iv).ks ELSE <<>>
        /\ left = IF IsStream THEN Restarted(old, iv).left ELSE 0
  BY DEF Init
<1> DEFINE old == [k \in Cells |-> g]
<1>2. old \in Area BY DEF Area
<1>3. cf \in Configs /\ dir \in Dirs /\ iv \in Area /\ in \in Text /\ ivlen \in IvLens(cf)
  BY DataAssumption DEF Init, Area, Text
<1>4. /\ reg = IvReg(old, iv, ivlen)
      /\ buf = IF IsStream THEN Restarted(old, iv).buf ELSE IvBuf(old, iv, ivlen)
      /\ ks = IF IsStream THEN Restarted(old, iv).ks ELSE <<>>
      /\ left = IF IsStream THEN Restarted(old, iv).left ELSE 0
  BY <1>1
<1> HIDE DEF old
<1>5. reg \in Area BY <1>2, <1>3, <1>4, IvFields
<1>6. buf \in Area /\ ks \in KsType /\ left \in 0 .. cf.blksize + 1 /\ (~IsStream => left = 0)
  <2>1. cf.blksize \in Nat BY <1>3, Parameters
  <2>2. CASE IsStream
    <3>1. /\ Restarted(old, iv).buf \in Area /\ Restarted(old, iv).left \in 0 .. cf.blksize
          /\ Restarted(old, iv).ks \in KsType
      BY <1>2, <1>3, <2>2, ResetType
    <3>2. left \in 0 .. cf.blksize BY <1>4, <2>2, <3>1
    <3> QED BY <1>4, <2>1, <2>2, <3>1, <3>2
  <2>3. CASE ~IsStream
    <3>1. buf = IvBuf(old, iv, ivlen) /\ ks = <<>> /\ left = 0 BY <1>4, <2>3
    <3>2. IvBuf(old, iv, ivlen) \in Area BY <1>2, <1>3, IvFields
    <3>3. ks \in KsType BY <2>3, <3>1, KsTypes
    <3> QED BY <2>1, <3>1, <3>2, <3>3
  <2> QED BY <2>2, <2>3
<1>7. AuthIn(auth)
  <2>1. CASE cf.mode = "gcm"
    <3>1. auth = FreshAuth(iv, ivlen, 0, 0) BY <2>1 DEF Init
    <3>2. 0 \in 0 .. MaxAad /\ 0 \in 0 .. MaxLen BY <1>3, Parameters
    <3> QED BY <1>3, <2>1, <3>1, <3>2, FreshType DEF AuthIn
  <2>2. CASE cf.mode # "gcm" BY <2>2 DEF Init, AuthIn
  <2> QED BY <2>1, <2>2
<1>8. out \in Text BY <1>3, ZeroType DEF Init, Text
<1>9. Data BY <1>3, <1>5, <1>6, <1>7, <1>8 DEF Data, Init, Tags
<1>10. Positions
  <2>1. unit \in 1 .. cf.blksize /\ cf.blksize \in Nat /\ MaxLen \in Nat BY <1>3, Parameters
  <2>2. 0 \in 0 .. MaxLen /\ 0 \in -cf.blksize .. unit - 1 BY <2>1
  <2> QED BY <1>6, <2>2 DEF Init, Positions
<1>11. Calls BY <1>6 DEF Init, Calls, Working
<1> QED BY <1>9, <1>10, <1>11 DEF TInv

LEMMA LoadIvType ==
  ASSUME Data, NEW v \in Area, NEW n \in IvLens(cf), LoadIv(v, n)
  PROVE  reg' \in Area /\ AuthIn(auth')
<1>1. reg' \in Area BY IvFields DEF LoadIv, Data
<1>2. CASE cf.mode = "gcm"
  <2>1. auth \in AuthRecord BY <1>2 DEF Data, AuthIn
  <2>2. auth.alen \in 0 .. MaxAad /\ auth.clen \in 0 .. MaxLen BY <2>1 DEF AuthRecord
  <2> QED BY <1>1, <1>2, <2>2, FreshType DEF LoadIv, AuthIn, Data
<1>3. CASE cf.mode # "gcm" BY <1>1, <1>3 DEF LoadIv, Data, AuthIn
<1> QED BY <1>2, <1>3

\* What a new message does to the types.
LEMMA NewMessageType ==
  ASSUME TInv, NewMessage, iv' \in Area, ivlen' \in IvLens(cf), reg' \in Area, buf' \in Area,
         AuthIn(auth'), ks' \in KsType, left' \in 0 .. cf.blksize + 1, clean' \in {0, 1},
         boff' \in {0, boff}, ~IsStream => left' = 0
  PROVE  TInv'
<1>1. /\ cf' = cf /\ dir' = dir /\ in' = in /\ src' = src /\ end' = end /\ fin' = fin
      /\ pos' = 0 /\ slow' = 0 /\ out' = [i \in Idx |-> 0] /\ tag' = NoTag /\ pc' = "idle"
  BY DEF NewMessage, callVars
<1>2. out' \in Text /\ tag' \in Tags /\ cf \in Configs
  BY <1>1, ZeroType DEF TInv, Data, Text, Tags
<1>3. Data' BY <1>1, <1>2, DataNext DEF TInv
<1>4. boff' \in -cf.blksize .. unit - 1 /\ pos' \in 0 .. MaxLen
  BY <1>1, <1>2, Parameters DEF TInv, Positions
<1>5. Positions' BY <1>1, <1>4, PositionsNext DEF TInv, Positions
<1>6. Calls' BY <1>1, SameConfig DEF TInv, Calls, Working
<1> QED BY <1>3, <1>5, <1>6 DEF TInv

LEMMA SetIvTyped ==
  ASSUME TInv, NEW v \in NewIVs, NEW n \in IvLens(cf), SetIv(v, n)
  PROVE  TInv'
<1>1. v \in Area BY DataAssumption DEF Area
<1>2. Data /\ LoadIv(v, n) /\ NewMessage /\ cf.mode # "rc4" BY DEF TInv, SetIv
<1>3. reg' \in Area /\ AuthIn(auth') BY <1>1, <1>2, LoadIvType
<1>4. buf' \in Area
  <2>1. buf' = IvBuf(buf, v, n) BY DEF SetIv
  <2> QED BY <1>1, <1>2, <2>1, IvFields DEF Data
<1>5. ks' \in KsType
  <2>1. ks' = IF IsStream THEN SetNonce(cf.mode, ks, v) ELSE ks BY DEF SetIv
  <2> QED BY <1>1, <1>2, <2>1, NonceType DEF Data
<1>6. iv' = v /\ ivlen' = n /\ boff' = boff /\ left' = left /\ clean' \in {0, 1} BY DEF SetIv
<1>7. left' \in 0 .. cf.blksize + 1 /\ (~IsStream => left' = 0)
  BY <1>6 DEF TInv, Positions, Calls
<1> QED BY <1>1, <1>2, <1>3, <1>4, <1>5, <1>6, <1>7, NewMessageType

LEMMA ResetTyped ==
  ASSUME TInv, Reset
  PROVE  TInv'
<1>1. Data /\ iv \in Area /\ ivlen \in IvLens(cf) /\ buf \in Area /\ cf \in Configs /\ ks \in KsType
  BY DEF TInv, Data
<1>2. /\ LoadIv(iv, ivlen) /\ NewMessage /\ Restart /\ iv' = iv /\ ivlen' = ivlen
      /\ boff' \in {0, boff} /\ clean' \in {0, 1}
  BY DEF Reset
<1>3. reg' \in Area /\ AuthIn(auth') BY <1>1, <1>2, LoadIvType
<1>4. buf' \in Area /\ ks' \in KsType /\ left' \in 0 .. cf.blksize + 1 /\ (~IsStream => left' = 0)
  <2>0. cf.blksize \in Nat BY <1>1, Parameters
  <2>1. CASE IsStream
    <3>1. /\ Restarted(buf, iv).buf \in Area /\ Restarted(buf, iv).left \in 0 .. cf.blksize
          /\ Restarted(buf, iv).ks \in KsType
      BY <1>1, <2>1, ResetType
    <3>2. /\ buf' = Restarted(buf, iv).buf /\ ks' = Restarted(buf, iv).ks
          /\ left' = Restarted(buf, iv).left
      BY <1>2, <2>1 DEF Restart
    <3>3. left' \in 0 .. cf.blksize BY <3>1, <3>2
    <3> QED BY <2>0, <2>1, <3>1, <3>2, <3>3
  <2>2. CASE ~IsStream
    <3>1. buf' = IvBuf(buf, iv, ivlen) /\ ks' = ks /\ left' = left
      BY <1>2, <2>2 DEF Restart, streamVars
    <3>2. left = 0 BY <2>2 DEF TInv, Calls
    <3>3. IvBuf(buf, iv, ivlen) \in Area BY <1>1, IvFields
    <3> QED BY <1>1, <2>0, <3>1, <3>2, <3>3
  <2> QED BY <2>1, <2>2
<1> QED BY <1>1, <1>2, <1>3, <1>4, NewMessageType

LEMMA CloneTyped ==
  ASSUME TInv, Clone
  PROVE  TInv'
<1>1. PICK g \in Byte : buf' = [k \in Cells |-> g] BY DEF Clone
<1>2. buf' \in Area BY <1>1 DEF Area
<1>3. /\ pc = "idle" /\ cf.mode = "salsa20" /\ left' \in 0 .. cf.blksize + 1 /\ clean' = 0
      /\ cf' = cf /\ dir' = dir /\ iv' = iv /\ ivlen' = ivlen /\ in' = in /\ reg' = reg
      /\ boff' = boff /\ auth' = auth /\ ks' = ks /\ tag' = tag /\ out' = out /\ pos' = pos
      /\ src' = src /\ end' = end /\ fin' = fin /\ pc' = pc /\ slow' = slow
  BY DEF Clone, msgVars, callVars
<1>4. Data' BY <1>2, <1>3, DataNext DEF TInv, Data
<1>5. Positions' BY <1>3, PositionsNext DEF TInv, Positions
<1>6. IsStream BY <1>3 DEF IsStream, StreamModes
<1>7. Calls' BY <1>3, <1>6, SameConfig DEF TInv, Calls, Working
<1> QED BY <1>4, <1>5, <1>7 DEF TInv

LEMMA SetDataTyped ==
  ASSUME TInv, NEW n \in 0 .. MaxAad, SetData(n)
  PROVE  TInv'
<1> DEFINE m == n \div cf.blksize
           f == [i \in 0 .. m |-> Padded(AadBytes, n, i * cf.blksize)]
<1>1. /\ pc = "idle" /\ cf.mode = "gcm"
      /\ auth' = [auth EXCEPT !.alen = n, !.x = hash_blocks(ZeroBlock, m + 1, f)]
      /\ buf' = Over(buf, f[m], cf.blksize)
      /\ clean' \in {0, clean}
      /\ cf' = cf /\ dir' = dir /\ iv' = iv /\ ivlen' = ivlen /\ in' = in /\ reg' = reg
      /\ boff' = boff /\ ks' = ks /\ left' = left /\ tag' = tag /\ out' = out /\ pos' = pos
      /\ src' = src /\ end' = end /\ fin' = fin /\ pc' = pc /\ slow' = slow
  BY DEF SetData, msgVars, callVars, streamVars
<1>2. cf \in Configs /\ buf \in Area /\ cf.blksize \in Nat \ {0} /\ n \in Nat /\ auth \in AuthRecord
      /\ MaxAad \in Nat
  BY <1>1, Parameters DEF TInv, Data, AuthIn
<1>3. m \in Nat BY <1>2, DivisionExists
<1>4. \A i \in 0 .. m : f[i] \in Blocks
  <2> TAKE i \in 0 .. m
  <2>1. i * cf.blksize \in Nat BY <1>2, <1>3
  <2>2. \A k \in 0 .. n-1 : AadBytes[k] \in Byte BY <1>2, DataAssumption DEF Aad
  <2>3. Padded(AadBytes, n, i * cf.blksize) \in Blocks BY <1>2, <2>1, <2>2, PaddedType
  <2> QED BY <2>3
<1> HIDE DEF m, f
<1>5. hash_blocks(ZeroBlock, m + 1, f) \in Blocks
  <2>1. \A i \in 0 .. (m + 1) - 1 : f[i] \in Blocks BY <1>3, <1>4
  <2>2. m + 1 \in Nat BY <1>3
  <2> QED BY <1>1, <1>2, <2>1, <2>2, ZeroType, HashBlocksType
<1>6. AuthIn(auth')
  <2>1. PICK x \in Blocks : x = hash_blocks(ZeroBlock, m + 1, f) BY <1>5
  <2>2. [auth EXCEPT !.alen = n, !.x = x] \in AuthRecord BY <1>2 DEF AuthRecord
  <2> QED BY <1>1, <2>1, <2>2 DEF AuthIn
<1>7. buf' \in Area
  <2>1. f[m] \in Blocks BY <1>3, <1>4
  <2> QED BY <1>1, <1>2, <2>1, OverBlock
<1>8. Data' BY <1>1, <1>6, <1>7, DataNext DEF TInv, Data
<1>9. Positions' BY <1>1, PositionsNext DEF TInv, Positions
<1>10. Calls' BY <1>1, SameConfig DEF TInv, Calls, Working
<1> QED BY <1>8, <1>9, <1>10 DEF TInv

LEMMA CountedType ==
  ASSUME Data, NEW n \in Nat, Fits(n)
  PROVE  AuthIn(Counted(n))
<1>1. CASE cf.mode = "gcm"
  <2>1. auth \in AuthRecord BY <1>1 DEF Data, AuthIn
  <2>2. auth.clen \in Nat /\ auth.clen + n <= MaxLen BY <1>1, <2>1 DEF Fits, AuthRecord
  <2>3. PICK c \in 0 .. MaxLen : c = auth.clen + n
    <3>1. MaxLen \in Nat BY Parameters DEF Data
    <3> QED BY <2>2, <3>1
  <2>4. [auth EXCEPT !.clen = c] \in AuthRecord BY <2>1 DEF AuthRecord
  <2>5. Counted(n) = [auth EXCEPT !.clen = c] BY <1>1, <2>3 DEF Counted
  <2> QED BY <1>1, <2>4, <2>5 DEF AuthIn
<1>2. CASE cf.mode # "gcm" BY <1>2 DEF Counted, AuthIn, Data
<1> QED BY <1>1, <1>2

LEMMA CallTyped ==
  ASSUME TInv, NEW n \in 0 .. MaxCall, NEW f \in {0, 1}, Call(n, f)
  PROVE  TInv'
<1>1. /\ pc = "idle" /\ Fits(n) /\ (cf.mode = "cbc" => n % cf.blksize = 0)
      /\ (f = 1 => cf.mode = "gcm")
      /\ end' = pos + n /\ src' = pos /\ fin' = f /\ auth' = Counted(n) /\ slow' = 1
      /\ pc' = IF cf.mode = "cbc" THEN "cbc" ELSE IF boff # 0 \/ left # 0 THEN "head" ELSE "body"
      /\ cf' = cf /\ dir' = dir /\ iv' = iv /\ ivlen' = ivlen /\ in' = in /\ reg' = reg
      /\ buf' = buf /\ boff' = boff /\ ks' = ks /\ left' = left /\ tag' = tag /\ out' = out
      /\ pos' = pos /\ clean' = clean
  BY DEF Call, msgVars, ctxVars, streamVars
<1>2. Data /\ n \in Nat BY SizesAssumption DEF TInv
<1>3. pos \in Nat /\ pos + n <= MaxLen /\ MaxLen \in Nat
  BY <1>1, SizesAssumption DEF TInv, Positions, Fits
<1>4. Data' BY <1>1, <1>2, CountedType, DataNext DEF Data
<1>5. Positions' BY <1>1, <1>2, <1>3, PositionsNext DEF TInv, Positions
<1>6. Calls'
  <2>1. (pos + n) - pos = n BY <1>2, <1>3
  <2>2. pos <= pos + n BY <1>2, <1>3
  <2>3. pc' # "fast" /\ pc' # "final" /\ pc' # "done" BY <1>1
  <2>4. pc' = "cbc" <=> cf.mode = "cbc" BY <1>1
  <2>5. (end' - pos') = n BY <1>1, <2>1
  <2> HIDE DEF HasFast
  <2> QED BY <1>1, <2>2, <2>3, <2>4, <2>5, SameConfig DEF TInv, Calls, Working
<1> QED BY <1>4, <1>5, <1>6 DEF TInv

LEMMA FastCallTyped ==
  ASSUME TInv, NEW n \in 0 .. MaxFast, FastCall(n)
  PROVE  TInv'
<1>1. /\ pc = "idle" /\ Fits(n) /\ n % Align = 0 /\ n % cf.blksize = 0
      /\ end' = pos + n /\ src' = pos /\ fin' = 0 /\ auth' = Counted(n) /\ slow' = slow
      /\ pc' = (IF cf.mode = "cbc" THEN "cbc" ELSE IF HasFast THEN "fast"
                ELSE IF boff # 0 \/ left # 0 THEN "head" ELSE "body")
      /\ cf' = cf /\ dir' = dir /\ iv' = iv /\ ivlen' = ivlen /\ in' = in /\ reg' = reg
      /\ buf' = buf /\ boff' = boff /\ ks' = ks /\ left' = left /\ tag' = tag /\ out' = out
      /\ pos' = pos /\ clean' \in {0, clean}
  BY DEF FastCall, msgVars, ctxVars, streamVars
<1>2. Data /\ n \in Nat BY SizesAssumption DEF TInv
<1>3. pos \in Nat /\ pos + n <= MaxLen /\ MaxLen \in Nat
  BY <1>1, SizesAssumption DEF TInv, Positions, Fits
<1>4. Data' BY <1>1, <1>2, CountedType, DataNext DEF Data
<1>5. Positions' BY <1>1, <1>2, <1>3, PositionsNext DEF TInv, Positions
<1>6. Calls'
  <2>1. (pos + n) - pos = n BY <1>2, <1>3
  <2>2. pos <= pos + n BY <1>2, <1>3
  <2>3. pc' # "final" /\ pc' # "done" BY <1>1
  <2>4. pc' = "cbc" <=> cf.mode = "cbc" BY <1>1
  <2>5. pc' = "fast" => HasFast /\ cf.mode # "cbc" BY <1>1
  <2>6. end' - pos' = n BY <1>1, <2>1
  <2> QED BY <1>1, <2>2, <2>3, <2>4, <2>5, <2>6, SameConfig DEF TInv, Calls, Working
<1> QED BY <1>4, <1>5, <1>6 DEF TInv

\* The call ends: what Return, Tail and an undefined Head leave of it.
LEMMA DoneCalls ==
  ASSUME TInv, cf' = cf, pc' \in {"idle", "undefined"} \/ (fin = 1 /\ pc' = "final"),
         fin' \in {0, fin}, IF IsStream THEN boff' = 0 ELSE left' = 0
  PROVE  Calls'
<1>1. ~Working' /\ pc' \notin {"cbc", "head", "body", "fast", "done"} BY DEF Working
<1>2. fin' = 1 \/ pc' = "final" => cf.mode = "gcm" BY DEF TInv, Calls
<1> QED BY <1>1, <1>2, SameConfig DEF Calls

LEMMA ReturnTyped ==
  ASSUME TInv, Return
  PROVE  TInv'
<1>1. /\ pc' = (IF fin = 1 THEN "final" ELSE "idle") /\ end' = 0 /\ src' = 0 /\ fin' = 0
      /\ clean' \in {0, clean}
      /\ cf' = cf /\ dir' = dir /\ iv' = iv /\ ivlen' = ivlen /\ in' = in /\ reg' = reg
      /\ buf' = buf /\ boff' = boff /\ auth' = auth /\ ks' = ks /\ left' = left /\ tag' = tag
      /\ out' = out /\ pos' = pos /\ slow' = slow
  BY DEF Return, Done, msgVars, ctxVars, streamVars
<1>2. Data' BY <1>1, DataNext DEF TInv, Data
<1>3. 0 \in 0 .. MaxLen BY SizesAssumption
<1>4. Positions' BY <1>1, <1>3, PositionsNext DEF TInv, Positions
<1>5. Calls' BY <1>1, DoneCalls DEF TInv, Positions, Calls
<1> QED BY <1>2, <1>4, <1>5 DEF TInv

LEMMA HeadOutsideTyped ==
  ASSUME TInv, HeadOutside
  PROVE  TInv'
<1>1. /\ pc' = "undefined" /\ end' = end /\ src' = src /\ fin' = fin
      /\ clean' = clean
      /\ cf' = cf /\ dir' = dir /\ iv' = iv /\ ivlen' = ivlen /\ in' = in /\ reg' = reg
      /\ buf' = buf /\ boff' = boff /\ auth' = auth /\ ks' = ks /\ left' = left /\ tag' = tag
      /\ out' = out /\ pos' = pos /\ slow' = slow
  BY DEF HeadOutside, msgVars, ctxVars, streamVars, callVars
<1>2. Data' BY <1>1, DataNext DEF TInv, Data
<1>3. Positions' BY <1>1, PositionsNext DEF TInv, Positions
<1>4. Calls' BY <1>1, DoneCalls DEF TInv, Positions, Calls
<1> QED BY <1>2, <1>3, <1>4 DEF TInv

\* The bytes a step takes are there, and in their place.
LEMMA Room ==
  ASSUME TInv, Working
  PROVE  /\ cf \in Configs /\ in \in Text /\ out \in Text /\ AuthIn(auth) /\ reg \in Area /\ buf \in Area
         /\ ks \in KsType /\ iv \in Area
         /\ pos \in Nat /\ end \in Nat /\ pos <= end /\ end <= MaxLen
         /\ unit \in Nat \ {0} /\ cf.blksize \in Nat \ {0} /\ MaxLen \in Nat
BY Parameters DEF TInv, Data, Positions, Calls

\* The types after a piece of m bytes.
LEMMA PieceData ==
  ASSUME TInv, Working, NEW m \in Nat, NEW b \in Area, NEW o \in Nat, NEW r \in Area,
         o + m <= unit, pos + m <= end, Consume(m, b, o, r),
         cf' = cf, dir' = dir, in' = in, iv' = iv, ivlen' = ivlen, tag' = tag, ks' \in KsType
  PROVE  Data' /\ pos' = pos + m /\ pos' \in 0 .. MaxLen /\ pos' <= end
<1>1. pos + m <= MaxLen /\ pos + m \in 0 .. MaxLen BY Room
<1>2. out' \in Text /\ pos' = pos + m /\ AuthIn(auth') /\ reg' \in Area /\ buf' \in Area
  BY <1>1, Room, ConsumeType
<1>3. Data' BY <1>2, DataNext DEF TInv, Data
<1> QED BY <1>1, <1>2, <1>3

LEMMA LesserIs ==
  ASSUME NEW m \in Int, NEW n \in Int
  PROVE  Lesser(m, n) \in {m, n} /\ Lesser(m, n) <= m /\ Lesser(m, n) <= n
BY DEF Lesser

LEMMA HeadTyped ==
  ASSUME TInv, Head
  PROVE  TInv'
<1> DEFINE b == Lesser(unit - boff, end - pos)
<1>1. /\ pc = "head" /\ boff > 0
      /\ Consume(b, buf, boff, reg)
      /\ boff' = (IF cf.mode = "cfb" /\ dir = "dec" THEN boff - b
                  ELSE IF boff + b = unit THEN 0 ELSE boff + b)
      /\ pc' = "body" /\ cf' = cf /\ dir' = dir /\ iv' = iv /\ ivlen' = ivlen /\ in' = in
      /\ ks' = ks /\ left' = left /\ tag' = tag /\ src' = src /\ end' = end /\ fin' = fin
      /\ slow' = slow /\ clean' = clean
  BY DEF Head, msgVars, streamVars, callVars
<1>2. Working BY <1>1 DEF Working
<1>3. boff \in 1 .. unit - 1 /\ unit <= cf.blksize /\ unit \in Nat
  BY <1>1, Parameters DEF TInv, Data, Positions
<1>4. b \in Nat /\ b <= unit - boff /\ b <= end - pos BY <1>2, <1>3, Room, LesserIs
<1> HIDE DEF b
<1>5. boff \in Nat /\ boff + b <= unit /\ pos + b <= end BY <1>2, <1>3, <1>4, Room
<1>6. ks' \in KsType /\ buf \in Area /\ reg \in Area BY <1>1, <1>2, Room
<1>7. Data' /\ pos' \in 0 .. MaxLen /\ pos' <= end BY <1>1, <1>2, <1>4, <1>5, <1>6, PieceData
<1>8. boff' \in -cf.blksize .. unit - 1 BY <1>1, <1>3, <1>4, <1>2, Room
<1>9. Positions' BY <1>1, <1>7, <1>8, PositionsNext DEF TInv, Positions
<1>10. Calls'
  <2>1. ~IsStream BY <1>3 DEF TInv, Calls
  <2> QED BY <1>1, <1>7, <2>1, SameConfig DEF TInv, Calls, Working
<1> QED BY <1>7, <1>9, <1>10 DEF TInv

LEMMA StreamHeadTyped ==
  ASSUME TInv, StreamHead
  PROVE  TInv'
<1> DEFINE o == (unit - left) % unit
           b == Lesser(left, end - pos)
<1>1. /\ pc = "head" /\ left \in 1 .. unit
      /\ Consume(b, buf, o, reg)
      /\ left' = (unit - ((o + b) % unit)) % unit
      /\ clean' \in {0, clean}
      /\ pc' = "body" /\ cf' = cf /\ dir' = dir /\ iv' = iv /\ ivlen' = ivlen /\ in' = in
      /\ ks' = ks /\ boff' = boff /\ tag' = tag /\ src' = src /\ end' = end /\ fin' = fin
      /\ slow' = slow
  BY DEF StreamHead, msgVars, callVars
<1>2. Working /\ IsStream BY <1>1 DEF Working, TInv, Calls
<1>3. unit \in Nat \ {0} /\ unit <= cf.blksize /\ cf.blksize \in Nat BY Parameters DEF TInv, Data
<1>4. b \in Nat /\ b <= left /\ b <= end - pos BY <1>1, <1>2, Room, LesserIs
<1>5. o \in Nat /\ o + left <= unit
  <2>1. CASE left = unit
    <3>1. o = 0 BY <1>3, <2>1
    <3> QED BY <1>3, <2>1, <3>1
  <2>2. CASE left # unit
    <3>1. unit - left \in 0 .. unit - 1 BY <1>1, <1>3, <2>2
    <3>2. (unit*0 + (unit - left)) % unit = unit - left BY <1>3, <3>1, Division
    <3>3. o = unit - left BY <1>3, <3>1, <3>2
    <3> QED BY <1>1, <1>3, <3>1, <3>3
  <2> QED BY <2>1, <2>2
<1> HIDE DEF b, o
<1>6. o + b <= unit /\ pos + b <= end BY <1>1, <1>3, <1>4, <1>5, <1>2, Room
<1>7. ks' \in KsType /\ buf \in Area /\ reg \in Area BY <1>1, <1>2, Room
<1>8. Data' /\ pos' \in 0 .. MaxLen /\ pos' <= end BY <1>1, <1>2, <1>4, <1>5, <1>6, <1>7, PieceData
<1>9. left' \in 0 .. cf.blksize + 1
  <2>1. PICK x \in Nat : x = o + b BY <1>4, <1>5
  <2>2. x % unit \in 0 .. unit - 1 BY <1>3, <2>1, Remainder
  <2>3. PICK y \in 1 .. unit : y = unit - (x % unit) BY <1>3, <2>2
  <2>4. y % unit \in 0 .. unit - 1 BY <1>3, <2>3, Remainder
  <2> QED BY <1>1, <1>3, <2>1, <2>3, <2>4
<1>10. Positions' BY <1>1, <1>8, <1>9, PositionsNext DEF TInv, Positions
<1>11. Calls' BY <1>1, <1>2, <1>8, SameConfig DEF TInv, Calls, Working
<1> QED BY <1>8, <1>10, <1>11 DEF TInv

\* The generator and the next block of keystream.
LEMMA FilledType ==
  ASSUME TInv, Working, cf.mode # "cbc", Filled
  PROVE  ks' \in KsType /\ clean' \in {0, clean} /\ NextUnit.key \in Area /\ NextUnit.reg \in Area
BY Room, UnitType, FillType DEF Filled

LEMMA BlockTyped ==
  ASSUME TInv, Block
  PROVE  TInv'
<1> DEFINE key == NextUnit.key
           r == NextUnit.reg
<1>1. /\ pc = "body" /\ end - pos >= unit
      /\ Consume(unit, key, 0, r) /\ Filled
      /\ pc' = pc /\ cf' = cf /\ dir' = dir /\ iv' = iv /\ ivlen' = ivlen /\ in' = in
      /\ left' = left /\ boff' = boff /\ tag' = tag /\ src' = src /\ end' = end /\ fin' = fin
      /\ slow' = slow
  BY DEF Block, msgVars, callVars
<1>2. Working /\ cf.mode # "cbc" BY <1>1 DEF Working, TInv, Calls
<1>3. ks' \in KsType /\ clean' \in {0, clean} /\ key \in Area /\ r \in Area
  BY <1>1, <1>2, FilledType
<1>4. unit \in Nat /\ 0 + unit <= unit /\ pos + unit <= end BY <1>1, <1>2, Room
<1> HIDE DEF key, r
<1>5. Data' /\ pos' \in 0 .. MaxLen /\ pos' <= end BY <1>1, <1>2, <1>3, <1>4, PieceData
<1>6. Positions' BY <1>1, <1>3, <1>5, PositionsNext DEF TInv, Positions
<1>7. Calls' BY <1>1, <1>2, <1>5, SameConfig DEF TInv, Calls, Working
<1> QED BY <1>5, <1>6, <1>7 DEF TInv

LEMMA TailTyped ==
  ASSUME TInv, Tail
  PROVE  TInv'
<1> DEFINE key == NextUnit.key
           r == NextUnit.reg
           m == end - pos
<1>1. /\ pc = "body" /\ m < unit
      /\ Consume(m, key, 0, r) /\ Filled
      /\ IF IsStream THEN left' = unit - m /\ boff' = boff ELSE boff' = m /\ left' = left
      /\ pc' = (IF fin = 1 THEN "final" ELSE "idle") /\ end' = 0 /\ src' = 0 /\ fin' = 0
      /\ cf' = cf /\ dir' = dir /\ iv' = iv /\ ivlen' = ivlen /\ in' = in /\ tag' = tag
      /\ slow' = slow
  BY DEF Tail, Done, msgVars
<1>2. Working /\ cf.mode # "cbc" BY <1>1 DEF Working, TInv, Calls
<1>3. ks' \in KsType /\ clean' \in {0, clean} /\ key \in Area /\ r \in Area
  BY <1>1, <1>2, FilledType
<1>4. m \in Nat /\ unit \in Nat /\ 0 + m <= unit /\ pos + m <= end BY <1>1, <1>2, Room
<1> HIDE DEF key, r
<1>5. Data' /\ pos' \in 0 .. MaxLen BY <1>1, <1>2, <1>3, <1>4, PieceData
<1>6. unit <= cf.blksize /\ cf.blksize \in Nat /\ 0 \in 0 .. MaxLen
  BY Parameters DEF TInv, Data
<1>7. left' \in 0 .. cf.blksize + 1 /\ boff' \in -cf.blksize .. unit - 1
  <2>1. CASE IsStream
    <3>1. left' = unit - m /\ boff' = boff BY <1>1, <2>1
    <3>2. unit - m \in 0 .. cf.blksize + 1 BY <1>1, <1>4, <1>6
    <3> QED BY <3>1, <3>2 DEF TInv, Positions
  <2>2. CASE ~IsStream
    <3>1. left' = left /\ boff' = m BY <1>1, <2>2
    <3>2. m \in -cf.blksize .. unit - 1 BY <1>1, <1>4, <1>6
    <3> QED BY <3>1, <3>2 DEF TInv, Positions
  <2> QED BY <2>1, <2>2
<1>8. Positions' BY <1>1, <1>3, <1>5, <1>6, <1>7, PositionsNext DEF TInv, Positions
<1>9. IF IsStream THEN boff' = 0 ELSE left' = 0 BY <1>1 DEF TInv, Calls
<1>10. fin \in {0, 1} BY DEF TInv, Positions
<1>11. Calls' BY <1>1, <1>9, <1>10, DoneCalls
<1> QED BY <1>5, <1>8, <1>11 DEF TInv

LEMMA StreamFastTyped ==
  ASSUME TInv, StreamFast
  PROVE  TInv'
<1> DEFINE key == NextUnit.key
           r == NextUnit.reg
<1>1. /\ pc = "fast" /\ pos # end /\ IsStream
      /\ Consume(unit, key, 0, r) /\ Filled
      /\ pc' = pc /\ cf' = cf /\ dir' = dir /\ iv' = iv /\ ivlen' = ivlen /\ in' = in
      /\ left' = left /\ boff' = boff /\ tag' = tag /\ src' = src /\ end' = end /\ fin' = fin
      /\ slow' = slow
  BY DEF StreamFast, msgVars, callVars
<1>2. Working /\ cf.mode # "cbc" /\ (end - pos) % cf.blksize = 0
  BY <1>1 DEF Working, TInv, Calls
<1>3. ks' \in KsType /\ clean' \in {0, clean} /\ key \in Area /\ r \in Area
  BY <1>1, <1>2, FilledType
<1>4. unit = cf.blksize BY <1>1, <1>2, Room, StreamMode
<1>5. pos + unit <= end /\ (end - (pos + unit)) % cf.blksize = 0
  BY <1>1, <1>2, <1>4, Room, NextChunk
<1>6. unit \in Nat /\ 0 + unit <= unit BY <1>2, Room
<1> HIDE DEF key, r
<1>7. Data' /\ pos' \in 0 .. MaxLen /\ pos' <= end /\ pos' = pos + unit
  BY <1>1, <1>2, <1>3, <1>5, <1>6, PieceData
<1>8. Positions' BY <1>1, <1>3, <1>7, PositionsNext DEF TInv, Positions
<1>9. Calls' BY <1>1, <1>2, <1>5, <1>7, SameConfig DEF TInv, Calls, Working
<1> QED BY <1>7, <1>8, <1>9 DEF TInv

LEMMA CbcBlockTyped ==
  ASSUME TInv, CbcBlock
  PROVE  TInv'
<1> DEFINE x == At(in, pos)
           y == IF dir = "enc" THEN Enc([k \in Block0 |-> XorByte(reg[k], x[k])])
                ELSE [k \in Block0 |-> XorByte(Dec(x)[k], reg[k])]
<1>1. /\ pc = "cbc" /\ pos # end
      /\ out' = [i \in Idx |-> IF pos <= i /\ i < pos + cf.blksize THEN y[i - pos] ELSE out[i]]
      /\ reg' = Over(reg, IF dir = "enc" THEN y ELSE x, cf.blksize)
      /\ pos' = pos + cf.blksize
      /\ pc' = pc /\ cf' = cf /\ dir' = dir /\ iv' = iv /\ ivlen' = ivlen /\ in' = in
      /\ buf' = buf /\ boff' = boff /\ auth' = auth /\ ks' = ks /\ left' = left
      /\ tag' = tag /\ src' = src /\ end' = end /\ fin' = fin /\ slow' = slow /\ clean' = clean
  BY DEF CbcBlock, msgVars, callVars, streamVars
<1>2. Working /\ cf.mode = "cbc" /\ (end - pos) % cf.blksize = 0 BY <1>1 DEF Working, TInv, Calls
<1>3. pos + cf.blksize <= end /\ (end - (pos + cf.blksize)) % cf.blksize = 0
  BY <1>1, <1>2, Room, NextChunk
<1>4. x \in Blocks BY <1>2, <1>3, Room, AtText
<1>5. y \in Blocks
  <2>1. Block0 \subseteq Cells BY <1>2, Room, Parameters DEF Block0, Cells
  <2>2. \A k \in Block0 : reg[k] \in Byte BY <1>2, <2>1, Room DEF Area
  <2>3. [k \in Block0 |-> XorByte(reg[k], x[k])] \in Blocks
    BY <1>4, <2>2, XorAssumption DEF Blocks
  <2>4. Dec(x) \in Blocks BY <1>2, <1>4, Room, CipherType
  <2>5. [k \in Block0 |-> XorByte(Dec(x)[k], reg[k])] \in Blocks
    BY <2>2, <2>4, XorAssumption DEF Blocks
  <2>6. Enc([k \in Block0 |-> XorByte(reg[k], x[k])]) \in Blocks BY <1>2, <2>3, Room, CipherType
  <2> QED BY <2>5, <2>6
<1> HIDE DEF x, y
<1>6. reg' \in Area
  <2>1. Over(reg, x, cf.blksize) \in Area /\ Over(reg, y, cf.blksize) \in Area
    BY <1>2, <1>4, <1>5, Room, OverBlock
  <2> QED BY <1>1, <2>1
<1>7. out' \in Text
  <2> SUFFICES ASSUME NEW i \in Idx
               PROVE  (IF pos <= i /\ i < pos + cf.blksize THEN y[i - pos] ELSE out[i]) \in Byte
    BY <1>1 DEF Text
  <2>1. CASE pos <= i /\ i < pos + cf.blksize
    <3>1. i - pos \in Block0 BY <1>2, <2>1, Room DEF Block0, Idx
    <3> QED BY <1>5, <2>1, <3>1 DEF Blocks
  <2>2. CASE ~ (pos <= i /\ i < pos + cf.blksize) BY <1>2, <2>2, Room DEF Text
  <2> QED BY <2>1, <2>2
<1>8. Data' BY <1>1, <1>6, <1>7, DataNext DEF TInv, Data
<1>9. pos' \in 0 .. MaxLen /\ pos' <= end BY <1>1, <1>2, <1>3, Room
<1>10. Positions' BY <1>1, <1>9, PositionsNext DEF TInv, Positions
<1>11. Calls' BY <1>1, <1>2, <1>3, <1>9, SameConfig DEF TInv, Calls, Working
<1> QED BY <1>8, <1>10, <1>11 DEF TInv

\* One turn of a fast function of a block mode.
Turn == Lesser(FastBuf, end - pos)

LEMMA TurnSize ==
  ASSUME TInv, pc = "fast", pos # end, ~IsStream
  PROVE  /\ Turn \in Nat /\ Turn % Align = 0 /\ Align <= Turn
         /\ pos + Turn <= end /\ (end - (pos + Turn)) % Align = 0
         /\ pos + Align <= end /\ (end - (pos + Align)) % Align = 0
<1>1. Working /\ (end - pos) % Align = 0 BY DEF Working, TInv, Calls
<1>2. Align \in Nat \ {0} /\ FastBuf \in Nat \ {0} /\ FastBuf % Align = 0 BY SizesAssumption
<1>3. PICK a \in Nat \ {0} : a = end - pos BY <1>1, Room
<1>4. a % Align = 0 BY <1>1, <1>3
<1>5. Align <= a /\ Align <= FastBuf BY <1>2, <1>4, Multiples
<1>6. PICK x \in {FastBuf, a} : x = Turn /\ x <= a BY <1>2, <1>3, LesserIs DEF Turn
<1>7. x \in Nat /\ x % Align = 0 BY <1>2, <1>4, <1>6
<1>8. (a - x) % Align = 0 BY <1>2, <1>4, <1>6, <1>7, Multiples
<1>9. a - x = end - (pos + x) /\ pos + x <= end BY <1>1, <1>3, <1>6, <1>7, Room
<1>10. pos + Align <= end /\ (end - (pos + Align)) % Align = 0 BY <1>1, <1>2, Room, NextChunk
<1> QED BY <1>5, <1>6, <1>7, <1>8, <1>9, <1>10

LEMMA FastModes ==
  ASSUME cf \in Configs, HasFast, ~IsStream
  PROVE  /\ cf.blksize <= Align
         /\ cf.mode \in {"cfb", "ofb"} => unit = cf.blksize
         /\ cf.mode \in {"ctr", "gcm", "cbc"} => cf.blksize = Align
<1>1. cf.mode \in {"cfb", "ofb", "ctr", "cbc", "gcm"} BY Parameters DEF IsStream, Modes
<1>2. CASE cf.mode \in {"cfb", "ofb"}
  <2>1. unit = cf.blksize /\ cf.blksize * 2 \in {Align, 2 * Align} BY <1>2 DEF HasFast
  <2> QED BY <1>2, <2>1, Parameters
<1>3. CASE cf.mode \in {"ctr", "gcm", "cbc"} BY <1>3, Parameters DEF HasFast
<1> QED BY <1>1, <1>2, <1>3

\* What is left to show of a turn of a fast function.
LEMMA TurnTyped ==
  ASSUME TInv, pc = "fast", pos # end, ~IsStream, NEW m \in {Align, Turn},
         pos' = pos + m, reg' \in Area, buf' \in Area, out' \in Text, AuthIn(auth'), src' \in Nat,
         pc' = pc, cf' = cf, dir' = dir, iv' = iv, ivlen' = ivlen, in' = in, boff' = boff,
         ks' = ks, left' = left, tag' = tag, end' = end, fin' = fin, slow' = slow, clean' = clean
  PROVE  TInv'
<1>1. Working BY DEF Working
<1>2. m \in Nat /\ pos + m <= end /\ (end - (pos + m)) % Align = 0
  BY TurnSize, SizesAssumption
<1>3. pos' \in 0 .. MaxLen /\ pos' <= end BY <1>1, <1>2, Room
<1>4. Data' BY DataNext DEF TInv, Data
<1>5. Positions' BY <1>3, PositionsNext DEF TInv, Positions
<1>6. Calls' BY <1>1, <1>2, <1>3, SameConfig DEF TInv, Calls, Working
<1> QED BY <1>4, <1>5, <1>6 DEF TInv

LEMMA ChunksType ==
  ASSUME TInv, pc = "fast", ~IsStream, NEW f \in Area
  PROVE  EncChunks(f) \in Area
<1>1. cf \in Configs /\ buf \in Area /\ HasFast BY DEF TInv, Data, Calls
<1>2. cf.blksize \in Nat \ {0} /\ cf.blksize <= Align /\ Align \in Nat BY <1>1, FastModes, Parameters
<1> SUFFICES ASSUME NEW k \in Cells
             PROVE  (IF k < Align THEN Enc(At(f, k - (k % cf.blksize)))[k % cf.blksize] ELSE buf[k])
                    \in Byte
  BY DEF EncChunks, Area
<1>k. k \in Nat BY DEF Cells
<1>3. CASE k < Align
  <2>1. PICK q \in Nat, r \in 0 .. cf.blksize-1 :
          q = k \div cf.blksize /\ r = k % cf.blksize /\ k = cf.blksize * q + r
    BY <1>2, <1>k, DivisionExists
  <2>2. PICK p \in Int : p = cf.blksize * q /\ k = p + r BY <1>2, <2>1
  <2>3. p >= 0
    <3>1. cf.blksize * 0 <= cf.blksize * q BY <1>2, TimesMonotonic
    <3> QED BY <1>2, <2>2, <3>1
  <2>b. k = p + r BY <2>2
  <2>4. k = p + r /\ k - r = p /\ p \in Nat BY <1>k, <2>b, <2>3
  <2>a. p + cf.blksize <= 2 * Align BY <1>2, <1>3, <2>4
  <2>5. Enc(At(f, p)) \in Blocks BY <1>1, <2>4, <2>a, AtType, CipherType
  <2>6. r \in Block0 BY DEF Block0
  <2>7. Enc(At(f, p))[r] \in Byte BY <2>5, <2>6 DEF Blocks
  <2> QED BY <1>3, <2>1, <2>4, <2>7
<1>4. CASE ~ (k < Align) BY <1>1, <1>4 DEF Area
<1> QED BY <1>3, <1>4

LEMMA OutChunkType ==
  ASSUME TInv, pc = "fast", NEW b \in Area
  PROVE  OutChunk(b) \in Text
<1>1. Working BY DEF Working
<1> SUFFICES ASSUME NEW i \in Idx
             PROVE  (IF pos <= i /\ i < pos + Align THEN XorByte(b[i - pos], in[i]) ELSE out[i]) \in Byte
  BY DEF OutChunk, Text
<1>2. CASE pos <= i /\ i < pos + Align
  <2>1. i - pos \in Cells BY <1>1, <1>2, Room, SizesAssumption DEF Idx, Cells
  <2>2. b[i - pos] \in Byte /\ in[i] \in Byte BY <1>1, <2>1, Room DEF Area, Text
  <2> QED BY <1>2, <2>2, XorAssumption
<1>3. CASE ~ (pos <= i /\ i < pos + Align) BY <1>1, <1>3, Room DEF Text
<1> QED BY <1>2, <1>3

LEMMA CfbEncryptFastTyped ==
  ASSUME TInv, CfbEncryptFast
  PROVE  TInv'
<1>1. pc = "fast" /\ pos # end /\ cf.mode = "cfb" /\ Working BY DEF CfbEncryptFast, Working
<1>2. ~IsStream BY <1>1 DEF IsStream, StreamModes
<1>3. PICK c \in Area : c = EncChunks(reg) BY <1>1, <1>2, Room, ChunksType
<1>4. PICK t \in Text : t = OutChunk(c) BY <1>1, <1>3, OutChunkType
<1>5. /\ buf' = c /\ out' = t /\ pos' = pos + Align
      /\ reg' = [k \in Cells |-> IF k < Align THEN t[pos + k] ELSE reg[k]]
      /\ pc' = pc /\ cf' = cf /\ dir' = dir /\ iv' = iv /\ ivlen' = ivlen /\ in' = in
      /\ boff' = boff /\ auth' = auth /\ ks' = ks /\ left' = left
      /\ tag' = tag /\ src' = src /\ end' = end /\ fin' = fin /\ slow' = slow /\ clean' = clean
  BY <1>3, <1>4 DEF CfbEncryptFast, msgVars, callVars, streamVars
<1>6. reg' \in Area
  <2> SUFFICES ASSUME NEW k \in Cells PROVE (IF k < Align THEN t[pos + k] ELSE reg[k]) \in Byte
    BY <1>5 DEF Area
  <2>1. CASE k < Align
    <3>1. pos + Align <= end BY <1>1, <1>2, TurnSize
    <3>2. pos + k \in Idx BY <1>1, <2>1, <3>1, Room, SizesAssumption DEF Cells, Idx
    <3> QED BY <2>1, <3>2 DEF Text
  <2>2. CASE ~ (k < Align) BY <1>1, <2>2, Room DEF Area
  <2> QED BY <2>1, <2>2
<1>7. AuthIn(auth') /\ src' \in Nat BY <1>5 DEF TInv, Data, Positions
<1> QED BY <1>1, <1>2, <1>5, <1>6, <1>7, TurnTyped

LEMMA OfbEncryptFastTyped ==
  ASSUME TInv, OfbEncryptFast
  PROVE  TInv'
<1>1. pc = "fast" /\ pos # end /\ cf.mode = "ofb" /\ Working BY DEF OfbEncryptFast, Working
<1>2. ~IsStream BY <1>1 DEF IsStream, StreamModes
<1>3. PICK c \in Area : c = EncChunks(buf) BY <1>1, <1>2, Room, ChunksType
<1>4. PICK t \in Text : t = OutChunk(c) BY <1>1, <1>3, OutChunkType
<1>5. /\ buf' = c /\ out' = t /\ pos' = pos + Align /\ reg' = reg
      /\ pc' = pc /\ cf' = cf /\ dir' = dir /\ iv' = iv /\ ivlen' = ivlen /\ in' = in
      /\ boff' = boff /\ auth' = auth /\ ks' = ks /\ left' = left
      /\ tag' = tag /\ src' = src /\ end' = end /\ fin' = fin /\ slow' = slow /\ clean' = clean
  BY <1>3, <1>4 DEF OfbEncryptFast, msgVars, callVars, streamVars
<1>6. AuthIn(auth') /\ src' \in Nat /\ reg' \in Area BY <1>5 DEF TInv, Data, Positions
<1> QED BY <1>1, <1>2, <1>5, <1>6, TurnTyped

\* What a turn leaves behind its own bytes is a text, and the bytes before them are kept.
Rest(o) == \A i \in Idx : i < pos => o[i] = out[i]

LEMMA SpilledIs ==
  ASSUME TInv, pc = "fast", NEW x \in Nat, NEW g \in Beyond(x)
  PROVE  Spilled(g) \in Text /\ Rest(Spilled(g))
<1>1. out \in Text /\ pos \in Nat /\ end \in Nat BY Room DEF Working
<1>2. ASSUME NEW i \in Idx PROVE Spilled(g)[i] \in Byte /\ (i < pos => Spilled(g)[i] = out[i])
  <2>1. i \in Nat /\ out[i] \in Byte BY <1>1 DEF Idx, Text
  <2>2. Spilled(g)[i] = IF i \in DOMAIN g THEN g[i] ELSE out[i] BY DEF Spilled
  <2>3. DOMAIN g = pos + x .. end - 1 /\ \A k \in pos + x .. end - 1 : g[k] \in Byte BY DEF Beyond
  <2>4. i < pos => i \notin pos + x .. end - 1 BY <1>1, <2>1
  <2> QED BY <2>1, <2>2, <2>3, <2>4
<1>3. Spilled(g) \in Text BY <1>2 DEF Spilled, Text
<1> QED BY <1>2, <1>3 DEF Rest

LEMMA CfbDecryptFastTyped ==
  ASSUME TInv, CfbDecryptFast
  PROVE  TInv'
<1> DEFINE From(i) == IF i < cf.blksize THEN At(reg, 0)
                      ELSE At(in, pos + i - (i % cf.blksize) - cf.blksize)
           Byte_(i) == XorByte(Enc(From(i - pos))[(i - pos) % cf.blksize], in[i])
<1>1. pc = "fast" /\ pos # end /\ cf.mode = "cfb" /\ Working BY DEF CfbDecryptFast, Working
<1>2. ~IsStream BY <1>1 DEF IsStream, StreamModes
<1>a. TInv /\ pc = "fast" /\ Turn \in Nat BY <1>1, Room, SizesAssumption DEF Turn, Lesser
<1>b. PICK w \in Beyond(Turn) :
        out' = [i \in Idx |-> IF pos <= i /\ i < pos + Turn THEN Byte_(i) ELSE Spilled(w)[i]]
  BY DEF CfbDecryptFast, Turn
<1>c. PICK o \in Text : o = Spilled(w) /\ Rest(o) BY <1>a, SpilledIs
<1>3. /\ out' = [i \in Idx |-> IF pos <= i /\ i < pos + Turn THEN Byte_(i) ELSE o[i]]
      /\ reg' = Over(reg, At(in, pos + Turn - cf.blksize), cf.blksize)
      /\ pos' = pos + Turn /\ buf' = buf
      /\ pc' = pc /\ cf' = cf /\ dir' = dir /\ iv' = iv /\ ivlen' = ivlen /\ in' = in
      /\ boff' = boff /\ auth' = auth /\ ks' = ks /\ left' = left
      /\ tag' = tag /\ src' = src /\ end' = end /\ fin' = fin /\ slow' = slow /\ clean' = clean
  BY <1>b, <1>c DEF CfbDecryptFast, msgVars, callVars, streamVars, Turn
<1>4. /\ cf \in Configs /\ in \in Text /\ reg \in Area /\ pos \in Nat /\ out \in Text
      /\ end \in Nat /\ end <= MaxLen /\ cf.blksize \in Nat \ {0} /\ MaxLen \in Nat
  BY <1>1, Room
<1>5. cf.blksize <= Align /\ Align \in Nat /\ Turn \in Nat /\ Align <= Turn /\ pos + Turn <= end
  <2>1. HasFast BY <1>1 DEF TInv, Calls
  <2> QED BY <1>1, <1>2, <1>4, <2>1, FastModes, TurnSize, SizesAssumption
<1>6. ASSUME NEW i \in Idx, pos <= i, i < pos + Turn PROVE Byte_(i) \in Byte
  <2>1. PICK j \in Nat : j = i - pos BY <1>4, <1>6 DEF Idx
  <2>2. PICK p \in Nat, r \in 0 .. cf.blksize-1 :
          r = j % cf.blksize /\ j = p + r /\ (cf.blksize <= j => cf.blksize <= p)
    BY <1>4, Floor
  <2>3. From(j) \in Blocks
    <3>1. CASE j < cf.blksize
      <4>1. At(reg, 0) \in Blocks BY <1>4, AtType, Parameters
      <4> QED BY <3>1, <4>1
    <3>2. CASE ~ (j < cf.blksize)
      <4>1. PICK d \in Int : d = pos + j - (j % cf.blksize) - cf.blksize
        <5>1. j % cf.blksize \in Int BY <2>2
        <5> QED BY <1>4, <5>1
      <4>2. d = pos + p - cf.blksize BY <1>4, <2>2, <4>1
      <4>3. p >= cf.blksize BY <1>4, <2>2, <3>2
      <4>a. p <= j /\ j < Turn BY <1>4, <1>5, <1>6, <2>1, <2>2 DEF Idx
      <4>4. d \in Nat /\ d + cf.blksize <= MaxLen BY <1>4, <1>5, <4>2, <4>3, <4>a
      <4>5. At(in, d) \in Blocks BY <1>4, <4>4, AtText
      <4> QED BY <3>2, <4>1, <4>5
    <3> QED BY <3>1, <3>2
  <2>4. r \in Block0 BY DEF Block0
  <2>5. Enc(From(j))[r] \in Byte BY <1>4, <2>3, <2>4, CipherType DEF Blocks
  <2>6. in[i] \in Byte BY <1>4 DEF Text
  <2>7. Byte_(i) = XorByte(Enc(From(j))[r], in[i]) BY <2>1, <2>2
  <2> QED BY <2>5, <2>6, <2>7, XorAssumption
<1> HIDE DEF Byte_
<1>7. out' \in Text BY <1>3, <1>4, <1>6 DEF Text
<1>8. reg' \in Area
  <2>1. PICK d \in Nat : d = pos + Turn - cf.blksize /\ d + cf.blksize <= MaxLen BY <1>4, <1>5
  <2>2. At(in, d) \in Blocks BY <1>4, <2>1, AtText
  <2> QED BY <1>3, <1>4, <2>1, <2>2, OverBlock
<1>9. AuthIn(auth') /\ src' \in Nat /\ buf' \in Area BY <1>3 DEF TInv, Data, Positions
<1> QED BY <1>1, <1>2, <1>3, <1>7, <1>8, <1>9, TurnTyped

\* Place i of x bytes lies in one of their chunks of n bytes.
LEMMA ChunkOf ==
  ASSUME NEW n \in Nat \ {0}, NEW x \in Nat, x % n = 0, NEW i \in Nat, i < x
  PROVE  /\ x \div n \in Nat /\ i \div n \in 0 .. (x \div n) - 1 /\ i % n \in 0 .. n-1
         /\ x = n * (x \div n) /\ i = n * (i \div n) + (i % n)
<1>1. PICK q \in Nat, r \in 0 .. n-1 : q = i \div n /\ r = i % n /\ i = n*q + r BY DivisionExists
<1>2. PICK p \in Nat, h \in 0 .. n-1 : p = x \div n /\ h = x % n /\ x = n*p + h BY DivisionExists
<1>3. x = n*p BY <1>2
<1>4. ASSUME p <= q PROVE FALSE
  <2>1. n*p <= n*q BY <1>4, TimesMonotonic
  <2>2. PICK y \in Int : y = n*q OBVIOUS
  <2>3. x <= y /\ i = y + r BY <1>1, <1>3, <2>1, <2>2
  <2> QED BY <2>3
<1>5. q \in 0 .. p-1 BY <1>4
<1> QED BY <1>1, <1>2, <1>3, <1>5

LEMMA CtrEncryptFastTyped ==
  ASSUME TInv, CtrEncryptFast
  PROVE  TInv'
<1> DEFINE m == Turn \div Align
           ctr == Counters(reg, m)
<1>1. pc = "fast" /\ pos # end /\ cf.mode = "ctr" /\ Working BY DEF CtrEncryptFast, Working
<1>2. ~IsStream BY <1>1 DEF IsStream, StreamModes
<1>3. PICK g \in Byte, w \in Beyond(Turn) :
        LET From(i) == IF src + i < end THEN in[src + i] ELSE g IN
        /\ out' = [i \in Idx |-> IF pos <= i /\ i < pos + Turn
                                 THEN XorByte(Enc(At(ctr[(i - pos) \div Align], 0))[(i - pos) % Align],
                                              From(i - pos))
                                 ELSE Spilled(w)[i]]
        /\ reg' = ctr[m] /\ pos' = pos + Turn /\ src' = src + Turn + FastBuf
  BY DEF CtrEncryptFast, Turn
<1> DEFINE From(i) == IF src + i < end THEN in[src + i] ELSE g
           new(i) == XorByte(Enc(At(ctr[(i - pos) \div Align], 0))[(i - pos) % Align], From(i - pos))
<1>a. pc = "fast" /\ Turn \in Nat BY <1>1, Room, SizesAssumption DEF Turn, Lesser
<1>b. PICK o \in Text : o = Spilled(w) BY <1>a, SpilledIs
<1>4. /\ out' = [i \in Idx |-> IF pos <= i /\ i < pos + Turn THEN new(i) ELSE o[i]]
      /\ reg' = ctr[m] /\ pos' = pos + Turn /\ src' = src + Turn + FastBuf
  BY <1>3, <1>b
<1>5. /\ buf' = buf /\ auth' = auth
      /\ pc' = pc /\ cf' = cf /\ dir' = dir /\ iv' = iv /\ ivlen' = ivlen /\ in' = in
      /\ boff' = boff /\ ks' = ks /\ left' = left
      /\ tag' = tag /\ end' = end /\ fin' = fin /\ slow' = slow /\ clean' = clean
  BY DEF CtrEncryptFast, msgVars, streamVars
<1>6. /\ cf \in Configs /\ in \in Text /\ reg \in Area /\ pos \in Nat /\ out \in Text
      /\ end \in Nat /\ end <= MaxLen /\ MaxLen \in Nat
  BY <1>1, Room
<1>7. cf.blksize = Align /\ Align \in Nat \ {0} /\ Turn \in Nat /\ Turn % Align = 0 /\ src \in Nat
  <2>1. HasFast BY <1>1 DEF TInv, Calls
  <2> QED BY <1>1, <1>2, <1>6, <2>1, FastModes, TurnSize, SizesAssumption DEF TInv, Positions
<1>8. m \in Nat BY <1>7, DivisionExists
<1> HIDE DEF m
<1>9. ctr \in [0 .. m -> Area] BY <1>6, <1>8, CountersType
<1> HIDE DEF ctr
<1>10. \A j \in 0 .. m : Enc(At(ctr[j], 0)) \in Blocks
  <2> TAKE j \in 0 .. m
  <2>1. ctr[j] \in Area BY <1>9
  <2>2. 0 + cf.blksize <= 2 * Align BY <1>7
  <2> QED BY <1>6, <2>1, <2>2, AtType, CipherType
<1>11. ASSUME NEW i \in Idx, pos <= i, i < pos + Turn PROVE new(i) \in Byte
  <2>1. PICK j \in Nat : j = i - pos /\ j < Turn BY <1>6, <1>7, <1>11 DEF Idx
  <2>a. j \div Align \in 0 .. m-1 /\ j % Align \in Block0
    BY <1>7, <1>8, <2>1, ChunkOf DEF m, Block0
  <2>2. j \div Align \in 0 .. m /\ j % Align \in Block0 BY <1>8, <2>a
  <2>3. Enc(At(ctr[j \div Align], 0))[j % Align] \in Byte BY <1>10, <2>2 DEF Blocks
  <2>4. From(j) \in Byte
    <3>1. CASE src + j < end
      <4>1. src + j \in Idx BY <1>6, <1>7, <3>1 DEF Idx
      <4> QED BY <1>6, <3>1, <4>1 DEF Text
    <3>2. CASE ~ (src + j < end) BY <3>2
    <3> QED BY <3>1, <3>2
  <2> HIDE DEF From
  <2>5. new(i) = XorByte(Enc(At(ctr[j \div Align], 0))[j % Align], From(j)) BY <2>1
  <2> QED BY <2>3, <2>4, <2>5, XorAssumption
<1> HIDE DEF new
<1>12. out' \in Text BY <1>4, <1>6, <1>11 DEF Text
<1>13. reg' \in Area BY <1>4, <1>8, <1>9
<1>14. AuthIn(auth') /\ src' \in Nat /\ buf' \in Area
  <2>1. src + Turn + FastBuf \in Nat BY <1>7, SizesAssumption
  <2> QED BY <1>4, <1>5, <2>1 DEF TInv, Data
<1> QED BY <1>1, <1>2, <1>4, <1>5, <1>12, <1>13, <1>14, TurnTyped

LEMMA GcmFastTyped ==
  ASSUME TInv, GcmFast
  PROVE  TInv'
<1> DEFINE m == Turn \div Align
           ctr == Counters(reg, m)
<1>1. pc = "fast" /\ pos # end /\ cf.mode = "gcm" /\ Working BY DEF GcmFast, Working
<1>2. ~IsStream BY <1>1 DEF IsStream, StreamModes
<1>3. PICK g \in Byte, w \in Beyond(Turn) :
        LET From(i) == IF src + i < end THEN in[src + i] ELSE g
            To(i) == XorByte(Enc(At(ctr[(i \div Align) + 1], 0))[i % Align], From(i))
            Hashed == [j \in 0 .. m - 1 |->
                         [k \in Block0 |-> IF dir = "enc" THEN To(j * Align + k)
                                           ELSE From(j * Align + k)]] IN
        /\ out' = [i \in Idx |-> IF pos <= i /\ i < pos + Turn THEN To(i - pos)
                                 ELSE Spilled(w)[i]]
        /\ auth' = [auth EXCEPT !.x = hash_blocks(@, m, Hashed)]
        /\ reg' = ctr[m] /\ pos' = pos + Turn /\ src' = src + Turn + FastBuf
  BY DEF GcmFast, Turn
<1> DEFINE From(i) == IF src + i < end THEN in[src + i] ELSE g
           To(i) == XorByte(Enc(At(ctr[(i \div Align) + 1], 0))[i % Align], From(i))
           Hashed == [j \in 0 .. m - 1 |->
                        [k \in Block0 |-> IF dir = "enc" THEN To(j * Align + k)
                                          ELSE From(j * Align + k)]]
<1>a. pc = "fast" /\ Turn \in Nat BY <1>1, Room, SizesAssumption DEF Turn, Lesser
<1>b. PICK o \in Text : o = Spilled(w) BY <1>a, SpilledIs
<1>4. /\ out' = [i \in Idx |-> IF pos <= i /\ i < pos + Turn THEN To(i - pos) ELSE o[i]]
      /\ auth' = [auth EXCEPT !.x = hash_blocks(@, m, Hashed)]
      /\ reg' = ctr[m] /\ pos' = pos + Turn /\ src' = src + Turn + FastBuf
  BY <1>3, <1>b
<1>5. /\ buf' = buf
      /\ pc' = pc /\ cf' = cf /\ dir' = dir /\ iv' = iv /\ ivlen' = ivlen /\ in' = in
      /\ boff' = boff /\ ks' = ks /\ left' = left
      /\ tag' = tag /\ end' = end /\ fin' = fin /\ slow' = slow /\ clean' = clean
  BY DEF GcmFast, msgVars, streamVars
<1>6. /\ cf \in Configs /\ in \in Text /\ reg \in Area /\ pos \in Nat /\ out \in Text
      /\ end \in Nat /\ end <= MaxLen /\ MaxLen \in Nat /\ auth \in AuthRecord
  BY <1>1, Room DEF AuthIn
<1>7. cf.blksize = Align /\ Align \in Nat \ {0} /\ Turn \in Nat /\ Turn % Align = 0 /\ src \in Nat
  <2>1. HasFast BY <1>1 DEF TInv, Calls
  <2> QED BY <1>1, <1>2, <1>6, <2>1, FastModes, TurnSize, SizesAssumption DEF TInv, Positions
<1>8. m \in Nat /\ Turn = Align * m
  <2>1. 0 < Turn BY <1>1, <1>2, <1>7, TurnSize
  <2> QED BY <1>7, <2>1, ChunkOf
<1> HIDE DEF m
<1>9. ctr \in [0 .. m -> Area] BY <1>6, <1>8, CountersType
<1> HIDE DEF ctr
<1>10. \A j \in 0 .. m : Enc(At(ctr[j], 0)) \in Blocks
  <2> TAKE j \in 0 .. m
  <2>1. ctr[j] \in Area BY <1>9
  <2>2. 0 + cf.blksize <= 2 * Align BY <1>7
  <2> QED BY <1>6, <2>1, <2>2, AtType, CipherType
<1>11. ASSUME NEW j \in Nat PROVE From(j) \in Byte
  <2>1. CASE src + j < end
    <3>1. src + j \in Idx BY <1>6, <1>7, <2>1 DEF Idx
    <3> QED BY <1>6, <2>1, <3>1 DEF Text
  <2>2. CASE ~ (src + j < end) BY <2>2
  <2> QED BY <2>1, <2>2
<1> HIDE DEF From
<1>12. ASSUME NEW j \in Nat, j < Turn PROVE To(j) \in Byte
  <2>1. j \div Align \in 0 .. m-1 /\ j % Align \in Block0
    BY <1>7, <1>8, <1>12, ChunkOf DEF m, Block0
  <2>2. PICK d \in 1 .. m : d = (j \div Align) + 1 BY <1>8, <2>1
  <2>3. Enc(At(ctr[d], 0)) \in Blocks BY <1>10, <2>2
  <2>4. Enc(At(ctr[d], 0))[j % Align] \in Byte BY <2>1, <2>3 DEF Blocks
  <2> QED BY <1>11, <2>2, <2>4, XorAssumption
<1> HIDE DEF To
<1>13. out' \in Text
  <2> SUFFICES ASSUME NEW i \in Idx
               PROVE  (IF pos <= i /\ i < pos + Turn THEN To(i - pos) ELSE o[i]) \in Byte
    BY <1>4 DEF Text
  <2>1. CASE pos <= i /\ i < pos + Turn
    <3>1. i - pos \in Nat /\ i - pos < Turn BY <1>6, <1>7, <2>1 DEF Idx
    <3> QED BY <1>12, <2>1, <3>1
  <2>2. CASE ~ (pos <= i /\ i < pos + Turn) BY <1>6, <2>2 DEF Text
  <2> QED BY <2>1, <2>2
<1>14. \A j \in 0 .. m-1 : Hashed[j] \in Blocks
  <2> TAKE j \in 0 .. m-1
  <2> SUFFICES ASSUME NEW k \in Block0
               PROVE  (IF dir = "enc" THEN To(j * Align + k) ELSE From(j * Align + k)) \in Byte
    BY DEF Blocks
  <2>1. PICK a \in Nat : a = j * Align BY <1>7
  <2>2. a + Align <= Turn
    <3>1. j \in Int /\ m \in Int /\ j + 1 \in Int /\ j + 1 <= m BY <1>8
    <3>2. Align * (j + 1) <= Align * m /\ Align * (j + 1) = Align * j + Align
      BY <1>7, <3>1, TimesMonotonic
    <3>3. Align * j = j * Align BY <1>7, <3>1
    <3> QED BY <1>7, <1>8, <2>1, <3>2, <3>3
  <2>3. a + k \in Nat /\ a + k < Turn BY <1>7, <2>1, <2>2 DEF Block0
  <2>4. To(a + k) \in Byte /\ From(a + k) \in Byte BY <1>11, <1>12, <2>3
  <2> QED BY <2>1, <2>4
<1> HIDE DEF Hashed
<1>15. AuthIn(auth')
  <2>1. auth.x \in Blocks BY <1>6 DEF AuthRecord
  <2>2. PICK x \in Blocks : x = hash_blocks(auth.x, m, Hashed)
    BY <1>1, <1>6, <1>8, <1>14, <2>1, HashBlocksType
  <2>3. auth' = [auth EXCEPT !.x = x] BY <1>4, <2>2
  <2>4. [auth EXCEPT !.x = x] \in AuthRecord BY <1>6 DEF AuthRecord
  <2> QED BY <1>1, <2>3, <2>4 DEF AuthIn
<1>16. reg' \in Area BY <1>4, <1>8, <1>9
<1>17. src' \in Nat /\ buf' \in Area
  <2>1. src + Turn + FastBuf \in Nat BY <1>7, SizesAssumption
  <2> QED BY <1>4, <1>5, <2>1 DEF TInv, Data
<1> QED BY <1>1, <1>2, <1>4, <1>5, <1>13, <1>15, <1>16, <1>17, TurnTyped

LEMMA GcmFinalTyped ==
  ASSUME TInv, GcmFinal
  PROVE  TInv'
<1> DEFINE x == IF boff # 0 THEN hash(auth.x, LastBlock) ELSE auth.x
           y == hash(x, LenBlock(auth.alen, auth.clen))
           b == Over(buf, Enc(auth.y0), cf.blksize)
           t == XorBlock(y, At(b, 0))
           c == IF boff # 0 THEN LastBlock ELSE auth.cbuf
           a == [auth EXCEPT !.cbuf = c, !.x = t]
<1>1. pc = "final" /\ cf.mode = "gcm" BY DEF GcmFinal, TInv, Calls
<1>2. /\ cf \in Configs /\ auth \in AuthRecord /\ buf \in Area /\ reg \in Area /\ ks \in KsType
      /\ out \in Text /\ iv \in Area /\ ivlen \in IvLens(cf)
  BY <1>1 DEF TInv, Data, AuthIn
<1>3. auth.x \in Blocks /\ auth.cbuf \in Blocks /\ auth.y0 \in Blocks
      /\ auth.alen \in 0 .. MaxAad /\ auth.clen \in 0 .. MaxLen
  BY <1>2 DEF AuthRecord
<1>4. cf.blksize = Align /\ cf.taglen \in 1 .. Align /\ Align \in Nat \ {0} /\ MaxLen \in Nat
  BY <1>1, <1>2, Parameters
<1>5. LastBlock \in Blocks /\ c \in Blocks BY <1>2, <1>3, ZeroType DEF LastBlock, Blocks
<1>6. x \in Blocks BY <1>1, <1>2, <1>3, <1>5, HashType
<1>7. LenBlock(auth.alen, auth.clen) \in Blocks
  <2>1. auth.clen \in 0 .. MaxLen + 2 * Align BY <1>3, <1>4
  <2> QED BY <1>3, <1>4, <2>1, LengthAssumption DEF Blocks, Block0
<1> HIDE DEF x
<1>8. y \in Blocks BY <1>1, <1>2, <1>6, <1>7, HashType
<1>9. b \in Area BY <1>2, <1>3, CipherType, OverBlock
<1> HIDE DEF y, b
<1>10. t \in Blocks
  <2>1. 0 + cf.blksize <= 2 * Align BY <1>4
  <2> QED BY <1>2, <1>8, <1>9, <2>1, AtType, XorType
<1> HIDE DEF t, c
<1>11. a \in AuthRecord BY <1>2, <1>5, <1>10 DEF AuthRecord
<1>12. a.x = t BY <1>2 DEF AuthRecord
<1>13. /\ buf' = b /\ auth' = a /\ tag' = [k \in 0 .. cf.taglen - 1 |-> auth'.x[k]]
       /\ pc' = "done" /\ cf' = cf /\ dir' = dir /\ iv' = iv /\ ivlen' = ivlen /\ in' = in
       /\ reg' = reg /\ boff' = boff /\ ks' = ks /\ left' = left /\ out' = out /\ pos' = pos
       /\ src' = src /\ end' = end /\ fin' = fin /\ slow' = slow /\ clean' = clean
  BY DEF GcmFinal, msgVars, streamVars, callVars, x, y, b, t, c
<1> HIDE DEF a
<1>14. tag' \in Tags
  <2>1. \A k \in 0 .. cf.taglen - 1 : k \in Block0 BY <1>4 DEF Block0
  <2>2. \A k \in 0 .. cf.taglen - 1 : t[k] \in Byte BY <1>10, <2>1 DEF Blocks
  <2>3. tag' = [k \in 0 .. cf.taglen - 1 |-> t[k]] BY <1>12, <1>13
  <2> QED BY <2>2, <2>3 DEF Tags
<1>15. AuthIn(auth') BY <1>1, <1>11, <1>13 DEF AuthIn
<1>16. Data' BY <1>2, <1>9, <1>13, <1>14, <1>15, DataNext DEF TInv
<1>17. Positions' BY <1>13, PositionsNext DEF TInv, Positions
<1>18. Calls' BY <1>1, <1>13, SameConfig DEF TInv, Calls, Working
<1> QED BY <1>16, <1>17, <1>18 DEF TInv

LEMMA SameTyped ==
  ASSUME TInv, UNCHANGED vars
  PROVE  TInv'
<1>1. /\ pc' = pc /\ cf' = cf /\ dir' = dir /\ iv' = iv /\ ivlen' = ivlen /\ in' = in
      /\ reg' = reg /\ buf' = buf /\ boff' = boff /\ auth' = auth /\ ks' = ks /\ left' = left
      /\ tag' = tag /\ out' = out /\ pos' = pos
      /\ src' = src /\ end' = end /\ fin' = fin /\ slow' = slow /\ clean' = clean
  BY DEF vars, msgVars, ctxVars, streamVars, callVars
<1>2. Data' BY <1>1, DataNext DEF TInv, Data
<1>3. Positions' BY <1>1, PositionsNext DEF TInv, Positions
<1>4. Calls' BY <1>1, SameConfig DEF TInv, Calls, Working
<1> QED BY <1>2, <1>3, <1>4 DEF TInv

LEMMA StepTyped == TInv /\ [Next]_vars => TInv'
<1> SUFFICES ASSUME TInv, [Next]_vars PROVE TInv' OBVIOUS
<1>1. CASE UNCHANGED vars BY <1>1, SameTyped
<1>2. ASSUME NEW v \in NewIVs, NEW n \in IvLens(cf), SetIv(v, n) PROVE TInv' BY <1>2, SetIvTyped
<1>3. CASE Reset BY <1>3, ResetTyped
<1>4. CASE Clone BY <1>4, CloneTyped
<1>5. ASSUME NEW n \in 0 .. MaxAad, SetData(n) PROVE TInv' BY <1>5, SetDataTyped
<1>6. ASSUME NEW n \in 0 .. MaxCall, Refuse(n) PROVE TInv' BY <1>6, SameTyped DEF Refuse
<1>7. ASSUME NEW n \in 0 .. MaxCall, NEW f \in {0, 1}, Call(n, f) PROVE TInv' BY <1>7, CallTyped
<1>8. ASSUME NEW n \in 0 .. MaxFast, FastCall(n) PROVE TInv' BY <1>8, FastCallTyped
<1>9. CASE Step
  <2>1. CASE Head BY <2>1, HeadTyped
  <2>2. CASE HeadOutside BY <2>2, HeadOutsideTyped
  <2>3. CASE Block BY <2>3, BlockTyped
  <2>4. CASE Tail BY <2>4, TailTyped
  <2>5. CASE CbcBlock BY <2>5, CbcBlockTyped
  <2>6. CASE Return BY <2>6, ReturnTyped
  <2>7. CASE CfbEncryptFast BY <2>7, CfbEncryptFastTyped
  <2>8. CASE OfbEncryptFast BY <2>8, OfbEncryptFastTyped
  <2>9. CASE CfbDecryptFast BY <2>9, CfbDecryptFastTyped
  <2>10. CASE CtrEncryptFast BY <2>10, CtrEncryptFastTyped
  <2>11. CASE GcmFast BY <2>11, GcmFastTyped
  <2>12. CASE GcmFinal BY <2>12, GcmFinalTyped
  <2>13. CASE StreamHead BY <2>13, StreamHeadTyped
  <2>14. CASE StreamFast BY <2>14, StreamFastTyped
  <2> QED BY <1>9, <2>1, <2>2, <2>3, <2>4, <2>5, <2>6, <2>7, <2>8, <2>9, <2>10, <2>11, <2>12,
             <2>13, <2>14 DEF Step
<1> QED BY <1>1, <1>2, <1>3, <1>4, <1>5, <1>6, <1>7, <1>8, <1>9 DEF Next

\* Every variable of a context keeps its type, in every mode and whatever the client
\* does: in particular no step of cfb.c, ofb.c, ctr.cc, cbc.c, gcm-impl.cc and
\* util.hh takes a byte from outside of the message or of the context's arrays, but
\* for the undefined ones of a position below zero or a count that is too large.
THEOREM TypesAreKept == Spec => []TypeOK
<1>1. Init => TInv BY InitTyped
<1>2. TInv /\ [Next]_vars => TInv' BY StepTyped
<1>3. TInv => TypeOK BY TypeOfTInv
<1> QED BY <1>1, <1>2, <1>3, PTL DEF Spec

----------------------------------------------------------------------------
(* The keystream, and the tag. *)

----------------------------------------------------------------------------
(* Units. *)

LEMMA Units ==
  ASSUME NEW n \in Nat \ {0}, NEW f \in Nat, f % n = 0
  PROVE  /\ f + n \in Nat /\ (f + n) % n = 0 /\ f \div n \in Nat /\ (f + n) \div n = (f \div n) + 1
         /\ \A k \in 0 .. n-1 : (f + k) % n = k /\ (f + k) \div n = f \div n
         /\ f # 0 => n <= f /\ f - n \in Nat /\ (f - n) % n = 0 /\ (f - n) \div n = (f \div n) - 1
<1>1. PICK q \in Nat, r \in 0 .. n-1 : q = f \div n /\ r = f % n /\ f = n*q + r BY DivisionExists
<1>2. f = n*q BY <1>1
<1>3. (n*(q + 1) + 0) % n = 0 /\ (n*(q + 1) + 0) \div n = q + 1 BY Division
<1>4. n*(q + 1) = n*q + n BY TimesMonotonic
<1>5. PICK p \in Int : p = n*(q + 1) OBVIOUS
<1>6. p + 0 = f + n BY <1>2, <1>4, <1>5
<1>7. (f + n) % n = 0 /\ (f + n) \div n = q + 1 BY <1>3, <1>5, <1>6
<1>8. \A k \in 0 .. n-1 : (f + k) % n = k /\ (f + k) \div n = q
  <2> TAKE k \in 0 .. n-1
  <2>1. (n*q + k) % n = k /\ (n*q + k) \div n = q BY Division
  <2> QED BY <1>2, <2>1
<1>9. ASSUME f # 0 PROVE n <= f /\ f - n \in Nat /\ (f - n) % n = 0 /\ (f - n) \div n = q - 1
  <2>1. n <= f BY <1>9, Multiples
  <2>2. (n*(q - 1) + 0) % n = 0 /\ (n*(q - 1) + 0) \div n = q - 1 BY Division
  <2>3. n*((q - 1) + 1) = n*(q - 1) + n BY TimesMonotonic
  <2>4. (q - 1) + 1 = q OBVIOUS
  <2>5. PICK h \in Int : h = n*(q - 1) OBVIOUS
  <2>6. h + 0 = f - n BY <1>2, <2>3, <2>4, <2>5
  <2>7. (f - n) % n = 0 /\ (f - n) \div n = q - 1 BY <2>2, <2>5, <2>6
  <2> QED BY <2>1, <2>7
<1> QED BY <1>1, <1>7, <1>8, <1>9

\* The place in its unit of a position p, where f is the end of the units begun.
LEMMA PlaceInUnit ==
  ASSUME NEW n \in Nat \ {0}, NEW f \in Nat, f % n = 0, NEW p \in Nat, p <= f, f < p + n
  PROVE  p % n = IF f = p THEN 0 ELSE p + n - f
<1>1. CASE f = p BY <1>1
<1>2. CASE f # p
  <2>1. f # 0 BY <1>2
  <2>2. f - n \in Nat /\ (f - n) % n = 0 BY <2>1, Units
  <2>3. p + n - f \in 0 .. n-1 BY <1>2
  <2>4. ((f - n) + (p + n - f)) % n = p + n - f BY <2>2, <2>3, Units
  <2>5. (f - n) + (p + n - f) = p OBVIOUS
  <2> QED BY <1>2, <2>4, <2>5
<1> QED BY <1>1, <1>2

----------------------------------------------------------------------------
(* Counters: numbers by their digits. *)

LEMMA QuotientsAre ==
  ASSUME NEW v \in Nat, NEW w \in Nat
  PROVE  /\ Quotients(v, w) \in [0 .. w -> Nat]
         /\ Quotients(v, w)[0] = v
         /\ \A k \in 1 .. w : Quotients(v, w)[k] = Quotients(v, w)[k-1] \div NByte
<1> DEFINE G == [e \in Nat \X (1 .. w) |-> e[1] \div NByte]
           Is(f) == f = [k \in 0 .. w |-> IF k = 0 THEN v ELSE f[k-1] \div NByte]
           u == CHOOSE f : Is(f)
<1>1. \A k \in 1 .. w : \A x \in Nat : G[<<x, k>>] = x \div NByte OBVIOUS
<1>2. \A x \in Nat : x \div NByte \in Nat BY SizesAssumption, DivisionExists
<1>3. StepsIn(w, Nat, G) BY <1>1, <1>2 DEF StepsIn
<1>a. Quotients(v, w) = u BY DEF Quotients
<1> HIDE DEF G
<1>4. PICK f \in [0 .. w -> Nat] : Recursive(f, w, v, G) BY <1>3, Recursion
<1>5. f[0] = v /\ \A k \in 1 .. w : f[k] = f[k-1] \div NByte
  <2>1. f[0] = v BY <1>4 DEF Recursive
  <2>2. ASSUME NEW k \in 1 .. w PROVE f[k] = f[k-1] \div NByte
    <3>1. f[k-1] \in Nat BY <1>4
    <3> QED BY <1>1, <1>4, <3>1 DEF Recursive
  <2> QED BY <2>1, <2>2
<1>6. Is(f) BY <1>4, <1>5
<1>7. Is(u) BY <1>6
<1> HIDE DEF u
<1>8. u[0] = v /\ \A k \in 1 .. w : u[k] = u[k-1] \div NByte BY <1>7
<1>9. \A k \in 1 .. w : u[k-1] \in Nat => u[k] \in Nat BY <1>2, <1>8
<1>10. u = [k \in 0 .. w |-> u[k]] BY <1>7
<1>11. u \in [0 .. w -> Nat] BY <1>8, <1>9, <1>10, TypedRecursion
<1> QED BY <1>a, <1>8, <1>11

\* The carry.
LEMMA Carry ==
  ASSUME NEW n \in Nat \ {0, 1}, NEW x \in Nat
  PROVE  /\ (x + 1) \div n = IF x % n = n-1 THEN (x \div n) + 1 ELSE x \div n
         /\ ((x % n) + 1) % n = (x + 1) % n
<1>1. PICK q \in Nat, r \in 0 .. n-1 : q = x \div n /\ r = x % n /\ x = n*q + r BY DivisionExists
<1>2. CASE r = n-1
  <2>1. n*(q + 1) = n*q + n BY TimesMonotonic
  <2>2. PICK p \in Int, h \in Int : p = n*(q + 1) /\ h = n*q OBVIOUS
  <2>3. p + 0 = x + 1 BY <1>1, <1>2, <2>1, <2>2
  <2>4. (n*(q + 1) + 0) \div n = q + 1 BY Division
  <2> QED BY <1>1, <1>2, <2>2, <2>3, <2>4, RemainderOfSum
<1>3. CASE r # n-1
  <2>1. r + 1 \in 0 .. n-1 BY <1>3
  <2>2. (n*q + (r + 1)) \div n = q BY <2>1, Division
  <2>3. PICK h \in Int : h = n*q OBVIOUS
  <2>4. h + (r + 1) = x + 1 BY <1>1, <2>3
  <2> QED BY <1>1, <1>3, <2>2, <2>3, <2>4, RemainderOfSum
<1> QED BY <1>2, <1>3

LEMMA QuotientsNext ==
  ASSUME NEW v \in Nat, NEW w \in Nat
  PROVE  \A j \in 0 .. w :
           Quotients(v + 1, w)[j] =
             IF \A i \in 0 .. j-1 : Quotients(v, w)[i] % NByte = NByte - 1
             THEN Quotients(v, w)[j] + 1 ELSE Quotients(v, w)[j]
<1> DEFINE Q == Quotients(v, w)
           R == Quotients(v + 1, w)
           Wrap(j) == \A i \in 0 .. j-1 : Q[i] % NByte = NByte - 1
           T == {j \in 0 .. w : R[j] = IF Wrap(j) THEN Q[j] + 1 ELSE Q[j]}
<1>1. /\ Q \in [0 .. w -> Nat] /\ Q[0] = v /\ \A k \in 1 .. w : Q[k] = Q[k-1] \div NByte
      /\ R[0] = v + 1 /\ \A k \in 1 .. w : R[k] = R[k-1] \div NByte
  BY QuotientsAre
<1> HIDE DEF Q, R
<1>2. 0 \in T BY <1>1
<1>3. ASSUME NEW n \in 0 .. w-1, n \in T PROVE n+1 \in T
  <2>1. n+1 \in 1 .. w /\ (n+1)-1 = n /\ n \in 0 .. w OBVIOUS
  <2>2. R[n+1] = R[n] \div NByte /\ Q[n+1] = Q[n] \div NByte BY <1>1, <2>1
  <2>3. R[n] = IF Wrap(n) THEN Q[n] + 1 ELSE Q[n] BY <1>3
  <2>4. Wrap(n+1) <=> Wrap(n) /\ Q[n] % NByte = NByte - 1
    <3>1. 0 .. (n+1)-1 = (0 .. n-1) \cup {n} BY <2>1
    <3> QED BY <3>1
  <2>5. Q[n] \in Nat BY <1>1, <2>1
  <2>6. (Q[n] + 1) \div NByte =
          IF Q[n] % NByte = NByte - 1 THEN (Q[n] \div NByte) + 1 ELSE Q[n] \div NByte
    BY <2>5, SizesAssumption, Carry
  <2> HIDE DEF Wrap
  <2>7. R[n+1] = IF Wrap(n+1) THEN Q[n+1] + 1 ELSE Q[n+1] BY <2>2, <2>3, <2>4, <2>6
  <2> QED BY <2>1, <2>7
<1>4. \A n \in 0 .. w : n \in T
  <2> HIDE DEF T
  <2> QED BY <1>2, <1>3, Inductive
<1> QED BY <1>4 DEF Q, R

\* The values Number goes through.
Prefixes(b, w) ==
  CHOOSE first : first = [k \in 0 .. w |-> IF k = 0 THEN 0
                                           ELSE NByte * first[k-1] + b[cf.blksize - w + k - 1]]

LEMMA PrefixesAre ==
  ASSUME cf \in Configs, NEW b, \A k \in Block0 : b[k] \in Byte, NEW w \in 1 .. cf.blksize
  PROVE  /\ Prefixes(b, w) \in [0 .. w -> Nat]
         /\ Prefixes(b, w)[0] = 0
         /\ \A k \in 1 .. w : Prefixes(b, w)[k] = NByte * Prefixes(b, w)[k-1] + b[cf.blksize - w + k - 1]
         /\ \A k \in 1 .. w : b[cf.blksize - w + k - 1] \in 0 .. NByte - 1
         /\ Number(b, w) = Prefixes(b, w)[w]
<1> DEFINE D(k) == b[cf.blksize - w + k - 1]
           G == [e \in Nat \X (1 .. w) |-> NByte * e[1] + D(e[2])]
           Is(f) == f = [k \in 0 .. w |-> IF k = 0 THEN 0 ELSE NByte * f[k-1] + D(k)]
           u == CHOOSE f : Is(f)
<1>0. w \in Nat /\ cf.blksize \in Nat /\ NByte \in Nat BY Parameters
<1>1. \A k \in 1 .. w : \A x \in Nat : G[<<x, k>>] = NByte * x + D(k) OBVIOUS
<1>d. \A k \in 1 .. w : D(k) \in 0 .. NByte - 1
  <2> TAKE k \in 1 .. w
  <2>1. cf.blksize - w + k - 1 \in Block0 BY <1>0 DEF Block0
  <2> QED BY <2>1 DEF Byte
<1> HIDE DEF D
<1>2. \A k \in 1 .. w : \A x \in Nat : NByte * x + D(k) \in Nat
  <2> TAKE k \in 1 .. w
  <2> TAKE x \in Nat
  <2>1. PICK y \in Nat : y = NByte * x BY <1>0
  <2>2. PICK z \in Nat : z = D(k) BY <1>0, <1>d
  <2> QED BY <2>1, <2>2
<1>3. StepsIn(w, Nat, G) BY <1>1, <1>2 DEF StepsIn
<1>a. Prefixes(b, w) = u /\ Number(b, w) = u[w] BY DEF Prefixes, Number, D
<1> HIDE DEF G
<1>4. PICK f \in [0 .. w -> Nat] : Recursive(f, w, 0, G) BY <1>0, <1>3, Recursion
<1>5. f[0] = 0 /\ \A k \in 1 .. w : f[k] = NByte * f[k-1] + D(k)
  <2>1. f[0] = 0 BY <1>4 DEF Recursive
  <2>2. ASSUME NEW k \in 1 .. w PROVE f[k] = NByte * f[k-1] + D(k)
    <3>1. f[k-1] \in Nat BY <1>4
    <3>2. f[k] = G[<<f[k-1], k>>] BY <1>4 DEF Recursive
    <3> QED BY <1>1, <3>1, <3>2
  <2> QED BY <2>1, <2>2
<1>6. Is(f) BY <1>4, <1>5
<1>7. Is(u) BY <1>6
<1> HIDE DEF u
<1>8. u[0] = 0 /\ \A k \in 1 .. w : u[k] = NByte * u[k-1] + D(k) BY <1>7
<1>9. \A k \in 1 .. w : u[k-1] \in Nat => u[k] \in Nat BY <1>2, <1>8
<1>10. u = [k \in 0 .. w |-> u[k]] BY <1>7
<1>11. u[0] \in Nat BY <1>8
<1> HIDE DEF Is
<1>12. u \in [0 .. w -> Nat] BY <1>0, <1>9, <1>10, <1>11, TypedRecursion
<1> QED BY <1>a, <1>d, <1>8, <1>12 DEF D

\* A block is the digits of its number.
LEMMA CounterFirst ==
  ASSUME cf \in Configs, NEW b, \A k \in Block0 : b[k] \in Byte, NEW w \in 1 .. cf.blksize
  PROVE  \A k \in Block0 : CounterAt(b, w, 0)[k] = b[k]
<1> DEFINE F == Prefixes(b, w)
           Q == Quotients(Number(b, w), w)
           D(k) == b[cf.blksize - w + k - 1]
           T == {j \in 0 .. w : Q[j] = F[w - j]}
<1>0. w \in Nat \ {0} /\ cf.blksize \in Nat /\ NByte \in Nat \ {0} /\ w <= cf.blksize BY Parameters
<1>1. /\ F \in [0 .. w -> Nat] /\ \A k \in 1 .. w : F[k] = NByte * F[k-1] + D(k)
      /\ \A k \in 1 .. w : D(k) \in 0 .. NByte - 1
      /\ Number(b, w) = F[w]
  BY PrefixesAre
<1>2. F[w] \in Nat BY <1>0, <1>1
<1>3. /\ Q \in [0 .. w -> Nat] /\ Q[0] = F[w] /\ \A k \in 1 .. w : Q[k] = Q[k-1] \div NByte
  BY <1>0, <1>1, <1>2, QuotientsAre
<1>b. CounterAt(b, w, 0) = [k \in Block0 |-> IF k < cf.blksize - w THEN b[k]
                                             ELSE Q[cf.blksize - 1 - k] % NByte]
  <2>1. Number(b, w) + 0 = Number(b, w) BY <1>1, <1>2
  <2> QED BY <2>1 DEF CounterAt
<1> HIDE DEF F, Q, D
<1>4. \A k \in 1 .. w : F[k] \div NByte = F[k-1] /\ F[k] % NByte = D(k)
  <2> TAKE k \in 1 .. w
  <2>1. PICK x \in Nat : x = F[k-1] BY <1>1
  <2>2. PICK d \in 0 .. NByte - 1 : d = D(k) BY <1>1
  <2>3. F[k] = NByte * x + d BY <1>1, <2>1, <2>2
  <2>4. (NByte * x + d) \div NByte = x /\ (NByte * x + d) % NByte = d BY <1>0, Division
  <2> QED BY <2>1, <2>2, <2>3, <2>4
<1>5. \A j \in 0 .. w : j \in T
  <2>1. 0 \in T
    <3>1. w - 0 = w BY <1>0
    <3> QED BY <1>0, <1>3, <3>1
  <2>2. ASSUME NEW j \in 0 .. w-1, j \in T PROVE j+1 \in T
    <3>1. j+1 \in 1 .. w /\ (j+1)-1 = j /\ w - j \in 1 .. w /\ (w - j) - 1 = w - (j+1) BY <1>0
    <3>2. Q[j+1] = F[w - j] \div NByte BY <1>3, <2>2, <3>1
    <3>3. F[w - j] \div NByte = F[(w - j) - 1] BY <1>4, <3>1
    <3>4. j+1 \in 0 .. w BY <3>1
    <3> QED BY <3>1, <3>2, <3>3, <3>4
  <2> HIDE DEF T
  <2> QED BY <1>0, <2>1, <2>2, Inductive
<1>6. ASSUME NEW k \in Block0 PROVE CounterAt(b, w, 0)[k] = b[k]
  <2>1. CASE k < cf.blksize - w BY <1>b, <2>1
  <2>2. CASE ~ (k < cf.blksize - w)
    <3>1. PICK j \in 0 .. w-1 : j = cf.blksize - 1 - k BY <1>0, <2>2 DEF Block0
    <3>2. w - j \in 1 .. w BY <1>0, <3>1
    <3>3. Q[j] % NByte = D(w - j)
      <4>1. Q[j] = F[w - j] BY <1>5, <3>1
      <4> QED BY <1>4, <3>2, <4>1
    <3>4. cf.blksize - w + (w - j) - 1 = k BY <1>0, <3>1 DEF Block0
    <3>5. D(w - j) = b[k] BY <3>4 DEF D
    <3> QED BY <1>b, <2>2, <3>1, <3>3, <3>5
  <2> QED BY <2>1, <2>2
<1> QED BY <1>6

\* The next counter: the last w bytes are incremented, with their carries.
LEMMA CounterNext ==
  ASSUME cf \in Configs, NEW b, \A k \in Block0 : b[k] \in Byte, NEW w \in 1 .. cf.blksize,
         NEW d \in Nat,
         NEW r, \A k \in Block0 : r[k] = CounterAt(b, w, d)[k]
  PROVE  \A k \in Block0 :
           CounterAt(b, w, d + 1)[k] =
             IF k >= cf.blksize - w /\ \A j \in k + 1 .. cf.blksize - 1 : r[j] = NByte - 1
             THEN (r[k] + 1) % NByte ELSE r[k]
<1>0. w \in Nat /\ cf.blksize \in Nat /\ NByte \in Nat \ {0, 1} /\ w <= cf.blksize BY Parameters
<1>1. Number(b, w) \in Nat
  <2>1. Prefixes(b, w) \in [0 .. w -> Nat] /\ Number(b, w) = Prefixes(b, w)[w] BY PrefixesAre
  <2>2. w \in 0 .. w BY <1>0
  <2> QED BY <2>1, <2>2
<1>2. PICK v \in Nat : v = Number(b, w) + d BY <1>1
<1>3. Number(b, w) + (d + 1) = v + 1 BY <1>1, <1>2
<1> DEFINE Q == Quotients(v, w)
           R == Quotients(v + 1, w)
<1>4. \A k \in Block0 : r[k] = IF k < cf.blksize - w THEN b[k] ELSE Q[cf.blksize - 1 - k] % NByte
  BY <1>2 DEF CounterAt
<1>5. \A k \in Block0 : CounterAt(b, w, d + 1)[k] =
                        IF k < cf.blksize - w THEN b[k] ELSE R[cf.blksize - 1 - k] % NByte
  BY <1>3 DEF CounterAt
<1>6. \A j \in 0 .. w : R[j] = IF \A i \in 0 .. j-1 : Q[i] % NByte = NByte - 1
                               THEN Q[j] + 1 ELSE Q[j]
  BY <1>0, QuotientsNext
<1>7. Q \in [0 .. w -> Nat] BY <1>0, QuotientsAre
<1> HIDE DEF Q, R
<1> SUFFICES ASSUME NEW k \in Block0
             PROVE  CounterAt(b, w, d + 1)[k] =
                      IF k >= cf.blksize - w /\ \A j \in k + 1 .. cf.blksize - 1 : r[j] = NByte - 1
                      THEN (r[k] + 1) % NByte ELSE r[k]
  OBVIOUS
<1>k. k \in Nat /\ k < cf.blksize BY <1>0 DEF Block0
<1>8. CASE k < cf.blksize - w BY <1>0, <1>k, <1>4, <1>5, <1>8
<1>9. CASE ~ (k < cf.blksize - w)
  <2>1. PICK j \in 0 .. w-1 : j = cf.blksize - 1 - k BY <1>0, <1>k, <1>9
  <2>2. \A i \in 0 .. j-1 : r[cf.blksize - 1 - i] = Q[i] % NByte
    <3> TAKE i \in 0 .. j-1
    <3>1. cf.blksize - 1 - i \in Block0 /\ ~ (cf.blksize - 1 - i < cf.blksize - w)
          /\ cf.blksize - 1 - (cf.blksize - 1 - i) = i
      BY <1>0, <2>1 DEF Block0
    <3> QED BY <1>4, <3>1
  <2>3. (\A i \in 0 .. j-1 : Q[i] % NByte = NByte - 1) <=>
        (\A i \in k + 1 .. cf.blksize - 1 : r[i] = NByte - 1)
    <3>1. ASSUME \A i \in 0 .. j-1 : Q[i] % NByte = NByte - 1, NEW i \in k + 1 .. cf.blksize - 1
          PROVE  r[i] = NByte - 1
      <4>1. PICK h \in 0 .. j-1 : h = cf.blksize - 1 - i BY <1>0, <1>k, <2>1
      <4>2. i = cf.blksize - 1 - h BY <1>0, <1>k, <4>1
      <4> QED BY <2>2, <3>1, <4>1, <4>2
    <3>2. ASSUME \A i \in k + 1 .. cf.blksize - 1 : r[i] = NByte - 1, NEW i \in 0 .. j-1
          PROVE  Q[i] % NByte = NByte - 1
      <4>1. cf.blksize - 1 - i \in k + 1 .. cf.blksize - 1 BY <1>0, <1>k, <2>1
      <4> QED BY <2>2, <3>2, <4>1
    <3> QED BY <3>1, <3>2
  <2>4. r[k] = Q[j] % NByte BY <1>4, <1>9, <2>1
  <2>5. CounterAt(b, w, d + 1)[k] = R[j] % NByte BY <1>5, <1>9, <2>1
  <2>6. PICK x \in Nat : x = Q[j] BY <1>7, <2>1
  <2>7. R[j] = IF \A i \in 0 .. j-1 : Q[i] % NByte = NByte - 1 THEN x + 1 ELSE x
    BY <1>6, <2>1, <2>6
  <2>8. (x + 1) % NByte = ((x % NByte) + 1) % NByte BY <1>0, Carry
  <2>9. k >= cf.blksize - w BY <1>0, <1>k, <1>9
  <2>10. CASE \A i \in 0 .. j-1 : Q[i] % NByte = NByte - 1
    BY <2>3, <2>4, <2>5, <2>6, <2>7, <2>8, <2>9, <2>10
  <2>11. CASE ~ (\A i \in 0 .. j-1 : Q[i] % NByte = NByte - 1)
    BY <2>3, <2>4, <2>5, <2>6, <2>7, <2>11
  <2> QED BY <2>10, <2>11
<1> QED BY <1>8, <1>9

----------------------------------------------------------------------------
(* The invariant. *)

(* The iv and the ciphertext behind it. *)
Chain(j) == IF j < cf.blksize THEN iv[j] ELSE Cipher(j - cf.blksize)

(* The keystream of the unit at s. *)
Key(s) ==
  IF IsStream THEN [k \in Block0 |-> Keystream(cf.mode, unit, cf.drop, iv, s + k)]
  ELSE Enc(Input(s))

(* The state of a generator that has filled d buffers. *)
GenAt(d) ==
  IF cf.mode = "salsa20" THEN [nonce |-> iv, ctr |-> d % NCtr]
  ELSE Later(Generator(cf.mode, iv), d)

(* What the register, the buffer and the generator hold when the units that *)
(* are begun end at f, and the bytes from q to there are to come.           *)
RegIs(r, f, q) ==
  /\ cf.mode \in {"cfb", "cbc"} =>
       \A k \in Block0 : f + k < q + cf.blksize => r[k] = Chain(f + k)
  /\ cf.mode = "ctr" => \A k \in Block0 : r[k] = CounterAt(iv, cf.blksize, f \div unit)[k]
  /\ cf.mode = "gcm" => \A k \in Block0 : r[k] = CounterAt(J0, CtrBytes, f \div unit)[k]
BufIs(b, f, q) ==
  /\ cf.mode # "cbc" => \A k \in 0 .. unit - 1 : q + unit <= f + k => b[k] = Key(f - unit)[k]
  /\ cf.mode = "ofb" => \A k \in Block0 : b[k] = IF f = 0 THEN iv[k] ELSE Key(f - unit)[k]
GenIs(g, f) == IsStream => g = GenAt(f \div unit)

Offset(f) == IF f = pos THEN 0 ELSE pos + unit - f
Front(f) == f % unit = 0 /\ pos <= f /\ f < pos + unit

(* Where the call in progress is.  Within a call cfb_decrypt loses boff. *)
Place(f) ==
  /\ IsStream => left = f - pos
  /\ ~IsStream /\ cf.mode # "cbc" /\ ~(pc = "body" /\ cf.mode = "cfb" /\ dir = "dec") =>
       boff = Offset(f)
  /\ pc = "body" => pos = end \/ f = pos
  /\ pc \in {"head", "body"} /\ HasFast => slow = 1
  /\ pc = "fast" \/ cf.mode = "cbc" \/ (HasFast /\ slow = 0) => f = pos
  /\ pc = "fast" /\ cf.mode \in {"cfb", "ofb"} => cf.blksize = Align
  /\ pc = "fast" /\ cf.mode \in {"ctr", "gcm"} /\ pos # end =>
       src = pos /\ end - pos <= FastBuf /\ (cf.mode = "gcm" => ~Wraps(end - pos))

(* RC4 is followed through the buffer that Reset fills. *)
Rc4Is ==
  LET at == cf.drop % unit IN
  /\ pos + left = unit - at
  /\ \A k \in 0 .. unit - 1 : at + pos <= k => buf[k] = Keystream("rc4", unit, cf.drop, iv, k - at)

Linked(f) ==
  IF cf.mode = "rc4" THEN Rc4Is
  ELSE Front(f) /\ RegIs(reg, f, pos) /\ BufIs(buf, f, pos) /\ GenIs(ks, f) /\ Place(f)

Moving == pc \in {"idle", "head", "body", "cbc", "fast", "final"}
Sound == \A i \in Idx : i < pos => Defined(i)
Flow ==
  clean = 1 =>
    /\ pc # "undefined" => Sound
    /\ Moving => \E f \in Nat : Linked(f)

----------------------------------------------------------------------------
(* Bytes and their units. *)

LEMMA UnitOf ==
  ASSUME cf \in Configs, NEW i \in Nat
  PROVE  \E s \in Nat, r \in 0 .. unit-1 :
           /\ i % unit = r /\ i - (i % unit) = s /\ s % unit = 0
           /\ s + r = i /\ i - s = r /\ r \in Block0 /\ s \div unit = i \div unit
<1>1. unit \in Nat \ {0} /\ cf.blksize \in Nat /\ unit <= cf.blksize BY Parameters
<1>2. PICK n \in Nat \ {0} : n = unit BY <1>1
<1>3. \E s \in Nat, r \in 0 .. n-1 :
        /\ r = i % n /\ i = s + r /\ i - (i % n) = s
        /\ s % n = 0 /\ s \div n = i \div n
        /\ (n <= i => n <= s)
  BY Floor
<1>4. PICK s \in Nat, r \in 0 .. n-1 :
        /\ r = i % n /\ i = s + r /\ i - (i % n) = s
        /\ s % n = 0 /\ s \div n = i \div n
        /\ (n <= i => n <= s)
  BY <1>3
<1>5. r \in Block0 BY <1>1, <1>2 DEF Block0
<1>6. s + r = i BY <1>4
<1>7. i % n = r /\ i - (i % n) = s /\ s % n = 0 BY <1>4
<1>8. i - s = r BY <1>6
<1> QED BY <1>2, <1>4, <1>5, <1>6, <1>7, <1>8

\* Byte by byte the definitions of all modes but CBC are one.
LEMMA DefinedIs ==
  ASSUME cf \in Configs, cf.mode # "cbc", NEW i \in Nat
  PROVE  Defined(i) <=> XorByte(Plain(i), Key(i - (i % unit))[i % unit]) = Cipher(i)
<1>1. PICK s \in Nat, r \in 0 .. unit-1 :
        /\ i % unit = r /\ i - (i % unit) = s /\ s % unit = 0
        /\ s + r = i /\ i - s = r /\ r \in Block0 /\ s \div unit = i \div unit
  BY UnitOf
<1>3. CASE IsStream
  <2>1. Key(s) = [k \in Block0 |-> Keystream(cf.mode, unit, cf.drop, iv, s + k)] BY <1>3 DEF Key
  <2>2. Key(s)[r] = Keystream(cf.mode, unit, cf.drop, iv, i) BY <1>1, <2>1
  <2>3. Defined(i) <=> XorByte(Plain(i), Keystream(cf.mode, unit, cf.drop, iv, i)) = Cipher(i)
    BY <1>3 DEF Defined
  <2> QED BY <1>1, <2>2, <2>3
<1>4. CASE ~IsStream
  <2>1. Defined(i) <=> XorByte(Plain(i), Enc(Input(s))[i - s]) = Cipher(i)
    BY <1>1, <1>4 DEF Defined
  <2> QED BY <1>1, <1>4, <2>1 DEF Key
<1> QED BY <1>3, <1>4

LEMMA DefinedNext ==
  ASSUME cf \in Configs, cf.mode # "cbc", cf' = cf, NEW i \in Nat
  PROVE  Defined(i)' <=> XorByte(Plain(i)', (Key(i - (i % unit))')[i % unit]) = Cipher(i)'
<1>1. (cf \in Configs)' /\ (cf.mode # "cbc")' OBVIOUS
<1>2. (Defined(i) <=> XorByte(Plain(i), Key(i - (i % unit))[i % unit]) = Cipher(i))'
  BY <1>1, DefinedIs, PTL
<1>3. unit' = unit BY SameConfig
<1> QED BY <1>2, <1>3

LEMMA CbcDefinedIs ==
  ASSUME cf \in Configs, cf.mode = "cbc", NEW i \in Nat
  PROVE  Defined(i) <=> Cipher(i) = Enc(Input(i - (i % unit)))[i % unit]
<1>1. PICK s \in Nat, r \in 0 .. unit-1 :
        /\ i % unit = r /\ i - (i % unit) = s /\ s % unit = 0
        /\ s + r = i /\ i - s = r /\ r \in Block0 /\ s \div unit = i \div unit
  BY UnitOf
<1>2. ~IsStream
  <2>1. "cbc" \notin StreamModes BY DEF StreamModes
  <2> QED BY <2>1 DEF IsStream
<1> QED BY <1>1, <1>2 DEF Defined

LEMMA CbcDefinedNext ==
  ASSUME cf \in Configs, cf.mode = "cbc", cf' = cf, NEW i \in Nat
  PROVE  (Defined(i) <=> Cipher(i) = Enc(Input(i - (i % unit)))[i % unit])'
<1>1. (cf \in Configs)' /\ (cf.mode = "cbc")' OBVIOUS
<1> QED BY <1>1, CbcDefinedIs, PTL

----------------------------------------------------------------------------
(* What is behind stays as it is: a step that keeps the context's           *)
(* parameters and writes no byte before pos.                                *)

Kept ==
  /\ cf' = cf /\ dir' = dir /\ iv' = iv /\ ivlen' = ivlen /\ in' = in
  /\ \A i \in Idx : i < pos => out'[i] = out[i]

LEMMA TextKept ==
  ASSUME cf \in Configs, pos \in 0 .. MaxLen, Kept, NEW i \in Nat, i < pos
  PROVE  i \in Idx /\ Cipher(i)' = Cipher(i) /\ Plain(i)' = Plain(i)
<1>1. MaxLen \in Nat BY SizesAssumption
<1>2. i \in Idx BY <1>1 DEF Idx
<1> QED BY <1>2 DEF Kept, Cipher, Plain

LEMMA ChainKept ==
  ASSUME cf \in Configs, pos \in 0 .. MaxLen, Kept, NEW j \in Nat, j < pos + cf.blksize
  PROVE  Chain(j)' = Chain(j)
<1>1. cf.blksize \in Nat \ {0} BY Parameters
<1>2. cf' = cf /\ iv' = iv BY DEF Kept
<1>3. CASE j < cf.blksize BY <1>2, <1>3 DEF Chain
<1>4. CASE ~ (j < cf.blksize)
  <2>1. j - cf.blksize \in Nat /\ j - cf.blksize < pos BY <1>1, <1>4
  <2>2. Cipher(j - cf.blksize)' = Cipher(j - cf.blksize) BY <1>2, <2>1, TextKept
  <2> QED BY <1>2, <1>4, <2>2 DEF Chain
<1> QED BY <1>3, <1>4

LEMMA CountersSame ==
  ASSUME cf' = cf, iv' = iv, ivlen' = ivlen
  PROVE  /\ J0' = J0
         /\ \A d : CounterAt(iv, cf.blksize, d)' = CounterAt(iv, cf.blksize, d)
         /\ \A d : CounterAt(J0, CtrBytes, d)' = CounterAt(J0, CtrBytes, d)
<1>1. cf' = cf /\ iv' = iv /\ ivlen' = ivlen OBVIOUS
<1>2. J0' = J0 BY <1>1 DEF J0, GHash, BlocksOf, ShortIv, Padded, Block0, H, ZeroBlock, XorBlock
<1>3. ASSUME NEW d PROVE CounterAt(iv, cf.blksize, d)' = CounterAt(iv, cf.blksize, d)
  BY <1>1 DEF CounterAt, Number, Quotients, Block0
<1>4. ASSUME NEW d PROVE CounterAt(J0, CtrBytes, d)' = CounterAt(J0, CtrBytes, d)
  BY <1>1, <1>2 DEF CounterAt, Number, Quotients, Block0
<1> QED BY <1>2, <1>3, <1>4

LEMMA CountersKept ==
  ASSUME Kept
  PROVE  /\ J0' = J0
         /\ \A d : CounterAt(iv, cf.blksize, d)' = CounterAt(iv, cf.blksize, d)
         /\ \A d : CounterAt(J0, CtrBytes, d)' = CounterAt(J0, CtrBytes, d)
BY CountersSame DEF Kept

\* What the cipher is given for CFB are blksize bytes of the chain.
LEMMA CfbInputIs ==
  ASSUME cf \in Configs, NEW s \in Nat
  PROVE  CfbInput(s) = [k \in Block0 |-> Chain(s + k)]
<1>1. ASSUME NEW k \in Block0
      PROVE  Chain(s + k) = IF s + k < cf.blksize THEN iv[s + k] ELSE Cipher(s + k - cf.blksize)
  <2>1. s + (k - cf.blksize) = (s + k) - cf.blksize BY Parameters DEF Block0
  <2> QED BY <2>1 DEF Chain
<1> QED BY <1>1 DEF CfbInput

LEMMA InputKept ==
  ASSUME cf \in Configs, pos \in 0 .. MaxLen, Kept, ~IsStream, NEW s \in Nat, s <= pos,
         s % unit = 0, cf.mode = "cbc" => s + cf.blksize <= pos
  PROVE  Input(s)' = Input(s)
<1>1. cf.blksize \in Nat \ {0} /\ cf.mode \in Modes /\ (cf.mode # "cfb" => unit = cf.blksize)
  BY Parameters
<1>2. cf' = cf /\ iv' = iv BY DEF Kept
<1>3. Block0' = Block0 BY <1>2 DEF Block0
<1>4. \A k \in Block0 : k \in Nat /\ k < cf.blksize BY <1>1 DEF Block0
<1>5. cf.mode \in {"cfb", "ofb", "ctr", "cbc", "gcm"} BY <1>1 DEF Modes, IsStream
<1>6. s # 0 /\ cf.mode # "cfb" => cf.blksize <= s BY <1>1, Multiples
<1>7. CASE cf.mode = "cfb"
  <2>1. \A k \in Block0 : Chain(s + k)' = Chain(s + k)
    <3> TAKE k \in Block0
    <3>1. s + k \in Nat /\ s + k < pos + cf.blksize BY <1>1, <1>4
    <3> QED BY <3>1, ChainKept
  <2>a. (cf \in Configs)' BY <1>2
  <2>2. (CfbInput(s) = [k \in Block0 |-> Chain(s + k)])' BY <2>a, CfbInputIs, PTL
  <2>3. CfbInput(s) = [k \in Block0 |-> Chain(s + k)] BY CfbInputIs
  <2>4. CfbInput(s)' = CfbInput(s) BY <1>2, <1>3, <2>1, <2>2, <2>3
  <2> QED BY <1>2, <1>7, <2>4 DEF Input
<1>8. CASE cf.mode = "ofb"
  <2>1. ASSUME s # 0, NEW k \in Block0
        PROVE  /\ Cipher(s - cf.blksize + k)' = Cipher(s - cf.blksize + k)
               /\ Plain(s - cf.blksize + k)' = Plain(s - cf.blksize + k)
    <3>1. PICK i \in Nat : i = s - cf.blksize + k /\ i < pos BY <1>1, <1>4, <1>6, <1>8, <2>1
    <3>2. Cipher(i)' = Cipher(i) /\ Plain(i)' = Plain(i) BY <3>1, TextKept
    <3> QED BY <1>2, <3>1, <3>2
  <2>2. OfbInput(s)' = OfbInput(s)
    <3>1. OfbInput(s)' = [k \in Block0 |-> IF s = 0 THEN iv[k] ELSE
                            XorByte(Plain(s - cf.blksize + k)', Cipher(s - cf.blksize + k)')]
      BY <1>2, <1>3 DEF OfbInput
    <3> QED BY <2>1, <3>1 DEF OfbInput
  <2> QED BY <1>2, <1>8, <2>2 DEF Input
<1>9. CASE cf.mode = "ctr"
  <2>1. Input(s) = CounterAt(iv, cf.blksize, s \div cf.blksize)
        /\ Input(s)' = CounterAt(iv, cf.blksize, s \div cf.blksize)'
    BY <1>2, <1>9 DEF Input
  <2>2. PICK d : d = s \div cf.blksize OBVIOUS
  <2>3. CounterAt(iv, cf.blksize, s \div cf.blksize)' = CounterAt(iv, cf.blksize, d)'
    BY <1>2, <2>2
  <2>4. CounterAt(iv, cf.blksize, d)' = CounterAt(iv, cf.blksize, d) BY CountersKept
  <2> QED BY <2>1, <2>2, <2>3, <2>4
<1>10. CASE cf.mode = "gcm"
  <2>1. Input(s) = CounterAt(J0, CtrBytes, s \div cf.blksize + 1)
        /\ Input(s)' = CounterAt(J0, CtrBytes, s \div cf.blksize + 1)'
    BY <1>2, <1>10 DEF Input
  <2>2. PICK d : d = s \div cf.blksize + 1 OBVIOUS
  <2>3. CounterAt(J0, CtrBytes, s \div cf.blksize + 1)' = CounterAt(J0, CtrBytes, d)'
    BY <1>2, <2>2
  <2>4. CounterAt(J0, CtrBytes, d)' = CounterAt(J0, CtrBytes, d) BY CountersKept
  <2> QED BY <2>1, <2>2, <2>3, <2>4
<1>11. CASE cf.mode = "cbc"
  <2>1. ASSUME NEW k \in Block0
        PROVE  Plain(s + k)' = Plain(s + k)
    <3>1. s + k \in Nat /\ s + k < pos BY <1>1, <1>4, <1>11
    <3> QED BY <3>1, TextKept
  <2>2. ASSUME s # 0, NEW k \in Block0
        PROVE  Cipher(s - cf.blksize + k)' = Cipher(s - cf.blksize + k)
    <3>1. PICK i \in Nat : i = s - cf.blksize + k /\ i < pos BY <1>1, <1>4, <1>6, <1>11, <2>2
    <3>2. Cipher(i)' = Cipher(i) BY <3>1, TextKept
    <3> QED BY <1>2, <3>1, <3>2
  <2>3. Input(s)' = [k \in Block0 |-> XorByte(Plain(s + k)', IF s = 0 THEN iv[k] ELSE
                                              Cipher(s - cf.blksize + k)')]
    BY <1>2, <1>3, <1>11 DEF Input
  <2>4. Input(s) = [k \in Block0 |-> XorByte(Plain(s + k), IF s = 0 THEN iv[k] ELSE
                                             Cipher(s - cf.blksize + k))]
    BY <1>11 DEF Input
  <2> QED BY <2>1, <2>2, <2>3, <2>4
<1> QED BY <1>5, <1>7, <1>8, <1>9, <1>10, <1>11

LEMMA KeyKept ==
  ASSUME cf \in Configs, pos \in 0 .. MaxLen, Kept, cf.mode # "cbc", NEW s \in Nat, s <= pos,
         s % unit = 0
  PROVE  Key(s)' = Key(s)
<1>1. cf' = cf /\ iv' = iv BY DEF Kept
<1>2. IsStream' = IsStream /\ Block0' = Block0 /\ unit' = unit BY <1>1, SameConfig
<1>3. CASE IsStream
  <2>1. Key(s)' = [k \in Block0 |-> Keystream(cf.mode, unit, cf.drop, iv, s + k)]
    BY <1>1, <1>2, <1>3 DEF Key
  <2> QED BY <1>3, <2>1 DEF Key
<1>4. CASE ~IsStream
  <2>1. Key(s)' = Enc(Input(s)') BY <1>2, <1>4 DEF Key
  <2>2. Input(s)' = Input(s) BY <1>4, InputKept
  <2> QED BY <1>4, <2>1, <2>2 DEF Key
<1> QED BY <1>3, <1>4

\* A byte that is behind stays right.
LEMMA DefinedKept ==
  ASSUME cf \in Configs, pos \in 0 .. MaxLen, Kept, cf.mode = "cbc" => pos % unit = 0,
         NEW i \in Nat, i < pos
  PROVE  Defined(i)' <=> Defined(i)
<1>1. cf' = cf /\ iv' = iv BY DEF Kept
<1>2. IsStream' = IsStream /\ unit' = unit BY <1>1, SameConfig
<1>3. Cipher(i)' = Cipher(i) /\ Plain(i)' = Plain(i) BY TextKept
<1>4. PICK s \in Nat, r \in 0 .. unit-1 :
        /\ i % unit = r /\ i - (i % unit) = s /\ s % unit = 0
        /\ s + r = i /\ i - s = r /\ r \in Block0 /\ s \div unit = i \div unit
  BY UnitOf
<1>a. unit \in Nat \ {0} BY Parameters
<1>5. s <= pos BY <1>4, <1>a
<1>6. CASE cf.mode # "cbc"
  <2>1. Defined(i) <=> XorByte(Plain(i), Key(s)[r]) = Cipher(i) BY <1>4, <1>6, DefinedIs
  <2>2. Defined(i)' <=> XorByte(Plain(i)', (Key(s)')[r]) = Cipher(i)'
    <3>1. Defined(i)' <=> XorByte(Plain(i)', (Key(i - (i % unit))')[i % unit]) = Cipher(i)'
      BY <1>1, <1>6, DefinedNext
    <3> QED BY <1>2, <1>4, <3>1
  <2>3. Key(s)' = Key(s) BY <1>4, <1>5, <1>6, KeyKept
  <2> QED BY <1>3, <2>1, <2>2, <2>3
<1>7. CASE cf.mode = "cbc"
  <2>1. Defined(i) <=> Cipher(i) = Enc(Input(s))[r] BY <1>4, <1>7, CbcDefinedIs
  <2>2. Defined(i)' <=> Cipher(i)' = Enc(Input(s)')[r]
    <3>1. (Defined(i) <=> Cipher(i) = Enc(Input(i - (i % unit)))[i % unit])'
      <4>1. (cf \in Configs)' /\ (cf.mode = "cbc")' BY <1>1, <1>7
      <4> QED BY <4>1, CbcDefinedIs, PTL
    <3> QED BY <1>2, <1>4, <3>1
  <2>3. s + cf.blksize <= pos
    <3>1. PICK n \in Nat \ {0} : n = unit BY <1>a
    <3>2. pos \in Nat /\ s < pos BY <1>4, <1>a
    <3>3. pos % n = 0 /\ s % n = 0 BY <1>4, <1>7, <3>1
    <3>a. PICK q \in Nat : q = pos BY <3>2
    <3>b. \A b \in Nat : b <= q /\ b % n = 0 => (q - b) % n = 0 BY <3>3, <3>a, Multiples
    <3>4. (pos - s) % n = 0
      <4>0. s <= q /\ s % n = 0 BY <3>2, <3>3, <3>a
      <4>1. (q - s) % n = 0 BY <4>0, <3>b, Zenon
      <4> QED BY <4>1, <3>a
    <3>5. PICK p \in Nat : p = pos - s /\ p # 0 BY <3>2
    <3>6. n <= p BY <3>4, <3>5, Multiples
    <3>7. n = cf.blksize BY <1>7, <3>1, Parameters
    <3> QED BY <3>2, <3>5, <3>6, <3>7
  <2>4. ~IsStream BY <1>7 DEF IsStream, StreamModes
  <2>5. Input(s)' = Input(s) BY <1>4, <1>5, <2>3, <2>4, InputKept
  <2> QED BY <1>3, <2>1, <2>2, <2>5
<1> QED BY <1>6, <1>7

LEMMA GenKept ==
  ASSUME Kept, NEW d
  PROVE  GenAt(d)' = GenAt(d)
<1>1. cf' = cf /\ iv' = iv BY DEF Kept
<1> QED BY <1>1 DEF GenAt

----------------------------------------------------------------------------
(* Bytes are written. *)

\* m bytes, combined with the keystream of their units as it is after the step.
LEMMA Written ==
  ASSUME Data, pos \in 0 .. MaxLen, cf.mode # "cbc", Sound,
         cf' = cf, dir' = dir, iv' = iv, ivlen' = ivlen, in' = in,
         NEW m \in Nat, pos + m <= MaxLen, pos' = pos + m, NEW g, NEW o,
         \A i \in Idx : i < pos => o[i] = out[i],
         out' = [i \in Idx |-> IF pos <= i /\ i < pos + m THEN XorByte(g[i], in[i]) ELSE o[i]],
         \A i \in Idx : pos <= i /\ i < pos + m =>
           g[i] \in Byte /\ g[i] = (Key(i - (i % unit))')[i % unit]
  PROVE  Kept /\ Sound'
<1>1. cf \in Configs /\ in \in Text /\ out \in Text /\ dir \in {"enc", "dec"} /\ MaxLen \in Nat
  BY SizesAssumption DEF Data
<1>2. unit' = unit BY SameConfig
<1>3. \A i \in Idx : i \in Nat /\ in[i] \in Byte BY <1>1 DEF Idx, Text
<1>4. pos \in Nat BY <1>1
<1>5. Kept BY <1>3, <1>4 DEF Kept
<1>6. ASSUME NEW i \in Idx, i < pos + m PROVE Defined(i)'
  <2>1. i \in Nat BY <1>3
  <2>2. CASE i < pos
    <3>1. Defined(i) BY <2>2 DEF Sound
    <3> QED BY <1>1, <1>5, <2>1, <2>2, <3>1, DefinedKept
  <2>3. CASE ~ (i < pos)
    <3>1. pos <= i BY <1>4, <2>1, <2>3
    <3>2. g[i] \in Byte /\ g[i] = (Key(i - (i % unit))')[i % unit] BY <1>6, <3>1
    <3>3. out'[i] = XorByte(g[i], in[i]) BY <1>6, <3>1
    <3>4. Defined(i)' <=> XorByte(Plain(i)', (Key(i - (i % unit))')[i % unit]) = Cipher(i)'
      BY <1>1, <2>1, DefinedNext
    <3>5. Defined(i)' <=> XorByte(Plain(i)', g[i]) = Cipher(i)' BY <3>2, <3>4
    <3>6. in[i] \in Byte BY <1>3
    <3>7. PICK x \in Byte, y \in Byte : x = in[i] /\ y = g[i] BY <3>2, <3>6
    <3>8. XorByte(x, y) = XorByte(y, x) /\ XorByte(XorByte(x, y), y) = x BY XorAssumption
    <3>9. CASE dir = "enc"
      <4>1. Plain(i)' = x /\ Cipher(i)' = XorByte(y, x) BY <3>3, <3>7, <3>9 DEF Plain, Cipher
      <4> QED BY <3>5, <3>7, <3>8, <4>1
    <3>10. CASE dir = "dec"
      <4>1. Plain(i)' = XorByte(y, x) /\ Cipher(i)' = x BY <3>3, <3>7, <3>10 DEF Plain, Cipher
      <4> QED BY <3>5, <3>7, <3>8, <4>1
    <3> QED BY <1>1, <3>9, <3>10
  <2> QED BY <2>2, <2>3
<1>7. Sound' BY <1>6 DEF Sound
<1> QED BY <1>5, <1>7

\* The primed forms of the parts of the invariant.
LEMMA PartsNext ==
  ASSUME Kept, NEW f
  PROVE  /\ RegIs(reg, f, pos)' <=>
              /\ cf.mode \in {"cfb", "cbc"} =>
                   \A k \in Block0 : f + k < pos' + cf.blksize => reg'[k] = Chain(f + k)'
              /\ cf.mode = "ctr" => \A k \in Block0 : reg'[k] = CounterAt(iv, cf.blksize, f \div unit)[k]
              /\ cf.mode = "gcm" => \A k \in Block0 : reg'[k] = CounterAt(J0, CtrBytes, f \div unit)[k]
         /\ BufIs(buf, f, pos)' <=>
              /\ cf.mode # "cbc" =>
                   \A k \in 0 .. unit - 1 : pos' + unit <= f + k => buf'[k] = (Key(f - unit)')[k]
              /\ cf.mode = "ofb" =>
                   \A k \in Block0 : buf'[k] = IF f = 0 THEN iv[k] ELSE (Key(f - unit)')[k]
<1>1. cf' = cf /\ iv' = iv BY DEF Kept
<1>2. unit' = unit /\ Block0' = Block0 BY <1>1, SameConfig
<1>3. PICK d : d = f \div unit OBVIOUS
<1>4. /\ CounterAt(iv, cf.blksize, f \div unit)' = CounterAt(iv, cf.blksize, d)'
      /\ CounterAt(J0, CtrBytes, f \div unit)' = CounterAt(J0, CtrBytes, d)'
  BY <1>2, <1>3
<1>5. /\ CounterAt(iv, cf.blksize, d)' = CounterAt(iv, cf.blksize, d)
      /\ CounterAt(J0, CtrBytes, d)' = CounterAt(J0, CtrBytes, d)
  BY CountersKept
<1>6. RegIs(reg, f, pos)' <=>
        /\ cf.mode \in {"cfb", "cbc"} =>
             \A k \in Block0 : f + k < pos' + cf.blksize => reg'[k] = Chain(f + k)'
        /\ cf.mode = "ctr" => \A k \in Block0 : reg'[k] = CounterAt(iv, cf.blksize, d)'[k]
        /\ cf.mode = "gcm" => \A k \in Block0 : reg'[k] = CounterAt(J0, CtrBytes, d)'[k]
  BY <1>1, <1>2, <1>4 DEF RegIs
<1>7. BufIs(buf, f, pos)' <=>
        /\ cf.mode # "cbc" =>
             \A k \in 0 .. unit - 1 : pos' + unit <= f + k => buf'[k] = (Key(f - unit)')[k]
        /\ cf.mode = "ofb" =>
             \A k \in Block0 : buf'[k] = IF f = 0 THEN iv[k] ELSE (Key(f - unit)')[k]
  BY <1>1, <1>2 DEF BufIs
<1> QED BY <1>3, <1>5, <1>6, <1>7

\* A piece of the unit that ends at f, from its offset o on.
LEMMA Piece ==
  ASSUME TInv, Working, cf.mode \notin {"cbc", "rc4"}, Sound,
         NEW m \in Nat, NEW b \in Area, NEW o \in Nat, NEW r \in Area,
         o < unit, o + m <= unit, pos + m <= end, Consume(m, b, o, r),
         cf' = cf, dir' = dir, in' = in, iv' = iv, ivlen' = ivlen,
         NEW f \in Nat, f % unit = 0, f + o = pos + unit, RegIs(r, f, pos), BufIs(b, f, pos)
  PROVE  Kept /\ Sound' /\ RegIs(reg, f, pos)' /\ BufIs(buf, f, pos)'
<1>1. /\ cf \in Configs /\ pos \in Nat /\ end \in Nat /\ pos <= end /\ end <= MaxLen
      /\ unit \in Nat \ {0} /\ cf.blksize \in Nat \ {0} /\ MaxLen \in Nat
  BY Room
<1>2. /\ unit <= cf.blksize /\ cf.blksize <= 2 * Align /\ Align \in Nat \ {0}
      /\ leftover = cf.blksize - unit
  BY <1>1, Parameters
<1>3. Data /\ dir \in {"enc", "dec"} BY SizesAssumption DEF TInv, Data
<1>4. pos' = pos + m /\ pos + m <= MaxLen /\ pos \in 0 .. MaxLen BY <1>1 DEF Consume
<1>5. /\ out' = [i \in Idx |-> IF pos <= i /\ i < pos + m THEN XorByte(b[o + i - pos], in[i]) ELSE out[i]]
      /\ reg' = IF cf.mode # "cfb" THEN r
                ELSE [k \in Cells |->
                        IF leftover + o <= k /\ k < leftover + o + m
                        THEN (IF dir = "enc" THEN out' ELSE in)[pos + k - leftover - o] ELSE r[k]]
      /\ buf' = IF cf.mode = "cfb" /\ dir = "enc"
                THEN [k \in Cells |-> IF o <= k /\ k < o + m THEN out'[pos + k - o] ELSE b[k]]
                ELSE b
  BY DEF Consume
<1>6. PICK n \in Nat \ {0}, z \in Nat \ {0} : n = unit /\ z = cf.blksize /\ n <= z BY <1>1, <1>2
<1>7. PICK s \in Nat : s = f - n /\ s % n = 0 /\ s + o = pos /\ s + n = f
  <2>1. f # 0 BY <1>1, <1>6
  <2>2. f % n = 0 BY <1>6
  <2>3. f - n \in Nat /\ (f - n) % n = 0 BY <2>1, <2>2, Units
  <2> QED BY <1>1, <1>6, <2>3
<1>8. s <= pos BY <1>1, <1>7
<1>10. \A k \in 0 .. n-1 : o <= k => b[k] = Key(s)[k]
  <2>1. \A k \in 0 .. unit - 1 : pos + unit <= f + k => b[k] = Key(f - unit)[k] BY DEF BufIs
  <2> QED BY <1>1, <1>6, <1>7, <2>1
<1>11. Kept
  <2>1. \A i \in Idx : i < pos => out'[i] = out[i] BY <1>1, <1>5 DEF Idx
  <2> QED BY <2>1 DEF Kept
<1>12. Key(s)' = Key(s) BY <1>1, <1>4, <1>6, <1>7, <1>8, <1>11, KeyKept
<1> DEFINE g == [i \in Idx |-> b[o + i - pos]]
<1>13. out' = [i \in Idx |-> IF pos <= i /\ i < pos + m THEN XorByte(g[i], in[i]) ELSE out[i]]
  BY <1>5
<1>14. ASSUME NEW i \in Idx, pos <= i, i < pos + m
       PROVE  g[i] \in Byte /\ g[i] = (Key(i - (i % unit))')[i % unit]
  <2>1. PICK k \in 0 .. n-1 : k = i - s /\ o <= k BY <1>1, <1>6, <1>7, <1>14 DEF Idx
  <2>2. i = s + k /\ o + i - pos = k BY <1>1, <1>7, <2>1, <1>14 DEF Idx
  <2>3. i % n = k BY <1>7, <2>2, Units
  <2>4. i - (i % unit) = s BY <1>6, <1>7, <2>1, <2>2, <2>3
  <2>5. g[i] = b[k] BY <2>2
  <2>6. k \in Cells BY <1>2, <1>6, <2>1 DEF Cells
  <2>7. b[k] \in Byte BY <2>6 DEF Area
  <2>8. b[k] = Key(s)[k] BY <1>10, <2>1
  <2>9. unit' = unit BY SameConfig
  <2> HIDE DEF g
  <2>10. Key(i - (i % unit))' = Key(s)' BY <2>4, <2>9
  <2> QED BY <1>6, <1>12, <2>3, <2>5, <2>7, <2>8, <2>10
<1>15. Sound'
  <2> HIDE DEF g
  <2> QED BY <1>3, <1>4, <1>13, <1>14, Written
<1>16. RegIs(reg, f, pos)'
  <2>1. CASE cf.mode = "cfb"
    <3>1. ASSUME NEW k \in Block0, f + k < pos' + cf.blksize PROVE reg'[k] = Chain(f + k)'
      <4>1. k \in Nat /\ k < z /\ k \in Cells BY <1>2, <1>6 DEF Block0, Cells
      <4>2. CASE f + k < pos + z
        <5>1. ~ (leftover + o <= k) BY <1>1, <1>2, <1>6, <1>7, <4>1, <4>2
        <5>2. reg'[k] = r[k] BY <1>5, <2>1, <4>1, <5>1
        <5>3. r[k] = Chain(f + k) BY <1>6, <2>1, <4>2 DEF RegIs
        <5>4. f + k \in Nat /\ f + k < pos + cf.blksize BY <1>6, <4>1, <4>2
        <5>5. Chain(f + k)' = Chain(f + k) BY <1>1, <1>4, <1>11, <5>4, ChainKept
        <5> QED BY <5>2, <5>3, <5>5
      <4>3. CASE ~ (f + k < pos + z)
        <5>1. leftover + o <= k /\ k < leftover + o + m
          BY <1>1, <1>2, <1>4, <1>6, <1>7, <3>1, <4>1, <4>3
        <5>2. PICK i \in Nat : i = f + k - z /\ pos + k - leftover - o = i /\ z <= f + k
          BY <1>1, <1>2, <1>6, <1>7, <4>1, <4>3
        <5>3. reg'[k] = (IF dir = "enc" THEN out' ELSE in)[i] BY <1>5, <2>1, <4>1, <5>1, <5>2
        <5>4. Cipher(i)' = (IF dir = "enc" THEN out' ELSE in)[i] BY DEF Cipher
        <5>5. cf'.blksize = z BY <1>6
        <5>6. f + k - z = i /\ ~ (f + k < z) /\ (f + k) - z = i BY <1>6, <4>1, <5>2
        <5>7. Chain(f + k)' = Cipher(i)' BY <5>5, <5>6 DEF Chain
        <5> QED BY <5>3, <5>4, <5>7
      <4> QED BY <4>2, <4>3
    <3> QED BY <1>11, <2>1, <3>1, PartsNext
  <2>2. CASE cf.mode # "cfb"
    <3>1. reg' = r BY <1>5, <2>2
    <3>2. /\ cf.mode = "ctr" => \A k \in Block0 : r[k] = CounterAt(iv, cf.blksize, f \div unit)[k]
          /\ cf.mode = "gcm" => \A k \in Block0 : r[k] = CounterAt(J0, CtrBytes, f \div unit)[k]
      BY DEF RegIs
    <3>3. cf.mode \notin {"cfb", "cbc"} BY <2>2
    <3> QED BY <1>11, <3>1, <3>2, <3>3, PartsNext
  <2> QED BY <2>1, <2>2
<1>17. BufIs(buf, f, pos)'
  <2>1. ASSUME NEW k \in 0 .. unit - 1, pos' + unit <= f + k PROVE buf'[k] = (Key(f - unit)')[k]
    <3>1. k \in 0 .. n-1 /\ k \in Nat /\ ~ (k < o + m) /\ o <= k BY <1>1, <1>4, <1>6, <1>7, <2>1
    <3>2. k \in Cells BY <1>2, <1>6, <3>1 DEF Cells
    <3>3. buf'[k] = b[k] BY <1>5, <3>1, <3>2
    <3>4. Key(f - unit)' = Key(s)'
      <4>1. unit' = unit BY SameConfig
      <4> QED BY <1>6, <1>7, <4>1
    <3> QED BY <1>10, <1>12, <3>1, <3>3, <3>4
  <2>2. ASSUME cf.mode = "ofb", NEW k \in Block0
        PROVE  buf'[k] = IF f = 0 THEN iv[k] ELSE (Key(f - unit)')[k]
    <3>1. buf' = b BY <1>5, <2>2
    <3>2. f # 0 BY <1>6, <1>7
    <3>3. b[k] = Key(f - unit)[k] BY <2>2, <3>2 DEF BufIs
    <3>4. Key(f - unit)' = Key(s)'
      <4>1. unit' = unit BY SameConfig
      <4> QED BY <1>6, <1>7, <4>1
    <3>5. Key(f - unit) = Key(s) BY <1>6, <1>7
    <3> QED BY <1>12, <3>1, <3>2, <3>3, <3>4, <3>5
  <2> QED BY <1>11, <2>1, <2>2, PartsNext
<1> QED BY <1>11, <1>15, <1>16, <1>17

----------------------------------------------------------------------------
(* Counters and generators, one unit on. *)

LEMMA IncrementIs ==
  ASSUME cf \in Configs, NEW c \in Area, NEW b, \A k \in Block0 : b[k] \in Byte, NEW d \in Nat
  PROVE  /\ (\A k \in Block0 : c[k] = CounterAt(b, cf.blksize, d)[k]) =>
              \A k \in Block0 : increment_counter(c, cf.blksize)[k] = CounterAt(b, cf.blksize, d + 1)[k]
         /\ cf.mode = "gcm" /\ (\A k \in Block0 : c[k] = CounterAt(b, CtrBytes, d)[k]) =>
              \A k \in Block0 : gcm_increment(c, cf.blksize)[k] = CounterAt(b, CtrBytes, d + 1)[k]
<1>1. /\ cf.blksize \in Nat \ {0} /\ cf.blksize <= 2 * Align /\ Align \in Nat
      /\ CtrBytes \in 1 .. Align-1 /\ (cf.mode = "gcm" => cf.blksize = Align)
  BY Parameters
<1>2. \A k \in Block0 : k \in Cells /\ k \in Nat /\ k < cf.blksize BY <1>1 DEF Block0, Cells
<1>3. DOMAIN c = Cells BY DEF Area
<1>4. \A k \in Block0 :
        increment_counter(c, cf.blksize)[k] =
          IF \A j \in k + 1 .. cf.blksize - 1 : c[j] = NByte - 1 THEN (c[k] + 1) % NByte ELSE c[k]
  BY <1>2, <1>3 DEF increment_counter
<1>5. ASSUME \A k \in Block0 : c[k] = CounterAt(b, cf.blksize, d)[k], NEW k \in Block0
      PROVE  increment_counter(c, cf.blksize)[k] = CounterAt(b, cf.blksize, d + 1)[k]
  <2>1. cf.blksize \in 1 .. cf.blksize /\ k >= cf.blksize - cf.blksize BY <1>1, <1>2
  <2>2. \A j \in Block0 :
          CounterAt(b, cf.blksize, d + 1)[j] =
            IF j >= cf.blksize - cf.blksize /\ \A i \in j + 1 .. cf.blksize - 1 : c[i] = NByte - 1
            THEN (c[j] + 1) % NByte ELSE c[j]
    BY <1>5, <2>1, CounterNext
  <2> QED BY <1>4, <2>1, <2>2
<1>6. ASSUME cf.mode = "gcm", \A k \in Block0 : c[k] = CounterAt(b, CtrBytes, d)[k], NEW k \in Block0
      PROVE  gcm_increment(c, cf.blksize)[k] = CounterAt(b, CtrBytes, d + 1)[k]
  <2>1. CtrBytes \in 1 .. cf.blksize BY <1>1, <1>6
  <2>2. \A j \in Block0 :
          CounterAt(b, CtrBytes, d + 1)[j] =
            IF j >= cf.blksize - CtrBytes /\ \A i \in j + 1 .. cf.blksize - 1 : c[i] = NByte - 1
            THEN (c[j] + 1) % NByte ELSE c[j]
    BY <1>6, <2>1, CounterNext
  <2>3. gcm_increment(c, cf.blksize)[k] =
          IF k < cf.blksize - CtrBytes THEN c[k] ELSE increment_counter(c, cf.blksize)[k]
    BY <1>2, <1>3 DEF gcm_increment
  <2>4. k < cf.blksize - CtrBytes <=> ~ (k >= cf.blksize - CtrBytes) BY <1>1, <1>2, <2>1
  <2> QED BY <1>4, <2>2, <2>3, <2>4
<1> QED BY <1>5, <1>6

\* The states Later goes through.
Laters(g, m) == CHOOSE f : f = [k \in 0 .. m |-> IF k = 0 THEN g ELSE Advance(f[k-1])]

LEMMA LatersAre ==
  ASSUME NEW g \in GenStates, NEW m \in Nat
  PROVE  /\ Laters(g, m)[0] = g
         /\ \A k \in 1 .. m : Laters(g, m)[k] = Advance(Laters(g, m)[k-1])
         /\ \A k \in 0 .. m : Laters(g, m)[k] \in GenStates
         /\ Later(g, m) = Laters(g, m)[m]
<1> DEFINE G == [e \in GenStates \X (1 .. m) |-> Advance(e[1])]
           Is(f) == f = [k \in 0 .. m |-> IF k = 0 THEN g ELSE Advance(f[k-1])]
           u == CHOOSE f : Is(f)
<1>1. \A k \in 1 .. m : \A x \in GenStates : G[<<x, k>>] = Advance(x) OBVIOUS
<1>2. \A x \in GenStates : Advance(x) \in GenStates BY StreamAssumption
<1>3. StepsIn(m, GenStates, G) BY <1>1, <1>2 DEF StepsIn
<1>a. Laters(g, m) = u /\ Later(g, m) = u[m] BY DEF Laters, Later
<1> HIDE DEF G
<1>4. PICK f \in [0 .. m -> GenStates] : Recursive(f, m, g, G) BY <1>3, Recursion
<1>5. f[0] = g /\ \A k \in 1 .. m : f[k] = Advance(f[k-1])
  <2>1. f[0] = g BY <1>4 DEF Recursive
  <2>2. ASSUME NEW k \in 1 .. m PROVE f[k] = Advance(f[k-1])
    <3>1. f[k-1] \in GenStates BY <1>4
    <3> QED BY <1>1, <1>4, <3>1 DEF Recursive
  <2> QED BY <2>1, <2>2
<1>6. Is(f) BY <1>4, <1>5
<1>7. Is(u) BY <1>6
<1> HIDE DEF u
<1>8. u[0] = g /\ \A k \in 1 .. m : u[k] = Advance(u[k-1]) BY <1>7
<1>9. \A k \in 1 .. m : u[k-1] \in GenStates => u[k] \in GenStates BY <1>2, <1>8
<1>10. u = [k \in 0 .. m |-> u[k]] BY <1>7
<1>11. u[0] \in GenStates BY <1>8
<1> HIDE DEF Is
<1>12. u \in [0 .. m -> GenStates] BY <1>9, <1>10, <1>11, TypedRecursion
<1> QED BY <1>a, <1>8, <1>12

LEMMA LaterIs ==
  ASSUME NEW g \in GenStates, NEW m \in Nat
  PROVE  /\ Later(g, 0) = g /\ Later(g, m) \in GenStates
         /\ Later(g, m + 1) = Advance(Later(g, m))
<1> DEFINE F == Laters(g, m)
           E == Laters(g, m + 1)
           T == {k \in 0 .. m : E[k] = F[k]}
<1>1. /\ F[0] = g /\ \A k \in 1 .. m : F[k] = Advance(F[k-1])
      /\ \A k \in 0 .. m : F[k] \in GenStates
      /\ Later(g, m) = F[m]
  BY LatersAre
<1>2. /\ E[0] = g /\ \A k \in 1 .. m + 1 : E[k] = Advance(E[k-1])
      /\ Later(g, m + 1) = E[m + 1]
  <2>1. m + 1 \in Nat OBVIOUS
  <2> QED BY <2>1, LatersAre
<1>3. Later(g, 0) = g
  <2>1. 0 \in Nat OBVIOUS
  <2> QED BY <2>1, LatersAre
<1> HIDE DEF F, E
<1>4. 0 \in T BY <1>1, <1>2
<1>5. ASSUME NEW n \in 0 .. m-1, n \in T PROVE n+1 \in T
  <2>1. n+1 \in 1 .. m /\ n+1 \in 1 .. m + 1 /\ (n+1)-1 = n OBVIOUS
  <2>2. E[n+1] = Advance(E[n]) /\ F[n+1] = Advance(F[n]) BY <1>1, <1>2, <2>1
  <2> QED BY <1>5, <2>1, <2>2
<1>6. \A n \in 0 .. m : n \in T
  <2> HIDE DEF T
  <2> QED BY <1>4, <1>5, Inductive
<1>7. E[m] = F[m] BY <1>6
<1>8. m + 1 \in 1 .. m + 1 /\ (m + 1) - 1 = m OBVIOUS
<1>9. E[m + 1] = Advance(E[m]) BY <1>2, <1>8
<1> QED BY <1>1, <1>2, <1>3, <1>7, <1>9

LEMMA GenType ==
  ASSUME cf \in Configs, IsStream, cf.mode \notin {"salsa20", "rc4"}, iv \in Area
  PROVE  Generator(cf.mode, iv) \in GenStates
BY StreamAssumption DEF Generator, Area

\* Filling a buffer gives the next unit of the keystream.
LEMMA GenNext ==
  ASSUME cf \in Configs, IsStream, cf.mode # "rc4", iv \in Area, NEW d \in Nat
  PROVE  /\ FillBuffer(cf.mode, unit, GenAt(d)).ks = GenAt(d + 1)
         /\ \A j \in Nat : j \div unit = d =>
              FillBuffer(cf.mode, unit, GenAt(d)).buf[j % unit] =
                Keystream(cf.mode, unit, cf.drop, iv, j)
<1>1. cf.mode = "salsa20" \/ cf.mode \in {"hc", "sosemanuk", "rabbit"} BY StreamMode
<1>2. CASE cf.mode = "salsa20"
  <2>1. GenAt(d) = [nonce |-> iv, ctr |-> d % NCtr] /\ GenAt(d + 1) = [nonce |-> iv, ctr |-> (d + 1) % NCtr]
    BY <1>2 DEF GenAt
  <2>2. PICK c : c = d % NCtr OBVIOUS
  <2>3. (c + 1) % NCtr = (d + 1) % NCtr
    <3>1. 1 \in Nat /\ NCtr \in Nat \ {0} BY StreamAssumption
    <3> QED BY <2>2, <3>1, RemainderOfSum
  <2>4. FillBuffer(cf.mode, unit, GenAt(d)) =
          [buf |-> Core(unit, GenAt(d).nonce, GenAt(d).ctr),
           ks |-> [GenAt(d) EXCEPT !.ctr = (GenAt(d).ctr + 1) % NCtr]]
    BY <1>2 DEF FillBuffer
  <2>5. GenAt(d) = [nonce |-> iv, ctr |-> c] BY <2>1, <2>2
  <2>6. FillBuffer(cf.mode, unit, GenAt(d)) =
          [buf |-> Core(unit, iv, c), ks |-> [nonce |-> iv, ctr |-> (c + 1) % NCtr]]
    BY <2>4, <2>5
  <2>7. ASSUME NEW j \in Nat, j \div unit = d
        PROVE  Keystream(cf.mode, unit, cf.drop, iv, j) = Core(unit, iv, c)[j % unit]
    BY <1>2, <2>2, <2>7 DEF Keystream
  <2> QED BY <2>1, <2>3, <2>6, <2>7
<1>3. CASE cf.mode \in {"hc", "sosemanuk", "rabbit"}
  <2>1. PICK g \in GenStates : g = Generator(cf.mode, iv) BY <1>3, GenType
  <2>2. GenAt(d) = Later(g, d) /\ GenAt(d + 1) = Later(g, d + 1) BY <1>3, <2>1 DEF GenAt
  <2>3. Later(g, d + 1) = Advance(Later(g, d)) BY LaterIs
  <2>4. FillBuffer(cf.mode, unit, GenAt(d)) =
          [buf |-> Yield(unit, GenAt(d)), ks |-> Advance(GenAt(d))]
    BY <1>3 DEF FillBuffer
  <2>5. ASSUME NEW j \in Nat, j \div unit = d
        PROVE  Keystream(cf.mode, unit, cf.drop, iv, j) = Yield(unit, Later(g, d))[j % unit]
    BY <1>3, <2>1, <2>5 DEF Keystream
  <2> QED BY <2>2, <2>3, <2>4, <2>5
<1> QED BY <1>1, <1>2, <1>3

----------------------------------------------------------------------------
(* GHASH, block by block. *)

\* The exclusive or of blocks.
LEMMA XorFacts ==
  ASSUME cf \in Configs, NEW x \in Blocks, NEW y \in Blocks
  PROVE  XorBlock(x, y) \in Blocks /\ XorBlock(ZeroBlock, y) = y /\ XorBlock(x, y) = XorBlock(y, x)
<1>1. \A k \in Block0 : x[k] \in Byte /\ y[k] \in Byte BY DEF Blocks
<1>2. 0 \in Byte BY ZeroType
<1>3. \A k \in Block0 : XorByte(0, y[k]) = y[k] /\ XorByte(x[k], y[k]) = XorByte(y[k], x[k])
  BY <1>1, <1>2, XorAssumption
<1>4. XorBlock(ZeroBlock, y) = [k \in Block0 |-> y[k]] BY <1>3 DEF XorBlock, ZeroBlock
<1>5. y = [k \in Block0 |-> y[k]] BY DEF Blocks
<1>6. XorBlock(x, y) = XorBlock(y, x) BY <1>3 DEF XorBlock
<1> QED BY <1>4, <1>5, <1>6, XorType

LEMMA FieldFacts ==
  ASSUME cf \in Configs, cf.mode = "gcm", NEW g \in Blocks, NEW h \in Blocks, NEW x \in Blocks
  PROVE  /\ Product(g, h) \in Blocks
         /\ Product(Product(g, h), x) = Product(h, Product(g, x))
         /\ Product(g, XorBlock(h, x)) = XorBlock(Product(g, h), Product(g, x))
         /\ hash(x, h) = Product(H, XorBlock(x, h))
<1>1. Blocks = [0 .. cf.blksize - 1 -> Byte] /\ Block0 = 0 .. cf.blksize - 1 BY DEF Blocks, Block0
<1>2. \A a \in Blocks, b \in Blocks, c \in Blocks :
        /\ MulBlock(cf.mul, b, c) = Product(b, c)
        /\ Product(Product(a, b), c) = Product(b, Product(a, c))
        /\ Product(a, [k \in Block0 |-> XorByte(b[k], c[k])]) =
           [k \in Block0 |-> XorByte(Product(a, b)[k], Product(a, c)[k])]
  BY FieldAssumption, Zenon DEF Blocks, Block0
<1>3. MulBlock(cf.mul, g, h) \in Blocks BY <1>1, CipherAssumption
<1>4. MulBlock(cf.mul, g, h) = Product(g, h) BY <1>2
<1>5. H \in Blocks BY HashType
<1>6. XorBlock(x, h) \in Blocks BY XorType
<1>7. hash(x, h) = Product(H, XorBlock(x, h)) BY <1>2, <1>5, <1>6 DEF hash
<1>8. Product(g, XorBlock(h, x)) = XorBlock(Product(g, h), Product(g, x)) BY <1>2 DEF XorBlock
<1> QED BY <1>2, <1>3, <1>4, <1>7, <1>8

(* The powers of H and the sums of GHASH. *)
Powers(m) == CHOOSE power : power = [i \in 0 .. m |-> IF i = 0 THEN H ELSE Product(H, power[i-1])]
Sums(m, f, p) ==
  CHOOSE sum : sum = [i \in 0 .. m |-> IF i = 0 THEN ZeroBlock
                                       ELSE XorBlock(sum[i-1], Product(p[m - i], f[i]))]

LEMMA PowersAre ==
  ASSUME cf \in Configs, cf.mode = "gcm", NEW m \in Nat
  PROVE  /\ Powers(m) \in [0 .. m -> Blocks] /\ Powers(m)[0] = H
         /\ \A i \in 1 .. m : Powers(m)[i] = Product(H, Powers(m)[i-1])
<1> DEFINE G == [e \in Blocks \X (1 .. m) |-> Product(H, e[1])]
           Is(f) == f = [i \in 0 .. m |-> IF i = 0 THEN H ELSE Product(H, f[i-1])]
           u == CHOOSE f : Is(f)
<1>0. H \in Blocks BY ZeroType, CipherType DEF H
<1>1. \A k \in 1 .. m : \A x \in Blocks : G[<<x, k>>] = Product(H, x) OBVIOUS
<1>2. \A x \in Blocks : Product(H, x) \in Blocks BY <1>0, FieldFacts
<1>3. StepsIn(m, Blocks, G) BY <1>1, <1>2 DEF StepsIn
<1>a. Powers(m) = u BY DEF Powers
<1> HIDE DEF G
<1>4. PICK f \in [0 .. m -> Blocks] : Recursive(f, m, H, G) BY <1>0, <1>3, Recursion
<1>5. f[0] = H /\ \A k \in 1 .. m : f[k] = Product(H, f[k-1])
  <2>1. f[0] = H BY <1>4 DEF Recursive
  <2>2. ASSUME NEW k \in 1 .. m PROVE f[k] = Product(H, f[k-1])
    <3>1. f[k-1] \in Blocks BY <1>4
    <3> QED BY <1>1, <1>4, <3>1 DEF Recursive
  <2> QED BY <2>1, <2>2
<1>6. Is(f) BY <1>4, <1>5
<1>7. Is(u) BY <1>6
<1> HIDE DEF u
<1>8. u[0] = H /\ \A k \in 1 .. m : u[k] = Product(H, u[k-1]) BY <1>7
<1>9. \A k \in 1 .. m : u[k-1] \in Blocks => u[k] \in Blocks BY <1>2, <1>8
<1>10. u = [k \in 0 .. m |-> u[k]] BY <1>7
<1>11. u[0] \in Blocks BY <1>0, <1>8
<1> HIDE DEF Is
<1>12. u \in [0 .. m -> Blocks] BY <1>9, <1>10, <1>11, TypedRecursion
<1> QED BY <1>a, <1>8, <1>12

LEMMA SumsAre ==
  ASSUME cf \in Configs, cf.mode = "gcm", NEW m \in Nat, NEW f, \A i \in 1 .. m : f[i] \in Blocks
  PROVE  /\ \A i \in 0 .. m : Sums(m, f, Powers(m))[i] \in Blocks
         /\ Sums(m, f, Powers(m))[0] = ZeroBlock
         /\ \A i \in 1 .. m : Sums(m, f, Powers(m))[i] =
              XorBlock(Sums(m, f, Powers(m))[i-1], Product(Powers(m)[m - i], f[i]))
         /\ GHash(m, f) = Sums(m, f, Powers(m))[m]
<1> DEFINE p == Powers(m)
           Term(i) == Product(p[m - i], f[i])
           G == [e \in Blocks \X (1 .. m) |-> XorBlock(e[1], Term(e[2]))]
           Is(s) == s = [i \in 0 .. m |-> IF i = 0 THEN ZeroBlock ELSE XorBlock(s[i-1], Term(i))]
           u == CHOOSE s : Is(s)
<1>0. ZeroBlock \in Blocks /\ p \in [0 .. m -> Blocks] BY ZeroType, PowersAre
<1>a. Sums(m, f, p) = u BY DEF Sums
<1>b. GHash(m, f) = u[m] BY DEF GHash, Powers
<1> HIDE DEF p
<1>t. \A i \in 1 .. m : Term(i) \in Blocks
  <2> TAKE i \in 1 .. m
  <2>1. p[m - i] \in Blocks /\ f[i] \in Blocks BY <1>0
  <2> QED BY <2>1, FieldFacts
<1> HIDE DEF Term
<1>1. \A k \in 1 .. m : \A x \in Blocks : G[<<x, k>>] = XorBlock(x, Term(k)) OBVIOUS
<1>2. \A k \in 1 .. m : \A x \in Blocks : XorBlock(x, Term(k)) \in Blocks BY <1>t, XorType
<1>3. StepsIn(m, Blocks, G) BY <1>1, <1>2 DEF StepsIn
<1> HIDE DEF G
<1>4. PICK s \in [0 .. m -> Blocks] : Recursive(s, m, ZeroBlock, G) BY <1>0, <1>3, Recursion
<1>5. s[0] = ZeroBlock /\ \A k \in 1 .. m : s[k] = XorBlock(s[k-1], Term(k))
  <2>1. s[0] = ZeroBlock BY <1>4 DEF Recursive
  <2>2. ASSUME NEW k \in 1 .. m PROVE s[k] = XorBlock(s[k-1], Term(k))
    <3>1. s[k-1] \in Blocks BY <1>4
    <3> QED BY <1>1, <1>4, <3>1 DEF Recursive
  <2> QED BY <2>1, <2>2
<1>6. Is(s) BY <1>4, <1>5
<1>7. Is(u) BY <1>6
<1> HIDE DEF u
<1>8. u[0] = ZeroBlock /\ \A k \in 1 .. m : u[k] = XorBlock(u[k-1], Term(k)) BY <1>7
<1>9. \A k \in 1 .. m : u[k-1] \in Blocks => u[k] \in Blocks BY <1>2, <1>8
<1>10. u = [i \in 0 .. m |-> u[i]] BY <1>7
<1>11. u[0] \in Blocks BY <1>0, <1>8
<1> HIDE DEF Is
<1>12. u \in [0 .. m -> Blocks] BY <1>9, <1>10, <1>11, TypedRecursion
<1> QED BY <1>a, <1>b, <1>8, <1>12 DEF p, Term

\* A product with zero is zero.
LEMMA ZeroProduct ==
  ASSUME cf \in Configs, cf.mode = "gcm", NEW g \in Blocks
  PROVE  Product(g, ZeroBlock) = ZeroBlock
<1>0. ZeroBlock \in Blocks BY ZeroType
<1>1. PICK z \in Blocks : z = Product(g, ZeroBlock) BY <1>0, FieldFacts
<1>2. XorBlock(ZeroBlock, ZeroBlock) = ZeroBlock BY <1>0, XorFacts
<1>3. XorBlock(z, z) = z BY <1>0, <1>1, <1>2, FieldFacts
<1>4. XorBlock(z, z) = ZeroBlock
  <2>1. \A k \in Block0 : z[k] \in Byte BY DEF Blocks
  <2>2. 0 \in Byte BY ZeroType
  <2>3. ASSUME NEW b \in Byte PROVE XorByte(b, b) = 0
    <3>1. XorByte(b, 0) = b /\ XorByte(0, b) = XorByte(b, 0) /\ XorByte(XorByte(0, b), b) = 0
      BY <2>2, XorAssumption
    <3> QED BY <3>1
  <2> QED BY <2>1, <2>3 DEF XorBlock, ZeroBlock
<1> QED BY <1>1, <1>3, <1>4

\* GHASH by Horner's rule: one multiplication by H for a block.
LEMMA Horner ==
  ASSUME cf \in Configs, cf.mode = "gcm", NEW m \in Nat, NEW f, \A i \in 1 .. m : f[i] \in Blocks,
         NEW acc, acc[0] = ZeroBlock, \A i \in 1 .. m : acc[i] = hash(acc[i-1], f[i])
  PROVE  GHash(m, f) = acc[m] /\ acc[m] \in Blocks
<1> DEFINE p == Powers(m)
           s == Sums(m, f, p)
           T == {i \in 0 .. m : acc[i] \in Blocks /\ s[i] = IF i = m THEN acc[i] ELSE Product(p[m - 1 - i], acc[i])}
<1>1. p \in [0 .. m -> Blocks] /\ p[0] = H /\ \A i \in 1 .. m : p[i] = Product(H, p[i-1]) BY PowersAre
<1>2. /\ \A i \in 0 .. m : s[i] \in Blocks
      /\ s[0] = ZeroBlock /\ \A i \in 1 .. m : s[i] = XorBlock(s[i-1], Product(p[m - i], f[i]))
      /\ GHash(m, f) = s[m]
  BY SumsAre
<1> HIDE DEF p, s
<1>3. H \in Blocks /\ ZeroBlock \in Blocks BY ZeroType, HashType
<1>4. 0 \in T
  <2>1. CASE m = 0 BY <1>2, <1>3, <2>1
  <2>2. CASE m # 0
    <3>1. p[m - 1 - 0] \in Blocks BY <1>1, <2>2
    <3>2. Product(p[m - 1 - 0], ZeroBlock) = ZeroBlock BY <3>1, ZeroProduct
    <3> QED BY <1>2, <1>3, <2>2, <3>2
  <2> QED BY <2>1, <2>2
<1>5. ASSUME NEW i \in 0 .. m-1, i \in T PROVE i+1 \in T
  <2>1. i+1 \in 1 .. m /\ (i+1)-1 = i /\ i # m /\ m - (i+1) = m - 1 - i /\ m - 1 - i \in 0 .. m
    OBVIOUS
  <2>2. PICK x \in Blocks, y \in Blocks, q \in Blocks : x = acc[i] /\ y = f[i+1] /\ q = p[m - 1 - i]
    BY <1>1, <1>5, <2>1
  <2>3. s[i] = Product(q, x) BY <1>5, <2>1, <2>2
  <2>4. s[i+1] = XorBlock(Product(q, x), Product(q, y)) BY <1>2, <2>1, <2>2, <2>3
  <2>5. PICK z \in Blocks : z = XorBlock(x, y) BY XorType
  <2>6. s[i+1] = Product(q, z) BY <2>4, <2>5, FieldFacts
  <2>7. acc[i+1] = Product(H, z)
    <3>1. acc[i+1] = hash(x, y) BY <2>1, <2>2
    <3>2. hash(x, y) = Product(H, XorBlock(x, y)) BY <1>3, FieldFacts
    <3> QED BY <2>5, <3>1, <3>2
  <2>8. acc[i+1] \in Blocks BY <1>3, <2>7, FieldFacts
  <2>9. CASE i+1 = m
    <3>1. q = H BY <1>1, <2>1, <2>2, <2>9
    <3> QED BY <2>1, <2>6, <2>7, <2>8, <2>9, <3>1
  <2>10. CASE i+1 # m
    <3>1. m - 1 - i \in 1 .. m /\ (m - 1 - i) - 1 = m - 1 - (i+1) /\ m - 1 - (i+1) \in 0 .. m
      BY <2>1, <2>10
    <3>2. PICK h \in Blocks : h = p[m - 1 - (i+1)] BY <1>1, <3>1
    <3>3. q = Product(H, h) BY <1>1, <2>2, <3>1, <3>2
    <3>4. Product(Product(H, h), z) = Product(h, Product(H, z)) BY <1>3, FieldFacts
    <3>5. s[i+1] = Product(p[m - 1 - (i+1)], acc[i+1]) BY <2>6, <2>7, <3>2, <3>3, <3>4
    <3> QED BY <2>1, <2>8, <2>10, <3>5
  <2> QED BY <2>9, <2>10
<1>6. \A i \in 0 .. m : i \in T
  <2> HIDE DEF T
  <2> QED BY <1>4, <1>5, Inductive
<1>7. m \in T
  <2> HIDE DEF T
  <2> QED BY <1>6
<1> QED BY <1>2, <1>7

\* The first counter is the one setiv stores.
LEMMA J0Is ==
  ASSUME cf \in Configs, cf.mode = "gcm", iv \in Area, ivlen \in IvLens(cf)
  PROVE  J0 \in Blocks /\ (~Refused(ivlen) => Y0(iv, ivlen) = J0)
<1> DEFINE n == ivlen
           m == BlocksOf(n)
           g == [i \in 0 .. m-1 |-> Padded(iv, n, i * cf.blksize)]
           f == [i \in 1 .. m + 1 |-> IF i > m THEN LenBlock(0, n)
                                      ELSE Padded(iv, n, (i-1) * cf.blksize)]
           h == Hashing(ZeroBlock, m, g)
           acc == [i \in 0 .. m + 1 |-> IF i = m + 1 THEN HashedIv(iv, n) ELSE h[i]]
<1>1. n \in Nat /\ n <= 2 * Align /\ cf.blksize \in Nat \ {0} /\ Align \in Nat BY Parameters
<1>2. m \in Nat
  <2>1. PICK a \in Nat : a = n + cf.blksize - 1 BY <1>1
  <2>2. a \div cf.blksize \in Nat BY <1>1, DivisionExists
  <2> QED BY <2>1, <2>2 DEF BlocksOf
<1>3. HashedIv(iv, n) = hash(hash_blocks(ZeroBlock, m, g), LenBlock(0, n)) BY DEF HashedIv, BlocksOf
<1>4. HashedIv(iv, n) \in Blocks /\ LenBlock(0, n) \in Blocks BY HashedType
<1>5. \A k \in 0 .. n-1 : iv[k] \in Byte
  <2>1. \A k \in 0 .. n-1 : k \in Cells BY <1>1 DEF Cells
  <2> QED BY <2>1 DEF Area
<1>6. J0 = IF n = ShortIv THEN [Padded(iv, n, 0) EXCEPT ![cf.blksize - 1] = 1] ELSE GHash(m + 1, f)
  BY DEF J0
<1> HIDE DEF n, m
<1>7. \A o \in Nat : Padded(iv, n, o) \in Blocks BY <1>1, <1>5, PaddedType
<1>8. \A i \in Nat : i * cf.blksize \in Nat BY <1>1
<1>9. \A i \in 0 .. m-1 : g[i] \in Blocks BY <1>2, <1>7, <1>8
<1>10. \A i \in 1 .. m + 1 : f[i] \in Blocks
  <2> TAKE i \in 1 .. m + 1
  <2>1. i-1 \in Nat BY <1>2
  <2>2. (i-1) * cf.blksize \in Nat BY <1>8, <2>1
  <2> QED BY <1>4, <1>7, <2>2
<1>11. /\ h[0] = ZeroBlock /\ \A i \in 1 .. m : h[i] = hash(h[i-1], g[i-1])
       /\ hash_blocks(ZeroBlock, m, g) = h[m]
  <2>1. ZeroBlock \in Blocks BY ZeroType
  <2> HIDE DEF g
  <2> QED BY <1>2, <1>9, <2>1, HashingType
<1>12. \A i \in 1 .. m : f[i] = g[i-1] BY <1>2
<1>13. f[m + 1] = LenBlock(0, n) BY <1>2
<1> HIDE DEF h, f, g
<1>14. acc[0] = ZeroBlock BY <1>2, <1>11
<1>15. \A i \in 1 .. m + 1 : acc[i] = hash(acc[i-1], f[i])
  <2> TAKE i \in 1 .. m + 1
  <2>1. acc[i-1] = h[i-1] BY <1>2
  <2>2. CASE i = m + 1
    <3>1. i-1 = m BY <1>2, <2>2
    <3> QED BY <1>3, <1>11, <1>13, <2>1, <2>2, <3>1
  <2>3. CASE i # m + 1
    <3>1. i \in 1 .. m /\ acc[i] = h[i] BY <1>2, <2>3
    <3> QED BY <1>11, <1>12, <2>1, <3>1
  <2> QED BY <2>2, <2>3
<1>16. acc[m + 1] = HashedIv(iv, n) BY <1>2
<1>17. GHash(m + 1, f) = HashedIv(iv, n)
  <2>1. m + 1 \in Nat BY <1>2
  <2> HIDE DEF acc
  <2> QED BY <1>10, <1>14, <1>15, <1>16, <2>1, Horner
<1>18. [Padded(iv, n, 0) EXCEPT ![cf.blksize - 1] = 1] \in Blocks
  <2>1. 1 \in Byte BY Parameters DEF Byte
  <2>2. Padded(iv, n, 0) \in Blocks BY <1>7
  <2> QED BY <2>1, <2>2 DEF Blocks
<1>19. J0 \in Blocks BY <1>4, <1>6, <1>17, <1>18
<1>20. ASSUME ~Refused(ivlen) PROVE Y0(iv, ivlen) = J0
  BY <1>6, <1>17, <1>20 DEF Y0, n
<1> QED BY <1>19, <1>20

----------------------------------------------------------------------------
(* The next unit. *)

LEMMA OverIs ==
  ASSUME cf \in Configs, NEW b \in Area, NEW g
  PROVE  \A k \in Block0 : k \in Cells /\ Over(b, g, cf.blksize)[k] = g[k]
<1>1. \A k \in Block0 : k \in Cells /\ k < cf.blksize BY Parameters DEF Block0, Cells
<1>2. DOMAIN b = Cells BY DEF Area
<1> QED BY <1>1, <1>2 DEF Over

\* A byte of keystream, from the plaintext and the ciphertext.
LEMMA KeyOfBytes ==
  ASSUME cf \in Configs, cf.mode # "cbc", in \in Text, out \in Text, NEW i \in Idx, Defined(i),
         Key(i - (i % unit))[i % unit] \in Byte
  PROVE  XorByte(Plain(i), Cipher(i)) = Key(i - (i % unit))[i % unit]
<1>1. i \in Nat BY Parameters DEF Idx
<1>2. PICK x \in Byte : x = Plain(i) BY DEF Plain, Text
<1>3. PICK y \in Byte : y = Key(i - (i % unit))[i % unit] OBVIOUS
<1>4. XorByte(x, y) = Cipher(i) BY <1>1, <1>2, <1>3, DefinedIs
<1>5. /\ XorByte(x, y) \in Byte /\ XorByte(x, y) = XorByte(y, x)
      /\ XorByte(XorByte(y, x), x) = y
  BY XorAssumption
<1>6. XorByte(x, XorByte(x, y)) = XorByte(XorByte(x, y), x) BY <1>5, XorAssumption
<1> QED BY <1>2, <1>3, <1>4, <1>5, <1>6

LEMMA UnitNext ==
  ASSUME TInv, Working, cf.mode \notin {"cbc", "rc4"}, Sound, pos % unit = 0,
         RegIs(reg, pos, pos), BufIs(buf, pos, pos), GenIs(ks, pos)
  PROVE  /\ RegIs(NextUnit.reg, pos + unit, pos) /\ BufIs(NextUnit.key, pos + unit, pos)
         /\ IsStream => FillBuffer(cf.mode, unit, ks).ks = GenAt((pos + unit) \div unit)
<1>1. /\ cf \in Configs /\ in \in Text /\ out \in Text /\ reg \in Area /\ buf \in Area /\ iv \in Area
      /\ pos \in Nat /\ end \in Nat /\ pos <= end /\ end <= MaxLen
      /\ unit \in Nat \ {0} /\ cf.blksize \in Nat \ {0} /\ MaxLen \in Nat
  BY Room
<1>2. unit <= cf.blksize /\ (cf.mode # "cfb" => unit = cf.blksize) /\ leftover = cf.blksize - unit
  BY <1>1, Parameters
<1>3. PICK n \in Nat \ {0}, q \in Nat : n = unit /\ q = pos BY <1>1
<1>a. q % n = 0 BY <1>3
<1>4. PICK d \in Nat : d = pos \div unit /\ (pos + unit) \div unit = d + 1
  <2>1. q \div n \in Nat /\ (q + n) \div n = (q \div n) + 1 BY <1>a, Units
  <2> QED BY <1>3, <2>1
<1>5. \A k \in 0 .. n-1 : (q + k) % n = k /\ (q + k) \div n = q \div n BY <1>a, Units
<1>6. (pos + unit) - unit = pos BY <1>1
<1>7. \A k \in Block0 : k \in Nat /\ k < cf.blksize /\ k \in Cells
  <2>1. \A k \in Block0 : k \in Nat /\ k < cf.blksize BY <1>1 DEF Block0
  <2> QED BY <1>1, <2>1, OverIs
<1>8. 0 .. unit - 1 \subseteq Block0 BY <1>1, <1>2 DEF Block0
<1>9. ASSUME NEW r \in Area, \A k \in Block0 : r[k] = Input(pos)[k],
             Input(pos) = [k \in Block0 |-> Input(pos)[k]],
             ~IsStream, NEW k \in Block0
      PROVE  Over(buf, Enc(At(r, 0)), cf.blksize)[k] = Key(pos)[k]
  <2>1. At(r, 0) = [j \in Block0 |-> r[j]] BY <1>7 DEF At
  <2>2. At(r, 0) = Input(pos) BY <1>9, <2>1
  <2>3. Key(pos) = Enc(At(r, 0)) BY <1>9, <2>2 DEF Key
  <2> QED BY <1>1, <2>3, OverIs
<1>10. CASE IsStream
  <2>1. cf.mode \notin {"cfb", "ofb", "ctr", "cbc", "gcm"} BY <1>1, <1>10, StreamMode
  <2>2. ks = GenAt(d) BY <1>4, <1>10 DEF GenIs
  <2>3. /\ FillBuffer(cf.mode, unit, ks).ks = GenAt(d + 1)
        /\ \A j \in Nat : j \div unit = d =>
             FillBuffer(cf.mode, unit, ks).buf[j % unit] = Keystream(cf.mode, unit, cf.drop, iv, j)
    BY <1>1, <1>10, <2>2, GenNext
  <2>4. NextUnit.key = Over(buf, FillBuffer(cf.mode, unit, ks).buf, cf.blksize)
    BY <1>2, <1>10, <2>1 DEF NextUnit, StreamUnit
  <2>5. ASSUME NEW k \in 0 .. unit - 1
        PROVE  NextUnit.key[k] = Key(pos)[k]
    <3>1. k \in Block0 BY <1>8
    <3>2. NextUnit.key[k] = FillBuffer(cf.mode, unit, ks).buf[k] BY <1>1, <2>4, <3>1, OverIs
    <3>3. (pos + k) % unit = k /\ (pos + k) \div unit = d BY <1>3, <1>4, <1>5
    <3>4. pos + k \in Nat BY <1>1
    <3>5. FillBuffer(cf.mode, unit, ks).buf[k] = Keystream(cf.mode, unit, cf.drop, iv, pos + k)
      BY <2>3, <3>3, <3>4
    <3>6. Key(pos)[k] = Keystream(cf.mode, unit, cf.drop, iv, pos + k) BY <1>10, <3>1 DEF Key
    <3> QED BY <3>2, <3>5, <3>6
  <2>6. RegIs(NextUnit.reg, pos + unit, pos) BY <2>1 DEF RegIs
  <2>7. BufIs(NextUnit.key, pos + unit, pos) BY <1>6, <2>1, <2>5 DEF BufIs
  <2> QED BY <1>4, <2>3, <2>6, <2>7
<1>11. CASE ~IsStream
  <2>0. cf.mode \in {"cfb", "ofb", "ctr", "gcm"} BY <1>1, <1>11, Parameters DEF IsStream, Modes
  <2>1. CASE cf.mode = "cfb"
    <3>1. NextUnit = CfbUnit BY <1>11, <2>1 DEF NextUnit
    <3>2. \A k \in Block0 : reg[k] = Chain(pos + k) BY <1>1, <1>7, <2>1 DEF RegIs
    <3>3. Input(pos) = [k \in Block0 |-> Chain(pos + k)] BY <1>1, <2>1, CfbInputIs DEF Input
    <3>4. Input(pos) = [k \in Block0 |-> Input(pos)[k]] BY <3>3
    <3>5. \A k \in Block0 : CfbUnit.key[k] = Key(pos)[k]
      <4>1. \A k \in Block0 : reg[k] = Input(pos)[k] BY <3>2, <3>3
      <4> QED BY <1>1, <1>9, <1>11, <3>4, <4>1 DEF CfbUnit
    <3>6. ASSUME NEW k \in Block0, pos + unit + k < pos + cf.blksize
          PROVE  CfbUnit.reg[k] = Chain(pos + unit + k)
      <4>1. k < leftover /\ k + unit \in Block0 BY <1>1, <1>2, <1>7, <3>6 DEF Block0
      <4>2. CfbUnit.reg[k] = reg[k + unit] BY <1>7, <4>1 DEF CfbUnit
      <4>3. pos + (k + unit) = pos + unit + k BY <1>1, <1>7
      <4> QED BY <3>2, <4>1, <4>2, <4>3
    <3>7. RegIs(NextUnit.reg, pos + unit, pos) BY <2>1, <3>1, <3>6 DEF RegIs
    <3>8. BufIs(NextUnit.key, pos + unit, pos) BY <1>6, <1>8, <2>1, <3>1, <3>5 DEF BufIs
    <3> QED BY <1>11, <3>7, <3>8
  <2>2. CASE cf.mode = "ofb"
    <3>1. NextUnit = OfbUnit BY <1>11, <2>2 DEF NextUnit
    <3>2. ASSUME NEW k \in Block0 PROVE buf[k] = OfbInput(pos)[k]
      <4>1. OfbInput(pos)[k] = IF pos = 0 THEN iv[k]
                               ELSE XorByte(Plain(pos - cf.blksize + k), Cipher(pos - cf.blksize + k))
        BY DEF OfbInput
      <4>2. buf[k] = IF pos = 0 THEN iv[k] ELSE Key(pos - unit)[k] BY <2>2 DEF BufIs
      <4>3. CASE pos = 0 BY <4>1, <4>2, <4>3
      <4>4. CASE pos # 0
        <5>1. n <= q /\ q - n \in Nat /\ (q - n) % n = 0 BY <1>3, <1>a, <4>4, Units
        <5>2. PICK i \in Nat : i = pos - cf.blksize + k /\ i < pos /\ i = (q - n) + k
          BY <1>1, <1>2, <1>3, <1>7, <2>2, <5>1
        <5>3. i \in Idx BY <1>1, <5>2 DEF Idx
        <5>4. k \in 0 .. n-1 BY <1>2, <1>3, <1>7, <2>2
        <5>5. ((q - n) + k) % n = k BY <5>1, <5>4, Units
        <5>6. i % unit = k BY <1>3, <5>2, <5>5
        <5>7. i - (i % unit) = pos - unit BY <1>1, <1>3, <5>2, <5>4, <5>6
        <5>8. Defined(i) BY <5>2, <5>3 DEF Sound
        <5>9. buf[k] \in Byte BY <1>1, <1>7 DEF Area
        <5>10. buf[k] = Key(i - (i % unit))[i % unit] BY <4>2, <4>4, <5>6, <5>7
        <5>11. XorByte(Plain(i), Cipher(i)) = Key(i - (i % unit))[i % unit]
          BY <1>1, <5>3, <5>8, <5>9, <5>10, KeyOfBytes
        <5> QED BY <4>1, <4>4, <5>2, <5>10, <5>11
      <4> QED BY <4>3, <4>4
    <3>3. Input(pos) = OfbInput(pos) BY <2>2 DEF Input
    <3>4. Input(pos) = [k \in Block0 |-> Input(pos)[k]] BY <3>3 DEF OfbInput
    <3>5. \A k \in Block0 : OfbUnit.key[k] = Key(pos)[k]
      <4>1. \A k \in Block0 : buf[k] = Input(pos)[k] BY <3>2, <3>3
      <4> QED BY <1>1, <1>9, <1>11, <3>4, <4>1 DEF OfbUnit
    <3>6. RegIs(NextUnit.reg, pos + unit, pos) BY <2>2 DEF RegIs
    <3>7. pos + unit # 0 BY <1>1
    <3>8. BufIs(NextUnit.key, pos + unit, pos) BY <1>6, <1>8, <3>1, <3>5, <3>7 DEF BufIs
    <3> QED BY <1>11, <3>6, <3>8
  <2>3. CASE cf.mode = "ctr"
    <3>1. NextUnit = CtrUnit BY <1>11, <2>3 DEF NextUnit
    <3>2. \A k \in Block0 : reg[k] = CounterAt(iv, cf.blksize, d)[k] BY <1>4, <2>3 DEF RegIs
    <3>3. Input(pos) = CounterAt(iv, cf.blksize, d) BY <1>2, <1>4, <2>3 DEF Input
    <3>4. Input(pos) = [k \in Block0 |-> Input(pos)[k]] BY <3>3 DEF CounterAt
    <3>5. \A k \in Block0 : CtrUnit.key[k] = Key(pos)[k]
      <4>1. \A k \in Block0 : reg[k] = Input(pos)[k] BY <3>2, <3>3
      <4> QED BY <1>1, <1>9, <1>11, <3>4, <4>1 DEF CtrUnit
    <3>6. \A k \in Block0 : increment_counter(reg, cf.blksize)[k] = CounterAt(iv, cf.blksize, d + 1)[k]
      <4>1. \A k \in Block0 : iv[k] \in Byte BY <1>1, <1>7 DEF Area
      <4> QED BY <1>1, <3>2, <4>1, IncrementIs
    <3>7. RegIs(NextUnit.reg, pos + unit, pos) BY <1>4, <2>3, <3>1, <3>6 DEF RegIs, CtrUnit
    <3>8. BufIs(NextUnit.key, pos + unit, pos) BY <1>6, <1>8, <2>3, <3>1, <3>5 DEF BufIs
    <3> QED BY <1>11, <3>7, <3>8
  <2>4. CASE cf.mode = "gcm"
    <3>1. NextUnit = GcmUnit BY <1>11, <2>4 DEF NextUnit
    <3>2. \A k \in Block0 : reg[k] = CounterAt(J0, CtrBytes, d)[k] BY <1>4, <2>4 DEF RegIs
    <3>3. Input(pos) = CounterAt(J0, CtrBytes, d + 1) BY <1>2, <1>4, <2>4 DEF Input
    <3>4. Input(pos) = [k \in Block0 |-> Input(pos)[k]] BY <3>3 DEF CounterAt
    <3>5. \A k \in Block0 : gcm_increment(reg, cf.blksize)[k] = CounterAt(J0, CtrBytes, d + 1)[k]
      <4>1. \A k \in Block0 : J0[k] \in Byte
        <5>1. ivlen \in IvLens(cf) BY DEF TInv, Data
        <5>2. J0 \in Blocks BY <1>1, <2>4, <5>1, J0Is
        <5> QED BY <5>2 DEF Blocks
      <4> QED BY <1>1, <2>4, <3>2, <4>1, IncrementIs
    <3>6. gcm_increment(reg, cf.blksize) \in Area BY <1>1, IncrementType
    <3>7. \A k \in Block0 : GcmUnit.key[k] = Key(pos)[k]
      <4>1. \A k \in Block0 : gcm_increment(reg, cf.blksize)[k] = Input(pos)[k] BY <3>3, <3>5
      <4> QED BY <1>1, <1>9, <1>11, <3>4, <3>6, <4>1 DEF GcmUnit
    <3>8. RegIs(NextUnit.reg, pos + unit, pos) BY <1>4, <2>4, <3>1, <3>5 DEF RegIs, GcmUnit
    <3>9. BufIs(NextUnit.key, pos + unit, pos) BY <1>6, <1>8, <2>4, <3>1, <3>7 DEF BufIs
    <3> QED BY <1>11, <3>8, <3>9
  <2> QED BY <2>0, <2>1, <2>2, <2>3, <2>4
<1> QED BY <1>10, <1>11

----------------------------------------------------------------------------
(* A message that begins. *)

\* What RC4 draws does not depend on how much is drawn behind it.
LEMMA ValuesPrefix ==
  ASSUME NEW n \in Nat \ {0}, NEW m \in Nat, NEW l \in 0 .. m, NEW k \in Perms(n)
  PROVE  Values(n, m, k)[l] = Values(n, l, k)[l]
<1> DEFINE F == Values(n, m, k)
           E == Values(n, l, k)
           T == {i \in 0 .. l : F[i] = E[i]}
<1>1. F[0] = [byte |-> 0, ks |-> k] /\ \A i \in 1 .. m : F[i] = GetValue(n, F[i-1].ks) BY ValuesDrawn
<1>2. E[0] = [byte |-> 0, ks |-> k] /\ \A i \in 1 .. l : E[i] = GetValue(n, E[i-1].ks)
  <2>1. l \in Nat OBVIOUS
  <2> QED BY <2>1, ValuesDrawn
<1> HIDE DEF F, E
<1>3. 0 \in T BY <1>1, <1>2
<1>4. ASSUME NEW i \in 0 .. l-1, i \in T PROVE i+1 \in T
  <2>1. i+1 \in 1 .. l /\ i+1 \in 1 .. m /\ (i+1)-1 = i OBVIOUS
  <2>2. F[i+1] = GetValue(n, F[i].ks) /\ E[i+1] = GetValue(n, E[i].ks) BY <1>1, <1>2, <2>1
  <2> QED BY <1>4, <2>1, <2>2
<1>5. \A i \in 0 .. l : i \in T
  <2>1. l \in Nat OBVIOUS
  <2> HIDE DEF T
  <2> QED BY <1>3, <1>4, <2>1, Inductive
<1>6. F[l] = E[l] BY <1>5
<1> QED BY <1>6 DEF F, E

\* RC4's buffer holds the keystream when Reset is done.
LEMMA Rc4Fresh ==
  ASSUME cf \in Configs, cf.mode = "rc4", iv \in Area, pos = 0, NEW b \in Area,
         buf = Restarted(b, iv).buf, left = Restarted(b, iv).left
  PROVE  Rc4Is
<1> DEFINE n == unit
           at == cf.drop % n
           m == cf.drop + n - at
           run == Values(n, m, Rc4SetKey(n))
<1>1. n \in Nat \ {0} /\ cf.drop \in Nat /\ n = cf.blksize /\ cf.blksize <= 2 * Align /\ Align \in Nat
  BY Parameters
<1>2. at \in 0 .. n-1 BY <1>1, Remainder
<1>3. Restarted(b, iv) = Rc4Reset(n, cf.drop, b) BY <1>1 DEF Restarted, ResetStream
<1>4. DOMAIN b = Cells BY DEF Area
<1>5. left = n - at /\ buf = [k \in Cells |-> IF at <= k /\ k < n THEN run[cf.drop + k - at + 1].byte ELSE b[k]]
  BY <1>3, <1>4 DEF Rc4Reset
<1> HIDE DEF m, n
<1>6. Rc4SetKey(n) \in Perms(n) BY <1>1, Keyed
<1>7. m \in Nat BY <1>1, <1>2 DEF m
<1>8. ASSUME NEW k \in 0 .. n-1, at <= k
      PROVE  buf[k] = Keystream("rc4", n, cf.drop, iv, k - at)
  <2>1. k \in Cells BY <1>1 DEF Cells
  <2>2. buf[k] = run[cf.drop + k - at + 1].byte BY <1>1, <1>5, <1>8, <2>1
  <2>3. PICK l \in 0 .. m : l = cf.drop + k - at + 1 /\ l = cf.drop + (k - at) + 1
    <3>1. cf.drop + k - at + 1 = cf.drop + (k - at) + 1 BY <1>1, <1>2
    <3>2. cf.drop + k - at + 1 \in 0 .. m BY <1>1, <1>2, <1>8 DEF m
    <3> QED BY <3>1, <3>2
  <2>4. run[l] = Values(n, l, Rc4SetKey(n))[l] BY <1>1, <1>6, <1>7, ValuesPrefix
  <2>5. Keystream("rc4", n, cf.drop, iv, k - at) = Values(n, l, Rc4SetKey(n))[l].byte
    BY <2>3 DEF Keystream
  <2> QED BY <2>2, <2>3, <2>4, <2>5
<1>9. pos + left = n - at BY <1>1, <1>2, <1>5
<1>10. \A k \in 0 .. n-1 : at + pos <= k => buf[k] = Keystream("rc4", n, cf.drop, iv, k - at)
  <2>1. at + pos = at BY <1>2
  <2> QED BY <1>8, <2>1
<1> QED BY <1>9, <1>10 DEF Rc4Is, n

(* The state in which setiv and reset leave a context when they succeed. *)
Fresh ==
  /\ cf \in Configs /\ iv \in Area /\ ivlen \in IvLens(cf) /\ ~Refused(ivlen)
  /\ pos = 0 /\ pc = "idle"
  /\ ~IsStream =>
       /\ boff = 0
       /\ \E r \in Area, b \in Area : reg = IvReg(r, iv, ivlen) /\ buf = IvBuf(b, iv, ivlen)
  /\ IsStream /\ cf.mode # "rc4" => left = 0 /\ ks = GenAt(0)
  /\ cf.mode = "rc4" => \E b \in Area : buf = Restarted(b, iv).buf /\ left = Restarted(b, iv).left

LEMMA FreshLinked ==
  ASSUME Fresh
  PROVE  Linked(0)
<1>1. /\ cf \in Configs /\ iv \in Area /\ ivlen \in IvLens(cf) /\ pos = 0 /\ pc = "idle"
      /\ ~Refused(ivlen)
  BY DEF Fresh
<1>2. /\ unit \in Nat \ {0} /\ cf.blksize \in Nat \ {0} /\ unit <= cf.blksize
      /\ (cf.mode # "gcm" => ivlen = cf.blksize) /\ cf.mode \in Modes
      /\ (cf.mode # "cfb" => unit = cf.blksize)
  BY <1>1, Parameters
<1>3. 0 % unit = 0 /\ 0 \div unit = 0
  <2>1. PICK n \in Nat \ {0} : n = unit BY <1>2
  <2>2. (n*0 + 0) \div n = 0 /\ (n*0 + 0) % n = 0 BY Division
  <2> QED BY <2>1, <2>2
<1>4. Front(0) BY <1>1, <1>2, <1>3 DEF Front
<1>5. CASE cf.mode = "rc4"
  <2>1. Rc4Is BY <1>1, <1>5, Rc4Fresh DEF Fresh
  <2> QED BY <1>5, <2>1 DEF Linked
<1>6. CASE IsStream /\ cf.mode # "rc4"
  <2>1. left = 0 /\ ks = GenAt(0) BY <1>6 DEF Fresh
  <2>2. cf.mode \notin {"cfb", "ofb", "ctr", "cbc", "gcm"} BY <1>1, <1>6, StreamMode
  <2>3. RegIs(reg, 0, pos) BY <2>2 DEF RegIs
  <2>4. BufIs(buf, 0, pos) BY <1>1, <1>2, <2>2 DEF BufIs
  <2>5. GenIs(ks, 0) BY <1>3, <2>1 DEF GenIs
  <2>6. Place(0) BY <1>1, <1>6, <2>1, <2>2 DEF Place
  <2> QED BY <1>4, <1>6, <2>3, <2>4, <2>5, <2>6 DEF Linked
<1>7. CASE ~IsStream
  <2>0. cf.mode \in {"cfb", "ofb", "ctr", "cbc", "gcm"} /\ cf.mode # "rc4"
    BY <1>2, <1>7 DEF IsStream, Modes, StreamModes
  <2>1. PICK r \in Area, b \in Area : reg = IvReg(r, iv, ivlen) /\ buf = IvBuf(b, iv, ivlen)
    BY <1>7 DEF Fresh
  <2>2. boff = 0 BY <1>7 DEF Fresh
  <2>3. ASSUME cf.mode # "gcm", NEW k \in Block0 PROVE reg[k] = iv[k] /\ buf[k] = iv[k]
    <3>1. reg = Over(r, iv, cf.blksize) /\ buf = Over(b, iv, cf.blksize)
      BY <1>2, <1>7, <2>1, <2>3 DEF IvReg, IvBuf
    <3> QED BY <1>1, <3>1, OverIs
  <2>4. \A k \in Block0 : k \in Nat /\ k < cf.blksize /\ 0 + k = k BY <1>2 DEF Block0
  <2>5. ASSUME cf.mode \in {"cfb", "cbc"}, NEW k \in Block0 PROVE reg[k] = Chain(0 + k)
    BY <2>3, <2>4, <2>5 DEF Chain
  <2>6. ASSUME cf.mode = "ctr", NEW k \in Block0 PROVE reg[k] = CounterAt(iv, cf.blksize, 0 \div unit)[k]
    <3>1. \A j \in Block0 : iv[j] \in Byte
      <4>1. \A j \in Block0 : j \in Cells BY <1>1, OverIs
      <4> QED BY <1>1, <4>1 DEF Area
    <3>2. cf.blksize \in 1 .. cf.blksize BY <1>2
    <3>3. CounterAt(iv, cf.blksize, 0)[k] = iv[k] BY <1>1, <3>1, <3>2, CounterFirst
    <3> QED BY <1>3, <2>3, <2>6, <3>3
  <2>7. ASSUME cf.mode = "gcm", NEW k \in Block0 PROVE reg[k] = CounterAt(J0, CtrBytes, 0 \div unit)[k]
    <3>1. J0 \in Blocks /\ Y0(iv, ivlen) = J0 BY <1>1, <2>7, J0Is
    <3>2. \A j \in Block0 : J0[j] \in Byte BY <3>1 DEF Blocks
    <3>3. CtrBytes \in 1 .. cf.blksize BY <1>1, <2>7, Parameters
    <3>4. CounterAt(J0, CtrBytes, 0)[k] = J0[k] BY <1>1, <3>2, <3>3, CounterFirst
    <3>5. reg = Over(r, J0, cf.blksize) BY <1>7, <2>1, <2>7, <3>1 DEF IvReg
    <3>6. reg[k] = J0[k] BY <1>1, <3>5, OverIs
    <3> QED BY <1>3, <3>4, <3>6
  <2>8. RegIs(reg, 0, pos) BY <2>5, <2>6, <2>7 DEF RegIs
  <2>9. BufIs(buf, 0, pos)
    <3>1. \A k \in 0 .. unit - 1 : ~ (pos + unit <= 0 + k) BY <1>1, <1>2
    <3> QED BY <2>3, <3>1 DEF BufIs
  <2>10. GenIs(ks, 0) BY <1>7 DEF GenIs
  <2>11. Place(0) BY <1>1, <1>7, <2>2 DEF Place, Offset
  <2> QED BY <1>4, <2>0, <2>8, <2>9, <2>10, <2>11 DEF Linked
<1> QED BY <1>5, <1>6, <1>7

LEMMA FreshFlow == Fresh => Flow
<1> SUFFICES ASSUME Fresh PROVE Flow OBVIOUS
<1>1. Linked(0) BY FreshLinked
<1>2. Sound
  <2>1. \A i \in Idx : ~ (i < pos) BY SizesAssumption DEF Fresh, Idx
  <2> QED BY <2>1 DEF Sound
<1> HIDE DEF Linked
<1> QED BY <1>1, <1>2 DEF Flow

\* The generator as Reset leaves it.
LEMMA RestartedIs ==
  ASSUME cf \in Configs, IsStream, cf.mode # "rc4", iv \in Area, NEW b
  PROVE  Restarted(b, iv).left = 0 /\ Restarted(b, iv).ks = GenAt(0)
<1>1. CASE cf.mode = "salsa20"
  <2>1. 0 % NCtr = 0
    <3>1. NCtr \in Nat \ {0} BY StreamAssumption
    <3>2. (NCtr*0 + 0) % NCtr = 0 BY <3>1, Division
    <3> QED BY <3>1, <3>2
  <2> QED BY <1>1, <2>1 DEF Restarted, ResetStream, GenAt
<1>2. CASE cf.mode \in {"hc", "sosemanuk", "rabbit"}
  <2>1. PICK g \in GenStates : g = Generator(cf.mode, iv) BY <1>2, GenType
  <2>2. Later(g, 0) = g
    <3>1. 0 \in Nat OBVIOUS
    <3> QED BY <3>1, LaterIs
  <2>3. GenAt(0) = Generator(cf.mode, iv) BY <1>2, <2>1, <2>2 DEF GenAt
  <2>4. Restarted(b, iv).left = 0 /\ Restarted(b, iv).ks = Generator(cf.mode, iv)
    BY <1>2 DEF Restarted, ResetStream, Generator
  <2> QED BY <2>3, <2>4
<1> QED BY <1>1, <1>2, StreamMode

LEMMA InitFlow == Init => Flow
<1> SUFFICES ASSUME Init PROVE Flow OBVIOUS
<1>1. TInv BY InitTyped
<1>2. PICK g \in Byte :
        LET old == [k \in Cells |-> g] IN
        /\ reg = IvReg(old, iv, ivlen)
        /\ buf = IF IsStream THEN Restarted(old, iv).buf ELSE IvBuf(old, iv, ivlen)
        /\ ks = IF IsStream THEN Restarted(old, iv).ks ELSE <<>>
        /\ left = IF IsStream THEN Restarted(old, iv).left ELSE 0
  BY DEF Init
<1>3. PICK old \in Area : old = [k \in Cells |-> g] BY DEF Area
<1>4. /\ reg = IvReg(old, iv, ivlen)
      /\ buf = IF IsStream THEN Restarted(old, iv).buf ELSE IvBuf(old, iv, ivlen)
      /\ ks = IF IsStream THEN Restarted(old, iv).ks ELSE <<>>
      /\ left = IF IsStream THEN Restarted(old, iv).left ELSE 0
  BY <1>2, <1>3
<1>5. /\ cf \in Configs /\ iv \in Area /\ ivlen \in IvLens(cf) /\ ~Refused(ivlen)
      /\ pos = 0 /\ pc = "idle" /\ boff = 0
  BY <1>1 DEF TInv, Data, Init
<1>6. IsStream /\ cf.mode # "rc4" => left = 0 /\ ks = GenAt(0) BY <1>4, <1>5, RestartedIs
<1>7. cf.mode = "rc4" => IsStream BY DEF IsStream, StreamModes
<1>8. Fresh BY <1>3, <1>4, <1>5, <1>6, <1>7 DEF Fresh
<1> QED BY <1>8, FreshFlow

LEMMA IvNext ==
  ASSUME cf' = cf, NEW r, NEW v, NEW n
  PROVE  /\ IvReg(r, v, n)' = IvReg(r, v, n) /\ IvBuf(r, v, n)' = IvBuf(r, v, n)
         /\ Refused(n)' <=> Refused(n)
         /\ Y0(v, n)' = Y0(v, n)
         /\ Restarted(r, v)' = Restarted(r, v)
<1>1. Refused(n)' <=> Refused(n) BY DEF Refused, ShortIv
<1>2. Restarted(r, v)' = Restarted(r, v) BY DEF Restarted
<1>3. Y0(v, n)' = Y0(v, n)
  <2>1. Block0' = Block0 BY DEF Block0
  <2>2. ZeroBlock' = ZeroBlock BY <2>1 DEF ZeroBlock
  <2>3. H' = H BY <2>2 DEF H
  <2>4. ASSUME NEW x, NEW b PROVE hash(x, b)' = hash(x, b) BY <2>1, <2>3 DEF hash, XorBlock
  <2>5. ASSUME NEW x, NEW m, NEW f PROVE hash_blocks(x, m, f)' = hash_blocks(x, m, f)
    BY <2>1, <2>3 DEF hash_blocks, hash, XorBlock
  <2>6. ASSUME NEW o PROVE Padded(v, n, o)' = Padded(v, n, o) BY <2>1 DEF Padded
  <2>7. HashedIv(v, n)' = HashedIv(v, n)
    <3>1. PICK m : m = (n + cf.blksize - 1) \div cf.blksize OBVIOUS
    <3>2. PICK f : f = [i \in 0 .. m - 1 |-> Padded(v, n, i * cf.blksize)] OBVIOUS
    <3>3. f = [i \in 0 .. m - 1 |-> Padded(v, n, i * cf.blksize)'] BY <2>6, <3>2
    <3>4. PICK z : z = ZeroBlock OBVIOUS
    <3>5. HashedIv(v, n) = hash(hash_blocks(z, m, f), LenBlock(0, n)) BY <3>1, <3>2, <3>4 DEF HashedIv
    <3>6. HashedIv(v, n)' = hash(hash_blocks(z, m, f), LenBlock(0, n))'
      BY <2>2, <3>1, <3>3, <3>4 DEF HashedIv
    <3>7. PICK g : g = hash_blocks(z, m, f) OBVIOUS
    <3>8. hash_blocks(z, m, f)' = g BY <2>5, <3>7
    <3>9. hash(g, LenBlock(0, n))' = hash(g, LenBlock(0, n)) BY <2>4
    <3>10. hash(hash_blocks(z, m, f), LenBlock(0, n))' = hash(g, LenBlock(0, n))'
      BY <3>8 DEF hash
    <3> QED BY <3>5, <3>6, <3>7, <3>9, <3>10
  <2>8. ShortIv' = ShortIv BY DEF ShortIv
  <2>9. Padded(v, n, 0)' = Padded(v, n, 0) BY <2>6
  <2> QED BY <1>1, <2>2, <2>7, <2>8, <2>9 DEF Y0
<1>4. IvBuffer(n)' = IvBuffer(n) BY <1>1 DEF IvBuffer, ShortIv, ZeroBlock, Block0
<1>5. IvReg(r, v, n)' = IvReg(r, v, n) BY <1>3, SameConfig DEF IvReg, Over
<1>6. IvBuf(r, v, n)' = IvBuf(r, v, n) BY <1>4, SameConfig DEF IvBuf, Over
<1> QED BY <1>1, <1>2, <1>3, <1>5, <1>6

LEMMA ResetFlow ==
  ASSUME TInv, Reset
  PROVE  Flow'
<1>1. CASE clean' = 0 BY <1>1 DEF Flow
<1>2. CASE clean' # 0
  <2>1. cf' = cf /\ pos' = 0 /\ pc' = "idle" /\ iv' = iv /\ ivlen' = ivlen /\ LoadIv(iv, ivlen) /\ Restart
        /\ ~Refused(ivlen) /\ boff' = 0
    BY <1>2 DEF Reset, NewMessage
  <2>2. cf \in Configs /\ iv \in Area /\ ivlen \in IvLens(cf) /\ reg \in Area /\ buf \in Area
    BY DEF TInv, Data
  <2>3. PICK v \in Area, n \in IvLens(cf), r \in Area, b \in Area :
          v = iv /\ n = ivlen /\ r = reg /\ b = buf
    BY <2>2
  <2>4. IsStream' = IsStream BY <2>1, SameConfig
  <2>5. ~Refused(ivlen)' BY <2>1, <2>3, IvNext
  <2>6. ASSUME ~IsStream PROVE reg' = IvReg(r, iv, ivlen)' /\ buf' = IvBuf(b, iv, ivlen)'
    <3>1. reg' = IvReg(r, v, n) BY <2>1, <2>3 DEF LoadIv
    <3>2. buf' = IvBuf(b, v, n) BY <2>1, <2>3, <2>6 DEF Restart
    <3>3. IvReg(r, v, n)' = IvReg(r, v, n) /\ IvBuf(b, v, n)' = IvBuf(b, v, n) BY <2>1, IvNext
    <3> QED BY <2>1, <2>3, <3>1, <3>2, <3>3
  <2>7. ASSUME IsStream, cf.mode # "rc4" PROVE left' = 0 /\ ks' = GenAt(0)'
    <3>1. left' = Restarted(b, iv).left /\ ks' = Restarted(b, iv).ks BY <2>1, <2>3, <2>7 DEF Restart
    <3>2. GenAt(0)' = GenAt(0) BY <2>1 DEF GenAt
    <3> QED BY <2>2, <2>7, <3>1, <3>2, RestartedIs
  <2>8. ASSUME cf.mode = "rc4" PROVE buf' = Restarted(b, iv).buf' /\ left' = Restarted(b, iv).left'
    <3>1. IsStream BY <2>8 DEF IsStream, StreamModes
    <3>2. buf' = Restarted(b, v).buf /\ left' = Restarted(b, v).left BY <2>1, <2>3, <3>1 DEF Restart
    <3>3. Restarted(b, v)' = Restarted(b, v) BY <2>1, IvNext
    <3> QED BY <2>1, <2>3, <3>2, <3>3
  <2>9. Area' = Area BY DEF Area
  <2>10. Fresh' BY <2>1, <2>2, <2>4, <2>5, <2>6, <2>7, <2>8, <2>9 DEF Fresh
  <2> QED BY <2>10, FreshFlow, PTL
<1> QED BY <1>1, <1>2

LEMMA SetIvFlow ==
  ASSUME TInv, NEW v \in NewIVs, NEW n \in IvLens(cf), SetIv(v, n)
  PROVE  Flow'
<1>1. CASE clean' = 0 BY <1>1 DEF Flow
<1>2. CASE clean' # 0
  <2>1. /\ cf' = cf /\ pos' = 0 /\ pc' = "idle" /\ iv' = v /\ ivlen' = n /\ LoadIv(v, n)
        /\ buf' = IvBuf(buf, v, n) /\ boff' = boff /\ left' = left
        /\ ks' = (IF IsStream THEN SetNonce(cf.mode, ks, v) ELSE ks)
        /\ boff = 0 /\ ~Refused(n) /\ (IsStream => AtStart) /\ cf.mode # "rc4"
    BY <1>2 DEF SetIv, NewMessage
  <2>2. cf \in Configs /\ reg \in Area /\ buf \in Area /\ ks \in KsType /\ v \in Area
    BY DataAssumption DEF TInv, Data, Area
  <2>3. PICK r \in Area, b \in Area : r = reg /\ b = buf BY <2>2
  <2>4. IsStream' = IsStream BY <2>1, SameConfig
  <2>5. ~Refused(ivlen)' BY <2>1, IvNext
  <2>6. ASSUME ~IsStream PROVE reg' = IvReg(r, iv, ivlen)' /\ buf' = IvBuf(b, iv, ivlen)'
    <3>1. reg' = IvReg(r, v, n) BY <2>1, <2>3 DEF LoadIv
    <3>2. buf' = IvBuf(b, v, n) BY <2>1, <2>3
    <3>3. IvReg(r, v, n)' = IvReg(r, v, n) /\ IvBuf(b, v, n)' = IvBuf(b, v, n) BY <2>1, IvNext
    <3> QED BY <2>1, <3>1, <3>2, <3>3
  <2>7. ASSUME IsStream PROVE left' = 0 /\ ks' = GenAt(0)'
    <3>1. left = 0 /\ cf.mode # "rabbit" /\ (cf.mode = "salsa20" => ks.ctr = 0)
      BY <2>1, <2>7 DEF AtStart
    <3>2. (cf \in Configs)' /\ IsStream' /\ (cf.mode # "rc4")' /\ (iv \in Area)'
      BY <2>1, <2>2, <2>4, <2>7 DEF Area
    <3>3. (Restarted(b, iv).ks = GenAt(0))' BY <3>2, RestartedIs, PTL
    <3>4. Restarted(b, iv)' = Restarted(b, v)
      <4>1. Restarted(b, v)' = Restarted(b, v) BY <2>1, IvNext
      <4> QED BY <2>1, <4>1
    <3>5. ks' = Restarted(b, v).ks
      <4>1. CASE cf.mode = "salsa20"
        <5>1. ks \in SalsaStates BY <2>2, <4>1, KsTypes
        <5>2. ks' = [ks EXCEPT !.nonce = v] BY <2>1, <2>7, <4>1 DEF SetNonce
        <5>3. ks' = [nonce |-> v, ctr |-> 0] BY <3>1, <4>1, <5>1, <5>2 DEF SalsaStates
        <5> QED BY <4>1, <5>3 DEF Restarted, ResetStream
      <4>2. CASE cf.mode \in {"hc", "sosemanuk"} BY <2>1, <2>7, <4>2 DEF SetNonce, Restarted, ResetStream
      <4> QED BY <2>1, <2>2, <2>7, <3>1, <4>1, <4>2, StreamMode
    <3> QED BY <2>1, <3>1, <3>3, <3>4, <3>5
  <2>8. Area' = Area BY DEF Area
  <2>9. Fresh' BY <2>1, <2>2, <2>4, <2>5, <2>6, <2>7, <2>8 DEF Fresh
  <2> QED BY <2>9, FreshFlow, PTL
<1> QED BY <1>1, <1>2

----------------------------------------------------------------------------
(* Steps. *)

\* The place in a call, after a step.
LEMMA PlaceNext ==
  ASSUME cf' = cf, dir' = dir, NEW f,
         IsStream => left' = f - pos',
         ~IsStream /\ cf.mode # "cbc" /\ ~(pc' = "body" /\ cf.mode = "cfb" /\ dir = "dec") =>
           boff' = IF f = pos' THEN 0 ELSE pos' + unit - f,
         pc' = "body" => pos' = end' \/ f = pos',
         pc' \in {"head", "body"} /\ HasFast => slow' = 1,
         pc' = "fast" \/ cf.mode = "cbc" \/ (HasFast /\ slow' = 0) => f = pos',
         pc' = "fast" /\ cf.mode \in {"cfb", "ofb"} => cf.blksize = Align,
         pc' = "fast" /\ cf.mode \in {"ctr", "gcm"} /\ pos' # end' =>
           src' = pos' /\ end' - pos' <= FastBuf /\ (cf.mode = "gcm" => ~Wraps(end - pos)')
  PROVE  Place(f)'
<1>1. unit' = unit /\ IsStream' = IsStream /\ HasFast' = HasFast BY SameConfig
<1>2. Offset(f)' = IF f = pos' THEN 0 ELSE pos' + unit - f BY <1>1 DEF Offset
<1> QED BY <1>1, <1>2 DEF Place

LEMMA LinkedNext ==
  ASSUME Kept, cf.mode # "rc4", NEW f \in Nat, f % unit = 0, pos' <= f, f < pos' + unit,
         RegIs(reg, f, pos)', BufIs(buf, f, pos)', IsStream => ks' = GenAt(f \div unit), Place(f)'
  PROVE  Linked(f)'
<1>1. cf' = cf BY DEF Kept
<1>2. unit' = unit /\ IsStream' = IsStream BY <1>1, SameConfig
<1>3. Front(f)' BY <1>2 DEF Front
<1>4. GenIs(ks, f)'
  <2>1. PICK d : d = f \div unit OBVIOUS
  <2>2. GenAt(d)' = GenAt(d) BY GenKept
  <2>3. GenAt(f \div unit)' = GenAt(d)' BY <1>2, <2>1
  <2> QED BY <1>2, <2>1, <2>2, <2>3 DEF GenIs
<1> QED BY <1>1, <1>3, <1>4 DEF Linked

\* The invariant after a step, from its two parts.
LEMMA FlowNext ==
  ASSUME Sound', NEW f \in Nat, Linked(f)'
  PROVE  Flow'
BY DEF Flow

\* A step that writes nothing.
LEMMA Stay ==
  ASSUME cf \in Configs, pos \in 0 .. MaxLen, Sound, cf.mode = "cbc" => pos % unit = 0,
         cf' = cf, dir' = dir, iv' = iv, ivlen' = ivlen, in' = in, out' = out, pos' = pos
  PROVE  Kept /\ Sound'
<1>1. Kept BY DEF Kept
<1>2. ASSUME NEW i \in Idx, i < pos PROVE Defined(i)'
  <2>1. i \in Nat BY DEF Idx
  <2>2. Defined(i) BY <1>2 DEF Sound
  <2> QED BY <1>1, <1>2, <2>1, <2>2, DefinedKept
<1> QED BY <1>1, <1>2 DEF Sound

\* The register and the buffer are left alone.
LEMMA RegStays ==
  ASSUME cf \in Configs, pos \in 0 .. MaxLen, Kept, pos' = pos, reg' = reg, NEW f \in Nat,
         RegIs(reg, f, pos)
  PROVE  RegIs(reg, f, pos)'
<1>1. \A k \in Block0 : k \in Nat BY Parameters DEF Block0
<1>2. ASSUME cf.mode \in {"cfb", "cbc"}, NEW k \in Block0, f + k < pos + cf.blksize
      PROVE  reg[k] = Chain(f + k)'
  <2>1. f + k \in Nat BY <1>1
  <2>2. Chain(f + k)' = Chain(f + k) BY <1>2, <2>1, ChainKept
  <2>3. reg[k] = Chain(f + k) BY <1>2 DEF RegIs
  <2> QED BY <2>2, <2>3
<1>3. /\ cf.mode = "ctr" => \A k \in Block0 : reg[k] = CounterAt(iv, cf.blksize, f \div unit)[k]
      /\ cf.mode = "gcm" => \A k \in Block0 : reg[k] = CounterAt(J0, CtrBytes, f \div unit)[k]
  BY DEF RegIs
<1> QED BY <1>2, <1>3, PartsNext

LEMMA BufStays ==
  ASSUME cf \in Configs, pos \in 0 .. MaxLen, Kept, pos' = pos, buf' = buf, NEW f \in Nat,
         f % unit = 0, f < pos + unit, BufIs(buf, f, pos)
  PROVE  BufIs(buf, f, pos)'
<1>1. pos \in Nat /\ unit \in Nat \ {0} BY Parameters
<1>2. unit' = unit BY SameConfig DEF Kept
<1>3. ASSUME f # 0, cf.mode # "cbc" PROVE Key(f - unit)' = Key(f - unit)
  <2>1. PICK n \in Nat \ {0} : n = unit BY <1>1
  <2>2. f - n \in Nat /\ (f - n) % n = 0 BY <1>3, <2>1, Units
  <2>3. PICK s \in Nat : s = f - n /\ s % n = 0 /\ s <= pos BY <1>1, <2>1, <2>2
  <2>4. Key(s)' = Key(s) BY <1>3, <2>1, <2>3, KeyKept
  <2> QED BY <1>2, <2>1, <2>3, <2>4
<1>4. ASSUME cf.mode # "cbc", NEW k \in 0 .. unit - 1, pos + unit <= f + k
      PROVE  buf[k] = (Key(f - unit)')[k]
  <2>1. f # 0 BY <1>1, <1>4
  <2>2. buf[k] = Key(f - unit)[k] BY <1>4 DEF BufIs
  <2> QED BY <1>3, <1>4, <2>1, <2>2
<1>5. ASSUME cf.mode = "ofb", NEW k \in Block0
      PROVE  buf[k] = IF f = 0 THEN iv[k] ELSE (Key(f - unit)')[k]
  <2>1. buf[k] = IF f = 0 THEN iv[k] ELSE Key(f - unit)[k] BY <1>5 DEF BufIs
  <2> QED BY <1>3, <1>5, <2>1
<1> QED BY <1>4, <1>5, PartsNext

\* What is known of a context between the calls and in a call.
LEMMA LinkedIs ==
  ASSUME cf.mode # "rc4", NEW f \in Nat, Linked(f)
  PROVE  /\ f % unit = 0 /\ pos <= f /\ f < pos + unit
         /\ RegIs(reg, f, pos) /\ BufIs(buf, f, pos) /\ GenIs(ks, f)
         /\ IsStream => left = f - pos
         /\ ~IsStream /\ cf.mode # "cbc" /\ ~(pc = "body" /\ cf.mode = "cfb" /\ dir = "dec") =>
              boff = IF f = pos THEN 0 ELSE pos + unit - f
         /\ pc = "body" => pos = end \/ f = pos
         /\ pc \in {"head", "body"} /\ HasFast => slow = 1
         /\ pc = "fast" \/ cf.mode = "cbc" \/ (HasFast /\ slow = 0) => f = pos
         /\ pc = "fast" /\ cf.mode \in {"cfb", "ofb"} => cf.blksize = Align
         /\ pc = "fast" /\ cf.mode \in {"ctr", "gcm"} /\ pos # end =>
              src = pos /\ end - pos <= FastBuf /\ (cf.mode = "gcm" => ~Wraps(end - pos))
BY DEF Linked, Front, Place, Offset

\* A step that only moves the call on.
LEMMA Quiet ==
  ASSUME cf \in Configs, pos \in 0 .. MaxLen, Sound, NEW f \in Nat, Linked(f),
         cf' = cf, dir' = dir, iv' = iv, ivlen' = ivlen, in' = in, out' = out, pos' = pos,
         reg' = reg, buf' = buf, ks' = ks, left' = left, cf.mode # "rc4" => Place(f)'
  PROVE  Flow'
<1>1. CASE cf.mode # "rc4"
  <2>1. /\ f % unit = 0 /\ pos <= f /\ f < pos + unit
        /\ RegIs(reg, f, pos) /\ BufIs(buf, f, pos) /\ GenIs(ks, f)
        /\ cf.mode = "cbc" => f = pos
    BY <1>1, LinkedIs
  <2>2. Kept /\ Sound' BY <2>1, Stay
  <2>3. RegIs(reg, f, pos)' /\ BufIs(buf, f, pos)' BY <2>1, <2>2, RegStays, BufStays
  <2>4. IsStream => ks' = GenAt(f \div unit) BY <2>1 DEF GenIs
  <2>5. Linked(f)' BY <1>1, <2>1, <2>2, <2>3, <2>4, LinkedNext
  <2> QED BY <2>2, <2>5, FlowNext
<1>2. CASE cf.mode = "rc4"
  <2>1. Sound' BY <1>2, Stay
  <2>2. Rc4Is BY <1>2 DEF Linked
  <2>3. Rc4Is' BY <2>2, SameConfig DEF Rc4Is
  <2>4. Linked(f)' BY <1>2, <2>3 DEF Linked
  <2> QED BY <2>1, <2>4, FlowNext
<1> QED BY <1>1, <1>2

LEMMA CallFlow ==
  ASSUME TInv, Flow, NEW n \in 0 .. MaxCall, NEW g \in {0, 1}, Call(n, g)
  PROVE  Flow'
<1>1. /\ pc = "idle" /\ end' = pos + n /\ slow' = 1
      /\ pc' = (IF cf.mode = "cbc" THEN "cbc" ELSE IF boff # 0 \/ left # 0 THEN "head" ELSE "body")
      /\ cf' = cf /\ dir' = dir /\ iv' = iv /\ ivlen' = ivlen /\ in' = in /\ reg' = reg
      /\ buf' = buf /\ boff' = boff /\ ks' = ks /\ left' = left /\ out' = out
      /\ pos' = pos /\ clean' = clean
  BY DEF Call, msgVars, ctxVars, streamVars
<1>2. CASE clean # 1 BY <1>1, <1>2 DEF Flow
<1>3. CASE clean = 1
  <2>1. PICK f \in Nat : Linked(f) BY <1>1, <1>3 DEF Flow, Moving
  <2>2. Sound BY <1>1, <1>3 DEF Flow
  <2>3. cf \in Configs /\ pos \in 0 .. MaxLen /\ unit \in Nat \ {0}
    BY Parameters DEF TInv, Data, Positions
  <2>4. ASSUME cf.mode # "rc4" PROVE Place(f)'
    <3>1. /\ pos <= f /\ f < pos + unit
          /\ IsStream => left = f - pos
          /\ ~IsStream /\ cf.mode # "cbc" => boff = IF f = pos THEN 0 ELSE pos + unit - f
          /\ cf.mode = "cbc" => f = pos
      BY <1>1, <2>1, <2>4, LinkedIs
    <3>2. pos \in Nat BY <2>3
    <3>3. pc' = "body" => f = pos
      <4>1. ASSUME pc' = "body" PROVE f = pos
        <5>1. boff = 0 /\ left = 0 /\ cf.mode # "cbc" BY <1>1, <4>1
        <5> QED BY <2>3, <3>1, <3>2, <5>1
      <4> QED BY <4>1
    <3>4. pc' # "fast" BY <1>1
    <3> HIDE DEF HasFast
    <3> QED BY <1>1, <3>1, <3>3, <3>4, PlaceNext
  <2> QED BY <1>1, <2>1, <2>2, <2>3, <2>4, Quiet
<1> QED BY <1>2, <1>3

LEMMA WrapsNext ==
  ASSUME cf' = cf, reg' = reg, NEW n
  PROVE  Wraps(n)' <=> Wraps(n)
<1>1. ASSUME NEW r, NEW m PROVE Counters(r, m)' = Counters(r, m)
  BY DEF Counters, increment_counter
<1>2. PICK m : m = n \div cf.blksize OBVIOUS
<1>3. PICK c : c = Counters(reg, m) OBVIOUS
<1>4. Counters(reg, m)' = c
  <2>1. PICK r : r = reg OBVIOUS
  <2>2. Counters(reg, m)' = Counters(r, m)' BY <2>1
  <2>3. Counters(r, m)' = Counters(r, m) BY <1>1
  <2> QED BY <1>3, <2>1, <2>2, <2>3
<1>5. ShortIv' = ShortIv BY DEF ShortIv
<1>6. Wraps(n) <=> \E j \in 0 .. m - 1 : \A k \in ShortIv .. cf.blksize - 1 : c[j][k] = NByte - 1
  BY <1>2, <1>3 DEF Wraps
<1>7. Wraps(n)' <=> \E j \in 0 .. m - 1 : \A k \in ShortIv .. cf.blksize - 1 : c[j][k] = NByte - 1
  BY <1>2, <1>4, <1>5 DEF Wraps
<1> QED BY <1>6, <1>7

LEMMA FastCallFlow ==
  ASSUME TInv, Flow, NEW n \in 0 .. MaxFast, FastCall(n)
  PROVE  Flow'
<1>1. /\ pc = "idle" /\ slow = 0 /\ end' = pos + n /\ src' = pos /\ slow' = slow
      /\ pc' = (IF cf.mode = "cbc" THEN "cbc" ELSE IF HasFast THEN "fast"
                ELSE IF boff # 0 \/ left # 0 THEN "head" ELSE "body")
      /\ cf' = cf /\ dir' = dir /\ iv' = iv /\ ivlen' = ivlen /\ in' = in /\ reg' = reg
      /\ buf' = buf /\ boff' = boff /\ ks' = ks /\ left' = left /\ out' = out
      /\ pos' = pos
      /\ clean' = IF \/ HasFast /\ cf.mode \in {"cfb", "ofb"} /\ cf.blksize < Align
                     \/ HasFast /\ cf.mode \in {"ctr", "gcm"} /\ n > FastBuf
                     \/ cf.mode = "gcm" /\ Wraps(n)
                  THEN 0 ELSE clean
  BY DEF FastCall, msgVars, ctxVars, streamVars
<1>2. CASE clean' # 1 BY <1>2 DEF Flow
<1>3. CASE clean' = 1
  <2>0. /\ clean = 1
        /\ HasFast /\ cf.mode \in {"cfb", "ofb"} => ~ (cf.blksize < Align)
        /\ HasFast /\ cf.mode \in {"ctr", "gcm"} => ~ (n > FastBuf)
        /\ cf.mode = "gcm" => ~Wraps(n)
    <3> HIDE DEF HasFast, Wraps
    <3> QED BY <1>1, <1>3
  <2>1. PICK f \in Nat : Linked(f) BY <1>1, <2>0 DEF Flow, Moving
  <2>2. Sound BY <1>1, <2>0 DEF Flow
  <2>3. cf \in Configs /\ pos \in 0 .. MaxLen /\ unit \in Nat \ {0} /\ MaxLen \in Nat
        /\ n \in Nat /\ FastBuf \in Nat /\ cf.blksize \in Nat /\ Align \in Nat
    BY Parameters, SizesAssumption DEF TInv, Data, Positions
  <2>4. ASSUME cf.mode # "rc4" PROVE Place(f)'
    <3>1. /\ pos <= f /\ f < pos + unit
          /\ IsStream => left = f - pos
          /\ ~IsStream /\ cf.mode # "cbc" => boff = IF f = pos THEN 0 ELSE pos + unit - f
          /\ cf.mode = "cbc" \/ HasFast => f = pos
      BY <1>1, <2>1, <2>4, LinkedIs
    <3>2. pos \in Nat BY <2>3
    <3>3. pc' = "body" => f = pos
      <4>1. ASSUME pc' = "body" PROVE f = pos
        <5>1. boff = 0 /\ left = 0 /\ cf.mode # "cbc"
          <6> HIDE DEF HasFast
          <6> QED BY <1>1, <4>1
        <5> QED BY <2>3, <3>1, <3>2, <5>1
      <4> QED BY <4>1
    <3>4. pc' = "fast" => HasFast /\ cf.mode # "cbc" BY <1>1
    <3>5. ASSUME pc' = "fast", cf.mode \in {"cfb", "ofb"} PROVE cf.blksize = Align
      <4>1. ~IsStream BY <3>5 DEF IsStream, StreamModes
      <4>2. cf.blksize <= Align BY <2>3, <3>4, <3>5, <4>1, FastModes
      <4> QED BY <2>0, <2>3, <3>4, <3>5, <4>2
    <3>6. ASSUME pc' = "fast", cf.mode \in {"ctr", "gcm"}
          PROVE  src' = pos' /\ end' - pos' <= FastBuf /\ (cf.mode = "gcm" => ~Wraps(end - pos)')
      <4>1. end' - pos' = n BY <1>1, <2>3
      <4>2. n <= FastBuf BY <2>0, <2>3, <3>4, <3>6
      <4>3. Wraps(end - pos)' <=> Wraps(n)' BY <4>1 DEF Wraps
      <4>4. Wraps(n)' <=> Wraps(n) BY <1>1, WrapsNext
      <4> QED BY <1>1, <2>0, <4>1, <4>2, <4>3, <4>4
    <3>7. pc' \in {"head", "body"} => ~HasFast BY <1>1
    <3> HIDE DEF HasFast, Wraps
    <3> QED BY <1>1, <3>1, <3>3, <3>4, <3>5, <3>6, <3>7, PlaceNext
  <2> QED BY <1>1, <2>1, <2>2, <2>3, <2>4, Quiet
<1> QED BY <1>2, <1>3

LEMMA ReturnFlow ==
  ASSUME TInv, Flow, Return
  PROVE  Flow'
<1>1. /\ pc \in {"body", "cbc", "fast"} /\ pos = end
      /\ pc' \in {"idle", "final"} /\ slow' = slow
      /\ clean' = (IF cf.mode = "cfb" /\ dir = "dec" /\ boff # pos % unit THEN 0 ELSE clean)
      /\ cf' = cf /\ dir' = dir /\ iv' = iv /\ ivlen' = ivlen /\ in' = in /\ reg' = reg
      /\ buf' = buf /\ boff' = boff /\ ks' = ks /\ left' = left /\ out' = out
      /\ pos' = pos
  BY DEF Return, Done, msgVars, ctxVars, streamVars
<1>2. CASE clean' # 1 BY <1>2 DEF Flow
<1>3. CASE clean' = 1
  <2>0. clean = 1 /\ (cf.mode = "cfb" /\ dir = "dec" => boff = pos % unit) BY <1>1, <1>3
  <2>1. PICK f \in Nat : Linked(f) BY <1>1, <2>0 DEF Flow, Moving
  <2>2. Sound BY <1>1, <2>0 DEF Flow
  <2>3. cf \in Configs /\ pos \in 0 .. MaxLen /\ unit \in Nat \ {0}
    BY Parameters DEF TInv, Data, Positions
  <2>4. ASSUME cf.mode # "rc4" PROVE Place(f)'
    <3>1. /\ f % unit = 0 /\ pos <= f /\ f < pos + unit
          /\ IsStream => left = f - pos
          /\ ~IsStream /\ cf.mode # "cbc" /\ ~(pc = "body" /\ cf.mode = "cfb" /\ dir = "dec") =>
               boff = IF f = pos THEN 0 ELSE pos + unit - f
          /\ pc = "body" /\ HasFast => slow = 1
          /\ pc = "fast" \/ cf.mode = "cbc" \/ (HasFast /\ slow = 0) => f = pos
      BY <2>1, <2>4, LinkedIs
    <3>2. pos \in Nat BY <2>3
    <3>3. pos % unit = IF f = pos THEN 0 ELSE pos + unit - f
      <4>1. PICK n \in Nat \ {0} : n = unit BY <2>3
      <4>2. f % n = 0 /\ f < pos + n BY <3>1, <4>1
      <4>3. pos % n = IF f = pos THEN 0 ELSE pos + n - f BY <3>1, <3>2, <4>2, PlaceInUnit
      <4> QED BY <4>1, <4>3
    <3>4. ~IsStream /\ cf.mode # "cbc" => boff = IF f = pos THEN 0 ELSE pos + unit - f
      BY <2>0, <3>1, <3>3
    <3>5. pc' \notin {"body", "head", "fast"} BY <1>1
    <3> HIDE DEF HasFast
    <3> QED BY <1>1, <3>1, <3>4, <3>5, PlaceNext
  <2> QED BY <1>1, <2>1, <2>2, <2>3, <2>4, Quiet
<1> QED BY <1>2, <1>3

LEMMA SameFlow ==
  ASSUME TInv, Flow, UNCHANGED vars
  PROVE  Flow'
<1>1. /\ pc' = pc /\ cf' = cf /\ dir' = dir /\ iv' = iv /\ ivlen' = ivlen /\ in' = in
      /\ reg' = reg /\ buf' = buf /\ boff' = boff /\ ks' = ks /\ left' = left
      /\ out' = out /\ pos' = pos
      /\ src' = src /\ end' = end /\ slow' = slow /\ clean' = clean
  BY DEF vars, msgVars, ctxVars, streamVars, callVars
<1>2. cf \in Configs /\ pos \in 0 .. MaxLen BY DEF TInv, Data, Positions
<1>3. CASE clean # 1 BY <1>1, <1>3 DEF Flow
<1>4. CASE clean = 1 /\ Moving
  <2>1. PICK f \in Nat : Linked(f) BY <1>4 DEF Flow
  <2>2. Sound BY <1>4 DEF Flow, Moving
  <2>3. ASSUME cf.mode # "rc4" PROVE Place(f)'
    <3>1. /\ IsStream => left = f - pos
          /\ ~IsStream /\ cf.mode # "cbc" /\ ~(pc = "body" /\ cf.mode = "cfb" /\ dir = "dec") =>
               boff = IF f = pos THEN 0 ELSE pos + unit - f
          /\ pc = "body" => pos = end \/ f = pos
          /\ pc \in {"head", "body"} /\ HasFast => slow = 1
          /\ pc = "fast" \/ cf.mode = "cbc" \/ (HasFast /\ slow = 0) => f = pos
          /\ pc = "fast" /\ cf.mode \in {"cfb", "ofb"} => cf.blksize = Align
          /\ pc = "fast" /\ cf.mode \in {"ctr", "gcm"} /\ pos # end =>
               src = pos /\ end - pos <= FastBuf /\ (cf.mode = "gcm" => ~Wraps(end - pos))
      BY <2>1, <2>3, LinkedIs
    <3>2. Wraps(end - pos)' <=> Wraps(end - pos)
      <4>1. PICK n : n = end - pos OBVIOUS
      <4>2. Wraps(end - pos)' <=> Wraps(n)' BY <1>1, <4>1 DEF Wraps
      <4>3. Wraps(n)' <=> Wraps(n) BY <1>1, WrapsNext
      <4> QED BY <4>1, <4>2, <4>3
    <3> HIDE DEF HasFast, Wraps
    <3> QED BY <1>1, <3>1, <3>2, PlaceNext
  <2> QED BY <1>1, <1>2, <2>1, <2>2, <2>3, Quiet
<1>5. CASE clean = 1 /\ ~Moving
  <2>1. ~Moving' BY <1>1, <1>5 DEF Moving
  <2>2. ASSUME pc # "undefined" PROVE Sound'
    <3>1. Sound BY <1>5, <2>2 DEF Flow
    <3>2. cf.mode # "cbc" BY <1>5, <2>2 DEF Moving, TInv, Positions, Calls
    <3> QED BY <1>1, <1>2, <3>1, <3>2, Stay
  <2> QED BY <1>1, <2>1, <2>2 DEF Flow
<1> QED BY <1>3, <1>4, <1>5

LEMMA GcmFinalFlow ==
  ASSUME TInv, Flow, GcmFinal
  PROVE  Flow'
<1>1. /\ pc = "final" /\ pc' = "done" /\ cf' = cf /\ dir' = dir /\ iv' = iv /\ ivlen' = ivlen
      /\ in' = in /\ out' = out /\ pos' = pos /\ clean' = clean
  BY DEF GcmFinal, msgVars, callVars
<1>2. cf \in Configs /\ pos \in 0 .. MaxLen /\ cf.mode # "cbc"
  BY <1>1 DEF TInv, Data, Positions, Calls
<1>3. ASSUME clean = 1 PROVE Sound'
  <2>1. Sound BY <1>1, <1>3 DEF Flow
  <2> QED BY <1>1, <1>2, <2>1, Stay
<1>4. ~Moving' BY <1>1 DEF Moving
<1> QED BY <1>1, <1>3, <1>4 DEF Flow

LEMMA SetDataFlow ==
  ASSUME TInv, Flow, NEW n \in 0 .. MaxAad, SetData(n)
  PROVE  Flow'
<1>1. /\ pc = "idle" /\ cf.mode = "gcm" /\ slow = 0 /\ clean' \in {0, clean}
      /\ pc' = pc /\ cf' = cf /\ dir' = dir /\ iv' = iv /\ ivlen' = ivlen /\ in' = in
      /\ reg' = reg /\ boff' = boff /\ ks' = ks /\ left' = left
      /\ out' = out /\ pos' = pos /\ slow' = slow
  BY DEF SetData, msgVars, streamVars, callVars
<1>2. cf \in Configs /\ pos \in 0 .. MaxLen BY DEF TInv, Data, Positions
<1>3. CASE clean' # 1 BY <1>3 DEF Flow
<1>4. CASE clean' = 1
  <2>1. PICK f \in Nat : Linked(f) BY <1>1, <1>4 DEF Flow, Moving
  <2>2. Sound BY <1>1, <1>4 DEF Flow
  <2>3. cf.mode # "rc4" /\ ~IsStream BY <1>1 DEF IsStream, StreamModes
  <2>4. HasFast BY <1>1, <1>2, <2>3, Parameters DEF HasFast
  <2>5. /\ f % unit = 0 /\ pos <= f /\ f < pos + unit /\ RegIs(reg, f, pos)
        /\ boff = IF f = pos THEN 0 ELSE pos + unit - f
        /\ f = pos
    BY <1>1, <2>1, <2>3, <2>4, LinkedIs
  <2>6. Kept /\ Sound' BY <1>1, <1>2, <2>2, Stay
  <2>7. RegIs(reg, f, pos)' BY <1>1, <1>2, <2>5, <2>6, RegStays
  <2>8. BufIs(buf, f, pos)'
    <3>1. \A k \in 0 .. unit - 1 : ~ (pos + unit <= f + k) BY <1>2, <2>5, Parameters
    <3> QED BY <1>1, <2>6, <3>1, PartsNext
  <2>9. Place(f)' BY <1>1, <2>3, <2>5, PlaceNext
  <2>10. Linked(f)' BY <1>1, <2>3, <2>5, <2>6, <2>7, <2>8, <2>9, LinkedNext
  <2> QED BY <2>6, <2>10, FlowNext
<1> QED BY <1>3, <1>4

\* What Head leaves of a unit.
LEMMA HeadFlow ==
  ASSUME TInv, Flow, Head
  PROVE  Flow'
<1> DEFINE b == Lesser(unit - boff, end - pos)
<1>1. /\ pc = "head" /\ boff > 0
      /\ Consume(b, buf, boff, reg)
      /\ boff' = (IF cf.mode = "cfb" /\ dir = "dec" THEN boff - b
                  ELSE IF boff + b = unit THEN 0 ELSE boff + b)
      /\ pc' = "body" /\ cf' = cf /\ dir' = dir /\ iv' = iv /\ ivlen' = ivlen /\ in' = in
      /\ ks' = ks /\ left' = left /\ end' = end /\ slow' = slow /\ clean' = clean
  BY DEF Head, msgVars, streamVars, callVars
<1>2. CASE clean # 1 BY <1>1, <1>2 DEF Flow
<1>3. CASE clean = 1
  <2>1. PICK f \in Nat : Linked(f) BY <1>1, <1>3 DEF Flow, Moving
  <2>2. Sound BY <1>1, <1>3 DEF Flow
  <2>3. Working /\ ~IsStream /\ cf.mode # "cbc" BY <1>1 DEF Working, TInv, Calls
  <2>4. cf.mode # "rc4" BY <2>3 DEF IsStream, StreamModes
  <2>5. /\ f % unit = 0 /\ pos <= f /\ f < pos + unit
        /\ RegIs(reg, f, pos) /\ BufIs(buf, f, pos)
        /\ boff = IF f = pos THEN 0 ELSE pos + unit - f
        /\ HasFast => slow = 1
    BY <1>1, <2>1, <2>3, <2>4, LinkedIs
  <2>6. /\ cf \in Configs /\ pos \in Nat /\ end \in Nat /\ pos <= end /\ unit \in Nat \ {0}
        /\ buf \in Area /\ reg \in Area
    BY <2>3, Room
  <2>7. f # pos /\ boff \in Nat /\ boff < unit /\ f + boff = pos + unit /\ unit - boff = f - pos
    BY <1>1, <2>5, <2>6
  <2>8. b \in Nat /\ b <= f - pos /\ b <= end - pos /\ (b = f - pos \/ b = end - pos)
    BY <2>6, <2>7, LesserIs
  <2> HIDE DEF b
  <2>9. boff + b <= unit /\ pos + b <= end BY <2>6, <2>7, <2>8
  <2>10. Kept /\ Sound' /\ RegIs(reg, f, pos)' /\ BufIs(buf, f, pos)'
    BY <1>1, <2>2, <2>3, <2>4, <2>5, <2>6, <2>7, <2>8, <2>9, Piece
  <2>11. pos' = pos + b BY <1>1 DEF Consume
  <2>12. pos' <= f /\ f < pos' + unit /\ (pos' = end' \/ f = pos') BY <1>1, <2>5, <2>6, <2>8, <2>11
  <2>13. ~ (cf.mode = "cfb" /\ dir = "dec") => boff' = IF f = pos' THEN 0 ELSE pos' + unit - f
    BY <1>1, <2>6, <2>7, <2>8, <2>11
  <2>14. Place(f)'
    <3> HIDE DEF HasFast
    <3> QED BY <1>1, <2>3, <2>5, <2>12, <2>13, PlaceNext
  <2>15. Linked(f)' BY <2>3, <2>4, <2>5, <2>10, <2>12, <2>14, LinkedNext
  <2> QED BY <2>10, <2>15, FlowNext
<1> QED BY <1>2, <1>3

\* What is left of a buffer is what is not used of it.
LEMMA LeftIs ==
  ASSUME NEW n \in Nat \ {0}, NEW l \in 1 .. n, NEW b \in 0 .. l, l = n => b # 0
  PROVE  /\ (n - l) % n = n - l
         /\ (n - ((((n - l) % n) + b) % n)) % n = l - b
<1>1. \A x \in 0 .. n-1 : x % n = x
  <2> TAKE x \in 0 .. n-1
  <2>1. (n*0 + x) % n = x BY Division
  <2> QED BY <2>1
<1>2. n % n = 0
  <2>1. (n*1 + 0) % n = 0 BY Division
  <2> QED BY <2>1
<1>3. (n - l) % n = n - l
  <2>1. n - l \in 0 .. n-1 OBVIOUS
  <2> QED BY <1>1, <2>1
<1>4. CASE b = l
  <2>1. (n - l) + b = n BY <1>4
  <2>2. n - 0 = n OBVIOUS
  <2>3. l - b = 0 BY <1>4
  <2> QED BY <1>2, <1>3, <2>1, <2>2, <2>3
<1>5. CASE b # l
  <2>1. PICK x \in 0 .. n-1 : x = (n - l) + b /\ n - x = l - b /\ l - b \in 0 .. n-1 BY <1>5
  <2>2. x % n = x BY <1>1
  <2>3. (l - b) % n = l - b BY <1>1, <2>1
  <2> QED BY <1>3, <2>1, <2>2, <2>3
<1> QED BY <1>3, <1>4, <1>5

LEMMA StreamHeadFlow ==
  ASSUME TInv, Flow, StreamHead
  PROVE  Flow'
<1> DEFINE o == (unit - left) % unit
           b == Lesser(left, end - pos)
<1>1. /\ pc = "head" /\ left \in 1 .. unit
      /\ Consume(b, buf, o, reg)
      /\ left' = (unit - ((o + b) % unit)) % unit
      /\ clean' = (IF left = unit /\ b = 0 THEN 0 ELSE clean)
      /\ pc' = "body" /\ cf' = cf /\ dir' = dir /\ iv' = iv /\ ivlen' = ivlen /\ in' = in
      /\ ks' = ks /\ end' = end /\ slow' = slow
  BY DEF StreamHead, msgVars, callVars
<1>2. CASE clean' # 1 BY <1>2 DEF Flow
<1>3. CASE clean' = 1
  <2>0. clean = 1 /\ ~ (left = unit /\ b = 0)
    <3> HIDE DEF b
    <3> QED BY <1>1, <1>3
  <2>1. PICK f \in Nat : Linked(f) BY <1>1, <2>0 DEF Flow, Moving
  <2>2. Sound BY <1>1, <2>0 DEF Flow
  <2>3. Working /\ IsStream BY <1>1 DEF Working, TInv, Calls
  <2>4. /\ cf \in Configs /\ pos \in Nat /\ end \in Nat /\ pos <= end /\ unit \in Nat \ {0}
        /\ buf \in Area /\ reg \in Area /\ end <= MaxLen /\ MaxLen \in Nat
    BY <2>3, Room
  <2>5. b \in Nat /\ b <= left /\ b <= end - pos /\ (b = left \/ b = end - pos)
    BY <1>1, <2>4, LesserIs
  <2>6. o = unit - left /\ left' = left - b
    <3>1. PICK n \in Nat \ {0}, l \in Nat, c \in Nat : n = unit /\ l = left /\ c = b
      <4> HIDE DEF b
      <4> QED BY <1>1, <2>4, <2>5
    <3>2. (l = n => c # 0) /\ l \in 1 .. n /\ c \in 0 .. l
      <4> HIDE DEF b
      <4> QED BY <1>1, <2>0, <2>5, <3>1
    <3>3. (n - l) % n = n - l /\ (n - ((((n - l) % n) + c) % n)) % n = l - c BY <3>2, LeftIs
    <3> HIDE DEF b
    <3> QED BY <1>1, <3>1, <3>3
  <2> HIDE DEF b, o
  <2>7. o \in Nat /\ o < unit /\ o + b <= unit /\ pos + b <= end BY <1>1, <2>4, <2>5, <2>6
  <2>8. pos' = pos + b BY <1>1 DEF Consume
  <2>9. cf.mode \notin {"cfb", "ofb", "ctr", "cbc", "gcm"} BY <2>3, <2>4, StreamMode
  <2>10. CASE cf.mode # "rc4"
    <3>1. /\ f % unit = 0 /\ pos <= f /\ f < pos + unit
          /\ RegIs(reg, f, pos) /\ BufIs(buf, f, pos) /\ GenIs(ks, f)
          /\ left = f - pos
          /\ HasFast => slow = 1
      BY <1>1, <2>1, <2>3, <2>10, LinkedIs
    <3>2. f + o = pos + unit BY <2>4, <2>6, <3>1
    <3>3. Kept /\ Sound' /\ RegIs(reg, f, pos)' /\ BufIs(buf, f, pos)'
      BY <1>1, <2>2, <2>3, <2>4, <2>5, <2>7, <2>9, <2>10, <3>1, <3>2, Piece
    <3>4. pos' <= f /\ f < pos' + unit /\ (pos' = end' \/ f = pos') /\ left' = f - pos'
      BY <1>1, <2>4, <2>5, <2>6, <2>8, <3>1
    <3>5. Place(f)'
      <4> HIDE DEF HasFast
      <4> QED BY <1>1, <2>3, <2>9, <3>1, <3>4, PlaceNext
    <3>6. IsStream => ks' = GenAt(f \div unit) BY <1>1, <3>1 DEF GenIs
    <3>7. Linked(f)' BY <2>10, <3>1, <3>3, <3>4, <3>5, <3>6, LinkedNext
    <3> QED BY <3>3, <3>7, FlowNext
  <2>11. CASE cf.mode = "rc4"
    <3>1. PICK at \in Nat : /\ at = cf.drop % unit /\ pos + left = unit - at
                            /\ \A k \in 0 .. unit - 1 : at + pos <= k =>
                                 buf[k] = Keystream("rc4", unit, cf.drop, iv, k - at)
      <4>1. Rc4Is BY <2>1, <2>11 DEF Linked
      <4>2. cf.drop % unit \in 0 .. unit-1 BY <2>4, <2>11, Parameters, Remainder
      <4> QED BY <4>1, <4>2 DEF Rc4Is
    <3>2. o = at + pos BY <1>1, <2>4, <2>6, <3>1
    <3>3. buf' = buf /\ out' = [i \in Idx |-> IF pos <= i /\ i < pos + b THEN XorByte(buf[o + i - pos], in[i])
                                              ELSE out[i]]
      BY <1>1, <2>9 DEF Consume
    <3>4. PICK g : g = [i \in Idx |-> buf[o + i - pos]] OBVIOUS
    <3>5. out' = [i \in Idx |-> IF pos <= i /\ i < pos + b THEN XorByte(g[i], in[i]) ELSE out[i]]
      BY <3>3, <3>4
    <3>6. ASSUME NEW i \in Idx, pos <= i, i < pos + b
          PROVE  g[i] \in Byte /\ g[i] = (Key(i - (i % unit))')[i % unit]
      <4>1. i \in Nat BY DEF Idx
      <4>2. PICK s \in Nat, r \in 0 .. unit-1 :
              /\ i % unit = r /\ i - (i % unit) = s /\ s % unit = 0
              /\ s + r = i /\ i - s = r /\ r \in Block0 /\ s \div unit = i \div unit
        BY <2>4, <4>1, UnitOf
      <4>3. PICK k \in 0 .. unit - 1 : k = o + i - pos /\ at + pos <= k /\ k - at = i
        <5>1. PICK k \in Int : k = o + i - pos BY <2>4, <2>7, <4>1
        <5>2. at + pos <= k /\ k - at = i BY <2>4, <2>7, <3>2, <3>6, <4>1, <5>1
        <5>3. k \in 0 .. unit - 1 BY <2>4, <2>5, <2>7, <3>2, <3>6, <4>1, <5>1
        <5> QED BY <5>1, <5>2, <5>3
      <4>4. g[i] = buf[k] BY <3>4, <4>3
      <4>5. buf[k] = Keystream("rc4", unit, cf.drop, iv, i) BY <3>1, <4>3
      <4>6. k \in Cells BY <2>4, <4>3, Parameters DEF Cells
      <4>7. buf[k] \in Byte BY <2>4, <4>6 DEF Area
      <4>8. unit' = unit /\ IsStream' = IsStream /\ Block0' = Block0 BY <1>1, SameConfig
      <4>9. Key(s)' = [j \in Block0 |-> Keystream(cf.mode, unit, cf.drop, iv, s + j)]
        BY <1>1, <2>3, <4>8 DEF Key
      <4>10. (Key(s)')[r] = Keystream("rc4", unit, cf.drop, iv, i) BY <2>11, <4>2, <4>9
      <4>11. Key(i - (i % unit))' = Key(s)' BY <4>2, <4>8
      <4> QED BY <4>2, <4>4, <4>5, <4>7, <4>10, <4>11
    <3>7. Sound'
      <4>1. Data /\ pos \in 0 .. MaxLen /\ pos + b <= MaxLen BY <2>4, <2>7, <2>5 DEF TInv, Positions
      <4> QED BY <1>1, <2>2, <2>5, <2>8, <2>11, <3>5, <3>6, <4>1, Written
    <3>8. Rc4Is'
      <4>1. unit' = unit BY <1>1, SameConfig
      <4>2. pos' + left' = unit - at BY <1>1, <2>4, <2>5, <2>6, <2>8, <3>1
      <4>3. ASSUME NEW k \in 0 .. unit - 1, at + pos' <= k
            PROVE  buf[k] = Keystream("rc4", unit, cf.drop, iv, k - at)
        <5>1. at + pos <= k BY <2>4, <2>5, <2>8, <4>3
        <5> QED BY <3>1, <5>1
      <4> QED BY <1>1, <3>1, <3>3, <4>1, <4>2, <4>3 DEF Rc4Is
    <3>9. Linked(0)' BY <1>1, <2>11, <3>8 DEF Linked
    <3>10. 0 \in Nat OBVIOUS
    <3> QED BY <3>7, <3>9, <3>10, FlowNext
  <2> QED BY <2>10, <2>11
<1> QED BY <1>2, <1>3

\* The beginning of a new unit, or the whole of it.
LEMMA UnitStep ==
  ASSUME TInv, Working, cf.mode \notin {"cbc", "rc4"}, Sound, Linked(pos), NEW m \in Nat,
         m <= unit, pos + m <= end, NEW b \in Area, NEW r \in Area, b = NextUnit.key, r = NextUnit.reg,
         Consume(m, b, 0, r), IsStream => ks' = FillBuffer(cf.mode, unit, ks).ks,
         cf' = cf, dir' = dir, in' = in, iv' = iv, ivlen' = ivlen, NEW f \in Nat, f = pos + unit
  PROVE  /\ Kept /\ Sound' /\ RegIs(reg, f, pos)' /\ BufIs(buf, f, pos)' /\ f % unit = 0
         /\ IsStream => ks' = GenAt(f \div unit)
         /\ pos' = pos + m
<1>1. cf \in Configs /\ pos \in Nat /\ unit \in Nat \ {0} /\ end \in Nat BY Room
<1>2. pos % unit = 0 /\ RegIs(reg, pos, pos) /\ BufIs(buf, pos, pos) /\ GenIs(ks, pos)
  BY <1>1, LinkedIs
<1>3. /\ RegIs(r, f, pos) /\ BufIs(b, f, pos)
      /\ IsStream => FillBuffer(cf.mode, unit, ks).ks = GenAt(f \div unit)
  BY <1>2, UnitNext
<1>4. f % unit = 0
  <2>1. PICK n \in Nat \ {0}, q \in Nat : n = unit /\ q = pos BY <1>1
  <2>2. q % n = 0 BY <1>2, <2>1
  <2>3. (q + n) % n = 0 BY <2>2, Units
  <2> QED BY <2>1, <2>3
<1>5. 0 \in Nat /\ 0 < unit /\ 0 + m <= unit /\ f + 0 = pos + unit BY <1>1
<1>6. Kept /\ Sound' /\ RegIs(reg, f, pos)' /\ BufIs(buf, f, pos)' BY <1>3, <1>4, <1>5, Piece
<1> QED BY <1>3, <1>4, <1>6 DEF Consume

LEMMA BlockFlow ==
  ASSUME TInv, Flow, Block
  PROVE  Flow'
<1>1. /\ pc = "body" /\ end - pos >= unit
      /\ Consume(unit, NextUnit.key, 0, NextUnit.reg) /\ Filled
      /\ pc' = pc /\ cf' = cf /\ dir' = dir /\ iv' = iv /\ ivlen' = ivlen /\ in' = in
      /\ left' = left /\ boff' = boff /\ end' = end /\ slow' = slow
  BY DEF Block, msgVars, callVars
<1>2. CASE clean' # 1 BY <1>2 DEF Flow
<1>3. CASE clean' = 1
  <2>0. clean = 1 /\ cf.mode # "rc4" /\ (IsStream => ks' = FillBuffer(cf.mode, unit, ks).ks)
    BY <1>1, <1>3 DEF Filled
  <2>1. PICK e \in Nat : Linked(e) BY <1>1, <2>0 DEF Flow, Moving
  <2>2. Sound BY <1>1, <2>0 DEF Flow
  <2>3. Working /\ cf.mode # "cbc" BY <1>1 DEF Working, TInv, Calls
  <2>4. /\ cf \in Configs /\ pos \in Nat /\ end \in Nat /\ unit \in Nat \ {0}
    BY <2>3, Room
  <2>5. /\ IsStream => left = e - pos
        /\ ~IsStream /\ cf.mode # "cbc" /\ ~(pc = "body" /\ cf.mode = "cfb" /\ dir = "dec") =>
             boff = IF e = pos THEN 0 ELSE pos + unit - e
        /\ pos = end \/ e = pos
        /\ HasFast => slow = 1
    BY <1>1, <2>0, <2>1, LinkedIs
  <2>6. e = pos BY <1>1, <2>4, <2>5
  <2>7. Linked(pos) BY <2>1, <2>6
  <2>8. PICK f \in Nat, b \in Area, r \in Area :
          f = pos + unit /\ b = NextUnit.key /\ r = NextUnit.reg
    <3>1. pos + unit \in Nat BY <2>4
    <3> QED BY <1>1, <2>3, <3>1, FilledType
  <2>9. unit <= unit /\ pos + unit <= end BY <1>1, <2>4
  <2>10. /\ Kept /\ Sound' /\ RegIs(reg, f, pos)' /\ BufIs(buf, f, pos)' /\ f % unit = 0
         /\ IsStream => ks' = GenAt(f \div unit)
         /\ pos' = pos + unit
    BY <1>1, <2>0, <2>2, <2>3, <2>4, <2>7, <2>8, <2>9, UnitStep
  <2>11. f = pos' /\ pos' <= f /\ f < pos' + unit /\ f - pos' = 0 /\ pos - pos = 0
    BY <2>4, <2>8, <2>10
  <2>12. Place(f)'
    <3> HIDE DEF HasFast
    <3> QED BY <1>1, <2>3, <2>5, <2>6, <2>11, PlaceNext
  <2>13. Linked(f)' BY <2>0, <2>10, <2>11, <2>12, LinkedNext
  <2> QED BY <2>10, <2>13, FlowNext
<1> QED BY <1>2, <1>3

LEMMA TailFlow ==
  ASSUME TInv, Flow, Tail
  PROVE  Flow'
<1>1. /\ pc = "body" /\ end - pos < unit /\ end # pos
      /\ Consume(end - pos, NextUnit.key, 0, NextUnit.reg) /\ Filled
      /\ IF IsStream THEN left' = unit - (end - pos) /\ boff' = boff
                     ELSE boff' = end - pos /\ left' = left
      /\ pc' \in {"idle", "final"} /\ cf' = cf /\ dir' = dir /\ iv' = iv /\ ivlen' = ivlen
      /\ in' = in /\ slow' = slow
  BY DEF Tail, Done, msgVars
<1>2. CASE clean' # 1 BY <1>2 DEF Flow
<1>3. CASE clean' = 1
  <2>0. clean = 1 /\ cf.mode # "rc4" /\ (IsStream => ks' = FillBuffer(cf.mode, unit, ks).ks)
    BY <1>1, <1>3 DEF Filled
  <2>1. PICK e \in Nat : Linked(e) BY <1>1, <2>0 DEF Flow, Moving
  <2>2. Sound BY <1>1, <2>0 DEF Flow
  <2>3. Working /\ cf.mode # "cbc" BY <1>1 DEF Working, TInv, Calls
  <2>4. /\ cf \in Configs /\ pos \in Nat /\ end \in Nat /\ pos <= end /\ unit \in Nat \ {0}
    BY <2>3, Room
  <2>5. (pos = end \/ e = pos) /\ (HasFast => slow = 1)
    BY <1>1, <2>0, <2>1, LinkedIs
  <2>6. e = pos BY <1>1, <2>4, <2>5
  <2>7. Linked(pos) BY <2>1, <2>6
  <2>8. PICK f \in Nat, b \in Area, r \in Area, m \in Nat :
          f = pos + unit /\ b = NextUnit.key /\ r = NextUnit.reg /\ m = end - pos
    <3>1. pos + unit \in Nat /\ end - pos \in Nat BY <2>4
    <3> QED BY <1>1, <2>3, <3>1, FilledType
  <2>9. m <= unit /\ pos + m <= end BY <1>1, <2>4, <2>8
  <2>10. /\ Kept /\ Sound' /\ RegIs(reg, f, pos)' /\ BufIs(buf, f, pos)' /\ f % unit = 0
         /\ IsStream => ks' = GenAt(f \div unit)
         /\ pos' = pos + m
    BY <1>1, <2>0, <2>2, <2>3, <2>4, <2>7, <2>8, <2>9, UnitStep
  <2>11. pos' <= f /\ f < pos' + unit /\ f # pos' /\ f - pos' = unit - m /\ pos' + unit - f = m
    BY <1>1, <2>4, <2>8, <2>10
  <2>12. Place(f)'
    <3>1. pc' \notin {"body", "head", "fast"} BY <1>1
    <3> HIDE DEF HasFast
    <3> QED BY <1>1, <2>3, <2>5, <2>8, <2>11, <3>1, PlaceNext
  <2>13. Linked(f)' BY <2>0, <2>10, <2>11, <2>12, LinkedNext
  <2> QED BY <2>10, <2>13, FlowNext
<1> QED BY <1>2, <1>3

LEMMA StreamFastFlow ==
  ASSUME TInv, Flow, StreamFast
  PROVE  Flow'
<1>1. /\ pc = "fast" /\ pos # end /\ IsStream
      /\ Consume(unit, NextUnit.key, 0, NextUnit.reg) /\ Filled
      /\ pc' = pc /\ cf' = cf /\ dir' = dir /\ iv' = iv /\ ivlen' = ivlen /\ in' = in
      /\ left' = left /\ boff' = boff /\ end' = end /\ slow' = slow
  BY DEF StreamFast, msgVars, callVars
<1>2. CASE clean' # 1 BY <1>2 DEF Flow
<1>3. CASE clean' = 1
  <2>0. clean = 1 /\ cf.mode # "rc4" /\ ks' = FillBuffer(cf.mode, unit, ks).ks
    BY <1>1, <1>3 DEF Filled
  <2>1. PICK e \in Nat : Linked(e) BY <1>1, <2>0 DEF Flow, Moving
  <2>2. Sound BY <1>1, <2>0 DEF Flow
  <2>3. Working /\ cf.mode # "cbc" /\ (end - pos) % cf.blksize = 0 BY <1>1 DEF Working, TInv, Calls
  <2>4. /\ cf \in Configs /\ pos \in Nat /\ end \in Nat /\ pos <= end /\ unit \in Nat \ {0}
        /\ cf.blksize = unit /\ cf.mode \notin {"cfb", "ofb", "ctr", "cbc", "gcm"}
    BY <1>1, <2>3, Room, StreamMode
  <2>5. left = e - pos /\ e = pos BY <1>1, <2>0, <2>1, LinkedIs
  <2>7. Linked(pos) BY <2>1, <2>5
  <2>8. PICK f \in Nat, b \in Area, r \in Area :
          f = pos + unit /\ b = NextUnit.key /\ r = NextUnit.reg
    <3>1. pos + unit \in Nat BY <2>4
    <3> QED BY <1>1, <2>3, <3>1, FilledType
  <2>9. unit <= unit /\ pos + unit <= end
    <3>1. PICK n \in Nat \ {0}, q \in Nat : n = unit /\ q = pos BY <2>4
    <3>2. (end - q) % n = 0 BY <2>3, <2>4, <3>1
    <3>3. q + n <= end BY <1>1, <2>4, <3>1, <3>2, NextChunk
    <3> QED BY <2>4, <3>1, <3>3
  <2>10. /\ Kept /\ Sound' /\ RegIs(reg, f, pos)' /\ BufIs(buf, f, pos)' /\ f % unit = 0
         /\ IsStream => ks' = GenAt(f \div unit)
         /\ pos' = pos + unit
    BY <1>1, <2>0, <2>2, <2>3, <2>4, <2>7, <2>8, <2>9, UnitStep
  <2>11. f = pos' /\ pos' <= f /\ f < pos' + unit /\ f - pos' = 0 /\ left = 0
    BY <2>4, <2>5, <2>8, <2>10
  <2>12. Place(f)' BY <1>1, <2>4, <2>11, PlaceNext
  <2>13. Linked(f)' BY <2>0, <2>10, <2>11, <2>12, LinkedNext
  <2> QED BY <2>10, <2>13, FlowNext
<1> QED BY <1>2, <1>3

\* A block of CBC.
LEMMA CbcBlockFlow ==
  ASSUME TInv, Flow, CbcBlock
  PROVE  Flow'
<1> DEFINE x == At(in, pos)
           w == [k \in Block0 |-> XorByte(reg[k], x[k])]
           y == IF dir = "enc" THEN Enc(w) ELSE [k \in Block0 |-> XorByte(Dec(x)[k], reg[k])]
           z == IF dir = "enc" THEN y ELSE x
<1>1. /\ pc = "cbc" /\ pos # end
      /\ out' = [i \in Idx |-> IF pos <= i /\ i < pos + cf.blksize THEN y[i - pos] ELSE out[i]]
      /\ reg' = Over(reg, z, cf.blksize)
      /\ pos' = pos + cf.blksize
      /\ pc' = pc /\ cf' = cf /\ dir' = dir /\ iv' = iv /\ ivlen' = ivlen /\ in' = in
      /\ clean' = clean
  BY DEF CbcBlock, msgVars
<1>2. CASE clean # 1 BY <1>1, <1>2 DEF Flow
<1>3. CASE clean = 1
  <2>1. PICK e \in Nat : Linked(e) BY <1>1, <1>3 DEF Flow, Moving
  <2>2. Sound BY <1>1, <1>3 DEF Flow
  <2>3. Working /\ cf.mode = "cbc" /\ (end - pos) % cf.blksize = 0 BY <1>1 DEF Working, TInv, Calls
  <2>4. /\ cf \in Configs /\ pos \in Nat /\ end \in Nat /\ pos <= end /\ cf.blksize \in Nat \ {0}
        /\ in \in Text /\ out \in Text /\ reg \in Area /\ end <= MaxLen /\ MaxLen \in Nat
        /\ unit = cf.blksize /\ dir \in {"enc", "dec"}
    BY <2>3, Room, Parameters, SizesAssumption DEF TInv, Data
  <2>5. cf.mode # "rc4" /\ ~IsStream BY <2>3 DEF IsStream, StreamModes
  <2>6. e = pos /\ pos % unit = 0 /\ RegIs(reg, pos, pos) BY <2>1, <2>3, <2>5, LinkedIs
  <2>7. PICK n \in Nat \ {0}, f \in Nat : n = cf.blksize /\ f = pos + n /\ f % n = 0 /\ pos % n = 0
    <3>1. PICK n \in Nat \ {0}, q \in Nat : n = cf.blksize /\ q = pos BY <2>4
    <3>2. q % n = 0 BY <2>4, <2>6, <3>1
    <3>3. q + n \in Nat /\ (q + n) % n = 0 BY <3>2, Units
    <3> QED BY <3>1, <3>2, <3>3
  <2>8. pos + n <= end BY <1>1, <2>3, <2>4, <2>7, NextChunk
  <2>9. \A k \in Block0 : k \in Nat /\ k < n /\ k \in 0 .. n-1 /\ pos + k \in Idx /\ pos + k \in Nat
                          /\ k \in Cells
    <3> TAKE k \in Block0
    <3>1. k \in Nat /\ k < n /\ k \in 0 .. n-1 BY <2>7 DEF Block0
    <3>2. k \in Cells BY <2>4, OverIs
    <3> QED BY <2>4, <2>8, <3>1, <3>2 DEF Idx
  <2>10. x \in Blocks /\ \A k \in Block0 : x[k] = in[pos + k] BY <2>4, <2>7, <2>8, AtText DEF At
  <2>11. \A k \in Block0 : reg[k] \in Byte /\ x[k] \in Byte BY <2>4, <2>9, <2>10 DEF Area, Blocks
  <2> HIDE DEF x
  <2>12. w \in Blocks BY <2>11, XorAssumption DEF Blocks
  <2>13. Dec(x) \in Blocks /\ Enc(Dec(x)) = x BY <2>4, <2>10, CipherType, CipherAssumption DEF Blocks, Block0
  <2>14. \A k \in Block0 : Dec(x)[k] \in Byte BY <2>13 DEF Blocks
  <2> HIDE DEF y
  <2>15. Kept
    <3>1. \A i \in Idx : i < pos => out'[i] = out[i] BY <1>1, <2>4 DEF Idx
    <3> QED BY <1>1, <3>1 DEF Kept
  <2>16. Block0' = Block0 /\ unit' = unit BY <1>1, SameConfig
  <2>22. PICK s \in Nat : s = pos BY <2>4
  <2>17. ASSUME NEW k \in Block0
         PROVE  (IF s = 0 THEN iv[k] ELSE Cipher(s - cf.blksize + k)') = reg[k]
    <3>1. reg[k] = Chain(pos + k)
      <4>1. pos + k < pos + cf.blksize BY <2>4, <2>7, <2>9
      <4> QED BY <2>3, <2>6, <4>1 DEF RegIs
    <3>2. CASE pos = 0
      <4>1. pos + k = k /\ k < cf.blksize BY <2>7, <2>9, <3>2
      <4> QED BY <2>22, <3>1, <3>2, <4>1 DEF Chain
    <3>3. CASE pos # 0
      <4>1. n <= pos BY <2>4, <2>7, <3>3, Multiples
      <4>2. PICK i \in Nat : i = pos - n + k /\ i = (pos + k) - n /\ i < pos BY <2>4, <2>7, <2>9, <4>1
      <4>3. ~ (pos + k < cf.blksize) BY <2>4, <2>7, <2>9, <4>1
      <4>4. Chain(pos + k) = Cipher(i) BY <2>7, <4>2, <4>3 DEF Chain
      <4>5. Cipher(i)' = Cipher(i) BY <2>4, <2>15, <4>2, TextKept
      <4>7. cf'.blksize = n /\ s - n + k = i BY <1>1, <2>7, <2>22, <4>2
      <4>8. Cipher(s - cf.blksize + k)' = Cipher(i)' BY <4>7
      <4> QED BY <2>22, <3>1, <3>3, <4>4, <4>5, <4>8
    <3> QED BY <2>22, <3>2, <3>3
  <2>19. Input(s)' = [k \in Block0 |-> XorByte(Plain(s + k)', reg[k])]
    <3>1. Input(s)' = [k \in Block0 |-> XorByte(Plain(s + k)', IF s = 0 THEN iv[k] ELSE
                                                Cipher(s - cf.blksize + k)')]
      BY <1>1, <2>3, <2>16 DEF Input
    <3> QED BY <2>17, <3>1
  <2>20. ASSUME NEW k \in Block0
         PROVE  out'[pos + k] = y[k]
    <3>1. pos <= pos + k /\ pos + k < pos + cf.blksize /\ (pos + k) - pos = k BY <2>4, <2>7, <2>9
    <3>2. pos + k \in Idx BY <2>9
    <3> QED BY <1>1, <3>1, <3>2
  <2>21. \A k \in Block0 : Enc(Input(s)')[k] = z[k] /\ Cipher(s + k)' = z[k]
    <3>1. CASE dir = "enc"
      <4>1. \A k \in Block0 : Plain(s + k)' = x[k] BY <1>1, <2>10, <2>22, <3>1 DEF Plain
      <4>2. \A k \in Block0 : XorByte(Plain(s + k)', reg[k]) = XorByte(reg[k], x[k])
        BY <2>11, <4>1, XorAssumption
      <4>3. Input(s)' = w BY <2>19, <4>2
      <4>4. Enc(Input(s)') = y /\ z = y BY <3>1, <4>3 DEF y
      <4>5. \A k \in Block0 : Cipher(s + k)' = y[k] BY <1>1, <2>20, <2>22, <3>1 DEF Cipher
      <4> QED BY <4>4, <4>5
    <3>2. CASE dir = "dec"
      <4>1. \A k \in Block0 : y[k] = XorByte(Dec(x)[k], reg[k]) BY <3>2 DEF y
      <4>2. \A k \in Block0 : Plain(s + k)' = y[k] BY <1>1, <2>20, <2>22, <3>2 DEF Plain
      <4>3. \A k \in Block0 : XorByte(Plain(s + k)', reg[k]) = Dec(x)[k]
        BY <2>11, <2>14, <4>1, <4>2, XorAssumption
      <4>4. Dec(x) = [k \in Block0 |-> Dec(x)[k]] BY <2>13 DEF Blocks
      <4>5. Input(s)' = Dec(x) BY <2>19, <4>3, <4>4
      <4>6. Enc(Input(s)') = x /\ z = x BY <2>13, <3>2, <4>5
      <4>7. \A k \in Block0 : Cipher(s + k)' = x[k] BY <1>1, <2>10, <2>22, <3>2 DEF Cipher
      <4> QED BY <4>6, <4>7
    <3> QED BY <2>4, <3>1, <3>2
  <2> HIDE DEF z
  <2>23. ASSUME NEW i \in Idx, i < pos' PROVE Defined(i)'
    <3>1. i \in Nat BY DEF Idx
    <3>2. CASE i < pos
      <4>1. Defined(i) BY <2>2, <3>2 DEF Sound
      <4> QED BY <2>4, <2>6, <2>15, <3>1, <3>2, <4>1, DefinedKept
    <3>3. CASE ~ (i < pos)
      <4>a. i < pos + n BY <1>1, <2>7, <2>23
      <4>b. i - s \in 0 .. n-1 /\ i = s + (i - s) BY <2>4, <2>7, <2>22, <3>1, <3>3, <4>a
      <4>c. i - s \in Block0 BY <2>7, <4>b DEF Block0
      <4>1. PICK k \in Block0 : k = i - s /\ i = s + k BY <4>b, <4>c
      <4>2. i % n = k /\ i - k = s
        <5>1. k \in 0 .. n-1 /\ k \in Nat BY <2>9
        <5>2. s % n = 0 BY <2>7, <2>22
        <5>4. \A h \in 0 .. n-1 : (s + h) % n = h /\ (s + h) \div n = s \div n BY <5>2, Units
        <5>3. (s + k) % n = k BY <5>1, <5>4
        <5> QED BY <4>1, <5>1, <5>3
      <4>3. (Defined(i) <=> Cipher(i) = Enc(Input(i - (i % unit)))[i % unit])'
        BY <1>1, <2>3, <2>4, <3>1, CbcDefinedNext
      <4>4. i % unit = k /\ i - (i % unit) = s BY <2>4, <2>7, <4>2
      <4>5. Defined(i)' <=> Cipher(i)' = Enc(Input(s)')[k] BY <2>16, <4>3, <4>4
      <4>6. Enc(Input(s)')[k] = z[k] /\ Cipher(s + k)' = z[k] BY <2>21
      <4>7. Cipher(s + k)' = Cipher(i)' BY <4>1
      <4> QED BY <4>5, <4>6, <4>7
    <3> QED BY <3>2, <3>3
  <2>24. Sound' BY <2>23 DEF Sound
  <2>25. RegIs(reg, f, pos)'
    <3>1. ASSUME NEW k \in Block0 PROVE reg'[k] = Chain(f + k)'
      <4>1. reg'[k] = z[k] BY <1>1, <2>4, OverIs
      <4>2. Cipher(s + k)' = z[k] BY <2>21
      <4>3. ~ (f + k < n) /\ (f + k) - n = s + k BY <2>4, <2>7, <2>9, <2>22
      <4>4. cf'.blksize = n BY <1>1, <2>7
      <4>5. Chain(f + k)' = Cipher(s + k)' BY <4>3, <4>4 DEF Chain
      <4> QED BY <4>1, <4>2, <4>5
    <3> QED BY <2>3, <2>15, <3>1, PartsNext
  <2>26. BufIs(buf, f, pos)' BY <2>3, <2>15, PartsNext
  <2>27. f = pos' /\ pos' <= f /\ f < pos' + unit /\ f % unit = 0 BY <1>1, <2>4, <2>7
  <2>28. Place(f)' BY <1>1, <2>3, <2>5, <2>27, PlaceNext
  <2>29. Linked(f)' BY <2>5, <2>15, <2>25, <2>26, <2>27, <2>28, LinkedNext
  <2> QED BY <2>24, <2>29, FlowNext
<1> QED BY <1>2, <1>3

----------------------------------------------------------------------------
(* The fast functions. *)

\* Chunks that are one block.
LEMMA ChunksAre ==
  ASSUME cf \in Configs, cf.blksize = Align, buf \in Area, NEW f
  PROVE  EncChunks(f) = Over(buf, Enc(At(f, 0)), cf.blksize)
<1>1. PICK n \in Nat \ {0} : n = Align /\ n = cf.blksize BY Parameters
<1>2. \A k \in 0 .. n-1 : k % n = k
  <2> TAKE k \in 0 .. n-1
  <2>1. (n*0 + k) % n = k BY Division
  <2> QED BY <2>1
<1>3. DOMAIN buf = Cells BY DEF Area
<1>4. ASSUME NEW k \in Cells, k < n
      PROVE  k % cf.blksize = k /\ k - (k % cf.blksize) = 0
  <2>1. k \in 0 .. n-1 BY <1>4 DEF Cells
  <2>2. k % n = k BY <1>2, <2>1
  <2> QED BY <1>1, <2>1, <2>2
<1> QED BY <1>1, <1>3, <1>4 DEF EncChunks, Over

LEMMA OfbEncryptFastFlow ==
  ASSUME TInv, Flow, OfbEncryptFast
  PROVE  Flow'
<1>1. /\ pc = "fast" /\ pos # end /\ cf.mode = "ofb"
      /\ buf' = EncChunks(buf) /\ out' = OutChunk(buf') /\ pos' = pos + Align
      /\ reg' = reg /\ auth' = auth
      /\ pc' = pc /\ cf' = cf /\ dir' = dir /\ iv' = iv /\ ivlen' = ivlen /\ in' = in
      /\ left' = left /\ boff' = boff /\ clean' = clean
  BY DEF OfbEncryptFast, msgVars, streamVars
<1>2. CASE clean # 1 BY <1>1, <1>2 DEF Flow
<1>3. CASE clean = 1
  <2>1. PICK e \in Nat : Linked(e) BY <1>1, <1>3 DEF Flow, Moving
  <2>2. Sound BY <1>1, <1>3 DEF Flow
  <2>3. Working /\ HasFast BY <1>1 DEF Working, TInv, Calls
  <2>4. /\ cf \in Configs /\ pos \in Nat /\ end \in Nat /\ unit \in Nat \ {0}
        /\ unit = cf.blksize /\ Align \in Nat \ {0} /\ buf \in Area
    BY <1>1, <2>3, Room, Parameters
  <2>5. ~IsStream BY <1>1 DEF IsStream, StreamModes
  <2>6. e = pos /\ cf.blksize = Align /\ boff = 0
    <3>1. /\ pc = "fast" => e = pos
          /\ pc = "fast" /\ cf.mode \in {"cfb", "ofb"} => cf.blksize = Align
          /\ ~IsStream /\ cf.mode # "cbc" /\ ~(pc = "body" /\ cf.mode = "cfb" /\ dir = "dec") =>
               boff = IF e = pos THEN 0 ELSE pos + unit - e
      BY <1>1, <2>1, LinkedIs
    <3> QED BY <1>1, <2>5, <3>1
  <2>7. Linked(pos) BY <2>1, <2>6
  <2>8. NextUnit = OfbUnit BY <1>1, <2>5 DEF NextUnit
  <2>9. NextUnit.reg = reg /\ NextUnit.key = buf'
    <3>1. EncChunks(buf) = Over(buf, Enc(At(buf, 0)), cf.blksize) BY <2>4, <2>6, ChunksAre
    <3> QED BY <1>1, <2>8, <3>1 DEF OfbUnit
  <2>10. NextUnit.key \in Area /\ NextUnit.reg \in Area
    <3>1. ks \in KsType /\ reg \in Area BY <2>3, Room
    <3> QED BY <1>1, <2>4, <3>1, UnitType
  <2>11. PICK f \in Nat, b \in Area, r \in Area :
           f = pos + unit /\ b = NextUnit.key /\ r = NextUnit.reg
    BY <2>4, <2>10
  <2>12. Consume(unit, b, 0, r)
    <3>1. b = buf' /\ r = reg BY <2>9, <2>11
    <3>2. out' = [i \in Idx |-> IF pos <= i /\ i < pos + unit THEN XorByte(b[0 + i - pos], in[i]) ELSE out[i]]
      <4>1. \A i \in Idx : 0 + i - pos = i - pos BY <2>4 DEF Idx
      <4>2. Align = unit BY <2>4, <2>6
      <4>3. out' = [i \in Idx |-> IF pos <= i /\ i < pos + Align THEN XorByte(b[i - pos], in[i]) ELSE out[i]]
        BY <1>1, <3>1 DEF OutChunk
      <4> QED BY <4>1, <4>2, <4>3
    <3> QED BY <1>1, <2>4, <2>6, <3>1, <3>2 DEF Consume
  <2>13. unit <= unit /\ pos + unit <= end
    <3>1. pos + Align <= end BY <1>1, <2>5, TurnSize
    <3> QED BY <2>4, <2>6, <3>1
  <2>14. /\ Kept /\ Sound' /\ RegIs(reg, f, pos)' /\ BufIs(buf, f, pos)' /\ f % unit = 0
         /\ IsStream => ks' = GenAt(f \div unit)
         /\ pos' = pos + unit
    BY <1>1, <2>2, <2>3, <2>4, <2>5, <2>7, <2>11, <2>12, <2>13, UnitStep
  <2>15. f = pos' /\ pos' <= f /\ f < pos' + unit BY <2>4, <2>11, <2>14
  <2>16. Place(f)' BY <1>1, <2>5, <2>6, <2>15, PlaceNext
  <2>17. Linked(f)' BY <1>1, <2>5, <2>14, <2>15, <2>16, LinkedNext
  <2> QED BY <2>14, <2>17, FlowNext
<1> QED BY <1>2, <1>3

\* The invariant after a turn that ends at f, the end of a unit.
LEMMA TurnFlow ==
  ASSUME TInv, pc = "fast", ~IsStream, cf.mode \notin {"cbc", "ofb"}, NEW e \in Nat, Linked(e),
         NEW f \in Nat, f % unit = 0, pos' = f, Kept, Sound', RegIs(reg, f, pos)',
         boff' = boff, pc' = pc, end' = end, cf.mode \in {"ctr", "gcm"} => pos' = end
  PROVE  Flow'
<1>1. cf \in Configs /\ unit \in Nat \ {0} /\ cf' = cf /\ dir' = dir
  BY Parameters DEF TInv, Data, Kept
<1>2. cf.mode # "rc4" BY DEF IsStream, StreamModes
<1>3. boff = 0 /\ (cf.mode = "cfb" => cf.blksize = Align)
  <2>1. /\ pc = "fast" => e = pos
        /\ pc = "fast" /\ cf.mode \in {"cfb", "ofb"} => cf.blksize = Align
        /\ ~IsStream /\ cf.mode # "cbc" /\ ~(pc = "body" /\ cf.mode = "cfb" /\ dir = "dec") =>
             boff = IF e = pos THEN 0 ELSE pos + unit - e
    BY <1>2, LinkedIs
  <2> QED BY <2>1
<1>4. BufIs(buf, f, pos)'
  <2>1. \A k \in 0 .. unit - 1 : ~ (pos' + unit <= f + k) BY <1>1
  <2> QED BY <2>1, PartsNext
<1>5. pos' <= f /\ f < pos' + unit BY <1>1
<1>6. Place(f)' BY <1>1, <1>3, PlaceNext
<1>7. Linked(f)' BY <1>2, <1>4, <1>5, <1>6, LinkedNext
<1> QED BY <1>7, FlowNext

LEMMA CfbEncryptFastFlow ==
  ASSUME TInv, Flow, CfbEncryptFast
  PROVE  Flow'
<1>1. /\ pc = "fast" /\ pos # end /\ cf.mode = "cfb" /\ dir = "enc"
      /\ buf' = EncChunks(reg) /\ out' = OutChunk(buf') /\ pos' = pos + Align
      /\ reg' = [k \in Cells |-> IF k < Align THEN out'[pos + k] ELSE reg[k]]
      /\ pc' = pc /\ cf' = cf /\ dir' = dir /\ iv' = iv /\ ivlen' = ivlen /\ in' = in
      /\ boff' = boff /\ end' = end /\ clean' = clean
  BY DEF CfbEncryptFast, msgVars, callVars
<1>2. CASE clean # 1 BY <1>1, <1>2 DEF Flow
<1>3. CASE clean = 1
  <2>1. PICK e \in Nat : Linked(e) BY <1>1, <1>3 DEF Flow, Moving
  <2>2. Sound BY <1>1, <1>3 DEF Flow
  <2>3. Working /\ HasFast BY <1>1 DEF Working, TInv, Calls
  <2>5. ~IsStream BY <1>1 DEF IsStream, StreamModes
  <2>4. /\ cf \in Configs /\ pos \in Nat /\ end \in Nat /\ unit \in Nat \ {0} /\ MaxLen \in Nat
        /\ end <= MaxLen /\ Align \in Nat \ {0} /\ buf \in Area /\ reg \in Area /\ Data
        /\ in \in Text /\ out \in Text
    BY <2>3, Room, Parameters DEF TInv
  <2>6. e = pos /\ cf.blksize = Align /\ unit = Align
    <3>1. /\ pc = "fast" => e = pos
          /\ pc = "fast" /\ cf.mode \in {"cfb", "ofb"} => cf.blksize = Align
      BY <1>1, <2>1, LinkedIs
    <3>2. unit = cf.blksize BY <1>1, <2>3, <2>4, <2>5, FastModes
    <3> QED BY <1>1, <3>1, <3>2
  <2>7. PICK n \in Nat \ {0}, s \in Nat, f \in Nat :
          n = unit /\ s = pos /\ f = pos + n /\ s % n = 0 /\ f % n = 0
    <3>1. PICK n \in Nat \ {0}, s \in Nat : n = unit /\ s = pos BY <2>4
    <3>2. s % n = 0 BY <1>1, <2>1, <2>6, <3>1, LinkedIs
    <3>3. s + n \in Nat /\ (s + n) % n = 0 BY <3>2, Units
    <3> QED BY <3>1, <3>2, <3>3
  <2>8. pos + n <= end BY <1>1, <2>5, <2>6, <2>7, TurnSize
  <2>9. NextUnit.key = buf'
    <3>1. NextUnit = CfbUnit BY <1>1, <2>5 DEF NextUnit
    <3>2. EncChunks(reg) = Over(buf, Enc(At(reg, 0)), cf.blksize) BY <2>4, <2>6, ChunksAre
    <3> QED BY <1>1, <3>1, <3>2 DEF CfbUnit
  <2>10. \A k \in 0 .. n-1 : buf'[k] = Key(s)[k]
    <3>1. pos % unit = 0 /\ RegIs(reg, pos, pos) /\ BufIs(buf, pos, pos) /\ GenIs(ks, pos)
      BY <1>1, <2>1, <2>6, LinkedIs
    <3>2. BufIs(NextUnit.key, pos + unit, pos) BY <1>1, <2>2, <2>3, <3>1, UnitNext
    <3>3. \A k \in 0 .. unit - 1 : pos + unit <= (pos + unit) + k => NextUnit.key[k] = Key((pos + unit) - unit)[k]
      BY <1>1, <3>2 DEF BufIs
    <3>4. (pos + unit) - unit = s BY <2>4, <2>7
    <3>5. \A k \in 0 .. n-1 : pos + unit <= (pos + unit) + k BY <2>4, <2>7
    <3> QED BY <2>7, <2>9, <3>3, <3>4, <3>5
  <2>11. Kept
    <3>1. \A i \in Idx : i < pos => out'[i] = out[i] BY <1>1, <2>4 DEF Idx, OutChunk
    <3> QED BY <1>1, <3>1 DEF Kept
  <2>12. Key(s)' = Key(s)
    <3>1. pos \in 0 .. MaxLen /\ s <= pos /\ s % unit = 0 BY <2>4, <2>7, <2>8
    <3> QED BY <1>1, <2>4, <2>11, <3>1, KeyKept
  <2>13. PICK b \in Area : b = buf'
    <3>1. ks \in KsType BY <2>3, Room
    <3> QED BY <1>1, <2>4, <2>9, <3>1, UnitType
  <2> DEFINE g == [i \in Idx |-> b[i - s]]
  <2>14. out' = [i \in Idx |-> IF pos <= i /\ i < pos + n THEN XorByte(g[i], in[i]) ELSE out[i]]
    BY <1>1, <2>6, <2>7, <2>13 DEF OutChunk
  <2>15. \A i \in Idx : pos <= i /\ i < pos + n =>
           g[i] \in Byte /\ g[i] = (Key(i - (i % unit))')[i % unit]
    <3> SUFFICES ASSUME NEW i \in Idx, pos <= i, i < pos + n
                 PROVE  g[i] \in Byte /\ g[i] = (Key(i - (i % unit))')[i % unit]
      OBVIOUS
    <3>1. PICK k \in 0 .. n-1 : k = i - s /\ i = s + k BY <2>4, <2>7 DEF Idx
    <3>2. \A h \in 0 .. n-1 : (s + h) % n = h /\ (s + h) \div n = s \div n BY <2>7, Units
    <3>3. i % n = k /\ i - k = s BY <2>4, <2>7, <3>1, <3>2
    <3>4. unit' = unit BY <1>1, SameConfig
    <3>5. Key(i - (i % unit))' = Key(s)' BY <2>7, <3>3, <3>4
    <3>6. g[i] = Key(s)[k] BY <2>10, <2>13, <3>1
    <3>7. k \in Cells BY <2>4, <2>6, <2>7 DEF Cells
    <3>8. b[k] \in Byte BY <3>7 DEF Area
    <3> QED BY <2>7, <2>12, <3>1, <3>3, <3>5, <3>6, <3>8
  <2> HIDE DEF g
  <2>16. Sound'
    <3>1. pos \in 0 .. MaxLen /\ pos + n <= MaxLen /\ pos' = pos + n BY <1>1, <2>4, <2>6, <2>7, <2>8
    <3> QED BY <1>1, <2>2, <2>4, <2>14, <2>15, <3>1, Written
  <2>17. RegIs(reg, f, pos)'
    <3>1. ASSUME NEW k \in Block0 PROVE reg'[k] = Chain(f + k)'
      <4>1. k \in Cells /\ k \in Nat /\ k < n BY <2>4, <2>6, <2>7 DEF Block0, Cells
      <4>2. reg'[k] = out'[pos + k] BY <1>1, <2>6, <2>7, <4>1
      <4>3. ~ (f + k < n) /\ (f + k) - n = s + k BY <2>4, <2>7, <4>1
      <4>4. cf'.blksize = n BY <1>1, <2>6, <2>7
      <4>5. Chain(f + k)' = Cipher(s + k)' BY <4>3, <4>4 DEF Chain
      <4>6. Cipher(s + k)' = out'[s + k] BY <1>1 DEF Cipher
      <4> QED BY <2>7, <4>2, <4>5, <4>6
    <3> QED BY <1>1, <2>11, <3>1, PartsNext
  <2>18. f % unit = 0 /\ pos' = f BY <1>1, <2>6, <2>7
  <2> QED BY <1>1, <2>1, <2>5, <2>11, <2>16, <2>17, <2>18, TurnFlow
<1> QED BY <1>2, <1>3

\* A place behind a whole number of units.
LEMMA Shifted ==
  ASSUME NEW n \in Nat \ {0}, NEW s \in Nat, s % n = 0, NEW j \in Nat
  PROVE  (s + j) % n = j % n /\ (s + j) \div n = (s \div n) + (j \div n)
<1>1. PICK q \in Nat, h \in 0 .. n-1 : q = s \div n /\ h = s % n /\ s = n*q + h BY DivisionExists
<1>2. PICK p \in Nat, r \in 0 .. n-1 : p = j \div n /\ r = j % n /\ j = n*p + r BY DivisionExists
<1>3. s = n*q BY <1>1
<1>4. n*(q + p) = n*q + n*p OBVIOUS
<1>5. PICK a \in Int, b \in Int : a = n*(q + p) /\ b = n*p OBVIOUS
<1>6. a + r = s + j BY <1>2, <1>3, <1>4, <1>5
<1>7. q + p \in Int OBVIOUS
<1>8. (n*(q + p) + r) \div n = q + p /\ (n*(q + p) + r) % n = r BY <1>7, Division
<1> QED BY <1>1, <1>2, <1>5, <1>6, <1>8

\* m bytes from s on, combined block by block with the keystream K, whose index
\* is the offset of the block.
Turned(n, s, m, g, K, o) ==
  /\ out' = [i \in Idx |-> IF pos <= i /\ i < pos + m THEN XorByte(g[i], in[i]) ELSE o[i]]
  /\ Rest(o)
  /\ \A j \in Nat : j < m => g[s + j] = K[j - (j % n)][j % n]
  /\ \A t \in Nat : t % n = 0 /\ t < m => K[t] \in Blocks /\ K[t] = Key(s + t)'

LEMMA TurnWritten ==
  ASSUME Data, Sound, cf.mode # "cbc", cf' = cf, dir' = dir, iv' = iv, ivlen' = ivlen, in' = in,
         NEW n \in Nat \ {0}, n = unit, n = cf.blksize, NEW s \in Nat, s = pos, s % n = 0,
         NEW m \in Nat, pos + m <= MaxLen, pos' = pos + m, NEW g, NEW K,
         NEW o, Turned(n, s, m, g, K, o)
  PROVE  Kept /\ Sound'
<1>0. MaxLen \in Nat BY SizesAssumption
<1>1. pos \in 0 .. MaxLen /\ unit' = unit BY <1>0, SameConfig
<1>2. ASSUME NEW i \in Idx, pos <= i, i < pos + m
      PROVE  g[i] \in Byte /\ g[i] = (Key(i - (i % unit))')[i % unit]
  <2>0. i \in Nat BY <1>0 DEF Idx
  <2>a. i - s \in Nat /\ i - s < m /\ i = s + (i - s) BY <1>2, <2>0
  <2>1. PICK j \in Nat : i = s + j /\ j < m BY <2>a
  <2>2. PICK t \in Nat, r \in 0 .. n-1 :
          /\ r = j % n /\ j = t + r /\ j - (j % n) = t
          /\ t % n = 0 /\ t \div n = j \div n
          /\ (n <= j => n <= t)
    BY Floor
  <2>3. t < m BY <2>1, <2>2
  <2>4. g[i] = K[t][r] BY <2>1, <2>2 DEF Turned
  <2>5. K[t] \in Blocks /\ K[t] = Key(s + t)' BY <2>2, <2>3 DEF Turned
  <2>6. r \in Block0 BY DEF Block0
  <2>7. i % n = r BY <2>1, <2>2, Shifted
  <2>8. i - (i % unit) = s + t /\ i % unit = r BY <2>1, <2>2, <2>7
  <2>9. Key(i - (i % unit))' = Key(s + t)' BY <1>1, <2>8
  <2> QED BY <2>4, <2>5, <2>6, <2>8, <2>9 DEF Blocks
<1>3. \A i \in Idx : pos <= i /\ i < pos + m =>
        g[i] \in Byte /\ g[i] = (Key(i - (i % unit))')[i % unit]
  BY <1>2
<1>4. /\ out' = [i \in Idx |-> IF pos <= i /\ i < pos + m THEN XorByte(g[i], in[i]) ELSE o[i]]
      /\ \A i \in Idx : i < pos => o[i] = out[i]
  BY DEF Turned, Rest
<1> QED BY <1>1, <1>3, <1>4, Written

LEMMA CfbKeyNext ==
  ASSUME cf \in Configs, cf.mode = "cfb", cf' = cf, NEW s \in Nat
  PROVE  Key(s)' = Enc([k \in Block0 |-> Chain(s + k)'])
<1>1. (cf \in Configs)' OBVIOUS
<1>2. (CfbInput(s) = [k \in Block0 |-> Chain(s + k)])' BY <1>1, CfbInputIs, PTL
<1>3. Block0' = Block0 /\ IsStream' = IsStream BY SameConfig
<1>4. Input(s)' = CfbInput(s)' BY DEF Input
<1>5. Key(s)' = Enc(Input(s)') BY <1>3 DEF Key, IsStream, StreamModes
<1> QED BY <1>2, <1>3, <1>4, <1>5

LEMMA CfbDecryptFastFlow ==
  ASSUME TInv, Flow, CfbDecryptFast
  PROVE  Flow'
<1> DEFINE From(i) == IF i < cf.blksize THEN At(reg, 0)
                      ELSE At(in, pos + i - (i % cf.blksize) - cf.blksize)
           g == [i \in Idx |-> Enc(From(i - pos))[(i - pos) % cf.blksize]]
<1>a. TInv /\ pc = "fast" /\ Turn \in Nat
  BY Room, SizesAssumption DEF CfbDecryptFast, Working, Turn, Lesser
<1>b. PICK w \in Beyond(Turn) :
        out' = [i \in Idx |-> IF pos <= i /\ i < pos + Turn THEN XorByte(g[i], in[i]) ELSE Spilled(w)[i]]
  BY DEF CfbDecryptFast, Turn
<1>c. PICK o \in Text : o = Spilled(w) /\ Rest(o) BY <1>a, SpilledIs
<1>1. /\ pc = "fast" /\ pos # end /\ cf.mode = "cfb" /\ dir = "dec"
      /\ out' = [i \in Idx |-> IF pos <= i /\ i < pos + Turn THEN XorByte(g[i], in[i]) ELSE o[i]]
      /\ reg' = Over(reg, At(in, pos + Turn - cf.blksize), cf.blksize)
      /\ pos' = pos + Turn
      /\ pc' = pc /\ cf' = cf /\ dir' = dir /\ iv' = iv /\ ivlen' = ivlen /\ in' = in
      /\ boff' = boff /\ end' = end /\ clean' = clean
  BY <1>b, <1>c DEF CfbDecryptFast, msgVars, callVars, Turn
<1>2. CASE clean # 1 BY <1>1, <1>2 DEF Flow
<1>3. CASE clean = 1
  <2>1. PICK e \in Nat : Linked(e) BY <1>1, <1>3 DEF Flow, Moving
  <2>2. Sound BY <1>1, <1>3 DEF Flow
  <2>3. Working /\ HasFast BY <1>1 DEF Working, TInv, Calls
  <2>5. ~IsStream BY <1>1 DEF IsStream, StreamModes
  <2>4. /\ cf \in Configs /\ pos \in Nat /\ end \in Nat /\ unit \in Nat \ {0} /\ MaxLen \in Nat
        /\ end <= MaxLen /\ Align \in Nat \ {0} /\ reg \in Area /\ Data
        /\ in \in Text /\ out \in Text
    BY <2>3, Room, Parameters DEF TInv
  <2>6. e = pos /\ cf.blksize = Align /\ unit = Align
    <3>1. /\ pc = "fast" => e = pos
          /\ pc = "fast" /\ cf.mode \in {"cfb", "ofb"} => cf.blksize = Align
      BY <1>1, <2>1, LinkedIs
    <3>2. unit = cf.blksize BY <1>1, <2>3, <2>4, <2>5, FastModes
    <3> QED BY <1>1, <3>1, <3>2
  <2>7. PICK n \in Nat \ {0}, s \in Nat, m \in Nat :
          /\ n = unit /\ n = cf.blksize /\ s = pos /\ m = Turn
          /\ s % n = 0 /\ m % n = 0 /\ n <= m /\ s + m <= end
    <3>1. pos % unit = 0 BY <1>1, <2>1, <2>6, LinkedIs
    <3>2. Turn \in Nat /\ Turn % Align = 0 /\ Align <= Turn /\ pos + Turn <= end
      BY <1>1, <2>5, TurnSize
    <3> QED BY <2>4, <2>6, <3>1, <3>2
  <2>8. RegIs(reg, pos, pos) BY <1>1, <2>1, <2>6, LinkedIs
  <2>9. \A k \in Block0 : k \in Nat /\ k < n /\ k \in Cells
    <3>1. \A k \in Block0 : k \in Nat /\ k < n BY <2>7 DEF Block0
    <3> QED BY <2>4, <2>6, <2>7, <3>1 DEF Cells
  <2>10. Kept
    <3>1. \A i \in Idx : i < pos => out'[i] = out[i] BY <1>1, <1>c, <2>4 DEF Idx, Rest
    <3> QED BY <1>1, <3>1 DEF Kept
  <2> DEFINE X(t) == IF t = 0 THEN At(reg, 0) ELSE At(in, s + t - n)
             K == [t \in Nat |-> Enc(X(t))]
  <2>11. \A j \in Nat : j < m => g[s + j] = K[j - (j % n)][j % n]
    <3> SUFFICES ASSUME NEW j \in Nat, j < m PROVE g[s + j] = K[j - (j % n)][j % n] OBVIOUS
    <3>1. PICK t \in Nat, r \in 0 .. n-1 :
            /\ r = j % n /\ j = t + r /\ j - (j % n) = t
            /\ t % n = 0 /\ t \div n = j \div n
            /\ (n <= j => n <= t)
      BY Floor
    <3>2. s + j \in Idx /\ (s + j) - pos = j BY <2>4, <2>7 DEF Idx
    <3>3. From(j) = X(t)
      <4>1. CASE j < n
        <5>1. t = 0
          <6>1. t # 0 => n <= t BY <3>1, Multiples
          <6> QED BY <3>1, <4>1, <6>1
        <5> QED BY <2>7, <4>1, <5>1
      <4>2. CASE ~ (j < n)
        <5>1. t # 0 BY <3>1, <4>2
        <5>2. pos + j - (j % cf.blksize) - cf.blksize = s + t - n BY <2>7, <3>1
        <5> QED BY <2>7, <4>2, <5>1, <5>2
      <4> QED BY <4>1, <4>2
    <3> HIDE DEF From, X
    <3>4. g[s + j] = Enc(From(j))[j % n] BY <2>7, <3>2
    <3>5. K[t] = Enc(X(t)) OBVIOUS
    <3> QED BY <3>1, <3>3, <3>4, <3>5
  <2> HIDE DEF g
  <2>12. ASSUME NEW t \in Nat, t % n = 0, t < m
         PROVE  K[t] \in Blocks /\ K[t] = Key(s + t)'
    <3>1. t # 0 => n <= t BY <2>12, Multiples
    <3>2. ASSUME NEW k \in Block0 PROVE X(t)[k] = Chain(s + t + k)' /\ X(t)[k] \in Byte
      <4>0. k \in Nat /\ k < n /\ k \in Cells BY <2>9
      <4>1. CASE t = 0
        <5>1. X(t)[k] = reg[k] BY <4>0, <4>1 DEF At
        <5>2. pos + k < pos + cf.blksize BY <2>4, <2>7, <4>0
        <5>3. reg[k] = Chain(pos + k) BY <1>1, <2>8, <5>2 DEF RegIs
        <5>4. PICK j \in Nat : j = pos + k /\ j = s + t + k BY <2>4, <2>7, <4>0, <4>1
        <5>5. Chain(j)' = Chain(j)
          <6>1. pos \in 0 .. MaxLen /\ j < pos + cf.blksize BY <2>4, <2>7, <5>2, <5>4
          <6> QED BY <2>4, <2>10, <6>1, ChainKept
        <5>6. reg[k] \in Byte BY <2>4, <4>0 DEF Area
        <5> QED BY <5>1, <5>3, <5>4, <5>5, <5>6
      <4>2. CASE t # 0
        <5>1. PICK i \in Nat : i = s + t - n + k /\ i = (s + t + k) - n /\ i < end
          BY <2>4, <2>7, <2>12, <3>1, <4>0, <4>2
        <5>2. X(t)[k] = in[i] BY <4>2, <5>1 DEF At
        <5>3. ~ (s + t + k < n) BY <3>1, <4>0, <4>2
        <5>4. Chain(s + t + k)' = Cipher(i)' BY <1>1, <2>7, <5>1, <5>3 DEF Chain
        <5>5. Cipher(i)' = in[i] BY <1>1 DEF Cipher
        <5>6. i \in Idx BY <2>4, <5>1 DEF Idx
        <5> QED BY <2>4, <5>2, <5>4, <5>5, <5>6 DEF Text
      <4> QED BY <4>1, <4>2
    <3>3. X(t) = [k \in Block0 |-> X(t)[k]] BY DEF At
    <3> HIDE DEF X
    <3>4. X(t) \in Blocks BY <3>2, <3>3 DEF Blocks
    <3>5. X(t) = [k \in Block0 |-> Chain(s + t + k)'] BY <3>2, <3>3
    <3>6. Key(s + t)' = Enc([k \in Block0 |-> Chain(s + t + k)'])
      <4>1. PICK a \in Nat : a = s + t OBVIOUS
      <4>2. Key(a)' = Enc([k \in Block0 |-> Chain(a + k)']) BY <1>1, <2>4, CfbKeyNext
      <4> QED BY <4>1, <4>2
    <3>7. K[t] = Enc(X(t)) OBVIOUS
    <3> QED BY <2>4, <3>4, <3>5, <3>6, <3>7, CipherType
  <2> HIDE DEF K
  <2>13. pos + m <= MaxLen /\ pos' = pos + m BY <1>1, <2>4, <2>7
  <2>14. out' = [i \in Idx |-> IF pos <= i /\ i < pos + m THEN XorByte(g[i], in[i]) ELSE o[i]]
    BY <1>1, <2>7
  <2>15. Sound'
    <3>1. Turned(n, s, m, g, K, o) BY <1>c, <2>11, <2>12, <2>14 DEF Turned
    <3> QED BY <1>1, <2>2, <2>4, <2>7, <2>13, <3>1, TurnWritten
  <2>16. PICK f \in Nat : f = s + m /\ f % n = 0
    <3>1. (s + m) % n = m % n BY <2>7, Shifted
    <3> QED BY <2>7, <3>1
  <2>17. RegIs(reg, f, pos)'
    <3>1. ASSUME NEW k \in Block0 PROVE reg'[k] = Chain(f + k)'
      <4>0. k \in Nat /\ k < n /\ k \in Cells BY <2>9
      <4>1. PICK i \in Nat : i = pos + Turn - cf.blksize + k /\ i = (f + k) - n
        BY <2>4, <2>7, <2>16, <4>0
      <4>2. reg'[k] = At(in, pos + Turn - cf.blksize)[k] BY <1>1, <2>4, OverIs
      <4>3. reg'[k] = in[i] BY <4>1, <4>2 DEF At
      <4>4. ~ (f + k < n) BY <2>7, <2>16, <4>0
      <4>5. Chain(f + k)' = Cipher(i)' BY <1>1, <2>7, <4>1, <4>4 DEF Chain
      <4>6. Cipher(i)' = in[i] BY <1>1 DEF Cipher
      <4> QED BY <4>3, <4>5, <4>6
    <3> QED BY <1>1, <2>10, <3>1, PartsNext
  <2>18. f % unit = 0 /\ pos' = f BY <1>1, <2>7, <2>16
  <2> QED BY <1>1, <2>1, <2>5, <2>10, <2>15, <2>17, <2>18, TurnFlow
<1> QED BY <1>2, <1>3

\* The counter blocks of a turn.
IsBlock(b) == \A k \in Block0 : b[k] \in Byte
IsCounter(r, b, w, d) == \A k \in Block0 : r[k] = CounterAt(b, w, d)[k]
WrapsIn(r, m) ==
  \E j \in 0 .. m-1 : \A k \in ShortIv .. cf.blksize - 1 : Counters(r, m)[j][k] = NByte - 1

LEMMA CountersAre ==
  ASSUME cf \in Configs, NEW r \in Area, NEW b, IsBlock(b), NEW d \in Nat,
         NEW w \in {cf.blksize, CtrBytes}, NEW m \in Nat, IsCounter(r, b, w, d),
         w = CtrBytes => cf.mode = "gcm" /\ ~WrapsIn(r, m)
  PROVE  \A j \in 0 .. m : \A k \in Block0 : Counters(r, m)[j][k] = CounterAt(b, w, d + j)[k]
<1> DEFINE C == Counters(r, m)
           T == {j \in 0 .. m : \A k \in Block0 : C[j][k] = CounterAt(b, w, d + j)[k]}
<1>1. /\ C \in [0 .. m -> Area] /\ C[0] = r
      /\ \A j \in 1 .. m : C[j] = increment_counter(C[j-1], cf.blksize)
  BY CountersType
<1>2. /\ cf.blksize \in Nat \ {0} /\ cf.blksize <= 2 * Align /\ Align \in Nat
      /\ CtrBytes \in 1 .. Align-1 /\ (cf.mode = "gcm" => cf.blksize = Align)
  BY Parameters
<1>3. w = CtrBytes =>
        /\ cf.mode = "gcm"
        /\ \A j \in 0 .. m-1 : ~ \A k \in ShortIv .. cf.blksize - 1 : C[j][k] = NByte - 1
  BY DEF WrapsIn
<1>a. /\ \A k \in Block0 : b[k] \in Byte
      /\ \A k \in Block0 : r[k] = CounterAt(b, w, d)[k]
  BY DEF IsBlock, IsCounter
<1> HIDE DEF C
<1>4. 0 \in T BY <1>1, <1>a
<1>5. ASSUME NEW j \in 0 .. m-1, j \in T PROVE j+1 \in T
  <2>1. j+1 \in 1 .. m /\ (j+1)-1 = j /\ j \in 0 .. m /\ d + j \in Nat /\ (d + j) + 1 = d + (j+1)
    OBVIOUS
  <2>2. PICK c \in Area : c = C[j] /\ C[j+1] = increment_counter(c, cf.blksize) BY <1>1, <2>1
  <2>3. \A k \in Block0 : c[k] = CounterAt(b, w, d + j)[k] BY <1>5, <2>2
  <2>4. CASE w = cf.blksize
    <3>1. \A k \in Block0 : increment_counter(c, cf.blksize)[k] = CounterAt(b, cf.blksize, (d + j) + 1)[k]
      BY <1>a, <2>1, <2>3, <2>4, IncrementIs
    <3> QED BY <2>1, <2>2, <2>4, <3>1
  <2>5. CASE w = CtrBytes
    <3>1. cf.mode = "gcm" BY <1>3, <2>5
    <3>2. \A k \in Block0 : gcm_increment(c, cf.blksize)[k] = CounterAt(b, CtrBytes, (d + j) + 1)[k]
      BY <1>a, <2>1, <2>3, <2>5, <3>1, IncrementIs
    <3>3. PICK h \in ShortIv .. cf.blksize - 1 : c[h] # NByte - 1 BY <1>3, <2>2, <2>5
    <3>4. ASSUME NEW k \in Block0
          PROVE  gcm_increment(c, cf.blksize)[k] = increment_counter(c, cf.blksize)[k]
      <4>1. k \in Cells /\ DOMAIN c = Cells /\ k \in Nat /\ k < cf.blksize
        BY <1>2 DEF Block0, Cells, Area
      <4>2. CASE k < cf.blksize - CtrBytes
        <5>1. h \in k + 1 .. cf.blksize - 1 BY <1>2, <3>1, <4>1, <4>2 DEF ShortIv
        <5>2. increment_counter(c, cf.blksize)[k] = c[k] BY <3>3, <4>1, <5>1 DEF increment_counter
        <5> QED BY <4>1, <4>2, <5>2 DEF gcm_increment
      <4>3. CASE ~ (k < cf.blksize - CtrBytes) BY <4>1, <4>3 DEF gcm_increment
      <4> QED BY <4>2, <4>3
    <3> QED BY <2>1, <2>2, <2>5, <3>2, <3>4
  <2> QED BY <2>4, <2>5
<1>6. \A j \in 0 .. m : j \in T
  <2> HIDE DEF T
  <2> QED BY <1>4, <1>5, Inductive
<1> QED BY <1>6 DEF C

\* The keystream of CTR and GCM in a turn from s on, from its counter blocks.
LEMMA CounterKey ==
  ASSUME cf \in Configs, cf.mode \in {"ctr", "gcm"}, iv \in Area, ivlen \in IvLens(cf),
         cf' = cf, iv' = iv, ivlen' = ivlen, NEW n \in Nat \ {0}, n = cf.blksize, NEW a \in Nat,
         NEW c \in Area,
         cf.mode = "ctr" => \A k \in Block0 : c[k] = CounterAt(iv, cf.blksize, a \div n)[k],
         cf.mode = "gcm" => \A k \in Block0 : c[k] = CounterAt(J0, CtrBytes, (a \div n) + 1)[k]
  PROVE  Enc(At(c, 0)) \in Blocks /\ Enc(At(c, 0)) = Key(a)'
<1>1. At(c, 0) \in Blocks
  <2>1. 0 + cf.blksize <= 2 * Align BY Parameters
  <2> QED BY <2>1, AtType
<1>2. Block0' = Block0 /\ IsStream' = IsStream BY SameConfig
<1>3. /\ J0' = J0
      /\ \A d : CounterAt(iv, cf.blksize, d)' = CounterAt(iv, cf.blksize, d)
      /\ \A d : CounterAt(J0, CtrBytes, d)' = CounterAt(J0, CtrBytes, d)
  BY CountersSame
<1>4. At(c, 0) = [k \in Block0 |-> c[k]]
  <2>1. \A k \in Block0 : 0 + k = k BY Parameters DEF Block0
  <2> QED BY <2>1 DEF At
<1>5. ~IsStream BY DEF IsStream, StreamModes
<1>6. Key(a)' = Enc(Input(a)') BY <1>2, <1>5 DEF Key
<1>7. CASE cf.mode = "ctr"
  <2>1. PICK d : d = a \div n OBVIOUS
  <2>2. Input(a)' = CounterAt(iv, cf.blksize, d)' BY <1>7, <2>1 DEF Input
  <2>3. CounterAt(iv, cf.blksize, d) = [k \in Block0 |-> CounterAt(iv, cf.blksize, d)[k]]
    BY DEF CounterAt
  <2>4. \A k \in Block0 : c[k] = CounterAt(iv, cf.blksize, d)[k] BY <1>7, <2>1
  <2> HIDE DEF CounterAt
  <2>5. At(c, 0) = CounterAt(iv, cf.blksize, d) BY <1>4, <2>3, <2>4
  <2>6. CounterAt(iv, cf.blksize, d)' = CounterAt(iv, cf.blksize, d) BY <1>3
  <2>7. Enc(At(c, 0)) = Key(a)' BY <1>6, <2>2, <2>5, <2>6
  <2> QED BY <1>1, <2>7, CipherType
<1>8. CASE cf.mode = "gcm"
  <2>1. PICK d : d = (a \div n) + 1 OBVIOUS
  <2>2. Input(a)' = CounterAt(J0, CtrBytes, d)' BY <1>8, <2>1 DEF Input
  <2>3. CounterAt(J0, CtrBytes, d) = [k \in Block0 |-> CounterAt(J0, CtrBytes, d)[k]]
    BY DEF CounterAt
  <2>4. \A k \in Block0 : c[k] = CounterAt(J0, CtrBytes, d)[k] BY <1>8, <2>1
  <2>5. At(c, 0) = CounterAt(J0, CtrBytes, d) BY <1>4, <2>3, <2>4
  <2>6. CounterAt(J0, CtrBytes, d)' = CounterAt(J0, CtrBytes, d) BY <1>3
  <2>7. Enc(At(c, 0)) = Key(a)' BY <1>6, <2>2, <2>5, <2>6
  <2> QED BY <1>1, <2>7, CipherType
<1> QED BY <1>7, <1>8

\* What a turn of CTR or GCM writes, given its counter blocks.
CounterOut(C, u, y, o) ==
  out' = [i \in Idx |->
            IF pos <= i /\ i < pos + Turn
            THEN XorByte(Enc(At(C[((i - pos) \div Align) + u], 0))[(i - pos) % Align],
                         IF src + (i - pos) < end THEN in[src + (i - pos)] ELSE y)
            ELSE o[i]]

\* A turn of CTR or GCM: the whole of the call, as the buffer of a turn is large enough.
LEMMA CounterTurn ==
  ASSUME TInv, Sound, pc = "fast", pos # end, cf.mode \in {"ctr", "gcm"}, NEW e \in Nat, Linked(e),
         NEW u \in {0, 1}, u = IF cf.mode = "gcm" THEN 1 ELSE 0, NEW p, p = Turn \div Align,
         NEW C, C = Counters(reg, p), NEW y,
         cf' = cf, dir' = dir, iv' = iv, ivlen' = ivlen, in' = in, boff' = boff, pc' = pc, end' = end,
         pos' = pos + Turn, reg' = C[p],
         NEW o, Rest(o), CounterOut(C, u, y, o)
  PROVE  Flow'
<1>1. Working /\ HasFast BY DEF Working, TInv, Calls
<1>2. ~IsStream /\ cf.mode \notin {"cbc", "rc4", "cfb", "ofb"} BY DEF IsStream, StreamModes
<1>3. /\ cf \in Configs /\ pos \in Nat /\ end \in Nat /\ unit \in Nat \ {0} /\ MaxLen \in Nat
      /\ end <= MaxLen /\ Align \in Nat \ {0} /\ reg \in Area /\ iv \in Area /\ Data
      /\ ivlen \in IvLens(cf) /\ FastBuf \in Nat
  <2>1. Data BY DEF TInv
  <2> QED BY <1>1, <2>1, Room, Parameters DEF Data
<1>4. unit = Align /\ cf.blksize = Align BY <1>1, <1>2, <1>3, FastModes, Parameters
<1>5. /\ e = pos /\ pos % unit = 0 /\ src = pos /\ end - pos <= FastBuf
      /\ cf.mode = "gcm" => ~Wraps(end - pos)
      /\ RegIs(reg, pos, pos)
  <2>1. /\ pc = "fast" \/ cf.mode = "cbc" \/ (HasFast /\ slow = 0) => e = pos
        /\ pc = "fast" /\ cf.mode \in {"ctr", "gcm"} /\ pos # end =>
             src = pos /\ end - pos <= FastBuf /\ (cf.mode = "gcm" => ~Wraps(end - pos))
        /\ e % unit = 0 /\ RegIs(reg, e, pos)
    BY <1>2, LinkedIs
  <2> HIDE DEF HasFast, Wraps
  <2> QED BY <2>1
<1>6. PICK n \in Nat \ {0}, s \in Nat, m \in Nat :
        /\ n = unit /\ n = cf.blksize /\ n = Align /\ s = pos /\ m = Turn
        /\ s % n = 0 /\ m % n = 0 /\ n <= m /\ s + m = end
  <2>1. Turn \in Nat /\ Turn % Align = 0 /\ Align <= Turn BY <1>2, TurnSize
  <2>2. Turn = end - pos BY <1>1, <1>3, <1>5, Room DEF Turn, Lesser
  <2> QED BY <1>3, <1>4, <1>5, <2>1, <2>2
<1>7. p \in Nat /\ p = m \div n
  <2>1. 0 < m BY <1>6
  <2>2. m \div n \in Nat BY <1>6, <2>1, ChunkOf
  <2> QED BY <1>6, <2>2
<1>8. PICK d \in Nat : d = s \div n
  <2>1. s \div n \in Nat BY <1>6, DivisionExists
  <2> QED BY <2>1
<1>9. C \in [0 .. p -> Area] BY <1>3, <1>7, CountersType
<1>10. ASSUME cf.mode = "ctr"
       PROVE  \A j \in 0 .. p : \A k \in Block0 : C[j][k] = CounterAt(iv, cf.blksize, d + j)[k]
  <2>1. IsCounter(reg, iv, cf.blksize, d) BY <1>5, <1>6, <1>8, <1>10 DEF RegIs, IsCounter
  <2>2. IsBlock(iv)
    <3>1. \A k \in Block0 : k \in Cells BY <1>3, OverIs
    <3> QED BY <1>3, <3>1 DEF Area, IsBlock
  <2>3. cf.blksize # CtrBytes BY <1>3, <1>4, Parameters
  <2> QED BY <1>3, <1>7, <2>1, <2>2, <2>3, CountersAre
<1>11. ASSUME cf.mode = "gcm"
       PROVE  \A j \in 0 .. p : \A k \in Block0 : C[j][k] = CounterAt(J0, CtrBytes, d + j)[k]
  <2>1. IsCounter(reg, J0, CtrBytes, d) BY <1>5, <1>6, <1>8, <1>11 DEF RegIs, IsCounter
  <2>2. J0 \in Blocks BY <1>3, <1>11, J0Is
  <2>3. IsBlock(J0) BY <2>2 DEF Blocks, IsBlock
  <2>4. ~Wraps(m)
    <3>1. end - pos = m BY <1>3, <1>6
    <3> QED BY <1>5, <1>11, <3>1
  <2>5. ~WrapsIn(reg, p) BY <1>6, <1>7, <2>4 DEF Wraps, WrapsIn
  <2> QED BY <1>3, <1>7, <1>11, <2>1, <2>3, <2>5, CountersAre
<1> DEFINE g == [i \in Idx |-> Enc(At(C[((i - s) \div n) + u], 0))[(i - s) % n]]
           K == [t \in Nat |-> Enc(At(C[(t \div n) + u], 0))]
<1>12. out' = [i \in Idx |-> IF pos <= i /\ i < pos + m THEN XorByte(g[i], in[i]) ELSE o[i]]
  <2>1. ASSUME NEW i \in Idx, pos <= i, i < pos + m
        PROVE  (IF src + (i - pos) < end THEN in[src + (i - pos)] ELSE y) = in[i]
    <3>1. i \in Nat BY <1>3 DEF Idx
    <3>2. src + (i - pos) = i /\ i < end BY <1>3, <1>5, <1>6, <2>1, <3>1
    <3> QED BY <3>2
  <2> QED BY <1>6, <2>1 DEF CounterOut
<1>13. \A j \in Nat : j < m => g[s + j] = K[j - (j % n)][j % n]
  <2> SUFFICES ASSUME NEW j \in Nat, j < m PROVE g[s + j] = K[j - (j % n)][j % n] OBVIOUS
  <2>1. PICK t \in Nat, r \in 0 .. n-1 :
          /\ r = j % n /\ j = t + r /\ j - (j % n) = t
          /\ t % n = 0 /\ t \div n = j \div n
          /\ (n <= j => n <= t)
    BY Floor
  <2>2. s + j \in Idx /\ (s + j) - s = j BY <1>3, <1>6 DEF Idx
  <2>3. g[s + j] = Enc(At(C[(j \div n) + u], 0))[j % n] BY <2>2
  <2>4. K[t] = Enc(At(C[(t \div n) + u], 0)) OBVIOUS
  <2> QED BY <2>1, <2>3, <2>4
<1> HIDE DEF g
<1>14. ASSUME NEW t \in Nat, t % n = 0, t < m
       PROVE  K[t] \in Blocks /\ K[t] = Key(s + t)'
  <2>1. PICK q \in 0 .. p-1 : q = t \div n
    <3>1. t \div n \in 0 .. (m \div n) - 1 BY <1>6, <1>14, ChunkOf
    <3> QED BY <1>7, <3>1
  <2>2. PICK a \in Nat : a = s + t OBVIOUS
  <2>3. a \div n = d + q
    <3>1. (s + t) % n = t % n /\ (s + t) \div n = (s \div n) + (t \div n) BY <1>6, Shifted
    <3> QED BY <1>8, <2>1, <2>2, <3>1
  <2>4. PICK j \in 0 .. p : j = q + u BY <1>7, <2>1
  <2>5. PICK c \in Area : c = C[j] BY <1>9
  <2>6. cf.mode = "ctr" => \A k \in Block0 : c[k] = CounterAt(iv, cf.blksize, a \div n)[k]
    <3>1. cf.mode = "ctr" => d + j = a \div n BY <2>3, <2>4
    <3> QED BY <1>10, <2>5, <3>1
  <2>7. cf.mode = "gcm" => \A k \in Block0 : c[k] = CounterAt(J0, CtrBytes, (a \div n) + 1)[k]
    <3>1. cf.mode = "gcm" => d + j = (a \div n) + 1 BY <2>3, <2>4
    <3> QED BY <1>11, <2>5, <3>1
  <2>8. Enc(At(c, 0)) \in Blocks /\ Enc(At(c, 0)) = Key(a)'
    BY <1>3, <1>6, <2>6, <2>7, CounterKey
  <2>9. K[t] = Enc(At(c, 0)) BY <2>1, <2>4, <2>5
  <2> HIDE DEF K
  <2> QED BY <2>2, <2>8, <2>9
<1> HIDE DEF K
<1>15. Kept /\ Sound'
  <2>1. Turned(n, s, m, g, K, o) BY <1>12, <1>13, <1>14 DEF Turned
  <2>2. pos + m <= MaxLen /\ pos' = pos + m BY <1>3, <1>6
  <2> QED BY <1>2, <1>3, <1>6, <2>1, <2>2, TurnWritten
<1>16. PICK f \in Nat : f = s + m /\ f % n = 0 /\ f \div n = d + p
  <2>1. (s + m) % n = m % n /\ (s + m) \div n = (s \div n) + (m \div n) BY <1>6, Shifted
  <2> QED BY <1>6, <1>7, <1>8, <2>1
<1>17. RegIs(reg, f, pos)'
  <2>1. p \in 0 .. p /\ f \div unit = d + p BY <1>6, <1>7, <1>16
  <2>2. cf.mode = "ctr" => \A k \in Block0 : reg'[k] = CounterAt(iv, cf.blksize, f \div unit)[k]
    BY <1>10, <2>1
  <2>3. cf.mode = "gcm" => \A k \in Block0 : reg'[k] = CounterAt(J0, CtrBytes, f \div unit)[k]
    BY <1>11, <2>1
  <2> QED BY <1>2, <1>15, <2>2, <2>3, PartsNext
<1>18. f % unit = 0 /\ pos' = f /\ pos' = end BY <1>3, <1>6, <1>16
<1> QED BY <1>2, <1>15, <1>17, <1>18, TurnFlow

LEMMA CtrEncryptFastFlow ==
  ASSUME TInv, Flow, CtrEncryptFast
  PROVE  Flow'
<1> DEFINE p == Turn \div Align
           C == Counters(reg, p)
<1>1. /\ pc = "fast" /\ pos # end /\ cf.mode = "ctr"
      /\ pc' = pc /\ cf' = cf /\ dir' = dir /\ iv' = iv /\ ivlen' = ivlen /\ in' = in
      /\ boff' = boff /\ end' = end /\ clean' = clean
  BY DEF CtrEncryptFast, msgVars
<1>2. PICK y \in Byte, w \in Beyond(Turn) :
        LET From(i) == IF src + i < end THEN in[src + i] ELSE y IN
        /\ out' = [i \in Idx |-> IF pos <= i /\ i < pos + Turn
                                 THEN XorByte(Enc(At(C[(i - pos) \div Align], 0))[(i - pos) % Align],
                                              From(i - pos))
                                 ELSE Spilled(w)[i]]
        /\ reg' = C[p] /\ pos' = pos + Turn
  BY DEF CtrEncryptFast, Turn
<1>3. CASE clean # 1 BY <1>1, <1>3 DEF Flow
<1>4. CASE clean = 1
  <2>1. PICK e \in Nat : Linked(e) BY <1>1, <1>4 DEF Flow, Moving
  <2>2. Sound BY <1>1, <1>4 DEF Flow
  <2>3. ~IsStream /\ Working BY <1>1 DEF IsStream, StreamModes, Working
  <2>4. Turn \in Nat /\ Turn % Align = 0 /\ Align \in Nat \ {0} /\ pos \in Nat
    BY <1>1, <2>3, TurnSize, Room, SizesAssumption
  <2>5. ASSUME NEW i \in Idx, pos <= i, i < pos + Turn
        PROVE  (i - pos) \div Align = ((i - pos) \div Align) + 0
    <3>1. PICK j \in Nat : j = i - pos BY <2>4, <2>5 DEF Idx
    <3>2. j \div Align \in Nat BY <2>4, DivisionExists
    <3> QED BY <3>1, <3>2
  <2>a. PICK o \in Text : o = Spilled(w) /\ Rest(o) BY <1>1, <2>4, SpilledIs
  <2> HIDE DEF C, p
  <2>6. CounterOut(C, 0, y, o) BY <1>2, <2>5, <2>a DEF CounterOut
  <2>7. C = Counters(reg, p) /\ p = Turn \div Align BY DEF C, p
  <2>8. reg' = C[p] /\ pos' = pos + Turn BY <1>2
  <2> QED BY <1>1, <2>1, <2>2, <2>6, <2>7, <2>8, <2>a, CounterTurn
<1> QED BY <1>3, <1>4

LEMMA GcmFastFlow ==
  ASSUME TInv, Flow, GcmFast
  PROVE  Flow'
<1> DEFINE p == Turn \div Align
           C == Counters(reg, p)
<1>1. /\ pc = "fast" /\ pos # end /\ cf.mode = "gcm"
      /\ pc' = pc /\ cf' = cf /\ dir' = dir /\ iv' = iv /\ ivlen' = ivlen /\ in' = in
      /\ boff' = boff /\ end' = end /\ clean' = clean
  BY DEF GcmFast, msgVars
<1>2. PICK y \in Byte, w \in Beyond(Turn) :
        LET From(i) == IF src + i < end THEN in[src + i] ELSE y
            To(i) == XorByte(Enc(At(C[(i \div Align) + 1], 0))[i % Align], From(i)) IN
        /\ out' = [i \in Idx |-> IF pos <= i /\ i < pos + Turn THEN To(i - pos)
                                 ELSE Spilled(w)[i]]
        /\ reg' = C[p] /\ pos' = pos + Turn
  BY DEF GcmFast, Turn
<1>3. CASE clean # 1 BY <1>1, <1>3 DEF Flow
<1>4. CASE clean = 1
  <2>1. PICK e \in Nat : Linked(e) BY <1>1, <1>4 DEF Flow, Moving
  <2>2. Sound BY <1>1, <1>4 DEF Flow
  <2>a. Turn \in Nat BY <1>1, Room, SizesAssumption DEF Working, Turn, Lesser
  <2>b. PICK o \in Text : o = Spilled(w) /\ Rest(o) BY <1>1, <2>a, SpilledIs
  <2> HIDE DEF C, p
  <2>3. CounterOut(C, 1, y, o) BY <1>2, <2>b DEF CounterOut
  <2>4. C = Counters(reg, p) /\ p = Turn \div Align BY DEF C, p
  <2>5. reg' = C[p] /\ pos' = pos + Turn BY <1>2
  <2> QED BY <1>1, <2>1, <2>2, <2>3, <2>4, <2>5, <2>b, CounterTurn
<1> QED BY <1>3, <1>4

----------------------------------------------------------------------------
(* All steps. *)

LEMMA CloneFlow ==
  ASSUME Clone
  PROVE  Flow'
<1>1. clean' # 1 BY DEF Clone
<1> QED BY <1>1 DEF Flow

LEMMA HeadOutsideFlow ==
  ASSUME HeadOutside
  PROVE  Flow'
<1>1. pc' = "undefined" BY DEF HeadOutside
<1> QED BY <1>1 DEF Flow, Moving

LEMMA FlowStep == TInv /\ Flow /\ [Next]_vars => Flow'
<1> SUFFICES ASSUME TInv, Flow, [Next]_vars PROVE Flow' OBVIOUS
<1>1. CASE UNCHANGED vars BY <1>1, SameFlow
<1>2. ASSUME NEW v \in NewIVs, NEW n \in IvLens(cf), SetIv(v, n) PROVE Flow' BY <1>2, SetIvFlow
<1>3. CASE Reset BY <1>3, ResetFlow
<1>4. CASE Clone BY <1>4, CloneFlow
<1>5. ASSUME NEW n \in 0 .. MaxAad, SetData(n) PROVE Flow' BY <1>5, SetDataFlow
<1>6. ASSUME NEW n \in 0 .. MaxCall, Refuse(n) PROVE Flow' BY <1>6, SameFlow DEF Refuse
<1>7. ASSUME NEW n \in 0 .. MaxCall, NEW f \in {0, 1}, Call(n, f) PROVE Flow' BY <1>7, CallFlow
<1>8. ASSUME NEW n \in 0 .. MaxFast, FastCall(n) PROVE Flow' BY <1>8, FastCallFlow
<1>9. CASE Step
  <2>1. CASE Head BY <2>1, HeadFlow
  <2>2. CASE HeadOutside BY <2>2, HeadOutsideFlow
  <2>3. CASE Block BY <2>3, BlockFlow
  <2>4. CASE Tail BY <2>4, TailFlow
  <2>5. CASE CbcBlock BY <2>5, CbcBlockFlow
  <2>6. CASE Return BY <2>6, ReturnFlow
  <2>7. CASE CfbEncryptFast BY <2>7, CfbEncryptFastFlow
  <2>8. CASE OfbEncryptFast BY <2>8, OfbEncryptFastFlow
  <2>9. CASE CfbDecryptFast BY <2>9, CfbDecryptFastFlow
  <2>10. CASE CtrEncryptFast BY <2>10, CtrEncryptFastFlow
  <2>11. CASE GcmFast BY <2>11, GcmFastFlow
  <2>12. CASE GcmFinal BY <2>12, GcmFinalFlow
  <2>13. CASE StreamHead BY <2>13, StreamHeadFlow
  <2>14. CASE StreamFast BY <2>14, StreamFastFlow
  <2> QED BY <1>9, <2>1, <2>2, <2>3, <2>4, <2>5, <2>6, <2>7, <2>8, <2>9, <2>10, <2>11, <2>12,
             <2>13, <2>14 DEF Step
<1> QED BY <1>1, <1>2, <1>3, <1>4, <1>5, <1>6, <1>7, <1>8, <1>9 DEF Next

----------------------------------------------------------------------------
(* The hash of GCM.  Block i is one of the data of setdata, n bytes of      *)
(* them, or of the ciphertext t, of which there are l bytes so far.         *)

Ciphertext == [i \in Idx |-> Cipher(i)]
HashedBlock(n, t, l, i) ==
  IF i < BlocksOf(n) THEN Padded(AadBytes, n, i * cf.blksize)
  ELSE Padded(t, l, (i - BlocksOf(n)) * cf.blksize)
Accumulated(x, m, n, t, l) ==
  x = hash_blocks(ZeroBlock, m, [i \in 0 .. m-1 |-> HashedBlock(n, t, l, i)])

(* The whole blocks before s are in x, the rest of the ciphertext is in cbuf. *)
Absorbed(s) ==
  /\ s % unit = 0 /\ s <= pos /\ pos < s + unit
  /\ Accumulated(auth.x, BlocksOf(auth.alen) + (s \div unit), auth.alen, Ciphertext, pos)
  /\ \A k \in Block0 : s + k < pos => auth.cbuf[k] = Cipher(s + k)
Authentic ==
  clean = 1 /\ cf.mode = "gcm" /\ Moving =>
    /\ auth.y0 = J0
    /\ auth.clen = IF pc \in {"idle", "final"} THEN pos ELSE end
    /\ \E s \in Nat : Absorbed(s)

\* The blocks that n bytes fill, the last one perhaps in part.
LEMMA BlocksOfIs ==
  ASSUME cf \in Configs, NEW s \in Nat, s % cf.blksize = 0, NEW r \in 0 .. cf.blksize - 1
  PROVE  /\ s \div cf.blksize \in Nat
         /\ BlocksOf(s + r) = (s \div cf.blksize) + (IF r = 0 THEN 0 ELSE 1)
<1>1. PICK n \in Nat \ {0} : n = cf.blksize BY Parameters
<1>2. s % n = 0 /\ r \in 0 .. n-1 BY <1>1
<1>3. BlocksOf(s + r) = (s + r + n - 1) \div n BY <1>1 DEF BlocksOf
<1>4. s \div n \in Nat /\ \A k \in 0 .. n-1 : (s + k) \div n = s \div n BY <1>2, Units
<1>5. CASE r = 0
  <2>1. n - 1 \in 0 .. n-1 /\ s + r + n - 1 = s + (n - 1) BY <1>5
  <2>2. (s + (n - 1)) \div n = s \div n BY <1>4, <2>1
  <2> QED BY <1>1, <1>3, <1>4, <1>5, <2>1, <2>2
<1>6. CASE r # 0
  <2>1. s + n \in Nat /\ (s + n) % n = 0 /\ (s + n) \div n = (s \div n) + 1 BY <1>2, Units
  <2>2. r - 1 \in 0 .. n-1 /\ s + r + n - 1 = (s + n) + (r - 1) BY <1>2, <1>6
  <2>3. \A k \in 0 .. n-1 : ((s + n) + k) \div n = (s + n) \div n BY <2>1, Units
  <2>4. ((s + n) + (r - 1)) \div n = (s + n) \div n BY <2>2, <2>3
  <2> QED BY <1>1, <1>3, <1>4, <1>6, <2>1, <2>2, <2>4
<1> QED BY <1>5, <1>6

\* The number of blocks.
LEMMA BlocksOfType ==
  ASSUME cf \in Configs, NEW n \in Nat
  PROVE  BlocksOf(n) \in Nat
<1>1. PICK b \in Nat \ {0} : b = cf.blksize BY Parameters
<1>2. PICK a \in Nat : a = n + b - 1 BY <1>1
<1>3. a \div b \in Nat BY DivisionExists
<1> QED BY <1>1, <1>2, <1>3 DEF BlocksOf

\* A multiple of a block begins at its number times the size of a block.
LEMMA Beginning ==
  ASSUME NEW n \in Nat \ {0}, NEW s \in Nat, s % n = 0
  PROVE  (s \div n) * n = s
<1>1. PICK q \in Nat, r \in 0 .. n-1 : q = s \div n /\ r = s % n /\ s = n*q + r BY DivisionExists
<1>2. s = n*q BY <1>1
<1>3. n*q = q*n OBVIOUS
<1> QED BY <1>1, <1>2, <1>3

\* What is hashed are blocks.
LEMMA HashedBlockType ==
  ASSUME cf \in Configs, NEW n \in 0 .. MaxAad, NEW t \in Text, NEW l \in 0 .. MaxLen, NEW i \in Nat
  PROVE  HashedBlock(n, t, l, i) \in Blocks
<1>1. MaxAad \in Nat /\ MaxLen \in Nat /\ cf.blksize \in Nat BY Parameters
<1>2. BlocksOf(n) \in Nat BY <1>1, BlocksOfType
<1>3. CASE i < BlocksOf(n)
  <2>1. \A k \in 0 .. n-1 : AadBytes[k] \in Byte BY <1>1, DataAssumption DEF Aad
  <2>2. i * cf.blksize \in Nat BY <1>1
  <2>3. Padded(AadBytes, n, i * cf.blksize) \in Blocks BY <1>1, <2>1, <2>2, PaddedType
  <2> QED BY <1>3, <2>3 DEF HashedBlock
<1>4. CASE ~ (i < BlocksOf(n))
  <2>1. \A k \in 0 .. l-1 : t[k] \in Byte BY <1>1 DEF Text, Idx
  <2>2. PICK j \in Nat : j = i - BlocksOf(n) BY <1>2, <1>4
  <2>3. j * cf.blksize \in Nat BY <1>1
  <2>4. Padded(t, l, j * cf.blksize) \in Blocks BY <1>1, <2>1, <2>3, PaddedType
  <2> QED BY <1>4, <2>2, <2>4 DEF HashedBlock
<1> QED BY <1>3, <1>4

(* The values the hash goes through. *)
Chained(acc, m, n, t, l) ==
  /\ acc[0] = ZeroBlock
  /\ \A i \in 1 .. m : acc[i] = hash(acc[i-1], HashedBlock(n, t, l, i-1))

\* The values exist, and the last of them is the one accumulated.
LEMMA ChainedIs ==
  ASSUME cf \in Configs, cf.mode = "gcm", NEW m \in Nat,
         NEW n \in 0 .. MaxAad, NEW t \in Text, NEW l \in 0 .. MaxLen
  PROVE  /\ \E acc : Chained(acc, m, n, t, l)
         /\ \A acc, x : Chained(acc, m, n, t, l) => (Accumulated(x, m, n, t, l) <=> x = acc[m])
         /\ \A acc : Chained(acc, m, n, t, l) => acc[m] \in Blocks
<1> DEFINE f == [i \in 0 .. m-1 |-> HashedBlock(n, t, l, i)]
           h == Hashing(ZeroBlock, m, f)
<1>1. \A i \in 0 .. m-1 : f[i] \in Blocks /\ f[i] = HashedBlock(n, t, l, i) BY HashedBlockType
<1>2. \A x : Accumulated(x, m, n, t, l) <=> x = hash_blocks(ZeroBlock, m, f) BY DEF Accumulated
<1> HIDE DEF f
<1>3. ZeroBlock \in Blocks BY ZeroType
<1>4. /\ h \in [0 .. m -> Blocks] /\ h[0] = ZeroBlock
      /\ \A i \in 1 .. m : h[i] = hash(h[i-1], f[i-1])
      /\ hash_blocks(ZeroBlock, m, f) = h[m]
  BY <1>1, <1>3, HashingType
<1> HIDE DEF h
<1>5. \A i \in 1 .. m : i-1 \in 0 .. m-1 OBVIOUS
<1>6. \A i \in 1 .. m : h[i] = hash(h[i-1], HashedBlock(n, t, l, i-1)) BY <1>1, <1>4, <1>5
<1>7. Chained(h, m, n, t, l) BY <1>4, <1>6 DEF Chained
<1>8. ASSUME NEW acc, Chained(acc, m, n, t, l) PROVE acc[m] = h[m]
  <2> DEFINE T == {i \in 0 .. m : acc[i] = h[i]}
  <2>1. acc[0] = ZeroBlock /\ \A i \in 1 .. m : acc[i] = hash(acc[i-1], HashedBlock(n, t, l, i-1))
    BY <1>8 DEF Chained
  <2>2. 0 \in T BY <1>4, <2>1
  <2>3. ASSUME NEW i \in 0 .. m-1, i \in T PROVE i+1 \in T
    <3>1. i+1 \in 1 .. m /\ (i+1)-1 = i OBVIOUS
    <3>2. acc[i+1] = hash(acc[i], HashedBlock(n, t, l, i)) /\ h[i+1] = hash(h[i], HashedBlock(n, t, l, i))
      BY <1>6, <2>1, <3>1
    <3> QED BY <2>3, <3>1, <3>2
  <2>4. \A i \in 0 .. m : i \in T
    <3> HIDE DEF T
    <3> QED BY <2>2, <2>3, Inductive
  <2> QED BY <2>4
<1>9. h[m] \in Blocks BY <1>4
<1> QED BY <1>2, <1>4, <1>7, <1>8, <1>9

\* p blocks are hashed.
LEMMA AccumulatedMore ==
  ASSUME cf \in Configs, cf.mode = "gcm", NEW m \in Nat, NEW x, NEW p \in Nat, NEW g,
         NEW n \in 0 .. MaxAad, NEW t \in Text, NEW l \in 0 .. MaxLen, Accumulated(x, m, n, t, l),
         \A j \in 0 .. p-1 : g[j] = HashedBlock(n, t, l, m + j)
  PROVE  Accumulated(hash_blocks(x, p, g), m + p, n, t, l)
<1>1. PICK acc : Chained(acc, m, n, t, l) BY ChainedIs
<1>2. x = acc[m] /\ x \in Blocks BY <1>1, ChainedIs
<1>3. \A j \in 0 .. p-1 : g[j] \in Blocks
  <2> TAKE j \in 0 .. p-1
  <2>1. m + j \in Nat OBVIOUS
  <2> QED BY <2>1, HashedBlockType
<1> DEFINE h == Hashing(x, p, g)
           c == [i \in 0 .. m + p |-> IF i <= m THEN acc[i] ELSE h[i - m]]
<1>4. /\ h[0] = x /\ \A i \in 1 .. p : h[i] = hash(h[i-1], g[i-1])
      /\ hash_blocks(x, p, g) = h[p]
  BY <1>2, <1>3, HashingType
<1> HIDE DEF h
<1>5. acc[0] = ZeroBlock /\ \A i \in 1 .. m : acc[i] = hash(acc[i-1], HashedBlock(n, t, l, i-1))
  BY <1>1 DEF Chained
<1>6. ASSUME NEW i \in 1 .. m + p PROVE c[i] = hash(c[i-1], HashedBlock(n, t, l, i-1))
  <2>1. CASE i <= m
    <3>1. i \in 1 .. m /\ c[i] = acc[i] /\ c[i-1] = acc[i-1] BY <2>1
    <3> QED BY <1>5, <3>1
  <2>2. CASE ~ (i <= m)
    <3>1. PICK j \in 1 .. p : j = i - m /\ m + (j-1) = i-1 /\ (i-1) - m = j-1 /\ j-1 \in 0 .. p-1
      BY <2>2
    <3>2. c[i] = h[j] BY <2>2, <3>1
    <3>3. c[i-1] = h[j-1]
      <4>1. CASE i-1 = m
        <5>1. i-1 \in 0 .. m + p /\ i-1 <= m /\ j-1 = 0 BY <3>1, <4>1
        <5>2. c[i-1] = acc[m] BY <4>1, <5>1
        <5> QED BY <1>2, <1>4, <5>1, <5>2
      <4>2. CASE i-1 # m BY <2>2, <3>1, <4>2
      <4> QED BY <4>1, <4>2
    <3>4. g[j-1] = HashedBlock(n, t, l, i-1) BY <3>1
    <3> QED BY <1>4, <3>1, <3>2, <3>3, <3>4
  <2> QED BY <2>1, <2>2
<1>7. c[0] = ZeroBlock BY <1>5
<1>8. c[m + p] = h[p]
  <2>1. CASE p = 0 BY <1>2, <1>4, <2>1
  <2>2. CASE p # 0 BY <2>2
  <2> QED BY <2>1, <2>2
<1> HIDE DEF c
<1>9. Chained(c, m + p, n, t, l) BY <1>6, <1>7 DEF Chained
<1>10. m + p \in Nat OBVIOUS
<1> QED BY <1>4, <1>8, <1>9, <1>10, ChainedIs

\* One block is hashed.
LEMMA OneHashed ==
  ASSUME cf \in Configs, cf.mode = "gcm", NEW x \in Blocks, NEW g, g[0] \in Blocks
  PROVE  hash_blocks(x, 1, g) = hash(x, g[0])
<1>1. \A i \in 0 .. 1-1 : g[i] \in Blocks OBVIOUS
<1>2. /\ Hashing(x, 1, g)[0] = x
      /\ \A i \in 1 .. 1 : Hashing(x, 1, g)[i] = hash(Hashing(x, 1, g)[i-1], g[i-1])
      /\ hash_blocks(x, 1, g) = Hashing(x, 1, g)[1]
  BY <1>1, HashingType
<1>3. 1 \in 1 .. 1 /\ 1-1 = 0 OBVIOUS
<1>4. Hashing(x, 1, g)[1] = hash(Hashing(x, 1, g)[0], g[0]) BY <1>2, <1>3
<1> QED BY <1>2, <1>4

\* The block behind them is hashed.
LEMMA AccumulatedNext ==
  ASSUME cf \in Configs, cf.mode = "gcm", NEW m \in Nat, NEW x,
         NEW n \in 0 .. MaxAad, NEW t \in Text, NEW l \in 0 .. MaxLen, Accumulated(x, m, n, t, l)
  PROVE  /\ x \in Blocks
         /\ Accumulated(hash(x, HashedBlock(n, t, l, m)), m + 1, n, t, l)
<1> DEFINE g == [j \in 0 .. 0 |-> HashedBlock(n, t, l, m)]
<1>1. HashedBlock(n, t, l, m) \in Blocks BY HashedBlockType
<1>2. x \in Blocks BY ChainedIs
<1>3. \A j \in 0 .. 1-1 : g[j] = HashedBlock(n, t, l, m + j) /\ g[j] \in Blocks BY <1>1
<1>4. g[0] = HashedBlock(n, t, l, m) OBVIOUS
<1> HIDE DEF g
<1>5. hash_blocks(x, 1, g) = hash(x, g[0]) BY <1>1, <1>2, <1>4, OneHashed
<1>6. Accumulated(hash_blocks(x, 1, g), m + 1, n, t, l) BY <1>3, AccumulatedMore
<1> QED BY <1>2, <1>4, <1>5, <1>6

\* Block m of the hash, where whole blocks of ciphertext end at s, and the one j behind it.
LEMMA TextBlock ==
  ASSUME cf \in Configs, NEW n \in 0 .. MaxAad, NEW t, NEW l, NEW s \in Nat, s % cf.blksize = 0,
         NEW j \in Nat
  PROVE  /\ BlocksOf(n) + (s \div cf.blksize) \in Nat
         /\ HashedBlock(n, t, l, BlocksOf(n) + (s \div cf.blksize) + j) = Padded(t, l, s + j * cf.blksize)
<1>1. PICK b \in Nat \ {0} : b = cf.blksize BY Parameters
<1>2. PICK a \in Nat : a = BlocksOf(n) BY BlocksOfType, SizesAssumption
<1>3. PICK q \in Nat : q = s \div b /\ q * b = s
  <2>1. s \div b \in Nat BY DivisionExists
  <2> QED BY <1>1, <2>1, Beginning
<1>4. a + q + j \in Nat /\ ~ (a + q + j < a) /\ (a + q + j) - a = q + j OBVIOUS
<1>5. (q + j) * b = q * b + j * b OBVIOUS
<1>6. (q + j) * b = s + j * b BY <1>3, <1>5
<1>7. HashedBlock(n, t, l, a + q + j) = Padded(t, l, (q + j) * b) BY <1>1, <1>2, <1>4 DEF HashedBlock
<1> QED BY <1>1, <1>2, <1>3, <1>6, <1>7

\* What is hashed does not depend on what is behind the whole blocks.
LEMMA AccumulatedSame ==
  ASSUME cf \in Configs, NEW s \in Nat, s % cf.blksize = 0, NEW x,
         NEW n \in 0 .. MaxAad, NEW t, NEW u, NEW l \in Nat, NEW h \in Nat, s <= l, s <= h,
         \A i \in Nat : i < s => t[i] = u[i],
         Accumulated(x, BlocksOf(n) + (s \div cf.blksize), n, t, l)
  PROVE  Accumulated(x, BlocksOf(n) + (s \div cf.blksize), n, u, h)
<1>1. PICK b \in Nat \ {0} : b = cf.blksize BY Parameters
<1>2. PICK a \in Nat : a = BlocksOf(n) BY BlocksOfType, SizesAssumption
<1>3. PICK q \in Nat : q = s \div b /\ q * b = s
  <2>1. s \div b \in Nat BY DivisionExists
  <2> QED BY <1>1, <2>1, Beginning
<1>4. ASSUME NEW i \in 0 .. (a + q) - 1 PROVE HashedBlock(n, t, l, i) = HashedBlock(n, u, h, i)
  <2>1. CASE i < a BY <1>2, <2>1 DEF HashedBlock
  <2>2. CASE ~ (i < a)
    <3>1. PICK j \in Nat : j = i - a /\ j + 1 <= q BY <2>2
    <3>2. PICK o \in Nat : o = j * b OBVIOUS
    <3>3. o + b <= s
      <4>1. b*(j + 1) <= b*q /\ b*(j + 1) = b*j + b BY <3>1, TimesMonotonic
      <4>2. b*q = q*b /\ b*j = j*b OBVIOUS
      <4> QED BY <1>3, <3>2, <4>1, <4>2
    <3>4. \A k \in Block0 : o + k \in Nat /\ o + k < s BY <1>1, <3>3 DEF Block0
    <3>5. Padded(t, l, o) = Padded(u, h, o) BY <3>4 DEF Padded
    <3> QED BY <1>1, <1>2, <2>2, <3>1, <3>2, <3>5 DEF HashedBlock
  <2> QED BY <2>1, <2>2
<1>5. [i \in 0 .. (a + q) - 1 |-> HashedBlock(n, t, l, i)] = [i \in 0 .. (a + q) - 1 |-> HashedBlock(n, u, h, i)]
  BY <1>4
<1> QED BY <1>1, <1>2, <1>3, <1>5 DEF Accumulated

\* These depend on the context's configuration only.
LEMMA AccumulatedKept ==
  ASSUME cf' = cf, NEW x, NEW m, NEW n, NEW t, NEW l
  PROVE  (Accumulated(x, m, n, t, l)' <=> Accumulated(x, m, n, t, l)) /\ BlocksOf(n)' = BlocksOf(n)
<1>1. Block0' = Block0 /\ BlocksOf(n)' = BlocksOf(n) BY DEF Block0, BlocksOf
<1>2. ZeroBlock' = ZeroBlock BY <1>1 DEF ZeroBlock
<1>3. H' = H BY <1>2 DEF H
<1>4. ASSUME NEW z, NEW f PROVE hash_blocks(z, m, f)' = hash_blocks(z, m, f)
  BY <1>1, <1>3 DEF hash_blocks, hash, XorBlock
<1>5. ASSUME NEW v, NEW k, NEW o PROVE Padded(v, k, o)' = Padded(v, k, o) BY <1>1 DEF Padded
<1>6. ASSUME NEW i PROVE HashedBlock(n, t, l, i)' = HashedBlock(n, t, l, i)
  <2>1. PICK o : o = i * cf.blksize OBVIOUS
  <2>2. PICK w : w = (i - BlocksOf(n)) * cf.blksize OBVIOUS
  <2>3. Padded(AadBytes, n, o)' = Padded(AadBytes, n, o) /\ Padded(t, l, w)' = Padded(t, l, w) BY <1>5
  <2>4. HashedBlock(n, t, l, i) = IF i < BlocksOf(n) THEN Padded(AadBytes, n, o) ELSE Padded(t, l, w)
    BY <2>1, <2>2 DEF HashedBlock
  <2>5. HashedBlock(n, t, l, i)' =
          IF i < BlocksOf(n) THEN Padded(AadBytes, n, o)' ELSE Padded(t, l, w)'
    BY <1>1, <2>1, <2>2 DEF HashedBlock
  <2> QED BY <2>3, <2>4, <2>5
<1>7. PICK f : f = [i \in 0 .. m-1 |-> HashedBlock(n, t, l, i)] OBVIOUS
<1>8. f = [i \in 0 .. m-1 |-> HashedBlock(n, t, l, i)'] BY <1>6, <1>7
<1>9. PICK z : z = ZeroBlock OBVIOUS
<1>10. Accumulated(x, m, n, t, l) <=> x = hash_blocks(z, m, f) BY <1>7, <1>9 DEF Accumulated
<1>11. Accumulated(x, m, n, t, l)' <=> x = hash_blocks(z, m, f)' BY <1>2, <1>8, <1>9 DEF Accumulated
<1> QED BY <1>1, <1>4, <1>10, <1>11

\* The ciphertext so far.
LEMMA CiphertextIs ==
  Data => /\ Ciphertext \in Text
          /\ \A i \in Nat : i < MaxLen => i \in Idx /\ Ciphertext[i] = Cipher(i)
<1> SUFFICES ASSUME Data PROVE /\ Ciphertext \in Text
                               /\ \A i \in Nat : i < MaxLen => i \in Idx /\ Ciphertext[i] = Cipher(i)
  OBVIOUS
<1>1. in \in Text /\ out \in Text /\ MaxLen \in Nat BY SizesAssumption DEF Data
<1>2. \A i \in Idx : Cipher(i) \in Byte BY <1>1 DEF Cipher, Text
<1>3. \A i \in Nat : i < MaxLen => i \in Idx BY <1>1 DEF Idx
<1> QED BY <1>2, <1>3 DEF Ciphertext, Text

\* The invariant after a step that absorbs the ciphertext up to s.
LEMMA AuthenticNext ==
  ASSUME cf' = cf, J0' = J0, NEW s \in Nat, s % unit = 0, s <= pos', pos' < s + unit,
         NEW n, n = auth'.alen, NEW t, t = Ciphertext',
         Accumulated(auth'.x, BlocksOf(n) + (s \div unit), n, t, pos'),
         \A k \in Block0 : s + k < pos' => auth'.cbuf[k] = Cipher(s + k)',
         auth'.y0 = J0, auth'.clen = IF pc' \in {"idle", "final"} THEN pos' ELSE end'
  PROVE  Authentic'
<1>1. unit' = unit /\ Block0' = Block0 BY SameConfig
<1>2. PICK x, m, l : x = auth'.x /\ m = BlocksOf(n) + (s \div unit) /\ l = pos' OBVIOUS
<1>3. Accumulated(x, m, n, t, l)' BY <1>2, AccumulatedKept
<1>4. BlocksOf(n)' = BlocksOf(n) BY AccumulatedKept
<1>5. BlocksOf(auth.alen)' = BlocksOf(n)' BY DEF BlocksOf
<1>6. Accumulated(auth.x, BlocksOf(auth.alen) + (s \div unit), auth.alen, Ciphertext, pos)'
  <2>1. (BlocksOf(auth.alen) + (s \div unit))' = m BY <1>1, <1>2, <1>4, <1>5
  <2> QED BY <1>2, <1>3, <2>1
<1>7. Absorbed(s)' BY <1>1, <1>6 DEF Absorbed
<1> QED BY <1>7 DEF Authentic

\* What the invariant says of a context of GCM.
LEMMA AuthenticIs ==
  ASSUME TInv, Authentic, clean = 1, cf.mode = "gcm", Moving
  PROVE  /\ cf \in Configs /\ Data /\ auth \in AuthRecord /\ unit = cf.blksize /\ unit \in Nat \ {0}
         /\ pos \in Nat /\ pos <= MaxLen /\ MaxLen \in Nat /\ end \in Nat
         /\ auth.y0 = J0 /\ auth.clen = IF pc \in {"idle", "final"} THEN pos ELSE end
         /\ \E s \in Nat : Absorbed(s)
<1>1. Data /\ cf \in Configs /\ auth \in AuthRecord BY DEF TInv, Data, AuthIn
<1>2. pos \in 0 .. MaxLen /\ end \in 0 .. MaxLen BY DEF TInv, Positions
<1> QED BY <1>1, <1>2, Parameters DEF Authentic

\* A step that only moves the call on.
LEMMA QuietAuthentic ==
  ASSUME TInv, Data', Authentic, clean = 1, cf.mode = "gcm", Moving,
         cf' = cf, dir' = dir, iv' = iv, ivlen' = ivlen, in' = in, out' = out, pos' = pos,
         auth'.x = auth.x, auth'.cbuf = auth.cbuf, auth'.alen = auth.alen, auth'.y0 = auth.y0,
         auth'.clen = IF pc' \in {"idle", "final"} THEN pos' ELSE end'
  PROVE  Authentic'
<1>1. PICK s \in Nat : Absorbed(s) BY AuthenticIs
<1>2. J0' = J0 BY CountersSame
<1>3. auth.y0 = J0 BY AuthenticIs
<1>4. Ciphertext' = Ciphertext /\ \A i : Cipher(i)' = Cipher(i) BY DEF Ciphertext, Cipher
<1>5. /\ s % unit = 0 /\ s <= pos /\ pos < s + unit
      /\ Accumulated(auth.x, BlocksOf(auth.alen) + (s \div unit), auth.alen, Ciphertext, pos)
      /\ \A k \in Block0 : s + k < pos => auth.cbuf[k] = Cipher(s + k)
  BY <1>1 DEF Absorbed
<1>6. PICK n, t : n = auth'.alen /\ t = Ciphertext' OBVIOUS
<1>7. Accumulated(auth'.x, BlocksOf(n) + (s \div unit), n, t, pos') BY <1>4, <1>5, <1>6
<1>8. \A k \in Block0 : s + k < pos' => auth'.cbuf[k] = Cipher(s + k)'
  <2> TAKE k \in Block0
  <2>1. PICK i : i = s + k OBVIOUS
  <2>2. Cipher(i)' = Cipher(i) BY <1>4
  <2> QED BY <1>5, <2>1, <2>2
<1> QED BY <1>2, <1>3, <1>5, <1>6, <1>7, <1>8, AuthenticNext

\* A piece of m bytes, from offset o of the block that begins at s.
LEMMA PieceAuthentic ==
  ASSUME TInv, Data', clean = 1, cf.mode = "gcm", Working, Authentic, NEW s \in Nat, Absorbed(s),
         NEW m \in Nat, NEW b, NEW r, NEW o \in Nat, o = pos - s, o + m <= unit, pos + m <= end,
         Consume(m, b, o, r), cf' = cf, dir' = dir, iv' = iv, ivlen' = ivlen, in' = in,
         IF pc' \in {"idle", "final"} THEN pos + m = end ELSE end' = end
  PROVE  Authentic'
<1> DEFINE new == [i \in Idx |-> IF pos <= i /\ i < pos + m THEN XorByte(b[o + i - pos], in[i])
                                 ELSE out[i]]
           f == IF dir = "enc" THEN new ELSE in
           c == [k \in Block0 |-> IF o <= k /\ k < o + m THEN f[pos + k - o] ELSE auth.cbuf[k]]
<1>1. out' = new /\ pos' = pos + m /\ auth' = Absorb(m, o, f) BY DEF Consume
<1>2. auth' = [auth EXCEPT !.cbuf = IF m = unit THEN @ ELSE c,
                           !.x = IF o + m = unit THEN hash(@, c) ELSE @]
  BY <1>1 DEF Absorb
<1>3. \A i : Cipher(i)' = f[i] BY <1>1 DEF Cipher
<1>4. Moving BY DEF Moving, Working
<1>6. /\ cf \in Configs /\ Data /\ auth \in AuthRecord /\ unit = cf.blksize /\ unit \in Nat \ {0}
      /\ pos \in Nat /\ pos <= MaxLen /\ MaxLen \in Nat /\ end \in Nat /\ auth.y0 = J0
  BY <1>4, AuthenticIs
<1>5. \A i \in Idx : i < pos => new[i] = out[i] BY <1>6 DEF Idx
<1>7. end <= MaxLen BY Room
<1>8. \A k \in Block0 : k \in Nat /\ k < unit BY <1>6 DEF Block0
<1> HIDE DEF new, f
<1>9. Kept BY <1>1, <1>5 DEF Kept
<1>10. /\ s % unit = 0 /\ s <= pos /\ pos < s + unit
       /\ Accumulated(auth.x, BlocksOf(auth.alen) + (s \div unit), auth.alen, Ciphertext, pos)
       /\ \A k \in Block0 : s + k < pos => auth.cbuf[k] = Cipher(s + k)
  BY DEF Absorbed
<1>11. s + o = pos BY <1>6
<1>12. \A k \in Block0 : s + k < pos + m => c[k] = Cipher(s + k)'
  <2> TAKE k \in Block0
  <2> HAVE s + k < pos + m
  <2>1. CASE o <= k
    <3>1. k < o + m /\ pos + k - o = s + k BY <1>6, <1>8, <1>11, <2>1
    <3>2. c[k] = f[s + k] BY <2>1, <3>1
    <3>3. PICK i : i = s + k OBVIOUS
    <3> QED BY <1>3, <3>2, <3>3
  <2>2. CASE ~ (o <= k)
    <3>1. PICK i \in Nat : i = s + k /\ i < pos BY <1>6, <1>8, <1>11, <2>2
    <3>2. c[k] = auth.cbuf[k] BY <2>2
    <3>3. auth.cbuf[k] = Cipher(i) BY <1>10, <3>1
    <3>4. pos \in 0 .. MaxLen BY <1>6
    <3>5. Cipher(i)' = Cipher(i) BY <1>6, <1>9, <3>1, <3>4, TextKept
    <3> QED BY <3>1, <3>2, <3>3, <3>5
  <2> QED BY <2>1, <2>2
<1> HIDE DEF c
<1>a. auth'.clen = IF pc' \in {"idle", "final"} THEN pos' ELSE end'
  <2>1. auth.clen = end BY <1>4, AuthenticIs DEF Working
  <2>2. auth'.clen = auth.clen BY <1>2, <1>6 DEF AuthRecord
  <2> QED BY <1>1, <2>1, <2>2
<1>13. PICK n, t : n = auth.alen /\ t = Ciphertext' OBVIOUS
<1>14. n \in 0 .. MaxAad /\ auth'.alen = n /\ auth'.y0 = J0 BY <1>2, <1>6, <1>13 DEF AuthRecord
<1>15. t \in Text /\ \A i \in Nat : i < MaxLen => i \in Idx /\ t[i] = Cipher(i)'
  <2>1. (/\ Ciphertext \in Text
         /\ \A i \in Nat : i < MaxLen => i \in Idx /\ Ciphertext[i] = Cipher(i))'
    BY CiphertextIs, PTL
  <2>2. Text' = Text /\ Idx' = Idx BY DEF Text
  <2> QED BY <1>13, <2>1, <2>2
<1>16. Ciphertext \in Text /\ \A i \in Nat : i < MaxLen => i \in Idx /\ Ciphertext[i] = Cipher(i)
  BY <1>6, CiphertextIs
<1>17. PICK x : x = auth.x OBVIOUS
<1>18. Accumulated(x, BlocksOf(n) + (s \div unit), n, t, pos + m)
  <2>1. ASSUME NEW i \in Nat, i < s PROVE Ciphertext[i] = t[i]
    <3>1. i < pos /\ i < MaxLen /\ pos \in 0 .. MaxLen BY <1>6, <1>10, <2>1
    <3>2. Cipher(i)' = Cipher(i) BY <1>6, <1>9, <3>1, TextKept
    <3> QED BY <1>15, <1>16, <3>1, <3>2
  <2>2. Accumulated(x, BlocksOf(n) + (s \div cf.blksize), n, Ciphertext, pos)
    BY <1>6, <1>10, <1>13, <1>17
  <2>3. s % cf.blksize = 0 /\ pos + m \in Nat /\ s <= pos + m BY <1>6, <1>10
  <2>4. Accumulated(x, BlocksOf(n) + (s \div cf.blksize), n, t, pos + m)
    BY <1>6, <1>10, <1>14, <2>1, <2>2, <2>3, AccumulatedSame
  <2> QED BY <1>6, <2>4
<1>19. J0' = J0 BY CountersSame
<1>20. CASE o + m = unit
  <2>1. PICK e \in Nat : e = s + unit /\ e = pos + m BY <1>6, <1>11, <1>20
  <2>2. e % unit = 0 /\ e \div unit = (s \div unit) + 1
    <3>1. PICK u \in Nat \ {0} : u = unit BY <1>6
    <3>2. s % u = 0 BY <1>10, <3>1
    <3>3. (s + u) % u = 0 /\ (s + u) \div u = (s \div u) + 1 BY <3>2, Units
    <3> QED BY <2>1, <3>1, <3>3
  <2>3. auth'.x = hash(x, c) BY <1>2, <1>6, <1>17, <1>20 DEF AuthRecord
  <2>4. PICK q \in Nat : q = BlocksOf(n) + (s \div cf.blksize) BY <1>6, <1>10, <1>14, TextBlock
  <2>5. HashedBlock(n, t, pos + m, q) = c
    <3>1. PICK l \in 0 .. MaxLen : l = pos + m BY <1>6, <1>7
    <3>2. HashedBlock(n, t, l, q + 0) = Padded(t, l, s + 0 * cf.blksize)
      <4>1. PICK j \in Nat : j = 0 OBVIOUS
      <4>2. s % cf.blksize = 0 BY <1>6, <1>10
      <4>3. HashedBlock(n, t, l, BlocksOf(n) + (s \div cf.blksize) + j) = Padded(t, l, s + j * cf.blksize)
        BY <1>6, <1>14, <4>2, TextBlock
      <4> QED BY <2>4, <4>1, <4>3
    <3>3. q + 0 = q /\ s + 0 * cf.blksize = s BY <1>6, <2>4
    <3>4. Padded(t, l, s) = [k \in Block0 |-> IF s + k < l THEN t[s + k] ELSE 0] BY DEF Padded
    <3>5. ASSUME NEW k \in Block0 PROVE s + k < l /\ t[s + k] = c[k]
      <4>1. PICK i \in Nat : i = s + k /\ i < l /\ i < MaxLen BY <1>6, <1>8, <2>1, <3>1
      <4>2. t[i] = Cipher(i)' BY <1>15, <4>1
      <4> QED BY <1>12, <3>1, <4>1, <4>2
    <3>6. c = [k \in Block0 |-> c[k]] BY DEF c
    <3>7. [k \in Block0 |-> IF s + k < l THEN t[s + k] ELSE 0] = [k \in Block0 |-> c[k]] BY <3>5
    <3> QED BY <3>1, <3>2, <3>3, <3>4, <3>6, <3>7
  <2>6. Accumulated(hash(x, c), q + 1, n, t, pos + m)
    <3>1. PICK l \in 0 .. MaxLen : l = pos + m BY <1>6, <1>7
    <3>2. Accumulated(x, q, n, t, l) BY <1>6, <1>18, <2>4, <3>1
    <3>3. Accumulated(hash(x, HashedBlock(n, t, l, q)), q + 1, n, t, l)
      BY <1>6, <1>14, <1>15, <3>2, AccumulatedNext
    <3> QED BY <2>5, <3>1, <3>3
  <2>7. q + 1 = BlocksOf(n) + (e \div unit)
    <3>1. s \div unit \in Nat
      <4>1. PICK u \in Nat \ {0} : u = unit BY <1>6
      <4>2. s \div u \in Nat BY DivisionExists
      <4> QED BY <4>1, <4>2
    <3>2. BlocksOf(n) \in Nat BY <1>6, <1>14, SizesAssumption, BlocksOfType
    <3> QED BY <1>6, <2>2, <2>4, <3>1, <3>2
  <2>8. Accumulated(auth'.x, BlocksOf(n) + (e \div unit), n, t, pos') BY <1>1, <2>3, <2>6, <2>7
  <2>9. \A k \in Block0 : ~ (e + k < pos') BY <1>1, <1>6, <1>8, <2>1
  <2>10. e <= pos' /\ pos' < e + unit BY <1>1, <1>6, <2>1
  <2> QED BY <1>a, <1>13, <1>14, <1>19, <2>2, <2>8, <2>9, <2>10, AuthenticNext
<1>21. CASE o + m # unit
  <2>1. m # unit /\ s <= pos' /\ pos' < s + unit
    <3>1. PICK u \in Nat, p \in Nat : u = unit /\ p = pos BY <1>6
    <3>2. s + o = p /\ o + m <= u /\ o + m # u BY <1>11, <1>21, <3>1
    <3>3. s <= p + m /\ p + m < s + u BY <3>2
    <3>4. s <= p BY <3>2
    <3>5. CASE m # u BY <1>1, <3>1, <3>3, <3>5
    <3>6. CASE m = u
      <4>1. o = 0 BY <3>1, <3>2, <3>6
      <4> QED BY <3>2, <3>6, <4>1
    <3> QED BY <3>5, <3>6
  <2>2. auth'.x = x /\ auth'.cbuf = c BY <1>2, <1>6, <1>17, <1>21, <2>1 DEF AuthRecord
  <2>3. Accumulated(auth'.x, BlocksOf(n) + (s \div unit), n, t, pos') BY <1>1, <1>18, <2>2
  <2>4. \A k \in Block0 : s + k < pos' => auth'.cbuf[k] = Cipher(s + k)' BY <1>1, <1>12, <2>2
  <2> QED BY <1>a, <1>10, <1>13, <1>14, <1>19, <2>1, <2>3, <2>4, AuthenticNext
<1> QED BY <1>20, <1>21

\* boff is how much of the last block there is.
LEMMA OffsetIs ==
  ASSUME TInv, Flow, clean = 1, cf.mode = "gcm", Moving, NEW s \in Nat, Absorbed(s)
  PROVE  /\ boff = pos - s /\ pos - s \in Nat
         /\ (pc = "body" /\ pos # end) \/ pc = "fast" \/ (pc = "idle" /\ slow = 0) => s = pos
<1>1. PICK f \in Nat : Linked(f) BY DEF Flow
<1>2. cf.mode # "rc4" /\ ~IsStream BY DEF IsStream, StreamModes
<1>3. cf \in Configs /\ pos \in Nat BY SizesAssumption DEF TInv, Data, Positions
<1>4. HasFast BY <1>2, <1>3, Parameters DEF HasFast
<1>5. /\ f % unit = 0 /\ pos <= f /\ f < pos + unit
      /\ boff = IF f = pos THEN 0 ELSE pos + unit - f
      /\ pc = "body" => pos = end \/ f = pos
      /\ pc = "fast" \/ (HasFast /\ slow = 0) => f = pos
  BY <1>1, <1>2, LinkedIs
<1>6. PICK n \in Nat \ {0} : n = unit BY <1>3, Parameters
<1>7. pos % n = IF f = pos THEN 0 ELSE pos + n - f BY <1>3, <1>5, <1>6, PlaceInUnit
<1>8. s % n = 0 /\ s <= pos /\ pos < s + n BY <1>6 DEF Absorbed
<1>9. PICK k \in 0 .. n-1 : k = pos - s /\ s + k = pos BY <1>3, <1>8
<1>10. pos % n = k
  <2>a. s % n = 0 BY <1>8
  <2>1. \A j \in 0 .. n-1 : (s + j) % n = j /\ (s + j) \div n = s \div n BY <2>a, Units
  <2>2. (s + k) % n = k BY <2>1
  <2> QED BY <1>9, <2>2
<1>11. boff = k BY <1>5, <1>6, <1>7, <1>10
<1>12. f = pos => s = pos BY <1>3, <1>7, <1>9, <1>10
<1> HIDE DEF HasFast
<1> QED BY <1>4, <1>5, <1>9, <1>11, <1>12

\* The pieces of a plain call: what is left of a block, whole blocks, and the rest.
LEMMA HeadAuthentic ==
  ASSUME TInv, Data', Flow, Authentic, clean = 1, cf.mode = "gcm", Head
  PROVE  Authentic'
<1> DEFINE b == Lesser(unit - boff, end - pos)
<1>1. /\ pc = "head" /\ boff > 0 /\ Consume(b, buf, boff, reg)
      /\ pc' = "body" /\ cf' = cf /\ dir' = dir /\ iv' = iv /\ ivlen' = ivlen /\ in' = in
      /\ end' = end
  BY DEF Head, msgVars, callVars
<1>2. Working /\ Moving BY <1>1 DEF Working, Moving
<1>3. PICK s \in Nat : Absorbed(s) BY <1>2, AuthenticIs
<1>4. boff = pos - s /\ boff \in Nat BY <1>2, <1>3, OffsetIs
<1>5. /\ pos \in Nat /\ end \in Nat /\ pos <= end /\ unit \in Nat \ {0} BY <1>2, Room
<1>6. boff < unit
  <2>1. cf \in Configs BY DEF TInv, Data
  <2>2. cf.blksize \in Nat BY <2>1, Parameters
  <2>3. boff \in -cf.blksize .. unit - 1 BY DEF TInv, Positions
  <2> QED BY <1>5, <2>2, <2>3
<1>7. b \in Nat /\ b <= unit - boff /\ b <= end - pos BY <1>4, <1>5, <1>6, LesserIs
<1> HIDE DEF b
<1>8. boff + b <= unit /\ pos + b <= end BY <1>4, <1>5, <1>6, <1>7
<1> QED BY <1>1, <1>2, <1>3, <1>4, <1>7, <1>8, PieceAuthentic

LEMMA BlockAuthentic ==
  ASSUME TInv, Data', Flow, Authentic, clean = 1, cf.mode = "gcm", Block
  PROVE  Authentic'
<1>1. /\ pc = "body" /\ end - pos >= unit
      /\ Consume(unit, NextUnit.key, 0, NextUnit.reg)
      /\ pc' = pc /\ cf' = cf /\ dir' = dir /\ iv' = iv /\ ivlen' = ivlen /\ in' = in
      /\ end' = end
  BY DEF Block, msgVars, callVars
<1>2. Working /\ Moving BY <1>1 DEF Working, Moving
<1>3. PICK s \in Nat : Absorbed(s) BY <1>2, AuthenticIs
<1>4. pos \in Nat /\ end \in Nat /\ pos <= end /\ unit \in Nat \ {0} BY <1>2, Room
<1>5. pos # end BY <1>1, <1>4
<1>6. s = pos BY <1>1, <1>2, <1>3, <1>5, OffsetIs
<1>7. 0 = pos - s /\ 0 + unit <= unit /\ pos + unit <= end BY <1>1, <1>4, <1>6
<1>8. PICK b, r : b = NextUnit.key /\ r = NextUnit.reg OBVIOUS
<1>a. PICK m \in Nat, o \in Nat : m = unit /\ o = 0 BY <1>4
<1>9. Consume(m, b, o, r) BY <1>1, <1>8, <1>a
<1> QED BY <1>1, <1>2, <1>3, <1>7, <1>a, <1>9, PieceAuthentic

LEMMA TailAuthentic ==
  ASSUME TInv, Data', Flow, Authentic, clean = 1, cf.mode = "gcm", Tail
  PROVE  Authentic'
<1>1. /\ pc = "body" /\ end - pos < unit /\ end # pos
      /\ Consume(end - pos, NextUnit.key, 0, NextUnit.reg)
      /\ pc' \in {"idle", "final"} /\ cf' = cf /\ dir' = dir /\ iv' = iv /\ ivlen' = ivlen /\ in' = in
  BY DEF Tail, Done, msgVars
<1>2. Working /\ Moving BY <1>1 DEF Working, Moving
<1>3. PICK s \in Nat : Absorbed(s) BY <1>2, AuthenticIs
<1>4. pos \in Nat /\ end \in Nat /\ pos <= end /\ unit \in Nat \ {0} BY <1>2, Room
<1>5. s = pos BY <1>1, <1>2, <1>3, OffsetIs
<1>6. PICK b, r : b = NextUnit.key /\ r = NextUnit.reg OBVIOUS
<1>a. PICK m \in Nat, o \in Nat : m = end - pos /\ o = 0 BY <1>4
<1>7. o = pos - s /\ o + m <= unit /\ pos + m <= end /\ pos + m = end BY <1>1, <1>4, <1>5, <1>a
<1>8. Consume(m, b, o, r) BY <1>1, <1>6, <1>a
<1> QED BY <1>1, <1>2, <1>3, <1>7, <1>8, PieceAuthentic

\* A call that ends where a block does.
LEMMA ReturnAuthentic ==
  ASSUME TInv, Data', Authentic, clean = 1, cf.mode = "gcm", Return
  PROVE  Authentic'
<1>1. /\ pc \in {"body", "cbc", "fast"} /\ pos = end /\ pc' \in {"idle", "final"}
      /\ cf' = cf /\ dir' = dir /\ iv' = iv /\ ivlen' = ivlen /\ in' = in /\ out' = out
      /\ pos' = pos /\ auth' = auth
  BY DEF Return, Done, msgVars, ctxVars, streamVars
<1>2. Moving BY <1>1 DEF Moving
<1>3. auth.clen = end BY <1>1, <1>2, AuthenticIs
<1> QED BY <1>1, <1>2, <1>3, QuietAuthentic

\* Calls of n bytes, plain and fast.
LEMMA CallAuthentic ==
  ASSUME TInv, Data', Authentic, clean = 1, cf.mode = "gcm", NEW n \in Nat, pc = "idle", auth' = Counted(n),
         end' = pos + n, pc' \in {"head", "body", "cbc", "fast"}, cf' = cf, dir' = dir, iv' = iv,
         ivlen' = ivlen, in' = in, out' = out, pos' = pos
  PROVE  Authentic'
<1>1. Moving BY DEF Moving
<1>2. auth \in AuthRecord /\ auth.clen = pos BY <1>1, AuthenticIs
<1>3. auth' = [auth EXCEPT !.clen = pos + n] BY <1>2 DEF Counted
<1>4. /\ auth'.x = auth.x /\ auth'.cbuf = auth.cbuf /\ auth'.alen = auth.alen /\ auth'.y0 = auth.y0
      /\ auth'.clen = pos + n
  BY <1>2, <1>3 DEF AuthRecord
<1> QED BY <1>1, <1>4, QuietAuthentic
\* Nothing is hashed yet.
LEMMA NothingHashed ==
  ASSUME cf \in Configs, cf.mode = "gcm", NEW n, NEW t, NEW l
  PROVE  BlocksOf(0) = 0 /\ Accumulated(ZeroBlock, 0, n, t, l)
<1>1. PICK b \in Nat \ {0} : b = cf.blksize BY Parameters
<1>2. PICK s \in Nat, r \in 0 .. b-1 : s = 0 /\ r = 0 BY <1>1
<1>3. s % b = 0 /\ s \div b = 0
  <2>1. (b*0 + 0) % b = 0 /\ (b*0 + 0) \div b = 0 BY Division
  <2> QED BY <1>2, <2>1
<1>4. BlocksOf(s + r) = (s \div cf.blksize) + (IF r = 0 THEN 0 ELSE 1) BY <1>1, <1>3, BlocksOfIs
<1>5. BlocksOf(0) = 0 BY <1>1, <1>2, <1>3, <1>4
<1>6. PICK f : f = [i \in 0 .. 0-1 |-> HashedBlock(n, t, l, i)] OBVIOUS
<1>7. \A i \in 0 .. 0-1 : f[i] \in Blocks OBVIOUS
<1>8. hash_blocks(ZeroBlock, 0, f) = ZeroBlock
  <2>1. ZeroBlock \in Blocks BY ZeroType
  <2>2. 0 \in Nat OBVIOUS
  <2>3. Hashing(ZeroBlock, 0, f)[0] = ZeroBlock /\ hash_blocks(ZeroBlock, 0, f) = Hashing(ZeroBlock, 0, f)[0]
    BY <1>7, <2>1, <2>2, HashingType
  <2> QED BY <2>3
<1> QED BY <1>5, <1>6, <1>8 DEF Accumulated

\* A new message.
LEMMA FreshAuthentic ==
  (/\ cf \in Configs /\ pos = 0 /\ pc = "idle"
   /\ cf.mode = "gcm" => /\ auth.y0 = J0 /\ auth.x = ZeroBlock /\ auth.alen = 0 /\ auth.clen = 0)
  => Authentic
<1> SUFFICES ASSUME cf \in Configs, pos = 0, pc = "idle", cf.mode = "gcm",
                    auth.y0 = J0, auth.x = ZeroBlock, auth.alen = 0, auth.clen = 0
             PROVE  Authentic
  BY DEF Authentic
<1>1. PICK n \in Nat \ {0}, z \in Nat : n = unit /\ z = 0 BY Parameters
<1>2. z % n = 0 /\ z \div n = 0
  <2>1. (n*0 + 0) % n = 0 /\ (n*0 + 0) \div n = 0 BY Division
  <2> QED BY <1>1, <2>1
<1>3. PICK t : t = Ciphertext OBVIOUS
<1>4. BlocksOf(0) = 0 /\ Accumulated(ZeroBlock, 0, 0, t, 0) BY NothingHashed
<1>5. BlocksOf(auth.alen) + (z \div unit) = 0 BY <1>1, <1>2, <1>4
<1>6. Accumulated(auth.x, BlocksOf(auth.alen) + (z \div unit), auth.alen, Ciphertext, pos)
  BY <1>3, <1>4, <1>5
<1>7. \A k \in Block0 : ~ (z + k < pos)
  <2>1. \A k \in Block0 : k \in Nat BY Parameters DEF Block0
  <2> QED BY <1>1, <2>1
<1>8. z % unit = 0 /\ z <= pos /\ pos < z + unit BY <1>1, <1>2
<1>9. Absorbed(z) BY <1>6, <1>7, <1>8 DEF Absorbed
<1> QED BY <1>1, <1>9 DEF Authentic

\* At first.
LEMMA InitAuthentic == Init => Authentic
<1> SUFFICES ASSUME Init PROVE Authentic OBVIOUS
<1>1. TInv BY InitTyped
<1>2. cf \in Configs /\ iv \in Area /\ ivlen \in IvLens(cf) BY <1>1 DEF TInv, Data
<1>3. ~Refused(ivlen) /\ pos = 0 /\ pc = "idle" BY DEF Init
<1>4. ASSUME cf.mode = "gcm" PROVE auth.y0 = J0 /\ auth.x = ZeroBlock /\ auth.alen = 0 /\ auth.clen = 0
  <2>1. auth = FreshAuth(iv, ivlen, 0, 0) BY <1>4 DEF Init
  <2>2. Y0(iv, ivlen) = J0 BY <1>2, <1>3, <1>4, J0Is
  <2> QED BY <1>3, <2>1, <2>2 DEF FreshAuth
<1> QED BY <1>2, <1>3, <1>4, FreshAuthentic

\* setiv and reset, when they succeed.
LEMMA LoadIvAuthentic ==
  ASSUME Data', NEW v, NEW n, LoadIv(v, n), ~Refused(n), cf' = cf, iv' = v, ivlen' = n,
         pos' = 0, pc' = "idle"
  PROVE  Authentic'
<1>1. (cf \in Configs /\ iv \in Area /\ ivlen \in IvLens(cf))' BY DEF Data
<1>2. Area' = Area BY DEF Area
<1>3. ASSUME cf.mode = "gcm"
      PROVE  auth'.y0 = J0' /\ auth'.x = ZeroBlock' /\ auth'.alen = 0 /\ auth'.clen = 0
  <2>1. auth' = FreshAuth(v, n, auth.alen, auth.clen) BY <1>3 DEF LoadIv
  <2>2. auth'.y0 = Y0(v, n) /\ auth'.x = ZeroBlock /\ auth'.alen = 0 /\ auth'.clen = 0
    BY <2>1 DEF FreshAuth
  <2>3. Y0(v, n)' = Y0(v, n) /\ (Refused(n)' <=> Refused(n)) BY IvNext
  <2>4. (cf.mode = "gcm")' BY <1>3
  <2>5. (~Refused(ivlen) => Y0(iv, ivlen) = J0)' BY <1>1, <2>4, J0Is, PTL
  <2>6. (~Refused(ivlen))' /\ Y0(iv, ivlen)' = Y0(v, n)
    <3>1. Y0(iv, ivlen)' = Y0(v, n)' OBVIOUS
    <3>2. Refused(ivlen)' <=> Refused(n)' OBVIOUS
    <3> QED BY <2>3, <3>1, <3>2
  <2>7. ZeroBlock' = ZeroBlock BY DEF ZeroBlock, Block0
  <2> QED BY <2>2, <2>5, <2>6, <2>7
<1>4. (/\ cf \in Configs /\ pos = 0 /\ pc = "idle"
       /\ cf.mode = "gcm" => /\ auth.y0 = J0 /\ auth.x = ZeroBlock /\ auth.alen = 0 /\ auth.clen = 0)'
  BY <1>1, <1>3
<1> QED BY <1>4, FreshAuthentic, PTL

LEMMA SetIvAuthentic ==
  ASSUME Data', NEW v \in NewIVs, NEW n \in IvLens(cf), SetIv(v, n)
  PROVE  Authentic'
<1>1. CASE clean' = 0 BY <1>1 DEF Authentic
<1>2. CASE clean' # 0
  <2>1. /\ ~Refused(n) /\ LoadIv(v, n) /\ cf' = cf /\ iv' = v /\ ivlen' = n /\ pos' = 0 /\ pc' = "idle"
    BY <1>2 DEF SetIv, NewMessage
  <2> QED BY <2>1, LoadIvAuthentic
<1> QED BY <1>1, <1>2

LEMMA ResetAuthentic ==
  ASSUME Data', Reset
  PROVE  Authentic'
<1>1. CASE clean' = 0 BY <1>1 DEF Authentic
<1>2. CASE clean' # 0
  <2>1. /\ ~Refused(ivlen) /\ LoadIv(iv, ivlen) /\ cf' = cf /\ iv' = iv /\ ivlen' = ivlen
        /\ pos' = 0 /\ pc' = "idle"
    BY <1>2 DEF Reset, NewMessage
  <2>2. PICK v, n : v = iv /\ n = ivlen OBVIOUS
  <2>3. ~Refused(n) /\ LoadIv(v, n) BY <2>1, <2>2
  <2> QED BY <2>1, <2>2, <2>3, LoadIvAuthentic
<1> QED BY <1>1, <1>2

\* The data of setdata: whole blocks and the last one, or none.
LEMMA DataHashed ==
  ASSUME cf \in Configs, cf.mode = "gcm", NEW n \in 0 .. MaxAad, n = 0 \/ n % cf.blksize # 0,
         NEW m, m = n \div cf.blksize, NEW f, f = [i \in 0 .. m |-> Padded(AadBytes, n, i * cf.blksize)],
         NEW t, NEW l
  PROVE  Accumulated(hash_blocks(ZeroBlock, m + 1, f), BlocksOf(n), n, t, l)
<1>1. PICK b \in Nat \ {0} : b = cf.blksize BY Parameters
<1>2. n \in Nat BY Parameters
<1>3. PICK q \in Nat, r \in 0 .. b-1 : q = n \div b /\ r = n % b /\ n = b*q + r BY <1>1, <1>2, DivisionExists
<1>4. m = q BY <1>1, <1>3
<1>5. CASE n = 0
  <2>1. m = 0
    <3>1. (b*0 + 0) \div b = 0 BY Division
    <3> QED BY <1>1, <1>5, <3>1
  <2>2. f[0] = ZeroBlock
    <3>1. f[0] = Padded(AadBytes, n, 0 * cf.blksize) BY <2>1
    <3>2. 0 * cf.blksize = 0 BY <1>1
    <3>3. \A k \in Block0 : ~ (0 + k < 0) BY <1>1 DEF Block0
    <3>4. Padded(AadBytes, 0, 0) = ZeroBlock BY <3>3 DEF Padded, ZeroBlock
    <3> QED BY <1>5, <3>1, <3>2, <3>4
  <2>3. ZeroBlock \in Blocks BY ZeroType
  <2>4. hash(ZeroBlock, ZeroBlock) = ZeroBlock
    <3>1. H \in Blocks BY <2>3, HashType
    <3>2. hash(ZeroBlock, ZeroBlock) = Product(H, XorBlock(ZeroBlock, ZeroBlock)) BY <2>3, FieldFacts
    <3>3. XorBlock(ZeroBlock, ZeroBlock) = ZeroBlock BY <2>3, XorFacts
    <3> QED BY <3>1, <3>2, <3>3, ZeroProduct
  <2>5. hash_blocks(ZeroBlock, 1, f) = ZeroBlock
    <3>1. hash_blocks(ZeroBlock, 1, f) = hash(ZeroBlock, f[0]) BY <2>2, <2>3, OneHashed
    <3> QED BY <2>2, <2>4, <3>1
  <2>6. m + 1 = 1 BY <2>1
  <2> QED BY <1>5, <2>5, <2>6, NothingHashed
<1>6. CASE n # 0
  <2>1. r # 0 BY <1>1, <1>3, <1>6
  <2>2. PICK s \in Nat : s = b*q BY <1>1
  <2>3. s % b = 0 /\ s \div b = q
    <3>1. (b*q + 0) % b = 0 /\ (b*q + 0) \div b = q BY Division
    <3>2. b*q + 0 = s BY <2>2
    <3> QED BY <3>1, <3>2
  <2>4. BlocksOf(n) = q + 1
    <3>1. n = s + r BY <1>3, <2>2
    <3>2. BlocksOf(s + r) = (s \div cf.blksize) + (IF r = 0 THEN 0 ELSE 1) BY <1>1, <2>3, BlocksOfIs
    <3> QED BY <1>1, <2>1, <2>3, <3>1, <3>2
  <2>5. 0 .. (q + 1) - 1 = 0 .. q OBVIOUS
  <2>6. \A i \in 0 .. q : HashedBlock(n, t, l, i) = Padded(AadBytes, n, i * cf.blksize)
    <3>1. \A i \in 0 .. q : i < BlocksOf(n) BY <2>4
    <3> QED BY <3>1 DEF HashedBlock
  <2>7. [i \in 0 .. (q + 1) - 1 |-> HashedBlock(n, t, l, i)] = f BY <1>4, <2>5, <2>6
  <2> QED BY <1>4, <2>4, <2>7 DEF Accumulated
<1> QED BY <1>5, <1>6

\* setdata.
LEMMA SetDataAuthentic ==
  ASSUME TInv, Authentic, NEW n \in 0 .. MaxAad, SetData(n)
  PROVE  Authentic'
<1> DEFINE m == n \div cf.blksize
           f == [i \in 0 .. m |-> Padded(AadBytes, n, i * cf.blksize)]
<1>1. /\ pc = "idle" /\ cf.mode = "gcm" /\ pos = 0
      /\ auth' = [auth EXCEPT !.alen = n, !.x = hash_blocks(ZeroBlock, m + 1, f)]
      /\ clean' = (IF n # 0 /\ n % cf.blksize = 0 THEN 0 ELSE clean)
      /\ cf' = cf /\ dir' = dir /\ iv' = iv /\ ivlen' = ivlen /\ pos' = pos /\ pc' = pc
  BY DEF SetData, msgVars
<1>2. CASE clean' # 1 BY <1>2 DEF Authentic
<1>3. CASE clean' = 1
  <2>1. clean = 1 /\ (n = 0 \/ n % cf.blksize # 0) BY <1>1, <1>3
  <2>2. Moving BY <1>1 DEF Moving
  <2>3. /\ cf \in Configs /\ auth \in AuthRecord /\ unit = cf.blksize /\ unit \in Nat \ {0}
        /\ auth.y0 = J0 /\ auth.clen = pos
    BY <1>1, <2>1, <2>2, AuthenticIs
  <2>4. PICK t : t = Ciphertext' OBVIOUS
  <2>5. PICK x : x = hash_blocks(ZeroBlock, m + 1, f) OBVIOUS
  <2>6. Accumulated(x, BlocksOf(n), n, t, 0) BY <1>1, <2>1, <2>3, <2>5, DataHashed
  <2>7. auth'.x = x /\ auth'.alen = n /\ auth'.y0 = J0 /\ auth'.clen = pos
    BY <1>1, <2>3, <2>5 DEF AuthRecord
  <2>8. PICK b \in Nat \ {0}, z \in Nat : b = unit /\ z = 0 BY <2>3
  <2>9. z % b = 0 /\ z \div b = 0
    <3>1. (b*0 + 0) % b = 0 /\ (b*0 + 0) \div b = 0 BY Division
    <3> QED BY <2>8, <3>1
  <2>10. BlocksOf(n) + (z \div unit) = BlocksOf(n)
    <3>1. BlocksOf(n) \in Nat BY <2>3, SizesAssumption, BlocksOfType
    <3> QED BY <2>8, <2>9, <3>1
  <2>11. Accumulated(auth'.x, BlocksOf(n) + (z \div unit), n, t, pos') BY <1>1, <2>6, <2>7, <2>10
  <2>12. z % unit = 0 /\ z <= pos' /\ pos' < z + unit BY <1>1, <2>8, <2>9
  <2>13. \A k \in Block0 : ~ (z + k < pos')
    <3>1. \A k \in Block0 : k \in Nat BY <2>3, Parameters DEF Block0
    <3> QED BY <1>1, <2>8, <3>1
  <2>14. J0' = J0 BY <1>1, CountersSame
  <2>15. auth'.clen = IF pc' \in {"idle", "final"} THEN pos' ELSE end' BY <1>1, <2>7
  <2> QED BY <1>1, <2>4, <2>7, <2>11, <2>12, <2>13, <2>14, <2>15, AuthenticNext
<1> QED BY <1>2, <1>3
\* A turn of the fast functions: the whole of the call.
LEMMA GcmFastAuthentic ==
  ASSUME TInv, Data', Flow, Authentic, clean = 1, GcmFast
  PROVE  Authentic'
<1> DEFINE C == Counters(reg, Turn \div Align)
<1>1. /\ pc = "fast" /\ pos # end /\ cf.mode = "gcm"
      /\ pc' = pc /\ cf' = cf /\ dir' = dir /\ iv' = iv /\ ivlen' = ivlen /\ in' = in
      /\ end' = end
  BY DEF GcmFast, msgVars
<1>2. PICK y \in Byte, w \in Beyond(Turn) :
        LET From(i) == IF src + i < end THEN in[src + i] ELSE y
            To(i) == XorByte(Enc(At(C[(i \div Align) + 1], 0))[i % Align], From(i))
            Hashed == [j \in 0 .. (Turn \div Align) - 1 |->
                         [k \in Block0 |-> IF dir = "enc" THEN To(j * Align + k)
                                           ELSE From(j * Align + k)]] IN
        /\ out' = [i \in Idx |-> IF pos <= i /\ i < pos + Turn THEN To(i - pos)
                                 ELSE Spilled(w)[i]]
        /\ auth' = [auth EXCEPT !.x = hash_blocks(@, Turn \div Align, Hashed)]
        /\ pos' = pos + Turn
  BY DEF GcmFast, Turn
<1> DEFINE From(i) == IF src + i < end THEN in[src + i] ELSE y
           To(i) == XorByte(Enc(At(C[(i \div Align) + 1], 0))[i % Align], From(i))
           g == [j \in 0 .. (Turn \div Align) - 1 |->
                   [k \in Block0 |-> IF dir = "enc" THEN To(j * Align + k) ELSE From(j * Align + k)]]
<1>a. Turn \in Nat BY <1>1, Room, SizesAssumption DEF Working, Turn, Lesser
<1>b. PICK o \in Text : o = Spilled(w) /\ Rest(o) BY <1>1, <1>a, SpilledIs
<1>3. /\ out' = [i \in Idx |-> IF pos <= i /\ i < pos + Turn THEN To(i - pos) ELSE o[i]]
      /\ auth' = [auth EXCEPT !.x = hash_blocks(@, Turn \div Align, g)]
      /\ pos' = pos + Turn
  BY <1>2, <1>b
<1> HIDE DEF C
<1>4. Working /\ Moving BY <1>1 DEF Working, Moving
<1>5. /\ cf \in Configs /\ Data /\ auth \in AuthRecord /\ unit = cf.blksize /\ unit \in Nat \ {0}
      /\ pos \in Nat /\ MaxLen \in Nat /\ end \in Nat /\ auth.y0 = J0 /\ auth.clen = end
  BY <1>1, <1>4, AuthenticIs
<1>6. PICK s \in Nat : Absorbed(s) BY <1>1, <1>4, AuthenticIs
<1>7. s = pos BY <1>1, <1>4, <1>6, OffsetIs
<1>8. src = pos /\ end - pos <= FastBuf
  <2>1. PICK e \in Nat : Linked(e) BY <1>4 DEF Flow
  <2>2. cf.mode # "rc4" BY <1>1
  <2> QED BY <1>1, <2>1, <2>2, LinkedIs
<1>9. PICK b \in Nat \ {0}, M \in Nat :
        /\ b = unit /\ b = cf.blksize /\ b = Align /\ M = Turn
        /\ M % b = 0 /\ b <= M /\ s + M = end /\ end <= MaxLen
  <2>1. ~IsStream BY <1>1 DEF IsStream, StreamModes
  <2>2. Turn \in Nat /\ Turn % Align = 0 /\ Align <= Turn BY <1>1, <2>1, TurnSize
  <2>3. end <= MaxLen /\ pos <= end BY <1>4, Room
  <2>4. Turn = end - pos BY <1>5, <1>8, <2>3, SizesAssumption DEF Turn, Lesser
  <2>5. cf.blksize = Align BY <1>1, <1>5, Parameters
  <2> QED BY <1>5, <1>7, <2>2, <2>3, <2>4, <2>5
<1>10. PICK p \in Nat : p = M \div b /\ M = b * p /\ p = Turn \div Align
  <2>1. 0 < M /\ M % b = 0 BY <1>9
  <2>2. PICK z \in Nat : z = 0 OBVIOUS
  <2>3. M \div b \in Nat /\ M = b * (M \div b) BY <2>1, <2>2, ChunkOf
  <2> QED BY <1>9, <2>3
<1> HIDE DEF To, From
<1>11. \A i \in Nat : i < M => From(i) = in[s + i]
  <2> TAKE i \in Nat
  <2> HAVE i < M
  <2>1. src + i = s + i /\ s + i < end BY <1>5, <1>7, <1>8, <1>9
  <2> QED BY <2>1 DEF From
<1>12. \A i \in Nat : i < M => out'[s + i] = To(i)
  <2> TAKE i \in Nat
  <2> HAVE i < M
  <2>1. s + i \in Idx /\ pos <= s + i /\ s + i < pos + Turn /\ (s + i) - pos = i
    BY <1>5, <1>7, <1>9 DEF Idx
  <2> QED BY <1>3, <2>1
<1>13. \A i \in Idx : i < pos => out'[i] = out[i]
  <2> TAKE i \in Idx
  <2> HAVE i < pos
  <2>1. ~ (pos <= i) BY <1>5 DEF Idx
  <2> QED BY <1>3, <1>b, <2>1 DEF Rest
<1>14. Kept BY <1>1, <1>13 DEF Kept
<1>15. PICK n, t, l : n = auth.alen /\ t = Ciphertext' /\ l = s + M OBVIOUS
<1>16. n \in 0 .. MaxAad /\ l \in 0 .. MaxLen /\ l = pos' BY <1>3, <1>5, <1>7, <1>9, <1>15 DEF AuthRecord
<1>17. t \in Text /\ \A i \in Nat : i < MaxLen => i \in Idx /\ t[i] = Cipher(i)'
  <2>1. (/\ Ciphertext \in Text
         /\ \A i \in Nat : i < MaxLen => i \in Idx /\ Ciphertext[i] = Cipher(i))'
    BY CiphertextIs, PTL
  <2>2. Text' = Text /\ Idx' = Idx BY DEF Text
  <2> QED BY <1>15, <2>1, <2>2
<1>18. \A j \in 0 .. p-1 : g[j] = HashedBlock(n, t, l, BlocksOf(n) + (s \div cf.blksize) + j)
  <2> TAKE j \in 0 .. p-1
  <2>1. PICK a \in Nat : a = j * Align /\ a = j * cf.blksize BY <1>9
  <2>2. a + b <= M
    <3>1. j \in Int /\ p \in Int /\ j + 1 \in Int /\ j + 1 <= p OBVIOUS
    <3>2. b * (j + 1) <= b * p /\ b * (j + 1) = b * j + b BY <3>1, TimesMonotonic
    <3>3. b * j = a BY <1>9, <2>1
    <3> QED BY <1>9, <1>10, <3>2, <3>3
  <2>3. ASSUME NEW k \in Block0
        PROVE  /\ (IF dir = "enc" THEN To(a + k) ELSE From(a + k)) = t[s + a + k]
               /\ s + a + k < l
    <3>1. PICK h \in Nat : h = a + k /\ h < M BY <1>9, <2>2 DEF Block0
    <3>2. PICK i \in Nat : i = s + h /\ i = s + a + k /\ i < l /\ i < MaxLen
      BY <1>5, <1>9, <1>15, <1>16, <3>1 DEF Block0
    <3>3. t[i] = Cipher(i)' BY <1>17, <3>2
    <3>4. Cipher(i)' = IF dir = "enc" THEN out'[i] ELSE in[i] BY <1>1 DEF Cipher
    <3>5. out'[i] = To(h) /\ in[i] = From(h) BY <1>11, <1>12, <3>1, <3>2
    <3> QED BY <3>1, <3>2, <3>3, <3>4, <3>5
  <2>4. j \in 0 .. (Turn \div Align) - 1 BY <1>10
  <2>5. g[j] = [k \in Block0 |-> IF dir = "enc" THEN To(a + k) ELSE From(a + k)] BY <2>1, <2>4
  <2>6. g[j] = [k \in Block0 |-> IF s + a + k < l THEN t[s + a + k] ELSE 0] BY <2>3, <2>5
  <2>7. PICK off \in Nat : off = s + a OBVIOUS
  <2>8. g[j] = Padded(t, l, off) BY <2>6, <2>7 DEF Padded
  <2>9. HashedBlock(n, t, l, BlocksOf(n) + (s \div cf.blksize) + j) = Padded(t, l, s + j * cf.blksize)
    <3>1. s % cf.blksize = 0 BY <1>5, <1>6 DEF Absorbed
    <3> QED BY <1>5, <1>16, <3>1, TextBlock
  <2> QED BY <2>1, <2>7, <2>8, <2>9
<1> HIDE DEF g
<1>19. PICK x : x = auth.x OBVIOUS
<1>20. s % cf.blksize = 0 /\ Accumulated(x, BlocksOf(n) + (s \div cf.blksize), n, Ciphertext, s)
  BY <1>5, <1>6, <1>7, <1>15, <1>19 DEF Absorbed
<1>21. Accumulated(x, BlocksOf(n) + (s \div cf.blksize), n, t, l)
  <2>1. ASSUME NEW i \in Nat, i < s PROVE Ciphertext[i] = t[i]
    <3>1. i < pos /\ i < MaxLen /\ pos \in 0 .. MaxLen BY <1>5, <1>7, <1>9, <2>1
    <3>2. Cipher(i)' = Cipher(i) BY <1>5, <1>14, <3>1, TextKept
    <3>3. Ciphertext[i] = Cipher(i) BY <1>5, <3>1, CiphertextIs
    <3> QED BY <1>17, <3>1, <3>2, <3>3
  <2>2. l \in Nat /\ s <= l BY <1>15
  <2> QED BY <1>5, <1>16, <1>20, <2>1, <2>2, AccumulatedSame
<1>22. PICK q \in Nat : q = s \div b
  <2>1. s \div b \in Nat BY DivisionExists
  <2> QED BY <2>1
<1>23. PICK a \in Nat : a = BlocksOf(n) BY <1>5, <1>16, BlocksOfType, SizesAssumption
<1>24. Accumulated(hash_blocks(x, p, g), (a + q) + p, n, t, l)
  <2>1. a + q \in Nat OBVIOUS
  <2>2. Accumulated(x, a + q, n, t, l) BY <1>9, <1>21, <1>22, <1>23
  <2>3. \A j \in 0 .. p-1 : g[j] = HashedBlock(n, t, l, (a + q) + j) BY <1>9, <1>18, <1>22, <1>23
  <2> QED BY <1>1, <1>5, <1>16, <1>17, <2>1, <2>2, <2>3, AccumulatedMore
<1>25. PICK e \in Nat : e = s + M /\ e % b = 0 /\ e \div b = q + p
  <2>1. s % b = 0 BY <1>9, <1>20
  <2>2. (s + M) % b = M % b /\ (s + M) \div b = (s \div b) + (M \div b) BY <2>1, Shifted
  <2> QED BY <1>9, <1>10, <1>22, <2>2
<1>26. /\ auth'.x = hash_blocks(x, p, g) /\ auth'.alen = n /\ auth'.y0 = J0 /\ auth'.clen = end
  BY <1>3, <1>5, <1>10, <1>15, <1>19 DEF AuthRecord
<1>27. Accumulated(auth'.x, BlocksOf(n) + (e \div unit), n, t, pos')
  <2>1. BlocksOf(n) + (e \div unit) = (a + q) + p BY <1>9, <1>23, <1>25
  <2> QED BY <1>16, <1>24, <1>26, <2>1
<1>28. e % unit = 0 /\ e <= pos' /\ pos' < e + unit BY <1>9, <1>15, <1>16, <1>25
<1>29. \A k \in Block0 : ~ (e + k < pos')
  <2>1. \A k \in Block0 : k \in Nat BY <1>5 DEF Block0
  <2> QED BY <1>15, <1>16, <1>25, <2>1
<1>30. J0' = J0 BY <1>1, CountersSame
<1>31. auth'.clen = IF pc' \in {"idle", "final"} THEN pos' ELSE end' BY <1>1, <1>26
<1> QED BY <1>1, <1>15, <1>26, <1>27, <1>28, <1>29, <1>30, <1>31, AuthenticNext

\* All steps keep it.
LEMMA AuthenticStep == TInv /\ TInv' /\ Flow /\ Authentic /\ [Next]_vars => Authentic'
<1> SUFFICES ASSUME TInv, TInv', Flow, Authentic, [Next]_vars PROVE Authentic' OBVIOUS
<1>0. Data' BY DEF TInv
<1>1. CASE clean' # 1 \/ cf'.mode # "gcm" \/ ~Moving' BY <1>1 DEF Authentic
<1>2. CASE clean' = 1 /\ cf'.mode = "gcm" /\ Moving'
  <2>1. ASSUME UNCHANGED vars PROVE Authentic'
    <3>1. /\ cf' = cf /\ dir' = dir /\ iv' = iv /\ ivlen' = ivlen /\ in' = in /\ out' = out
          /\ pos' = pos /\ end' = end /\ auth' = auth /\ pc' = pc /\ clean' = clean
      BY <2>1 DEF vars, msgVars, callVars
    <3>2. clean = 1 /\ cf.mode = "gcm" /\ Moving BY <1>2, <3>1 DEF Moving
    <3>3. auth.clen = IF pc \in {"idle", "final"} THEN pos ELSE end BY <3>2, AuthenticIs
    <3>4. auth'.clen = IF pc' \in {"idle", "final"} THEN pos' ELSE end' BY <3>1, <3>3
    <3> QED BY <1>0, <3>1, <3>2, <3>4, QuietAuthentic
  <2>2. ASSUME NEW v \in NewIVs, NEW n \in IvLens(cf), SetIv(v, n) PROVE Authentic'
    BY <1>0, <2>2, SetIvAuthentic
  <2>3. CASE Reset BY <1>0, <2>3, ResetAuthentic
  <2>4. CASE Clone BY <1>2, <2>4 DEF Clone
  <2>5. ASSUME NEW n \in 0 .. MaxAad, SetData(n) PROVE Authentic' BY <2>5, SetDataAuthentic
  <2>6. ASSUME NEW n \in 0 .. MaxCall, Refuse(n) PROVE Authentic' BY <2>1, <2>6 DEF Refuse
  <2>7. ASSUME NEW n \in 0 .. MaxCall, NEW f \in {0, 1}, Call(n, f) PROVE Authentic'
    <3>1. /\ pc = "idle" /\ auth' = Counted(n) /\ end' = pos + n /\ clean' = clean
          /\ pc' \in {"head", "body", "cbc", "fast"} /\ cf' = cf /\ dir' = dir /\ iv' = iv
          /\ ivlen' = ivlen /\ in' = in /\ out' = out /\ pos' = pos
      BY <2>7 DEF Call, msgVars
    <3>2. n \in Nat /\ clean = 1 /\ cf.mode = "gcm" BY <1>2, <3>1, SizesAssumption
    <3> QED BY <1>0, <3>1, <3>2, CallAuthentic
  <2>8. ASSUME NEW n \in 0 .. MaxFast, FastCall(n) PROVE Authentic'
    <3>1. /\ pc = "idle" /\ auth' = Counted(n) /\ end' = pos + n /\ clean' \in {0, clean}
          /\ pc' \in {"head", "body", "cbc", "fast"} /\ cf' = cf /\ dir' = dir /\ iv' = iv
          /\ ivlen' = ivlen /\ in' = in /\ out' = out /\ pos' = pos
      <4> HIDE DEF HasFast, Wraps
      <4> QED BY <2>8 DEF FastCall, msgVars
    <3>2. n \in Nat /\ clean = 1 /\ cf.mode = "gcm" BY <1>2, <3>1, SizesAssumption
    <3> QED BY <1>0, <3>1, <3>2, CallAuthentic
  <2>9. CASE Step
    <3>0. cf' = cf BY <2>9 DEF Step, Head, HeadOutside, Block, Tail, CbcBlock, Return,
                               CfbEncryptFast, OfbEncryptFast, CfbDecryptFast, CtrEncryptFast,
                               GcmFast, GcmFinal, StreamHead, StreamFast, msgVars
    <3>1. cf.mode = "gcm" /\ ~IsStream BY <1>2, <3>0 DEF IsStream, StreamModes
    <3>2. CASE Head
      <4>1. clean = 1 BY <1>2, <3>2 DEF Head
      <4> QED BY <1>0, <3>1, <3>2, <4>1, HeadAuthentic
    <3>3. CASE Block
      <4>1. clean = 1 BY <1>2, <3>1, <3>3 DEF Block, Filled
      <4> QED BY <1>0, <3>1, <3>3, <4>1, BlockAuthentic
    <3>4. CASE Tail
      <4>1. clean = 1 BY <1>2, <3>1, <3>4 DEF Tail, Filled
      <4> QED BY <1>0, <3>1, <3>4, <4>1, TailAuthentic
    <3>5. CASE Return
      <4>1. clean = 1 BY <1>2, <3>1, <3>5 DEF Return
      <4> QED BY <1>0, <3>1, <3>5, <4>1, ReturnAuthentic
    <3>6. CASE GcmFast
      <4>1. clean = 1 BY <1>2, <3>6 DEF GcmFast
      <4> QED BY <1>0, <3>6, <4>1, GcmFastAuthentic
    <3>7. CASE HeadOutside BY <1>2, <3>7 DEF HeadOutside, Moving
    <3>8. CASE GcmFinal BY <1>2, <3>8 DEF GcmFinal, Moving
    <3>9. CASE CbcBlock BY <3>1, <3>9 DEF CbcBlock, TInv, Calls
    <3>10. CASE CfbEncryptFast \/ OfbEncryptFast \/ CfbDecryptFast \/ CtrEncryptFast
      BY <3>1, <3>10 DEF CfbEncryptFast, OfbEncryptFast, CfbDecryptFast, CtrEncryptFast
    <3>11. CASE StreamFast BY <3>1, <3>11 DEF StreamFast
    <3>12. CASE StreamHead
      <4>1. left \in 1 .. unit BY <3>12 DEF StreamHead
      <4>2. left = 0 BY <3>1 DEF TInv, Calls
      <4> QED BY <4>1, <4>2
    <3> QED BY <2>9, <3>2, <3>3, <3>4, <3>5, <3>6, <3>7, <3>8, <3>9, <3>10, <3>11, <3>12 DEF Step
  <2> QED BY <2>1, <2>2, <2>3, <2>4, <2>5, <2>6, <2>7, <2>8, <2>9 DEF Next
<1> QED BY <1>1, <1>2
----------------------------------------------------------------------------
(* The tag. *)

TagBlocks(n, t, l) ==
  [i \in 1 .. BlocksOf(n) + BlocksOf(l) + 1 |->
     CASE i <= BlocksOf(n) -> Padded(AadBytes, n, (i - 1) * cf.blksize)
       [] BlocksOf(n) < i /\ i <= BlocksOf(n) + BlocksOf(l) ->
            Padded(t, l, (i - BlocksOf(n) - 1) * cf.blksize)
       [] i = BlocksOf(n) + BlocksOf(l) + 1 -> LenBlock(n, l)]
Expected(n, t, l) ==
  XorBlock(GHash(BlocksOf(n) + BlocksOf(l) + 1, TagBlocks(n, t, l)), Enc(J0))

\* TagCorrect by its name.
LEMMA TagIs ==
  TagCorrect <=> (pc = "done" /\ clean = 1 =>
                    tag = [k \in 0 .. cf.taglen - 1 |-> Expected(auth.alen, Ciphertext, pos)[k]])
BY DEF TagCorrect, Expected, TagBlocks, Ciphertext

\* The tag depends on the configuration and the iv.
LEMMA ExpectedKept ==
  ASSUME cf' = cf, iv' = iv, ivlen' = ivlen, NEW n, NEW t, NEW l
  PROVE  Expected(n, t, l)' = Expected(n, t, l)
<1>1. J0' = J0 BY CountersSame
<1>2. Block0' = Block0 /\ BlocksOf(n)' = BlocksOf(n) /\ BlocksOf(l)' = BlocksOf(l)
  BY DEF Block0, BlocksOf
<1>3. ZeroBlock' = ZeroBlock BY <1>2 DEF ZeroBlock
<1>4. H' = H BY <1>3 DEF H
<1>5. ASSUME NEW m, NEW f PROVE GHash(m, f)' = GHash(m, f) BY <1>2, <1>3, <1>4 DEF GHash, XorBlock
<1>6. ASSUME NEW v, NEW k, NEW o PROVE Padded(v, k, o)' = Padded(v, k, o) BY <1>2 DEF Padded
<1>7. PICK f, m : f = TagBlocks(n, t, l) /\ m = BlocksOf(n) + BlocksOf(l) + 1 OBVIOUS
<1>8. TagBlocks(n, t, l)' = f BY <1>2, <1>6, <1>7 DEF TagBlocks, Padded
<1>9. GHash(BlocksOf(n) + BlocksOf(l) + 1, TagBlocks(n, t, l))' = GHash(m, f)
  BY <1>2, <1>5, <1>7, <1>8
<1>10. GHash(BlocksOf(n) + BlocksOf(l) + 1, TagBlocks(n, t, l)) = GHash(m, f) BY <1>7
<1> QED BY <1>1, <1>2, <1>9, <1>10 DEF Expected, XorBlock

\* GHASH of the blocks that are hashed and of the lengths.
LEMMA HashedIs ==
  ASSUME cf \in Configs, cf.mode = "gcm", NEW n \in 0 .. MaxAad, NEW t \in Text, NEW l \in 0 .. MaxLen,
         NEW x, Accumulated(x, BlocksOf(n) + BlocksOf(l), n, t, l)
  PROVE  /\ GHash(BlocksOf(n) + BlocksOf(l) + 1, TagBlocks(n, t, l)) = hash(x, LenBlock(n, l))
         /\ hash(x, LenBlock(n, l)) \in Blocks
<1>1. PICK a \in Nat, c \in Nat : a = BlocksOf(n) /\ c = BlocksOf(l)
  BY BlocksOfType, SizesAssumption
<1>2. PICK b \in Nat : b = cf.blksize BY Parameters
<1>3. PICK f : f = TagBlocks(n, t, l) OBVIOUS
<1>4. LenBlock(n, l) \in Blocks
  <2>1. n \in 0 .. MaxAad /\ l \in 0 .. MaxLen + 2 * Align BY Parameters
  <2>2. cf.blksize = Align BY Parameters
  <2> QED BY <2>1, <2>2, LengthAssumption DEF Blocks, Block0
<1>5. PICK acc : Chained(acc, a + c, n, t, l)
  <2>1. a + c \in Nat OBVIOUS
  <2> QED BY <2>1, ChainedIs
<1>6. x = acc[a + c] /\ x \in Blocks
  <2>1. a + c \in Nat /\ Accumulated(x, a + c, n, t, l) BY <1>1
  <2> QED BY <1>5, <2>1, ChainedIs
<1>7. acc[0] = ZeroBlock /\ \A i \in 1 .. a + c : acc[i] = hash(acc[i-1], HashedBlock(n, t, l, i-1))
  BY <1>5 DEF Chained
<1>8. f = [i \in 1 .. a + c + 1 |->
             CASE i <= a -> Padded(AadBytes, n, (i - 1) * b)
               [] a < i /\ i <= a + c -> Padded(t, l, (i - a - 1) * b)
               [] i = a + c + 1 -> LenBlock(n, l)]
  BY <1>1, <1>2, <1>3 DEF TagBlocks
<1>9. \A i \in 1 .. a + c : f[i] = HashedBlock(n, t, l, i-1)
  <2> TAKE i \in 1 .. a + c
  <2>1. CASE i <= a
    <3>1. f[i] = Padded(AadBytes, n, (i - 1) * b) BY <1>8, <2>1
    <3>2. i - 1 < a BY <2>1
    <3> QED BY <1>1, <1>2, <3>1, <3>2 DEF HashedBlock
  <2>2. CASE ~ (i <= a)
    <3>1. f[i] = Padded(t, l, (i - a - 1) * b) BY <1>8, <2>2
    <3>2. ~ (i - 1 < a) /\ i - a - 1 = (i - 1) - a BY <2>2
    <3> QED BY <1>1, <1>2, <3>1, <3>2 DEF HashedBlock
  <2> QED BY <2>1, <2>2
<1>10. f[a + c + 1] = LenBlock(n, l)
  <2>1. a + c + 1 \in 1 .. a + c + 1 /\ ~ (a + c + 1 <= a) /\ ~ (a + c + 1 <= a + c) OBVIOUS
  <2> QED BY <1>8, <2>1
<1>11. \A i \in 1 .. a + c + 1 : f[i] \in Blocks
  <2> TAKE i \in 1 .. a + c + 1
  <2>1. CASE i = a + c + 1 BY <1>4, <1>10, <2>1
  <2>2. CASE i # a + c + 1
    <3>1. i \in 1 .. a + c /\ i-1 \in Nat BY <2>2
    <3> QED BY <1>9, <3>1, HashedBlockType
  <2> QED BY <2>1, <2>2
<1>12. hash(x, LenBlock(n, l)) \in Blocks BY <1>4, <1>6, HashType
<1> DEFINE sum == [i \in 0 .. a + c + 1 |-> IF i = a + c + 1 THEN hash(x, LenBlock(n, l)) ELSE acc[i]]
<1>13. sum[0] = ZeroBlock BY <1>7
<1>14. \A i \in 1 .. a + c + 1 : sum[i] = hash(sum[i-1], f[i])
  <2> TAKE i \in 1 .. a + c + 1
  <2>1. sum[i-1] = acc[i-1] OBVIOUS
  <2>2. CASE i = a + c + 1
    <3>1. i-1 = a + c BY <2>2
    <3> QED BY <1>6, <1>10, <2>1, <2>2, <3>1
  <2>3. CASE i # a + c + 1
    <3>1. i \in 1 .. a + c /\ sum[i] = acc[i] BY <2>3
    <3> QED BY <1>7, <1>9, <2>1, <3>1
  <2> QED BY <2>2, <2>3
<1>15. sum[a + c + 1] = hash(x, LenBlock(n, l)) OBVIOUS
<1>16. GHash(a + c + 1, f) = sum[a + c + 1]
  <2>1. a + c + 1 \in Nat OBVIOUS
  <2> HIDE DEF sum
  <2> QED BY <1>11, <1>13, <1>14, <2>1, Horner
<1> QED BY <1>1, <1>3, <1>12, <1>15, <1>16

\* The final call: the last block, the lengths and the first counter.
LEMMA GcmFinalTag ==
  ASSUME TInv, Flow, Authentic, GcmFinal, clean = 1
  PROVE  TagCorrect'
<1> DEFINE x == IF boff # 0 THEN hash(auth.x, LastBlock) ELSE auth.x
           y == hash(x, LenBlock(auth.alen, auth.clen))
           w == Over(buf, Enc(auth.y0), cf.blksize)
           z == XorBlock(y, At(w, 0))
           c == IF boff # 0 THEN LastBlock ELSE auth.cbuf
           a == [auth EXCEPT !.cbuf = c, !.x = z]
<1>1. pc = "final" /\ cf.mode = "gcm" /\ Moving BY DEF GcmFinal, TInv, Calls, Moving
<1>2. /\ cf \in Configs /\ Data /\ auth \in AuthRecord /\ unit = cf.blksize /\ unit \in Nat \ {0}
      /\ pos \in Nat /\ pos <= MaxLen /\ MaxLen \in Nat /\ auth.y0 = J0 /\ auth.clen = pos
  BY <1>1, AuthenticIs
<1>3. PICK s \in Nat : Absorbed(s) BY <1>1, AuthenticIs
<1>4. boff = pos - s /\ boff \in Nat BY <1>1, <1>3, OffsetIs
<1>5. /\ buf' = w /\ auth' = a /\ tag' = [k \in 0 .. cf.taglen - 1 |-> auth'.x[k]]
      /\ cf' = cf /\ dir' = dir /\ iv' = iv /\ ivlen' = ivlen /\ in' = in /\ out' = out /\ pos' = pos
  BY DEF GcmFinal, msgVars, x, y, w, z, c
<1> HIDE DEF x, y, w, z, c
<1>6. auth'.x = z /\ auth'.alen = auth.alen BY <1>2, <1>5 DEF AuthRecord
<1> HIDE DEF a
<1>7. PICK n \in 0 .. MaxAad, t \in Text, l \in 0 .. MaxLen, b \in Nat \ {0} :
        /\ n = auth.alen /\ t = Ciphertext /\ l = pos /\ b = unit /\ b = cf.blksize
        /\ \A i \in Nat : i < MaxLen => t[i] = Cipher(i)
  BY <1>2, CiphertextIs DEF AuthRecord
<1>8. /\ s % b = 0 /\ s <= l /\ l < s + b
      /\ Accumulated(auth.x, BlocksOf(n) + (s \div b), n, t, l)
      /\ \A k \in Block0 : s + k < l => auth.cbuf[k] = Cipher(s + k)
  BY <1>3, <1>7 DEF Absorbed
<1>9. PICK r \in 0 .. b-1 : r = boff /\ s + r = l BY <1>4, <1>7, <1>8
<1>10. PICK q \in Nat, e \in Nat : q = s \div b /\ e = BlocksOf(n)
  <2>1. s \div b \in Nat BY DivisionExists
  <2>2. BlocksOf(n) \in Nat BY <1>2, BlocksOfType, SizesAssumption
  <2> QED BY <2>1, <2>2
<1>11. BlocksOf(l) = q + (IF r = 0 THEN 0 ELSE 1)
  <2>1. BlocksOf(s + r) = (s \div cf.blksize) + (IF r = 0 THEN 0 ELSE 1)
    BY <1>2, <1>7, <1>8, BlocksOfIs
  <2> QED BY <1>7, <1>9, <1>10, <2>1
<1>12. Accumulated(x, e + BlocksOf(l), n, t, l)
  <2>1. CASE r = 0 BY <1>8, <1>9, <1>10, <1>11, <2>1 DEF x
  <2>2. CASE r # 0
    <3>1. LastBlock = Padded(t, l, s)
      <4>1. ASSUME NEW k \in Block0
            PROVE  (IF k < boff THEN auth.cbuf[k] ELSE 0) = (IF s + k < l THEN t[s + k] ELSE 0)
        <5>1. k \in Nat BY <1>7 DEF Block0
        <5>2. k < boff <=> s + k < l BY <1>9, <5>1
        <5>3. s + k < l => s + k \in Nat /\ s + k < MaxLen BY <1>2, <1>7, <5>1
        <5> QED BY <1>7, <1>8, <5>2, <5>3
      <4> QED BY <4>1 DEF LastBlock, Padded
    <3>2. HashedBlock(n, t, l, e + q) = Padded(t, l, s)
      <4>1. PICK j \in Nat : j = 0 OBVIOUS
      <4>2. s % cf.blksize = 0 BY <1>7, <1>8
      <4>3. HashedBlock(n, t, l, BlocksOf(n) + (s \div cf.blksize) + j) = Padded(t, l, s + j * cf.blksize)
        BY <1>2, <4>2, TextBlock
      <4>4. BlocksOf(n) + (s \div cf.blksize) + j = e + q /\ s + j * cf.blksize = s
        BY <1>7, <1>10, <4>1
      <4> QED BY <4>3, <4>4
    <3>3. Accumulated(hash(auth.x, HashedBlock(n, t, l, e + q)), (e + q) + 1, n, t, l)
      <4>1. e + q \in Nat /\ Accumulated(auth.x, e + q, n, t, l) BY <1>8, <1>10
      <4> QED BY <1>1, <1>2, <4>1, AccumulatedNext
    <3>4. (e + q) + 1 = e + BlocksOf(l) BY <1>11, <2>2
    <3>5. x = hash(auth.x, LastBlock) BY <1>9, <2>2 DEF x
    <3> QED BY <3>1, <3>2, <3>3, <3>4, <3>5
  <2> QED BY <2>1, <2>2
<1>13. /\ GHash(BlocksOf(n) + BlocksOf(l) + 1, TagBlocks(n, t, l)) = y
       /\ y \in Blocks
  <2>1. y = hash(x, LenBlock(n, l)) BY <1>2, <1>7 DEF y
  <2> QED BY <1>1, <1>2, <1>10, <1>12, <2>1, HashedIs
<1>14. z = XorBlock(y, Enc(J0))
  <2>1. \A k \in Block0 : At(w, 0)[k] = Enc(J0)[k]
    <3> TAKE k \in Block0
    <3>1. k \in Cells /\ k < cf.blksize /\ 0 + k = k BY <1>2, Parameters DEF Block0, Cells
    <3>2. buf \in [Cells -> Byte] BY <1>2 DEF Data, Area
    <3>3. w[k] = Enc(J0)[k] BY <1>2, <3>1, <3>2 DEF w, Over
    <3> QED BY <3>1, <3>3 DEF At
  <2> QED BY <2>1 DEF z, XorBlock
<1>15. z = Expected(n, t, l) BY <1>13, <1>14 DEF Expected
<1>16. tag' = [k \in 0 .. cf.taglen - 1 |-> Expected(n, t, l)[k]] BY <1>5, <1>6, <1>15
<1>17. Expected(auth.alen, Ciphertext, pos)' = Expected(n, t, l)
  <2>1. Expected(n, t, l)' = Expected(n, t, l) BY <1>5, ExpectedKept
  <2>2. Ciphertext' = t BY <1>5, <1>7 DEF Ciphertext, Cipher
  <2>3. Expected(auth.alen, Ciphertext, pos)' = Expected(n, t, l)'
    BY <1>5, <1>6, <1>7, <2>2
  <2> QED BY <2>1, <2>3
<1>18. (pc = "done" /\ clean = 1 =>
          tag = [k \in 0 .. cf.taglen - 1 |-> Expected(auth.alen, Ciphertext, pos)[k]])'
  BY <1>5, <1>16, <1>17
<1> QED BY <1>18, TagIs, PTL
\* Only the final call makes a tag.
LEMMA TagStep == TInv /\ Flow /\ Authentic /\ TagCorrect /\ [Next]_vars => TagCorrect'
<1> SUFFICES ASSUME TInv, Flow, Authentic, TagCorrect, [Next]_vars PROVE TagCorrect' OBVIOUS
<1>1. ASSUME pc' # "done" PROVE TagCorrect' BY <1>1 DEF TagCorrect
<1>2. CASE UNCHANGED vars
  <2>1. /\ cf' = cf /\ dir' = dir /\ iv' = iv /\ ivlen' = ivlen /\ in' = in /\ out' = out
        /\ pos' = pos /\ auth' = auth /\ pc' = pc /\ clean' = clean /\ tag' = tag
    BY <1>2 DEF vars, msgVars
  <2>2. PICK n, t, l, x : n = auth.alen /\ t = Ciphertext /\ l = pos /\ x = Expected(n, t, l) OBVIOUS
  <2>3. Expected(n, t, l)' = x BY <2>1, <2>2, ExpectedKept
  <2>4. Ciphertext' = t BY <2>1, <2>2 DEF Ciphertext, Cipher
  <2>5. Expected(auth.alen, Ciphertext, pos)' = Expected(n, t, l)' BY <2>1, <2>2, <2>4
  <2>6. pc = "done" /\ clean = 1 => tag = [k \in 0 .. cf.taglen - 1 |-> x[k]] BY <2>2, TagIs
  <2>7. (pc = "done" /\ clean = 1 =>
           tag = [k \in 0 .. cf.taglen - 1 |-> Expected(auth.alen, Ciphertext, pos)[k]])'
    BY <2>1, <2>3, <2>5, <2>6
  <2> QED BY <2>7, TagIs, PTL
<1>3. CASE GcmFinal
  <2>1. CASE clean = 1 BY <1>3, <2>1, GcmFinalTag
  <2>2. CASE clean # 1
    <3>1. clean' # 1 BY <1>3, <2>2 DEF GcmFinal
    <3> QED BY <3>1 DEF TagCorrect
  <2> QED BY <2>1, <2>2
<1>4. ASSUME NEW v \in NewIVs, NEW n \in IvLens(cf), SetIv(v, n) PROVE pc' # "done"
  BY <1>4 DEF SetIv, NewMessage
<1>5. CASE Reset
  <2>1. pc' # "done" BY <1>5 DEF Reset, NewMessage
  <2> QED BY <1>1, <2>1
<1>6. CASE Clone
  <2>1. pc' # "done" BY <1>6 DEF Clone
  <2> QED BY <1>1, <2>1
<1>7. ASSUME NEW n \in 0 .. MaxAad, SetData(n) PROVE pc' # "done" BY <1>7 DEF SetData
<1>8. ASSUME NEW n \in 0 .. MaxCall, Refuse(n) PROVE UNCHANGED vars BY <1>8 DEF Refuse
<1>9. ASSUME NEW n \in 0 .. MaxCall, NEW f \in {0, 1}, Call(n, f) PROVE pc' # "done" BY <1>9 DEF Call
<1>10. ASSUME NEW n \in 0 .. MaxFast, FastCall(n) PROVE pc' # "done"
  <2> HIDE DEF HasFast, Wraps
  <2> QED BY <1>10 DEF FastCall
<1>11. CASE Step
  <2>1. ASSUME ~GcmFinal PROVE pc' # "done"
    BY <1>11, <2>1 DEF Step, Head, HeadOutside, Block, Tail, CbcBlock, Return, Done,
         CfbEncryptFast, OfbEncryptFast, CfbDecryptFast, CtrEncryptFast, GcmFast, StreamHead, StreamFast
  <2> QED BY <1>1, <1>3, <2>1
<1> QED BY <1>1, <1>2, <1>3, <1>4, <1>5, <1>6, <1>7, <1>8, <1>9, <1>10, <1>11 DEF Next

----------------------------------------------------------------------------
(* The theorems. *)

\* However a message is cut into calls, plain or fast, every byte between the calls is
\* the one the definition of its mode or stream cipher gives (the encrypt and decrypt
\* functions of cfb.c, ofb.c, ctr.cc, cbc.c, gcm-impl.cc and impl/stream), for every
\* cipher, size of block, iv and message, as long as nothing is done that the code gets
\* wrong.
THEOREM MessagesAreCorrect == Spec => []StreamCorrect
<1>1. Init => TInv /\ Flow BY InitTyped, InitFlow
<1>2. TInv /\ Flow /\ [Next]_vars => (TInv /\ Flow)' BY StepTyped, FlowStep
<1>3. Flow => StreamCorrect BY DEF Flow, Sound, StreamCorrect
<1> QED BY <1>1, <1>2, <1>3, PTL DEF Spec

LEMMA FlowResumable == TInv /\ Flow => Resumable
<1> SUFFICES ASSUME TInv, Flow, clean = 1, pc = "idle", cf.mode # "cbc"
             PROVE  /\ IsStream =>
                         /\ cf.mode # "rc4" => left = (unit - (pos % unit)) % unit
                         /\ \A k \in 0 .. left - 1 :
                              buf[unit - left + k] = Keystream(cf.mode, unit, cf.drop, iv, pos + k)
                    /\ ~IsStream => boff = pos % unit
                    /\ \A k \in Cells : boff # 0 /\ boff <= k /\ k < unit =>
                         buf[k] = Enc(Input(pos - boff))[k]
  BY DEF Resumable
<1>1. PICK f \in Nat : Linked(f) BY DEF Flow, Moving
<1>2. cf \in Configs /\ pos \in Nat /\ left \in Nat
  BY Parameters, SizesAssumption DEF TInv, Data, Positions
<1>3. PICK n \in Nat \ {0} : n = unit BY <1>2, Parameters
<1>4. IsStream => boff = 0 /\ unit = cf.blksize BY <1>2, StreamMode DEF TInv, Calls
<1>5. \A x \in 0 .. n-1 : x % n = x
  <2> TAKE x \in 0 .. n-1
  <2>1. (n*0 + x) % n = x BY Division
  <2> QED BY <2>1
<1>6. n % n = 0
  <2>1. (n*1 + 0) % n = 0 BY Division
  <2> QED BY <2>1
<1>7. CASE cf.mode = "rc4"
  <2>1. IsStream BY <1>7 DEF IsStream, StreamModes
  <2>2. Rc4Is BY <1>1, <1>7 DEF Linked
  <2>3. PICK a \in 0 .. n-1 : a = cf.drop % unit
    <3>1. PICK d \in Nat : d = cf.drop BY <1>2, <1>7, Parameters
    <3>2. d % n \in 0 .. n-1 BY DivisionExists
    <3> QED BY <1>3, <3>1, <3>2
  <2>4. /\ pos + left = n - a
        /\ \A k \in 0 .. n - 1 : a + pos <= k => buf[k] = Keystream("rc4", unit, cf.drop, iv, k - a)
    BY <1>3, <2>2, <2>3 DEF Rc4Is
  <2>5. ASSUME NEW k \in 0 .. left - 1
        PROVE  buf[unit - left + k] = Keystream(cf.mode, unit, cf.drop, iv, pos + k)
    <3>1. PICK j \in 0 .. n - 1 : j = unit - left + k /\ a + pos <= j /\ j - a = pos + k
      BY <1>2, <1>3, <2>3, <2>4
    <3> QED BY <1>7, <2>4, <3>1
  <2> QED BY <1>4, <1>7, <2>1, <2>5
<1>8. CASE cf.mode # "rc4"
  <2>1. /\ f % n = 0 /\ pos <= f /\ f < pos + n /\ BufIs(buf, f, pos)
        /\ IsStream => left = f - pos
        /\ ~IsStream => boff = IF f = pos THEN 0 ELSE pos + n - f
    BY <1>1, <1>3, <1>8, LinkedIs
  <2>2. pos % n = IF f = pos THEN 0 ELSE pos + n - f BY <1>2, <2>1, PlaceInUnit
  <2>3. \A k \in 0 .. n-1 : pos + n <= f + k => buf[k] = Key(f - unit)[k]
    BY <1>3, <2>1 DEF BufIs
  <2>4. CASE IsStream
    <3>1. left = (n - (pos % n)) % n
      <4>1. CASE f = pos
        <5>1. n - 0 = n BY <1>3
        <5>2. left = 0 BY <1>2, <2>1, <2>4, <4>1
        <5> QED BY <1>6, <2>2, <4>1, <5>1, <5>2
      <4>2. CASE f # pos
        <5>1. n - (pos % n) = left /\ left \in 0 .. n-1 BY <1>2, <2>1, <2>2, <2>4, <4>2
        <5> QED BY <1>5, <5>1
      <4> QED BY <4>1, <4>2
    <3>2. ASSUME NEW k \in 0 .. left - 1
          PROVE  buf[unit - left + k] = Keystream(cf.mode, unit, cf.drop, iv, pos + k)
      <4>1. PICK j \in 0 .. n - 1 : j = unit - left + k /\ pos + n <= f + j /\ (f - unit) + j = pos + k
        BY <1>2, <1>3, <2>1, <2>4
      <4>2. buf[j] = Key(f - unit)[j] BY <2>3, <4>1
      <4>3. j \in Block0 BY <1>3, <1>4, <2>4 DEF Block0
      <4>4. Key(f - unit)[j] = Keystream(cf.mode, unit, cf.drop, iv, (f - unit) + j)
        BY <2>4, <4>3 DEF Key
      <4> QED BY <4>1, <4>2, <4>4
    <3> QED BY <1>3, <1>4, <2>4, <3>1, <3>2
  <2>5. CASE ~IsStream
    <3>1. boff = pos % unit BY <1>3, <2>1, <2>2, <2>5
    <3>2. ASSUME NEW k \in Cells, boff # 0, boff <= k, k < unit
          PROVE  buf[k] = Enc(Input(pos - boff))[k]
      <4>1. f # pos /\ boff = pos + n - f /\ pos - boff = f - unit BY <1>2, <1>3, <2>1, <2>5, <3>2
      <4>2. k \in 0 .. n-1 /\ pos + n <= f + k BY <1>2, <1>3, <2>1, <3>2, <4>1 DEF Cells
      <4>3. buf[k] = Key(f - unit)[k] BY <2>3, <4>2
      <4> QED BY <2>5, <4>1, <4>3 DEF Key
    <3> QED BY <2>5, <3>1, <3>2
  <2> QED BY <2>4, <2>5
<1> QED BY <1>7, <1>8

\* Between calls a context can go on where it is: boff, or the count of bytes left of a
\* stream cipher, is the position within the unit, and the buffer holds the keystream
\* of the bytes to come from there on (the fields that cfb.c, ofb.c, ctr.cc, gcm-impl.cc
\* and util.hh keep from one call to the next).
THEOREM ContextsAreResumable == Spec => []Resumable
<1>1. Init => TInv /\ Flow BY InitTyped, InitFlow
<1>2. TInv /\ Flow /\ [Next]_vars => (TInv /\ Flow)' BY StepTyped, FlowStep
<1>3. TInv /\ Flow => Resumable BY FlowResumable
<1> QED BY <1>1, <1>2, <1>3, PTL DEF Spec

\* The tag that gcm_encryptfinal makes and gcm_decryptfinal compares is GHASH of the data
\* and of the ciphertext, filled up to whole blocks, and of their lengths, under the first
\* counter, for every cipher, multiplication, iv, data and message, however the message
\* is cut into calls, plain or fast, as long as nothing is done that the code gets wrong.
THEOREM TagsAreCorrect == Spec => []TagCorrect
<1>1. Init => TInv /\ Flow /\ Authentic BY InitTyped, InitFlow, InitAuthentic
<1>2. Init => TagCorrect BY DEF Init, TagCorrect
<1>3. TInv /\ Flow /\ Authentic /\ [Next]_vars => (TInv /\ Flow /\ Authentic)'
  BY StepTyped, FlowStep, AuthenticStep
<1>4. TInv /\ Flow /\ Authentic /\ TagCorrect /\ [Next]_vars => TagCorrect' BY TagStep
<1> QED BY <1>1, <1>2, <1>3, <1>4, PTL DEF Spec
==============================================================================
