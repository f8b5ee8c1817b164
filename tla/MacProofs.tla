------------------------------ MODULE MacProofs ------------------------------
(***************************************************************************)
(* Theorems about message authentication and key derivation, for any hash  *)
(* and block cipher, and for keys, texts, salts and outputs of any length. *)
(***************************************************************************)
EXTENDS Mac, Buffers

----------------------------------------------------------------------------
(* The shift of a block. *)

\* The shift of a block by one bit, byte by byte, is that of the word.
LEMMA Shifted ==
  ASSUME NEW n \in Nat \ {0}, NEW b \in [1 .. n -> Byte]
  PROVE  shiftleft(b) \in [1 .. n -> Byte] /\ PackBE(shiftleft(b)) = Shl(8*n, PackBE(b), 1)
<1>1. Len(b) = n /\ DOMAIN b = 1 .. n BY FunctionIsSeq
<1>2. \A i \in 1 .. n : b[i] \subseteq 0 .. 7 BY BytesAre
<1>3. ASSUME NEW x \in SUBSET (0 .. 7)
      PROVE  /\ Shl(8, x, 1) \subseteq 0 .. 7 /\ Shr(x, 7) \subseteq {0}
             /\ \A j \in 0 .. 7 : j \in Shl(8, x, 1) <=> j # 0 /\ j - 1 \in x
             /\ 0 \in Shr(x, 7) <=> 7 \in x
  <2>1. \A j \in x : j \in 0 .. 7 OBVIOUS
  <2>2. \A j : j \in Shl(8, x, 1) <=> \E k \in x : k + 1 < 8 /\ j = k + 1 BY DEF Shl
  <2>3. \A j : j \in Shr(x, 7) <=> \E k \in x : k >= 7 /\ j = k - 7 BY DEF Shr
  <2>4. Shl(8, x, 1) \subseteq 0 .. 7 BY <2>1, <2>2
  <2>5. Shr(x, 7) \subseteq {0} BY <2>1, <2>3
  <2>6. \A j \in 0 .. 7 : j \in Shl(8, x, 1) <=> j # 0 /\ j - 1 \in x BY <2>1, <2>2
  <2>7. 0 \in Shr(x, 7) <=> 7 \in x BY <2>1, <2>3
  <2> QED BY <2>4, <2>5, <2>6, <2>7
<1>4. ASSUME NEW i \in 1 .. n
      PROVE  /\ shiftleft(b)[i] \in Byte
             /\ \A j \in 0 .. 7 : j \in shiftleft(b)[i] <=>
                  IF j # 0 THEN j - 1 \in b[i] ELSE i < n /\ 7 \in b[i + 1]
  <2>1. shiftleft(b)[i] = Shl(8, b[i], 1) \union (IF i < n THEN Shr(b[i + 1], 7) ELSE {})
    BY <1>1 DEF shiftleft
  <2>2. b[i] \in SUBSET (0 .. 7) BY <1>2
  <2>3. CASE i < n
    <3>1. i + 1 \in 1 .. n BY <2>3
    <3>2. b[i + 1] \in SUBSET (0 .. 7) BY <1>2, <3>1
    <3>3. shiftleft(b)[i] = Shl(8, b[i], 1) \union Shr(b[i + 1], 7) BY <2>1, <2>3
    <3> QED BY <1>3, <2>2, <2>3, <3>2, <3>3, BytesAre
  <2>4. CASE ~(i < n)
    <3>1. shiftleft(b)[i] = Shl(8, b[i], 1) BY <2>1, <2>4
    <3> QED BY <1>3, <2>2, <2>4, <3>1, BytesAre
  <2> QED BY <2>3, <2>4
<1>5. shiftleft(b) \in [1 .. n -> Byte] BY <1>1, <1>4 DEF shiftleft
<1>6. /\ PackBE(b) \in Word(8*n)
      /\ \A i \in 1 .. n, j \in 0 .. 7 : 8*(n - i) + j \in PackBE(b) <=> j \in b[i]
  BY Packed
<1>7. /\ PackBE(shiftleft(b)) \in Word(8*n)
      /\ \A i \in 1 .. n, j \in 0 .. 7 : 8*(n - i) + j \in PackBE(shiftleft(b)) <=> j \in shiftleft(b)[i]
  BY <1>5, Packed
<1>8. PICK x \in Word(8*n) : x = PackBE(b) BY <1>6
<1>9. x \subseteq 0 .. 8*n - 1 BY DEF Word
<1>10. \A p : p \in Shl(8*n, x, 1) <=> \E k \in x : k + 1 < 8*n /\ p = k + 1 BY DEF Shl
<1>11. Shl(8*n, x, 1) \in Word(8*n) BY <1>9, <1>10 DEF Word
<1>12. \A p \in 0 .. 8*n - 1 : p \in Shl(8*n, x, 1) <=> p - 1 \in x
  <2> SUFFICES ASSUME NEW p \in 0 .. 8*n - 1 PROVE p \in Shl(8*n, x, 1) <=> p - 1 \in x OBVIOUS
  <2>1. p \in Shl(8*n, x, 1) => p - 1 \in x BY <1>9, <1>10
  <2>2. p - 1 \in x => (p - 1) + 1 < 8*n /\ p = (p - 1) + 1 OBVIOUS
  <2>3. p - 1 \in x => p \in Shl(8*n, x, 1) BY <1>10, <2>2
  <2> QED BY <2>1, <2>3
<1>13. ASSUME NEW i \in 1 .. n, NEW j \in 0 .. 7
       PROVE  8*(n - i) + j \in PackBE(shiftleft(b)) <=> 8*(n - i) + j \in Shl(8*n, x, 1)
  <2>1. 8*(n - i) + j \in 0 .. 8*n - 1 BY Place
  <2>2. 8*(n - i) + j \in Shl(8*n, x, 1) <=> 8*(n - i) + j - 1 \in x BY <1>12, <2>1
  <2>3. 8*(n - i) + j \in PackBE(shiftleft(b)) <=> j \in shiftleft(b)[i] BY <1>7
  <2>4. CASE j # 0
    <3>1. j - 1 \in 0 .. 7 /\ 8*(n - i) + (j - 1) = 8*(n - i) + j - 1 BY <2>4
    <3>2. 8*(n - i) + (j - 1) \in x <=> j - 1 \in b[i] BY <1>6, <1>8, <3>1
    <3> QED BY <1>4, <2>2, <2>3, <2>4, <3>1, <3>2
  <2>5. CASE j = 0 /\ i < n
    <3>1. i + 1 \in 1 .. n /\ 7 \in 0 .. 7 /\ 8*(n - (i + 1)) + 7 = 8*(n - i) + j - 1 BY <2>5
    <3>2. 8*(n - (i + 1)) + 7 \in x <=> 7 \in b[i + 1] BY <1>6, <1>8, <3>1
    <3> QED BY <1>4, <2>2, <2>3, <2>5, <3>1, <3>2
  <2>6. CASE j = 0 /\ ~(i < n)
    <3>1. 8*(n - i) + j - 1 = -1 BY <2>6
    <3>2. -1 \notin x BY <1>9
    <3> QED BY <1>4, <2>2, <2>3, <2>6, <3>1, <3>2
  <2> QED BY <2>4, <2>5, <2>6
<1>14. PackBE(shiftleft(b)) = Shl(8*n, x, 1)
  <2>1. PICK y \in Word(8*n), z \in Word(8*n) : y = PackBE(shiftleft(b)) /\ z = Shl(8*n, x, 1)
    BY <1>7, <1>11
  <2>2. \A i \in 1 .. n, j \in 0 .. 7 : 8*(n - i) + j \in y <=> 8*(n - i) + j \in z BY <1>13, <2>1
  <2> QED BY <2>1, <2>2, SameWord
<1> QED BY <1>5, <1>8, <1>14

\* A byte added to the last one of a block is added to the word.
LEMMA LastXored ==
  ASSUME NEW n \in Nat \ {0}, NEW b \in [1 .. n -> Byte], NEW r \in Byte
  PROVE  /\ [b EXCEPT ![n] = Xor(@, r)] \in [1 .. n -> Byte] /\ r \in Word(8*n)
         /\ PackBE([b EXCEPT ![n] = Xor(@, r)]) = Xor(PackBE(b), r)
<1> DEFINE c == [b EXCEPT ![n] = Xor(@, r)]
<1>1. n \in 1 .. n /\ r \subseteq 0 .. 7 /\ b[n] \in Byte BY BytesAre
<1>2. Xor(b[n], r) \in Byte BY <1>1, XorByte
<1>3. c \in [1 .. n -> Byte] /\ c[n] = Xor(b[n], r) /\ \A i \in 1 .. n : i # n => c[i] = b[i]
  BY <1>1, <1>2
<1>4. r \in Word(8*n) BY <1>1 DEF Word
<1> HIDE DEF c
<1>5. /\ PackBE(b) \in Word(8*n)
      /\ \A i \in 1 .. n, j \in 0 .. 7 : 8*(n - i) + j \in PackBE(b) <=> j \in b[i]
  BY Packed
<1>6. /\ PackBE(c) \in Word(8*n)
      /\ \A i \in 1 .. n, j \in 0 .. 7 : 8*(n - i) + j \in PackBE(c) <=> j \in c[i]
  BY <1>3, Packed
<1>7. /\ Xor(PackBE(b), r) \in Word(8*n)
      /\ \A p : p \in Xor(PackBE(b), r) <=> ~(p \in PackBE(b) <=> p \in r)
  BY <1>4, <1>5, XorWords
<1>8. ASSUME NEW i \in 1 .. n, NEW j \in 0 .. 7
      PROVE  8*(n - i) + j \in PackBE(c) <=> 8*(n - i) + j \in Xor(PackBE(b), r)
  <2>1. CASE i = n
    <3>1. 8*(n - i) + j = j BY <2>1
    <3>2. j \in c[i] <=> ~(j \in b[i] <=> j \in r) BY <1>3, <2>1 DEF Xor
    <3> QED BY <1>5, <1>6, <1>7, <3>1, <3>2
  <2>2. CASE i # n
    <3>1. 8*(n - i) + j > 7 BY <2>2
    <3>2. 8*(n - i) + j \notin r BY <1>1, <3>1
    <3>3. c[i] = b[i] BY <1>3, <2>2
    <3> QED BY <1>5, <1>6, <1>7, <3>2, <3>3
  <2> QED BY <2>1, <2>2
<1>9. PackBE(c) = Xor(PackBE(b), r)
  <2>1. PICK y \in Word(8*n), z \in Word(8*n) : y = PackBE(c) /\ z = Xor(PackBE(b), r)
    BY <1>6, <1>7
  <2>2. \A i \in 1 .. n, j \in 0 .. 7 : 8*(n - i) + j \in y <=> 8*(n - i) + j \in z BY <1>8, <2>1
  <2> QED BY <2>1, <2>2, SameWord
<1> QED BY <1>3, <1>4, <1>9 DEF c

----------------------------------------------------------------------------
(* The hash and the cipher. *)

LEMMA DigestIs ==
  ASSUME NEW t
  PROVE  /\ Digest(t) \in [1 .. DigestSize -> Byte] /\ Digest(t) \in Seq(Byte)
         /\ Len(Digest(t)) = DigestSize
<1>1. \A x : x \cap Ones(8) \in Byte
  <2>1. Ones(8) = 0 .. 7 BY 8-1 = 7 DEF Ones
  <2> QED BY <2>1, BytesAre
<1>2. Digest(t) = [i \in 1 .. DigestSize |-> Hashed(t)[i] \cap Ones(8)] BY DEF Digest
<1>3. Digest(t) \in [1 .. DigestSize -> Byte] BY <1>1, <1>2
<1>4. DigestSize \in Nat BY SizesAssumption
<1> QED BY <1>3, <1>4, FunctionIsSeq

LEMMA CipherIs ==
  ASSUME NEW n \in Nat, NEW key, NEW b \in [1 .. n -> Byte]
  PROVE  Cipher(key, b) \in [1 .. n -> Byte]
<1>1. \A x : x \cap Ones(8) \in Byte
  <2>1. Ones(8) = 0 .. 7 BY 8-1 = 7 DEF Ones
  <2> QED BY <2>1, BytesAre
<1>2. Cipher(key, b) = [i \in 1 .. n |-> Enciphered(key, b)[i] \cap Ones(8)] BY DEF Cipher
<1> QED BY <1>1, <1>2

\* The cipher on words, as the definition of CMAC has it.
E(n, key, x) == PackBE(Cipher(key, UnpackBE(n, x)))

LEMMA CipherPacked ==
  ASSUME NEW n \in Nat \ {0}, NEW key
  PROVE  /\ \A x \in Word(8*n) : E(n, key, x) \in Word(8*n)
         /\ \A b \in [1 .. n -> Byte] : E(n, key, PackBE(b)) = PackBE(Cipher(key, b))
<1>1. ASSUME NEW x \in Word(8*n) PROVE E(n, key, x) \in Word(8*n)
  <2>1. UnpackBE(n, x) \in [1 .. n -> Byte] BY Unpacked
  <2>2. Cipher(key, UnpackBE(n, x)) \in [1 .. n -> Byte] BY <2>1, CipherIs
  <2> QED BY <2>2, Packed DEF E
<1>2. ASSUME NEW b \in [1 .. n -> Byte] PROVE E(n, key, PackBE(b)) = PackBE(Cipher(key, b))
  BY PackedBack DEF E
<1> QED BY <1>1, <1>2

LEMMA ZeroBlock ==
  ASSUME NEW n \in Nat \ {0}
  PROVE  {} \in Word(8*n) /\ UnpackBE(n, {}) = Zeros(n) /\ PackBE(Zeros(n)) = {}
<1>1. {} \in Word(8*n) BY DEF Word
<1>2. UnpackBE(n, {}) \in [1 .. n -> Byte] /\ \A i \in 1 .. n, j \in 0 .. 7 : j \notin UnpackBE(n, {})[i]
  BY <1>1, Unpacked
<1>3. \A i \in 1 .. n : UnpackBE(n, {})[i] \subseteq 0 .. 7 BY <1>2, BytesAre
<1>4. \A i \in 1 .. n : UnpackBE(n, {})[i] = {} BY <1>2, <1>3
<1>5. UnpackBE(n, {}) = Zeros(n) BY <1>2, <1>4 DEF Zeros, Zero
<1>6. PackBE(UnpackBE(n, {})) = {} BY <1>1, UnpackedBack
<1> QED BY <1>1, <1>5, <1>6

----------------------------------------------------------------------------
(* The subkeys of CMAC. *)

Rb(n) == IF n = 16 THEN {0, 1, 2, 7} ELSE {0, 1, 3, 4}
Doubled(n, b, carry) == [shiftleft(b) EXCEPT ![n] = IF carry THEN Xor(@, Rb(n)) ELSE @]

\* shiftleft and the conditional addition multiply by x in the field.
LEMMA Doubling ==
  ASSUME NEW n \in {8, 16}, NEW b \in [1 .. n -> Byte], NEW carry \in BOOLEAN,
         carry <=> 8*n - 1 \in PackBE(b)
  PROVE  /\ Doubled(n, b, carry) \in [1 .. n -> Byte]
         /\ PackBE(Doubled(n, b, carry)) = TimesX(n, PackBE(b))
         /\ 8*n - 1 \in PackBE(Doubled(n, b, carry)) <=> 8*n - 2 \in PackBE(b)
<1>1. n \in Nat \ {0} OBVIOUS
<1>2. Rb(n) \in Byte /\ {} \in Byte BY BytesAre DEF Rb
<1>3. shiftleft(b) \in [1 .. n -> Byte] /\ PackBE(shiftleft(b)) = Shl(8*n, PackBE(b), 1) BY <1>1, Shifted
<1>4. PICK r \in Byte : r = IF carry THEN Rb(n) ELSE {} BY <1>2
<1>5. Doubled(n, b, carry) = [shiftleft(b) EXCEPT ![n] = Xor(@, r)]
  <2>1. CASE carry BY <1>4, <2>1 DEF Doubled
  <2>2. CASE ~carry
    <3>1. Xor(shiftleft(b)[n], {}) = shiftleft(b)[n] BY DEF Xor
    <3>2. Doubled(n, b, carry) = [shiftleft(b) EXCEPT ![n] = @] BY <2>2 DEF Doubled
    <3> QED BY <1>4, <2>2, <3>1, <3>2
  <2> QED BY <2>1, <2>2
<1>6. /\ Doubled(n, b, carry) \in [1 .. n -> Byte] /\ r \in Word(8*n)
      /\ PackBE(Doubled(n, b, carry)) = Xor(Shl(8*n, PackBE(b), 1), r)
  <2>1. PICK a \in [1 .. n -> Byte] : a = shiftleft(b) /\ PackBE(a) = Shl(8*n, PackBE(b), 1) BY <1>3
  <2>2. /\ [a EXCEPT ![n] = Xor(@, r)] \in [1 .. n -> Byte] /\ r \in Word(8*n)
        /\ PackBE([a EXCEPT ![n] = Xor(@, r)]) = Xor(PackBE(a), r)
    BY <1>1, LastXored
  <2>3. Doubled(n, b, carry) = [a EXCEPT ![n] = Xor(@, r)] BY <1>5, <2>1
  <2> QED BY <2>1, <2>2, <2>3
<1>7. TimesX(n, PackBE(b)) = Xor(Shl(8*n, PackBE(b), 1), r) BY <1>4 DEF TimesX, Rb
<1>8. 8*n - 1 \in PackBE(Doubled(n, b, carry)) <=> 8*n - 2 \in PackBE(b)
  <2>1. r \subseteq 0 .. 7 BY BytesAre
  <2>2. 8*n - 1 \notin r BY <2>1
  <2>3. PackBE(b) \subseteq 0 .. 8*n - 1 BY <1>1, Packed DEF Word
  <2>4. 8*n - 1 \in Shl(8*n, PackBE(b), 1) <=> 8*n - 2 \in PackBE(b)
    <3>1. \A p : p \in Shl(8*n, PackBE(b), 1) <=> \E k \in PackBE(b) : k + 1 < 8*n /\ p = k + 1
      BY DEF Shl
    <3>2. \A k \in PackBE(b) : 8*n - 1 = k + 1 => k = 8*n - 2 BY <2>3
    <3>3. 8*n - 2 + 1 < 8*n /\ 8*n - 1 = 8*n - 2 + 1 OBVIOUS
    <3> QED BY <3>1, <3>2, <3>3
  <2>5. 8*n - 1 \in Xor(Shl(8*n, PackBE(b), 1), r) <=> 8*n - 1 \in Shl(8*n, PackBE(b), 1)
    BY <2>2 DEF Xor
  <2> QED BY <1>6, <2>4, <2>5
<1> QED BY <1>6, <1>7, <1>8

----------------------------------------------------------------------------
(* The invariant. *)

Bytes(n) == [1 .. n -> Byte]

\* The contexts of each plugin.
Hmacs == [kind : {"HMAC"}, outside : Seq(Byte), inside : Seq(Byte), keybuf : Seq(Byte), taglen : Nat]
IsHmacContext(c) == c \in Hmacs /\ Len(c.keybuf) <= BlkSize /\ c.taglen <= DigestSize
Cmacs(k) ==
    [kind : {k}, blksize : {Blk(k)}, key : Seq(Byte), buf : Bytes(Blk(k)), hash : Bytes(Blk(k)),
     k1 : Bytes(Blk(k)), k2 : Bytes(Blk(k)), boff : 0 .. BUFFER_SIZE, nonzero_len : BOOLEAN,
     taglen : 0 .. Blk(k)]
Pbkdfs ==
    [kind : {"PBKDF2"}, prf : Hmacs, home : Slots, freed : BOOLEAN, salt : Seq(Byte), count : Nat]
Tlss == [kind : {"TLS"}, prf : Hmacs]
Typed(k, c) ==
    /\ k \in {"HMAC", "HMAC-KDF"} => IsHmacContext(c)
    /\ k \in {"CMAC8", "CMAC16"} => c \in Cmacs(k)
    /\ k = "PBKDF2" => c \in Pbkdfs /\ IsHmacContext(c.prf)
    /\ k = "TLS" => c \in Tlss /\ IsHmacContext(c.prf)
Requests == [key : Seq(Byte), text : Seq(Byte), salt : Seq(Byte), ok : BOOLEAN]

TInv ==
    /\ kind \in Kinds /\ calls \in 0 .. MaxCalls(kind) /\ undefined \in BOOLEAN
    /\ ctx = [s \in Slots |-> ctx[s]] /\ asked \in [Slots -> Requests]
    /\ \A s \in Slots : ctx[s] # None => Typed(kind, ctx[s])

\* The hashes of an HMAC context hold the pads of the key and the text so far.
KeyOf(key) == IF Len(key) > BlkSize THEN Digest(key) ELSE key
Keyed(c, a) ==
    a.key # NoKey =>
        /\ c.keybuf = KeyOf(a.key)
        /\ a.ok => /\ c.outside = KeyPad(Opad, KeyOf(a.key))
                   /\ c.inside = KeyPad(Ipad, KeyOf(a.key)) \o a.text

\* What has become of the sum a of a CMAC context after each of the first k blocks
\* of the text t.
Sums(n, key, a, t, k) ==
    LET h[i \in 0 .. k] ==
            IF i = 0 THEN a
            ELSE Cipher(key, XorSeq(h[i - 1], SubSeq(t, n*(i-1) + 1, n*i)))
    IN  h

\* It has the blocks of the text that another byte follows; the rest of the text,
\* a whole block perhaps, is in the buffer.
Done(n, t) == IF t = <<>> THEN 0 ELSE (Len(t) - 1) \div n
Holds(n, c, a, t) ==
    LET q == Done(n, t)
        r == Len(t) - n*q
    IN  /\ c.boff = r \/ (r = n /\ c.boff = BUFFER_SIZE)
        /\ \A j \in 1 .. r : c.buf[j] = t[n*q + j]
        /\ c.hash = Sums(n, c.key, a, t, q)[q]
Chained(n, c, t) == (c.nonzero_len <=> t # <<>>) /\ Holds(n, c, Zeros(n), t)
Summed(n, c, a) ==
    /\ c.key = a.key
    /\ a.key # NoKey => /\ PackBE(c.k1) = TimesX(n, E(n, a.key, {}))
                        /\ PackBE(c.k2) = TimesX(n, TimesX(n, E(n, a.key, {})))
    /\ a.ok => Chained(n, c, a.text)

\* What a context holds of what its client asked for.
Follows(k, c, a) ==
    /\ k \in {"HMAC", "HMAC-KDF"} => Keyed(c, a)
    /\ k = "TLS" => Keyed(c.prf, a) /\ c.prf.taglen = DigestSize
    /\ k \in {"HMAC-KDF", "TLS"} => a.text = <<>>
    /\ k = "HMAC-KDF" => c.taglen = DigestSize
    /\ k = "PBKDF2" => c.prf.taglen = DigestSize /\ c.salt = SubSeq(a.salt, 1, Len(a.salt) % 256)
    /\ k \in {"CMAC8", "CMAC16"} => Summed(Blk(k), c, a)

IInv == /\ TInv
        /\ \A s \in Slots : ctx[s] # None => Follows(kind, ctx[s], asked[s])
        /\ MacCorrect /\ KdfCorrect

LEMMA BlkIs ==
  ASSUME NEW k
  PROVE  Blk(k) \in {8, 16} /\ Blk(k) \in Nat \ {0} /\ (k = "CMAC8" => Blk(k) = 8) /\ (k = "CMAC16" => Blk(k) = 16)
BY DEF Blk

\* cmac_subkeys keeps the context and makes the two subkeys of the definition.
LEMMA Subkeys ==
  ASSUME NEW k \in {"CMAC8", "CMAC16"}, NEW c \in Cmacs(k), NEW key \in Seq(Byte)
  PROVE  /\ cmac_subkeys(c, key) \in Cmacs(k)
         /\ cmac_subkeys(c, key).key = key
         /\ PackBE(cmac_subkeys(c, key).k1) = TimesX(Blk(k), E(Blk(k), key, {}))
         /\ PackBE(cmac_subkeys(c, key).k2) = TimesX(Blk(k), TimesX(Blk(k), E(Blk(k), key, {})))
         /\ \A f \in {"buf", "hash", "boff", "nonzero_len", "taglen"} : cmac_subkeys(c, key)[f] = c[f]
<1> DEFINE n == Blk(k)
           k0 == Cipher(key, Zeros(n))
           k1 == Doubled(n, k0, 7 \in k0[1])
           k2 == Doubled(n, k1, 6 \in k0[1])
<1>1. n \in {8, 16} /\ n \in Nat \ {0} /\ c.blksize = n BY BlkIs DEF Cmacs
<1>2. cmac_subkeys(c, key) = [c EXCEPT !.key = key, !.k1 = k1, !.k2 = k2]
  BY <1>1 DEF cmac_subkeys, Doubled, Rb
<1> HIDE DEF n
<1>3. Zeros(n) \in [1 .. n -> Byte]
  <2>1. Zeros(n) = [i \in 1 .. n |-> {}] BY DEF Zeros, Zero
  <2> QED BY <2>1, BytesAre
<1>4. k0 \in [1 .. n -> Byte] BY <1>1, <1>3, CipherIs
<1>5. PackBE(k0) = E(n, key, {})
  <2>1. PICK z \in [1 .. n -> Byte] : z = Zeros(n) BY <1>3
  <2>2. E(n, key, PackBE(z)) = PackBE(Cipher(key, z)) BY <1>1, CipherPacked
  <2>3. PackBE(z) = {} BY <1>1, <2>1, ZeroBlock
  <2> QED BY <2>1, <2>2, <2>3
<1> HIDE DEF k0
<1>6. (7 \in k0[1] <=> 8*n - 1 \in PackBE(k0)) /\ (6 \in k0[1] <=> 8*n - 2 \in PackBE(k0))
  <2>1. \A i \in 1 .. n, j \in 0 .. 7 : 8*(n - i) + j \in PackBE(k0) <=> j \in k0[i] BY <1>1, <1>4, Packed
  <2>2. 1 \in 1 .. n /\ 7 \in 0 .. 7 /\ 6 \in 0 .. 7 /\ 8*(n - 1) + 7 = 8*n - 1 /\ 8*(n - 1) + 6 = 8*n - 2
    BY <1>1
  <2>3. (8*(n - 1) + 7 \in PackBE(k0) <=> 7 \in k0[1]) /\ (8*(n - 1) + 6 \in PackBE(k0) <=> 6 \in k0[1])
    BY <2>1, <2>2
  <2> QED BY <2>2, <2>3
<1>7. /\ k1 \in [1 .. n -> Byte] /\ PackBE(k1) = TimesX(n, PackBE(k0))
      /\ 8*n - 1 \in PackBE(k1) <=> 8*n - 2 \in PackBE(k0)
  <2>1. PICK carry \in BOOLEAN : carry <=> 7 \in k0[1] BY TRUE \in BOOLEAN, FALSE \in BOOLEAN
  <2>2. carry <=> 8*n - 1 \in PackBE(k0) BY <1>6, <2>1
  <2>3. /\ Doubled(n, k0, carry) \in [1 .. n -> Byte]
        /\ PackBE(Doubled(n, k0, carry)) = TimesX(n, PackBE(k0))
        /\ 8*n - 1 \in PackBE(Doubled(n, k0, carry)) <=> 8*n - 2 \in PackBE(k0)
    BY <1>1, <1>4, <2>2, Doubling
  <2>4. k1 = Doubled(n, k0, carry) BY <2>1 DEF Doubled
  <2> QED BY <2>3, <2>4
<1>8. k2 \in [1 .. n -> Byte] /\ PackBE(k2) = TimesX(n, PackBE(k1))
  <2>1. PICK carry \in BOOLEAN : carry <=> 6 \in k0[1] BY TRUE \in BOOLEAN, FALSE \in BOOLEAN
  <2>2. carry <=> 8*n - 1 \in PackBE(k1) BY <1>6, <1>7, <2>1
  <2>3. PICK x \in [1 .. n -> Byte] : x = k1 BY <1>7
  <2>4. /\ Doubled(n, x, carry) \in [1 .. n -> Byte]
        /\ PackBE(Doubled(n, x, carry)) = TimesX(n, PackBE(x))
    BY <1>1, <2>2, <2>3, Doubling
  <2>5. k2 = Doubled(n, x, carry) BY <2>1, <2>3 DEF Doubled
  <2> QED BY <2>3, <2>4, <2>5
<1> HIDE DEF k1, k2
<1>9. cmac_subkeys(c, key) \in Cmacs(k) BY <1>2, <1>7, <1>8 DEF Cmacs, Bytes, n
<1>10. /\ cmac_subkeys(c, key).key = key /\ cmac_subkeys(c, key).k1 = k1 /\ cmac_subkeys(c, key).k2 = k2
       /\ \A f \in {"buf", "hash", "boff", "nonzero_len", "taglen"} : cmac_subkeys(c, key)[f] = c[f]
  BY <1>2 DEF Cmacs
<1> QED BY <1>5, <1>7, <1>8, <1>9, <1>10 DEF n

----------------------------------------------------------------------------
(* The sum of the blocks of a text. *)

Block(n, t, i) == SubSeq(t, n*(i-1) + 1, n*i)
Sum(n, key, a, t, k) == Sums(n, key, a, t, k)[k]

\* The first k blocks of n bytes are there.
Has(n, t, k) == n*k <= Len(t)

LEMMA BlockIs ==
  ASSUME NEW n \in Nat \ {0}, NEW t \in Seq(Byte), NEW i \in Nat \ {0}, Has(n, t, i)
  PROVE  Block(n, t, i) \in Bytes(n) /\ \A j \in 1 .. n : Block(n, t, i)[j] = t[n*(i-1) + j]
<1>1. n*(i-1) \in Nat /\ n*i \in Nat /\ n*i = n*(i-1) + n BY TimesMonotonic
<1>2. PICK p \in Nat : p = n*(i-1) /\ n*i = p + n BY <1>1
<1>3. /\ SubSeq(t, p + 1, p + n) \in Seq(Byte) /\ Len(SubSeq(t, p + 1, p + n)) = (p + n) - (p + 1) + 1
      /\ \A j \in 1 .. (p + n) - (p + 1) + 1 : SubSeq(t, p + 1, p + n)[j] = t[(p + 1) + j - 1]
  <2>1. PICK a \in Nat \ {0}, b \in Nat : a = p + 1 /\ b = p + n /\ a <= b + 1 /\ b <= Len(t) BY <1>2 DEF Has
  <2>2. /\ SubSeq(t, a, b) \in Seq(Byte) /\ Len(SubSeq(t, a, b)) = b - a + 1
        /\ \A j \in 1 .. b - a + 1 : SubSeq(t, a, b)[j] = t[a + j - 1]
    BY <2>1, PartOf
  <2> QED BY <2>1, <2>2
<1>4. (p + n) - (p + 1) + 1 = n /\ \A j \in 1 .. n : (p + 1) + j - 1 = p + j BY <1>2
<1>5. Block(n, t, i) = SubSeq(t, p + 1, p + n) BY <1>2 DEF Block
<1>6. Block(n, t, i) \in [1 .. n -> Byte] BY <1>3, <1>4, <1>5, SeqIsFunction
<1> QED BY <1>2, <1>3, <1>4, <1>5, <1>6 DEF Bytes

AreSums(h, n, key, a, t, k) ==
    /\ h[0] = a
    /\ \A i \in 1 .. k : h[i] = Cipher(key, XorSeq(h[i-1], Block(n, t, i)))
    /\ \A i \in 0 .. k : h[i] \in Bytes(n)

LEMMA SumsAre ==
  ASSUME NEW n \in Nat \ {0}, NEW key, NEW a \in Bytes(n), NEW t \in Seq(Byte), NEW k \in Nat, Has(n, t, k)
  PROVE  AreSums(Sums(n, key, a, t, k), n, key, a, t, k)
<1> DEFINE G == [e \in Bytes(n) \X (1 .. k) |-> Cipher(key, XorSeq(e[1], Block(n, t, e[2])))]
           Is(f) == f = [i \in 0 .. k |-> IF i = 0 THEN a ELSE Cipher(key, XorSeq(f[i-1], Block(n, t, i)))]
           h == CHOOSE f : Is(f)
<1>1. \A i \in 1 .. k : \A x \in Bytes(n) : G[<<x, i>>] = Cipher(key, XorSeq(x, Block(n, t, i))) OBVIOUS
<1>2. ASSUME NEW i \in 1 .. k, NEW x \in Bytes(n) PROVE Cipher(key, XorSeq(x, Block(n, t, i))) \in Bytes(n)
  <2>1. Has(n, t, i)
    <3>1. n*i \in Int /\ n*k \in Int /\ n*i <= n*k BY TimesMonotonic
    <3> QED BY <3>1, LenProperties DEF Has
  <2>2. PICK b \in [1 .. n -> Byte] : b = Block(n, t, i) BY <2>1, BlockIs DEF Bytes
  <2>3. XorSeq(x, b) \in [1 .. n -> Byte] BY XorBlocks DEF Bytes
  <2> QED BY <2>2, <2>3, CipherIs DEF Bytes
<1>3. StepsIn(k, Bytes(n), G) BY <1>1, <1>2 DEF StepsIn
<1>a. Sums(n, key, a, t, k) = h BY DEF Sums, Block
<1> HIDE DEF G
<1>5. PICK f \in [0 .. k -> Bytes(n)] : Recursive(f, k, a, G) BY <1>3, Recursion
<1>6. Is(f)
  <2>1. \A i \in 1 .. k : f[i-1] \in Bytes(n) BY <1>5
  <2>2. \A i \in 0 .. k : f[i] = IF i = 0 THEN a ELSE Cipher(key, XorSeq(f[i-1], Block(n, t, i)))
    BY <1>1, <1>5, <2>1 DEF Recursive
  <2> QED BY <1>5, <2>2
<1>7. Is(h) BY <1>6
<1> HIDE DEF h
<1>8. h[0] = a /\ \A i \in 1 .. k : h[i] = Cipher(key, XorSeq(h[i-1], Block(n, t, i))) BY <1>7
<1>9. h = [i \in 0 .. k |-> h[i]] BY <1>7
<1>10. \A i \in 1 .. k : h[i-1] \in Bytes(n) => h[i] \in Bytes(n) BY <1>2, <1>8
<1> HIDE DEF Is
<1>11. h[0] \in Bytes(n) BY <1>8
<1>12. h \in [0 .. k -> Bytes(n)] BY <1>9, <1>10, <1>11, TypedRecursion
<1> QED BY <1>a, <1>8, <1>12 DEF AreSums

SameFirst(l, t, x) == \A p \in 1 .. l : t[p] = x[p]
SameSums(k, h, g) == \A i \in 0 .. k : h[i] = g[i]

\* It is that of the first n*k bytes.
LEMMA SamePrefix ==
  ASSUME NEW n \in Nat \ {0}, NEW key, NEW a \in Bytes(n), NEW t \in Seq(Byte), NEW x \in Seq(Byte),
         NEW k \in Nat, NEW m \in Nat, k <= m, Has(n, t, k), Has(n, x, m),
         SameFirst(n*k, t, x)
  PROVE  SameSums(k, Sums(n, key, a, t, k), Sums(n, key, a, x, m))
<1> DEFINE A == Sums(n, key, a, t, k)
           B == Sums(n, key, a, x, m)
           T == {i \in 0 .. k : A[i] = B[i]}
<1>1. AreSums(A, n, key, a, t, k) BY SumsAre
<1>2. AreSums(B, n, key, a, x, m) BY SumsAre
<1> HIDE DEF A, B
<1>3. ASSUME NEW i \in 1 .. k PROVE Block(n, t, i) = Block(n, x, i)
  <2>1. /\ n*i \in Int /\ n*k \in Int /\ n*i <= n*k /\ n*(i-1) \in Nat /\ n*i = n*(i-1) + n
    BY TimesMonotonic
  <2>2. n*k \in Int /\ n*m \in Int /\ n*k <= n*m BY TimesMonotonic
  <2>3. Has(n, t, i) /\ Has(n, x, i) BY <2>1, <2>2, LenProperties DEF Has
  <2>4. Block(n, t, i) \in Bytes(n) /\ \A j \in 1 .. n : Block(n, t, i)[j] = t[n*(i-1) + j] BY <2>3, BlockIs
  <2>5. Block(n, x, i) \in Bytes(n) /\ \A j \in 1 .. n : Block(n, x, i)[j] = x[n*(i-1) + j] BY <2>3, BlockIs
  <2>6. \A j \in 1 .. n : n*(i-1) + j \in 1 .. n*k BY <2>1
  <2>7. \A j \in 1 .. n : Block(n, t, i)[j] = Block(n, x, i)[j] BY <2>4, <2>5, <2>6 DEF SameFirst
  <2> QED BY <2>4, <2>5, <2>7 DEF Bytes
<1>4. 0 \in T BY <1>1, <1>2 DEF AreSums
<1>5. ASSUME NEW i \in 0 .. k-1, i \in T PROVE i+1 \in T
  <2>1. i+1 \in 1 .. k /\ i+1 \in 1 .. m /\ (i+1)-1 = i OBVIOUS
  <2>2. A[i+1] = Cipher(key, XorSeq(A[i], Block(n, t, i+1))) /\ B[i+1] = Cipher(key, XorSeq(B[i], Block(n, x, i+1)))
    BY <1>1, <1>2, <2>1 DEF AreSums
  <2>3. Block(n, t, i+1) = Block(n, x, i+1) BY <1>3, <2>1
  <2> QED BY <1>5, <2>1, <2>2, <2>3
<1>6. \A i \in 0 .. k : i \in T
  <2> HIDE DEF T
  <2> QED BY <1>4, <1>5, Inductive
<1> QED BY <1>6 DEF A, B, SameSums

LEMMA SameBytes ==
  ASSUME NEW n \in Nat, NEW x \in Bytes(n), NEW y \in Bytes(n), SameFirst(n, x, y)
  PROVE  x = y
BY DEF Bytes, SameFirst

\* memcpy of d into a buffer.
LEMMA Put ==
  ASSUME NEW n \in Nat, NEW b \in Bytes(n), NEW o \in 0 .. n, NEW d \in Seq(Byte), o + Len(d) <= n
  PROVE  /\ Splice(b, o, d) \in Bytes(n)
         /\ SameFirst(o, b, Splice(b, o, d))
         /\ \A j \in 1 .. Len(d) : Splice(b, o, d)[o + j] = d[j]
<1>1. PICK l \in Nat : l = Len(d) /\ o + l <= n BY LenProperties
<1>2. /\ Over(b, o, d) \in [1 .. n -> Byte]
      /\ \A i \in 1 .. n : Over(b, o, d)[i] = IF i <= o \/ i > o + Len(d) THEN b[i] ELSE d[i - o]
  BY Overwritten DEF Bytes
<1>3. Splice(b, o, d) = Over(b, o, d) BY DEF Splice, Over
<1>4. \A j \in 1 .. o : j \in 1 .. n /\ j <= o BY <1>1
<1>5. \A j \in 1 .. l : o + j \in 1 .. n /\ ~(o + j <= o \/ o + j > o + l) /\ (o + j) - o = j BY <1>1
<1>6. SameFirst(o, b, Splice(b, o, d)) BY <1>2, <1>3, <1>4 DEF SameFirst
<1>7. \A j \in 1 .. l : Over(b, o, d)[o + j] = d[(o + j) - o] BY <1>1, <1>2, <1>5
<1> QED BY <1>1, <1>2, <1>3, <1>5, <1>6, <1>7 DEF Bytes

LEMMA SumIs ==
  ASSUME NEW n \in Nat \ {0}, NEW key, NEW a \in Bytes(n), NEW t \in Seq(Byte), NEW k \in Nat, Has(n, t, k)
  PROVE  Sum(n, key, a, t, k) \in Bytes(n) /\ (k = 0 => Sum(n, key, a, t, k) = a)
<1>1. AreSums(Sums(n, key, a, t, k), n, key, a, t, k) BY SumsAre
<1> QED BY <1>1 DEF AreSums, Sum

LEMMA SumSame ==
  ASSUME NEW n \in Nat \ {0}, NEW key, NEW a \in Bytes(n), NEW t \in Seq(Byte), NEW x \in Seq(Byte), NEW k \in Nat,
         Has(n, t, k), Has(n, x, k), SameFirst(n*k, t, x)
  PROVE  Sum(n, key, a, t, k) = Sum(n, key, a, x, k)
<1>1. k <= k OBVIOUS
<1>2. SameSums(k, Sums(n, key, a, t, k), Sums(n, key, a, x, k)) BY <1>1, SamePrefix
<1> QED BY <1>2 DEF Sum, SameSums

LEMMA SumNext ==
  ASSUME NEW n \in Nat \ {0}, NEW key, NEW a \in Bytes(n), NEW t \in Seq(Byte), NEW k \in Nat, Has(n, t, k + 1)
  PROVE  /\ Has(n, t, k)
         /\ Sum(n, key, a, t, k + 1) = Cipher(key, XorSeq(Sum(n, key, a, t, k), Block(n, t, k + 1)))
<1>1. Has(n, t, k)
  <2>1. n*k \in Int /\ n*(k+1) \in Int /\ n*k <= n*(k+1) BY TimesMonotonic
  <2> QED BY <2>1, LenProperties DEF Has
<1>2. PICK m \in Nat : m = k + 1 /\ k <= m OBVIOUS
<1>3. Has(n, t, m) BY <1>2
<1>4. AreSums(Sums(n, key, a, t, m), n, key, a, t, m) BY <1>3, SumsAre
<1>5. SameSums(k, Sums(n, key, a, t, k), Sums(n, key, a, t, m))
  <2>1. SameFirst(n*k, t, t) BY DEF SameFirst
  <2> QED BY <1>1, <1>2, <1>3, <2>1, SamePrefix
<1>6. m \in 1 .. m /\ m - 1 = k /\ k \in 0 .. k BY <1>2
<1>7. Sums(n, key, a, t, m)[m] = Cipher(key, XorSeq(Sums(n, key, a, t, m)[k], Block(n, t, m))) BY <1>4, <1>6 DEF AreSums
<1>8. Sums(n, key, a, t, m)[k] = Sums(n, key, a, t, k)[k] BY <1>5, <1>6 DEF SameSums
<1> QED BY <1>1, <1>2, <1>7, <1>8 DEF Sum

\* A text of bytes has Done(n, t) blocks and one to n bytes behind them.
LEMMA DoneIs ==
  ASSUME NEW n \in Nat \ {0}, NEW t \in Seq(Byte)
  PROVE  /\ Done(n, t) \in Nat /\ Has(n, t, Done(n, t)) /\ n*Done(n, t) \in Nat
         /\ t = <<>> => Done(n, t) = 0 /\ Len(t) = 0
         /\ t # <<>> => Len(t) - n*Done(n, t) \in 1 .. n
<1>1. PICK l \in Nat : l = Len(t) BY LenProperties
<1>2. CASE t = <<>> BY <1>2 DEF Done, Has
<1>3. CASE t # <<>>
  <2>1. l > 0 BY <1>1, <1>3, EmptySeq
  <2>2. l - 1 \in Nat BY <2>1
  <2>3. PICK q \in Nat, r \in 0 .. n-1 : q = (l - 1) \div n /\ l - 1 = n*q + r BY <2>2, DivisionExists
  <2>4. Done(n, t) = q BY <1>1, <1>3, <2>3 DEF Done
  <2>5. PICK p \in Nat : p = n*q OBVIOUS
  <2>6. l - p \in 1 .. n /\ p <= l BY <2>3, <2>5
  <2> QED BY <1>1, <1>3, <2>4, <2>5, <2>6 DEF Has
<1> QED BY <1>2, <1>3

LEMMA DoneAt ==
  ASSUME NEW n \in Nat \ {0}, NEW t \in Seq(Byte), NEW q \in Nat, NEW r \in 1 .. n, Len(t) = n*q + r
  PROVE  Done(n, t) = q /\ t # <<>>
<1>1. n*q \in Nat OBVIOUS
<1>2. Len(t) # 0 /\ Len(t) - 1 = n*q + (r - 1) /\ r - 1 \in 0 .. n-1 BY <1>1
<1>3. (Len(t) - 1) \div n = q
  <2>1. PICK s \in 0 .. n-1 : s = r - 1 /\ Len(t) - 1 = n*q + s BY <1>2
  <2>2. (n*q + s) \div n = q BY Division
  <2> QED BY <2>1, <2>2
<1>4. t # <<>> BY <1>2
<1> QED BY <1>3, <1>4 DEF Done

LEMMA Processed ==
  ASSUME NEW k \in {"CMAC8", "CMAC16"}, NEW c \in Cmacs(k), NEW b \in Bytes(Blk(k))
  PROVE  /\ process_block(c, b) \in Cmacs(k)
         /\ process_block(c, b) = [c EXCEPT !.hash = Cipher(c.key, XorSeq(c.hash, b))]
<1>1. PICK n \in Nat : n = Blk(k) BY BlkIs
<1>2. b \in [1 .. n -> Byte] BY <1>1 DEF Bytes
<1>3. c.hash \in [1 .. n -> Byte] BY <1>1 DEF Cmacs, Bytes
<1>4. XorSeq(c.hash, b) \in [1 .. n -> Byte] BY <1>2, <1>3, XorBlocks
<1>5. Cipher(c.key, XorSeq(c.hash, b)) \in [1 .. n -> Byte] BY <1>4, CipherIs
<1>6. process_block(c, b) = [c EXCEPT !.hash = Cipher(c.key, XorSeq(c.hash, b))] BY DEF process_block
<1>7. [c EXCEPT !.hash = Cipher(c.key, XorSeq(c.hash, b))] \in Cmacs(k) BY <1>1, <1>5 DEF Cmacs, Bytes
<1> QED BY <1>6, <1>7

\* What cmac_blocks, cmac_update and cmac_final do not touch.
SameKeys(c, d) == c.key = d.key /\ c.k1 = d.k1 /\ c.k2 = d.k2 /\ c.taglen = d.taglen
\* The text t is p blocks and the input.
Ends(n, t, p, in) == Len(t) = n*p + Len(in) /\ \A j \in 1 .. Len(in) : t[n*p + j] = in[j]

\* cmac_blocks with the first p blocks of a text in the sum and the rest as its input.
LEMMA BlocksDone ==
  ASSUME NEW k \in {"CMAC8", "CMAC16"}, NEW c \in Cmacs(k), NEW n, n = Blk(k), NEW a \in Bytes(n),
         NEW t \in Seq(Byte), NEW p \in Nat, NEW in \in Seq(Byte), in # <<>>,
         Ends(n, t, p, in), c.hash = Sum(n, c.key, a, t, p)
  PROVE  /\ cmac_blocks(c, in) \in Cmacs(k) /\ SameKeys(cmac_blocks(c, in), c)
         /\ Holds(n, cmac_blocks(c, in), a, t)
         /\ cmac_blocks(c, in).nonzero_len = c.nonzero_len
<1> DEFINE w == IF in = <<>> THEN 0 ELSE (Len(in) - 1) \div c.blksize
           Is(f) == f = [i \in 0 .. w |-> IF i = 0 THEN c
                           ELSE process_block(f[i-1], SubSeq(in, c.blksize*(i-1) + 1, c.blksize*i))]
           sum == CHOOSE f : Is(f)
           rest == SubSeq(in, n*w + 1, Len(in))
           At(i) == [c EXCEPT !.hash = Sum(n, c.key, a, t, p + i)]
           G == [e \in Cmacs(k) \X (1 .. w) |-> process_block(e[1], Block(n, in, e[2]))]
<1>1. n \in {8, 16} /\ n \in Nat \ {0} /\ c.blksize = n BY BlkIs DEF Cmacs
<1>a. cmac_blocks(c, in) = [sum[w] EXCEPT !.buf = Splice(@, 0, rest), !.boff = Len(rest)]
  BY <1>1 DEF cmac_blocks
<1>2. w = Done(n, in) BY <1>1 DEF Done
<1>3. w \in Nat /\ Has(n, in, w) /\ n*w \in Nat /\ Len(in) - n*w \in 1 .. n BY <1>1, <1>2, DoneIs
<1> HIDE DEF w
<1>4. \A f : Is(f) <=> f = [i \in 0 .. w |-> IF i = 0 THEN c ELSE process_block(f[i-1], Block(n, in, i))]
  BY <1>1 DEF Block
<1>5. ASSUME NEW i \in 1 .. w
      PROVE  /\ Block(n, in, i) \in Bytes(n) /\ Block(n, in, i) = Block(n, t, p + i) /\ Has(n, t, p + i)
  <2>1. n*i \in Int /\ n*w \in Int /\ n*i <= n*w /\ n*(i-1) \in Nat
    <3>1. i \in Nat /\ i <= w /\ i - 1 \in Nat BY <1>3
    <3>2. n*i \in Int /\ n*w \in Int /\ n*i <= n*w BY <1>1, <1>3, <3>1, TimesMonotonic
    <3>3. n*(i-1) \in Nat BY <1>1, <3>1
    <3> QED BY <3>2, <3>3
  <2>2. Has(n, in, i) BY <1>3, <2>1, LenProperties DEF Has
  <2>3. Block(n, in, i) \in Bytes(n) /\ \A j \in 1 .. n : Block(n, in, i)[j] = in[n*(i-1) + j]
    <3>1. PICK g \in Nat \ {0} : g = i BY <1>3
    <3>2. n \in Nat \ {0} /\ Has(n, in, g) BY <1>1, <2>2, <3>1
    <3>3. Block(n, in, g) \in Bytes(n) /\ \A j \in 1 .. n : Block(n, in, g)[j] = in[n*(g-1) + j]
      BY <3>2, BlockIs
    <3> QED BY <3>1, <3>3
  <2>4. n*(p + i) = n*p + n*i /\ n*(p + i - 1) = n*p + n*(i-1) /\ n*p \in Nat /\ n*i = n*(i-1) + n
    <3>1. i \in Nat /\ i - 1 \in Nat BY <1>3
    <3>2. CASE n = 8 BY <3>1, <3>2
    <3>3. CASE n = 16 BY <3>1, <3>3
    <3> QED BY <1>1, <3>2, <3>3
  <2>5. Has(n, t, p + i)
    <3>1. n*i <= Len(in) /\ Len(t) = n*p + Len(in) BY <2>2 DEF Has, Ends
    <3> QED BY <2>1, <2>4, <3>1, LenProperties DEF Has
  <2>6. PICK h \in Nat \ {0} : h = p + i /\ Has(n, t, h) BY <1>3, <2>5
  <2>7. Block(n, t, h) \in Bytes(n) /\ \A j \in 1 .. n : Block(n, t, h)[j] = t[n*(h-1) + j]
    BY <1>1, <2>6, BlockIs
  <2>8. \A j \in 1 .. n : Block(n, t, h)[j] = Block(n, in, i)[j]
    <3> SUFFICES ASSUME NEW j \in 1 .. n PROVE Block(n, t, h)[j] = Block(n, in, i)[j] OBVIOUS
    <3>1. n*(h-1) + j = n*p + (n*(i-1) + j) BY <1>1, <2>4, <2>6
    <3>2. n*(i-1) + j \in 1 .. Len(in)
      <4>1. PICK l \in Nat : l = Len(in) BY LenProperties
      <4>2. n*i <= l BY <2>2, <4>1 DEF Has
      <4>3. PICK g \in Nat : g = n*(i-1) /\ n*i = g + n BY <2>1, <2>4
      <4>4. g + n <= l BY <4>2, <4>3
      <4>5. g + j \in 1 .. l BY <1>1, <4>4
      <4> QED BY <4>1, <4>3, <4>5
    <3>3. t[n*p + (n*(i-1) + j)] = in[n*(i-1) + j] BY <3>2 DEF Ends
    <3> QED BY <2>3, <2>7, <3>1, <3>3
  <2>9. Block(n, t, h) = Block(n, in, i)
    <3>1. PICK x \in Bytes(n), y \in Bytes(n) : x = Block(n, t, h) /\ y = Block(n, in, i) BY <2>3, <2>7
    <3>2. SameFirst(n, x, y) BY <2>8, <3>1 DEF SameFirst
    <3>3. n \in Nat BY <1>1
    <3>4. x = y BY <3>1, <3>2, <3>3, SameBytes
    <3> QED BY <3>1, <3>4
  <2> QED BY <2>3, <2>5, <2>6, <2>9
<1>6. \A i \in 1 .. w : \A x \in Cmacs(k) :
        G[<<x, i>>] = process_block(x, Block(n, in, i)) /\ process_block(x, Block(n, in, i)) \in Cmacs(k)
  BY <1>5, Processed
<1>7. StepsIn(w, Cmacs(k), G) BY <1>6 DEF StepsIn
<1> HIDE DEF G
<1>8. PICK f \in [0 .. w -> Cmacs(k)] : Recursive(f, w, c, G) BY <1>3, <1>7, Recursion
<1>9. Is(f)
  <2>1. \A i \in 1 .. w : f[i-1] \in Cmacs(k) BY <1>3, <1>8
  <2>a. f[0] = c /\ \A i \in 1 .. w : f[i] = G[<<f[i-1], i>>] BY <1>8 DEF Recursive
  <2>b. \A i \in 1 .. w : f[i] = process_block(f[i-1], Block(n, in, i)) BY <1>6, <2>1, <2>a
  <2>2. \A i \in 0 .. w : f[i] = IF i = 0 THEN c ELSE process_block(f[i-1], Block(n, in, i))
    BY <1>3, <2>a, <2>b
  <2>3. f = [i \in 0 .. w |-> IF i = 0 THEN c ELSE process_block(f[i-1], Block(n, in, i))] BY <1>8, <2>2
  <2> HIDE DEF Is
  <2> QED BY <1>4, <2>3
<1>10. Is(sum) BY <1>9
<1> HIDE DEF sum, Is
<1>11. sum[0] = c /\ \A i \in 1 .. w : sum[i] = process_block(sum[i-1], Block(n, in, i))
  <2>1. sum = [i \in 0 .. w |-> IF i = 0 THEN c ELSE process_block(sum[i-1], Block(n, in, i))] BY <1>4, <1>10
  <2> QED BY <1>3, <2>1
<1>12. ASSUME NEW i \in 0 .. w PROVE Has(n, t, p + i)
  <2>1. CASE i = 0
    <3>1. n*p \in Nat BY <1>1
    <3> QED BY <2>1, <3>1, LenProperties DEF Has, Ends
  <2>2. CASE i # 0 BY <1>5, <2>2
  <2> QED BY <2>1, <2>2
<1>13. ASSUME NEW i \in 0 .. w
       PROVE  Sum(n, c.key, a, t, p + i) \in Bytes(n) /\ At(i) \in Cmacs(k)
  <2>1. PICK h \in Nat : h = p + i OBVIOUS
  <2>2. Has(n, t, h) BY <1>12, <2>1
  <2>3. Sum(n, c.key, a, t, h) \in Bytes(n) BY <1>1, <2>2, SumIs
  <2>4. [c EXCEPT !.hash = Sum(n, c.key, a, t, h)] \in Cmacs(k) BY <2>3 DEF Cmacs
  <2> QED BY <2>1, <2>3, <2>4
<1>14. \A i \in 0 .. w : sum[i] = At(i)
  <2> DEFINE T == {i \in 0 .. w : sum[i] = At(i)}
  <2>1. 0 \in T
    <3>1. At(0) = c BY DEF Cmacs
    <3> QED BY <1>3, <1>11, <3>1
  <2>2. ASSUME NEW i \in 0 .. w-1, i \in T PROVE i+1 \in T
    <3>1. i+1 \in 1 .. w /\ (i+1)-1 = i /\ p + i \in Nat /\ p + (i + 1) = (p + i) + 1 /\ i \in 0 .. w BY <1>3
    <3>2. sum[i+1] = process_block(At(i), Block(n, in, i+1)) BY <1>11, <2>2, <3>1
    <3>3. Block(n, in, i+1) \in Bytes(n) /\ Block(n, in, i+1) = Block(n, t, p + (i+1)) /\ Has(n, t, p + (i+1))
      BY <1>5, <3>1
    <3>4. PICK h \in Nat : h = p + i BY <3>1
    <3>5. PICK b \in Bytes(Blk(k)) : b = Block(n, in, i+1) /\ b = Block(n, t, h + 1) /\ Has(n, t, h + 1)
      BY <3>1, <3>3, <3>4
    <3>6. Sum(n, c.key, a, t, h + 1) = Cipher(c.key, XorSeq(Sum(n, c.key, a, t, h), b))
      BY <1>1, <3>5, SumNext
    <3>7. PICK x \in Cmacs(k) : x = At(i) /\ x = [c EXCEPT !.hash = Sum(n, c.key, a, t, h)]
      BY <1>13, <3>1, <3>4
    <3>8. process_block(x, b) = [x EXCEPT !.hash = Cipher(x.key, XorSeq(x.hash, b))] BY Processed
    <3>9. x.key = c.key /\ x.hash = Sum(n, c.key, a, t, h) BY <3>7 DEF Cmacs
    <3>10. [x EXCEPT !.hash = Cipher(x.key, XorSeq(x.hash, b))] = [c EXCEPT !.hash = Sum(n, c.key, a, t, h + 1)]
      BY <3>6, <3>7, <3>9 DEF Cmacs
    <3>11. At(i+1) = [c EXCEPT !.hash = Sum(n, c.key, a, t, h + 1)] BY <3>1, <3>4
    <3> QED BY <3>1, <3>2, <3>5, <3>7, <3>8, <3>10, <3>11
  <2> HIDE DEF T
  <2>3. \A i \in 0 .. w : i \in T BY <1>3, <2>1, <2>2, Inductive
  <2> QED BY <2>3 DEF T
<1>15. sum[w] = At(w) /\ At(w) \in Cmacs(k) /\ Sum(n, c.key, a, t, p + w) \in Bytes(n)
  <2>1. w \in 0 .. w BY <1>3
  <2> QED BY <1>13, <1>14, <2>1
<1>16. /\ rest \in Seq(Byte) /\ Len(rest) = Len(in) - n*w
       /\ \A j \in 1 .. Len(in) - n*w : rest[j] = in[n*w + j]
  <2>1. PICK l \in Nat, m \in Nat : l = Len(in) /\ m = n*w /\ m < l BY <1>3, LenProperties
  <2>2. m + 1 \in Nat \ {0} /\ l \in Nat /\ m + 1 <= l + 1 /\ l <= Len(in) BY <2>1
  <2>3. /\ SubSeq(in, m + 1, l) \in Seq(Byte) /\ Len(SubSeq(in, m + 1, l)) = l - (m + 1) + 1
        /\ \A j \in 1 .. l - (m + 1) + 1 : SubSeq(in, m + 1, l)[j] = in[(m + 1) + j - 1]
    BY <2>2, PartOf
  <2>4. l - (m + 1) + 1 = l - m /\ \A j \in 1 .. l - m : (m + 1) + j - 1 = m + j BY <2>1
  <2> QED BY <2>1, <2>3, <2>4
<1> HIDE DEF rest
<1>17. PICK l \in 1 .. n : l = Len(rest) /\ l = Len(in) - n*w BY <1>3, <1>16
<1>18. /\ Splice(c.buf, 0, rest) \in Bytes(n)
       /\ \A j \in 1 .. l : Splice(c.buf, 0, rest)[j] = in[n*w + j]
  <2>1. PICK b \in Bytes(n) : b = c.buf BY DEF Cmacs
  <2>2. PICK o \in 0 .. n : o = 0 /\ o + Len(rest) <= n BY <1>1, <1>17
  <2>3. n \in Nat /\ rest \in Seq(Byte) BY <1>1, <1>16
  <2>4. /\ Splice(b, o, rest) \in Bytes(n)
        /\ \A j \in 1 .. Len(rest) : Splice(b, o, rest)[o + j] = rest[j]
    BY <2>1, <2>2, <2>3, Put
  <2>5. \A j \in 1 .. l : o + j = j BY <2>2
  <2> QED BY <1>16, <1>17, <2>1, <2>2, <2>4, <2>5
<1>19. cmac_blocks(c, in) =
         [c EXCEPT !.hash = Sum(n, c.key, a, t, p + w), !.buf = Splice(c.buf, 0, rest), !.boff = l]
  BY <1>a, <1>15, <1>17 DEF Cmacs
<1>20. cmac_blocks(c, in) \in Cmacs(k) /\ SameKeys(cmac_blocks(c, in), c)
  <2>1. l \in 0 .. BUFFER_SIZE BY <1>1 DEF BUFFER_SIZE
  <2>2. PICK h \in Bytes(Blk(k)), b \in Bytes(Blk(k)), o \in 0 .. BUFFER_SIZE :
          h = Sum(n, c.key, a, t, p + w) /\ b = Splice(c.buf, 0, rest) /\ o = l
    BY <1>15, <1>18, <2>1
  <2>3. cmac_blocks(c, in) = [c EXCEPT !.hash = h, !.buf = b, !.boff = o] BY <1>19, <2>2
  <2> QED BY <2>3 DEF Cmacs, SameKeys
<1>21. Done(n, t) = p + w /\ t # <<>> /\ Len(t) - n*(p + w) = l
  <2>1. PICK x \in Nat, y \in Nat, z \in Nat : x = n*p /\ y = n*w /\ z = Len(in)
    BY <1>1, <1>3, LenProperties
  <2>2. n*(p + w) = x + y BY <1>1, <1>3, <2>1
  <2>3. Len(t) = n*(p + w) + l BY <1>17, <2>1, <2>2 DEF Ends
  <2>4. PICK q \in Nat : q = p + w /\ Len(t) = n*q + l BY <1>3, <2>3
  <2>5. Done(n, t) = q /\ t # <<>> BY <1>1, <2>4, DoneAt
  <2> QED BY <2>1, <2>2, <2>3, <2>4, <2>5
<1>22. \A j \in 1 .. l : Splice(c.buf, 0, rest)[j] = t[n*(p + w) + j]
  <2> SUFFICES ASSUME NEW j \in 1 .. l PROVE in[n*w + j] = t[n*(p + w) + j] BY <1>18
  <2>1. n*(p + w) + j = n*p + (n*w + j) BY <1>1, <1>3
  <2>2. n*w + j \in 1 .. Len(in) BY <1>3, <1>17, LenProperties
  <2> QED BY <2>1, <2>2 DEF Ends
<1>23. PICK d \in Cmacs(k) : d = cmac_blocks(c, in) BY <1>20
<1>24. /\ d.key = c.key /\ d.nonzero_len = c.nonzero_len /\ d.boff = l /\ d.buf = Splice(c.buf, 0, rest)
       /\ d.hash = Sum(n, c.key, a, t, p + w)
  BY <1>19, <1>23 DEF Cmacs
<1>25. Holds(n, d, a, t) BY <1>21, <1>22, <1>24 DEF Holds, Sum
<1> QED BY <1>20, <1>23, <1>24, <1>25

LEMMA NoBlocks ==
  ASSUME NEW c
  PROVE  cmac_blocks(c, <<>>) = c
BY DEF cmac_blocks

LEMMA HoldsIs ==
  ASSUME NEW n, NEW c, NEW a, NEW t, NEW q, NEW m, NEW r, q = Done(n, t), m = n*q, r = Len(t) - m,
         c.boff = r \/ (r = n /\ c.boff = BUFFER_SIZE), \A j \in 1 .. r : c.buf[j] = t[m + j],
         c.hash = Sum(n, c.key, a, t, q)
  PROVE  Holds(n, c, a, t)
BY DEF Holds, Sum

\* The text that a context holds and the data, and what update does with them.
LEMMA Updated ==
  ASSUME NEW k \in {"CMAC8", "CMAC16"}, NEW c \in Cmacs(k), NEW n, n = Blk(k), NEW a \in Bytes(n),
         NEW t \in Seq(Byte), NEW data \in Seq(Byte), data # <<>>, Holds(n, c, a, t), c.boff <= n
  PROVE  /\ cmac_update(c, data) \in Cmacs(k) /\ SameKeys(cmac_update(c, data), c)
         /\ Holds(n, cmac_update(c, data), a, t \o data)
         /\ cmac_update(c, data).nonzero_len = TRUE
<1> DEFINE room == c.blksize - c.boff
           b == IF c.boff = 0 THEN 0 ELSE IF room < Len(data) THEN room ELSE Len(data)
           filled == [c EXCEPT !.buf = Splice(@, c.boff, SubSeq(data, 1, b)), !.boff = @ + b,
                               !.nonzero_len = TRUE]
           done == IF c.boff # 0 /\ filled.boff = c.blksize
                   THEN IF Len(data) # b THEN [process_block(filled, filled.buf) EXCEPT !.boff = 0]
                                         ELSE [filled EXCEPT !.boff = 16]
                   ELSE filled
           rest == SubSeq(data, b + 1, Len(data))
<1>1. n \in {8, 16} /\ n \in Nat \ {0} /\ c.blksize = n BY BlkIs DEF Cmacs
<1>a. cmac_update(c, data) = cmac_blocks(done, rest) BY DEF cmac_update
<1>2. PICK l \in Nat \ {0} : l = Len(data)
  <2>1. Len(data) \in Nat /\ Len(data) # 0 BY LenProperties, EmptySeq
  <2> QED BY <2>1
<1>3. PICK q \in Nat, m \in Nat, r \in 0 .. n :
        /\ q = Done(n, t) /\ m = n*q /\ Len(t) = m + r /\ (r = 0 => t = <<>>) /\ (t = <<>> => q = 0)
        /\ Has(n, t, q)
  <2>1. /\ Done(n, t) \in Nat /\ Has(n, t, Done(n, t)) /\ n*Done(n, t) \in Nat
        /\ t = <<>> => Done(n, t) = 0 /\ Len(t) = 0
        /\ t # <<>> => Len(t) - n*Done(n, t) \in 1 .. n
    BY <1>1, DoneIs
  <2>2. PICK q \in Nat, m \in Nat : q = Done(n, t) /\ m = n*q BY <2>1
  <2>3. Len(t) \in Nat BY LenProperties
  <2>4. Len(t) - m \in 0 .. n /\ (Len(t) - m = 0 => t = <<>>) /\ Len(t) = m + (Len(t) - m)
    <3>1. CASE t = <<>>
      <4>1. q = 0 /\ Len(t) = 0 BY <2>1, <2>2, <3>1
      <4>2. m = 0 BY <1>1, <2>2, <4>1
      <4> QED BY <1>1, <3>1, <4>1, <4>2
    <3>2. CASE t # <<>>
      <4>1. Len(t) - m \in 1 .. n BY <2>1, <2>2, <3>2
      <4> QED BY <1>1, <2>3, <4>1
    <3> QED BY <3>1, <3>2
  <2> QED BY <2>1, <2>2, <2>4
<1>b. Len(t) = m + r BY <1>3
<1>c. Has(n, t, q) BY <1>3
<1>4. Len(t) - n*Done(n, t) = r
  <2>1. Len(t) - m = r BY <1>3
  <2> QED BY <1>3, <2>1
<1>5. /\ c.boff = r /\ c.hash = Sum(n, c.key, a, t, q) /\ \A j \in 1 .. r : c.buf[j] = t[m + j]
  <2>1. c.boff = r \/ (r = n /\ c.boff = 16) BY <1>4 DEF Holds, BUFFER_SIZE
  <2>2. c.boff = r BY <1>1, <2>1
  <2> QED BY <1>3, <1>4, <2>2 DEF Holds, Sum
<1>6. /\ b \in 0 .. l /\ r + b \in 0 .. n /\ (r = 0 => b = 0)
      /\ r # 0 => (b = l \/ (b < l /\ r + b = n))
  <2>1. b = IF r = 0 THEN 0 ELSE IF n - r < l THEN n - r ELSE l BY <1>1, <1>2, <1>5
  <2> HIDE DEF b
  <2> QED BY <1>1, <1>2, <2>1
<1> HIDE DEF b
<1>7. /\ SubSeq(data, 1, b) \in Seq(Byte) /\ Len(SubSeq(data, 1, b)) = b
      /\ \A j \in 1 .. b : SubSeq(data, 1, b)[j] = data[j]
  <2>1. 1 \in Nat \ {0} /\ b \in Nat /\ 1 <= b + 1 /\ b <= Len(data) BY <1>2, <1>6
  <2>2. /\ SubSeq(data, 1, b) \in Seq(Byte) /\ Len(SubSeq(data, 1, b)) = b - 1 + 1
        /\ \A j \in 1 .. b - 1 + 1 : SubSeq(data, 1, b)[j] = data[1 + j - 1]
    BY <2>1, PartOf
  <2>3. b - 1 + 1 = b /\ \A j \in 1 .. b : 1 + j - 1 = j BY <1>6
  <2> QED BY <2>2, <2>3
<1>8. PICK d \in Seq(Byte) : d = SubSeq(data, 1, b) /\ Len(d) = b /\ \A j \in 1 .. b : d[j] = data[j] BY <1>7
<1>9. PICK x \in Seq(Byte) :
        /\ x = t \o data /\ Len(x) = m + r + l
        /\ \A j \in 1 .. m + r : x[j] = t[j]
        /\ \A j \in 1 .. l : x[m + r + j] = data[j]
  <2>1. /\ t \o data \in Seq(Byte) /\ Len(t \o data) = Len(t) + Len(data)
        /\ \A i \in 1 .. Len(t) + Len(data) : (t \o data)[i] = IF i <= Len(t) THEN t[i] ELSE data[i - Len(t)]
    BY ConcatProperties
  <2>a. PICK z \in Nat : z = m + r OBVIOUS
  <2>2. PICK x \in Seq(Byte) : x = t \o data /\ Len(t) = z /\ Len(data) = l BY <1>2, <1>b, <2>1, <2>a
  <2>3. Len(x) = z + l /\ \A i \in 1 .. z + l : x[i] = IF i <= z THEN t[i] ELSE data[i - z] BY <2>1, <2>2
  <2>4. \A j \in 1 .. z : j \in 1 .. z + l /\ j <= z BY <1>2, <2>a
  <2>5. \A j \in 1 .. l : z + j \in 1 .. z + l /\ ~(z + j <= z) /\ z + j - z = j BY <1>2, <2>a
  <2>6. \A j \in 1 .. l : x[z + j] = data[j] BY <2>3, <2>5
  <2>7. \A j \in 1 .. z : x[j] = t[j] BY <2>3, <2>4
  <2>8. /\ Len(x) = m + r + l /\ \A j \in 1 .. m + r : x[j] = t[j]
        /\ \A j \in 1 .. l : x[m + r + j] = data[j]
    BY <2>a, <2>3, <2>6, <2>7
  <2> QED BY <2>2, <2>8
<1>d. x = t \o data BY <1>9
<1>e. x \in Seq(Byte) BY <1>9
<1>f. m = n*q BY <1>3
<1>10. Has(n, x, q) /\ c.hash = Sum(n, c.key, a, x, q)
  <2>1. Has(n, x, q) BY <1>3, <1>9 DEF Has
  <2>2. SameFirst(n*q, t, x) BY <1>3, <1>9 DEF SameFirst
  <2>3. Sum(n, c.key, a, t, q) = Sum(n, c.key, a, x, q) BY <1>1, <1>c, <1>e, <2>1, <2>2, SumSame
  <2> QED BY <1>5, <2>1, <2>3
\* The buffer has r + b bytes of the text behind the blocks in the sum.
<1>11. PICK p \in Bytes(n) : p = Splice(c.buf, r, d) /\ \A j \in 1 .. r + b : p[j] = x[m + j]
  <2>1. PICK h \in Bytes(n) : h = c.buf BY DEF Cmacs
  <2>2. PICK o \in 0 .. n : o = r /\ o + Len(d) <= n BY <1>6, <1>8, <1>3
  <2>3. n \in Nat /\ d \in Seq(Byte) BY <1>1, <1>8
  <2>4. /\ Splice(h, o, d) \in Bytes(n) /\ SameFirst(o, h, Splice(h, o, d))
        /\ \A j \in 1 .. Len(d) : Splice(h, o, d)[o + j] = d[j]
    BY <2>1, <2>2, <2>3, Put
  <2>5. PICK p \in Bytes(n) : p = Splice(c.buf, r, d) BY <2>1, <2>2, <2>4
  <2>6. \A j \in 1 .. r : p[j] = c.buf[j] BY <2>1, <2>2, <2>4, <2>5 DEF SameFirst
  <2>7. \A j \in 1 .. b : p[r + j] = data[j] BY <1>8, <2>1, <2>2, <2>4, <2>5
  <2>8. ASSUME NEW j \in 1 .. r + b PROVE p[j] = x[m + j]
    <3>1. CASE j <= r
      <4>1. j \in 1 .. r /\ m + j \in 1 .. m + r BY <3>1
      <4> QED BY <1>5, <1>9, <2>6, <4>1
    <3>2. CASE ~(j <= r)
      <4>1. PICK i \in 1 .. b : j = r + i /\ i = j - r BY <1>6, <3>2
      <4>2. i \in 1 .. l /\ m + r + i = m + j BY <1>6, <4>1
      <4>3. x[m + r + i] = data[i] BY <1>9, <4>2
      <4>4. p[r + i] = data[i] BY <2>7, <4>1
      <4> QED BY <4>1, <4>2, <4>3, <4>4
    <3> QED BY <3>1, <3>2
  <2> QED BY <2>5, <2>8
<1>12. PICK f \in Cmacs(k) :
         /\ f = [c EXCEPT !.buf = p, !.boff = r + b, !.nonzero_len = TRUE]
         /\ f = filled /\ f.buf = p /\ f.boff = r + b /\ f.nonzero_len = TRUE /\ f.hash = c.hash
         /\ SameKeys(f, c)
  <2>1. filled = [c EXCEPT !.buf = p, !.boff = r + b, !.nonzero_len = TRUE] BY <1>5, <1>8, <1>11 DEF Cmacs
  <2>2. r + b \in 0 .. BUFFER_SIZE BY <1>1, <1>6 DEF BUFFER_SIZE
  <2>3. PICK h \in Bytes(Blk(k)), o \in 0 .. BUFFER_SIZE : h = p /\ o = r + b BY <1>11, <2>2
  <2>4. [c EXCEPT !.buf = h, !.boff = o, !.nonzero_len = TRUE] \in Cmacs(k) BY DEF Cmacs
  <2>5. PICK f \in Cmacs(k) : f = [c EXCEPT !.buf = h, !.boff = o, !.nonzero_len = TRUE] BY <2>4
  <2>6. f.buf = h /\ f.boff = o /\ f.nonzero_len = TRUE /\ f.hash = c.hash /\ SameKeys(f, c)
    BY <2>5 DEF Cmacs, SameKeys
  <2> QED BY <2>1, <2>3, <2>5, <2>6
<1> HIDE DEF filled
<1>13. CASE r = 0
  <2>1. b = 0 /\ done = f /\ q = 0 /\ m = 0 BY <1>1, <1>3, <1>5, <1>6, <1>12, <1>13
  <2>2. rest = data BY <2>1, <1>2, SubSeqFull
  <2>3. Ends(n, x, 0, data) BY <1>1, <1>2, <1>9, <1>13, <2>1 DEF Ends
  <2>4. f.hash = Sum(n, f.key, a, x, 0) BY <1>10, <1>12, <2>1 DEF SameKeys
  <2>5. PICK z \in Nat : Ends(n, x, z, data) /\ f.hash = Sum(n, f.key, a, x, z) BY <2>3, <2>4
  <2>6. /\ cmac_blocks(f, data) \in Cmacs(k) /\ SameKeys(cmac_blocks(f, data), f)
        /\ Holds(n, cmac_blocks(f, data), a, x)
        /\ cmac_blocks(f, data).nonzero_len = f.nonzero_len
    BY <1>e, <2>5, BlocksDone
  <2> QED BY <1>a, <1>d, <1>12, <2>1, <2>2, <2>6 DEF SameKeys
<1>14. CASE r # 0 /\ r + b = n /\ b < l
  <2>1. p \in Bytes(Blk(k)) BY <1>11
  <2>2. PICK g \in Cmacs(k) : g = process_block(f, p) /\ g = [f EXCEPT !.hash = Cipher(f.key, XorSeq(f.hash, p))]
    BY <2>1, Processed
  <2>3. 0 \in 0 .. BUFFER_SIZE BY DEF BUFFER_SIZE
  <2>4. PICK h \in Cmacs(k) : h = [g EXCEPT !.boff = 0] BY <2>3 DEF Cmacs
  <2>5. done = h BY <1>1, <1>2, <1>5, <1>12, <1>14, <2>2, <2>4
  <2>6. h.hash = Cipher(c.key, XorSeq(c.hash, p)) /\ SameKeys(h, c) /\ h.nonzero_len = TRUE
    <3>1. g.hash = Cipher(f.key, XorSeq(f.hash, p)) /\ SameKeys(g, f) /\ g.nonzero_len = f.nonzero_len
      BY <2>2 DEF Cmacs, SameKeys
    <3>2. h.hash = g.hash /\ SameKeys(h, g) /\ h.nonzero_len = g.nonzero_len BY <2>4 DEF Cmacs, SameKeys
    <3> QED BY <1>12, <3>1, <3>2 DEF SameKeys
  <2>7. PICK e \in Nat \ {0} : e = q + 1 /\ e - 1 = q /\ n*e = m + n /\ Has(n, x, e)
    <3>1. q + 1 \in Nat \ {0} /\ (q + 1) - 1 = q /\ n*(q + 1) = m + n
      <4>1. n*(q + 1) = n*q + n BY <1>1, TimesMonotonic
      <4> QED BY <1>3, <4>1
    <3>2. Len(x) >= m + n BY <1>1, <1>6, <1>9, <1>14
    <3> QED BY <3>1, <3>2 DEF Has
  <2>a. Has(n, x, e) BY <2>7
  <2>8. p = Block(n, x, e)
    <3>1. Block(n, x, e) \in Bytes(n) /\ \A j \in 1 .. n : Block(n, x, e)[j] = x[n*(e-1) + j]
      BY <1>1, <1>e, <2>a, BlockIs
    <3>2. SameFirst(n, p, Block(n, x, e))
      <4>1. n*(e-1) = m BY <1>3, <2>7
      <4> QED BY <1>11, <1>14, <3>1, <4>1 DEF SameFirst
    <3>3. n \in Nat BY <1>1
    <3>4. PICK y \in Bytes(n) : y = Block(n, x, e) BY <3>1
    <3> QED BY <3>2, <3>3, <3>4, SameBytes
  <2>9. h.hash = Sum(n, h.key, a, x, e)
    <3>1. Has(n, x, q + 1) BY <2>7
    <3>2. Sum(n, c.key, a, x, q + 1) = Cipher(c.key, XorSeq(Sum(n, c.key, a, x, q), Block(n, x, q + 1)))
      BY <1>1, <1>e, <3>1, SumNext
    <3> QED BY <1>10, <2>6, <2>7, <2>8, <3>2 DEF SameKeys
  <2>10. /\ rest \in Seq(Byte) /\ Len(rest) = l - b /\ \A j \in 1 .. l - b : rest[j] = data[b + j]
    <3>1. b + 1 \in Nat \ {0} /\ l \in Nat /\ b + 1 <= l + 1 /\ l <= Len(data) BY <1>2, <1>6
    <3>2. /\ SubSeq(data, b + 1, l) \in Seq(Byte) /\ Len(SubSeq(data, b + 1, l)) = l - (b + 1) + 1
          /\ \A j \in 1 .. l - (b + 1) + 1 : SubSeq(data, b + 1, l)[j] = data[(b + 1) + j - 1]
      BY <3>1, PartOf
    <3>3. l - (b + 1) + 1 = l - b /\ \A j \in 1 .. l - b : (b + 1) + j - 1 = b + j BY <1>2, <1>6
    <3> QED BY <1>2, <3>2, <3>3
  <2>11. PICK in \in Seq(Byte) : in = rest /\ Len(in) = l - b /\ \A j \in 1 .. l - b : in[j] = data[b + j]
    BY <2>10
  <2>12. in # <<>>
    <3>1. Len(in) # 0 BY <1>2, <1>6, <1>14, <2>11
    <3> QED BY <3>1
  <2>13. Ends(n, x, e, in)
    <3>1. Len(x) = n*e + Len(in) BY <1>1, <1>2, <1>6, <1>9, <1>14, <2>7, <2>11
    <3>2. ASSUME NEW j \in 1 .. l - b PROVE x[n*e + j] = in[j]
      <4>1. b + j \in 1 .. l /\ m + r + (b + j) = n*e + j BY <1>1, <1>2, <1>6, <1>14, <2>7
      <4>2. x[m + r + (b + j)] = data[b + j] BY <1>9, <4>1
      <4> QED BY <2>11, <4>1, <4>2
    <3> QED BY <2>11, <3>1, <3>2 DEF Ends
  <2>14. /\ cmac_blocks(h, in) \in Cmacs(k) /\ SameKeys(cmac_blocks(h, in), h)
         /\ Holds(n, cmac_blocks(h, in), a, x)
         /\ cmac_blocks(h, in).nonzero_len = h.nonzero_len
    BY <1>e, <2>9, <2>12, <2>13, BlocksDone
  <2> QED BY <1>a, <1>d, <2>5, <2>6, <2>11, <2>14 DEF SameKeys
\* Nothing is left for cmac_blocks.
<1>15. CASE r # 0 /\ b = l
  <2>1. rest = <<>> BY <1>2, <1>15, SubSeqEmpty
  <2>2. \A y : cmac_blocks(y, rest) = y BY <2>1, NoBlocks
  <2>3. r + b \in 1 .. n /\ Len(x) = n*q + (r + b)
    <3>1. r + b \in 1 .. n /\ Len(x) = m + (r + b) BY <1>1, <1>6, <1>9, <1>15
    <3> QED BY <1>f, <3>1
  <2>4. Done(n, x) = q
    <3>1. PICK s \in 1 .. n : Len(x) = n*q + s BY <2>3
    <3> QED BY <1>1, <1>9, <3>1, DoneAt
  <2>5. r + b = Len(x) - m BY <1>6, <1>9, <1>15
  <2>7. CASE r + b = n
    <3>1. 16 \in 0 .. BUFFER_SIZE BY DEF BUFFER_SIZE
    <3>2. PICK h \in Cmacs(k) : h = [f EXCEPT !.boff = 16] BY <3>1 DEF Cmacs
    <3>3. done = h BY <1>1, <1>2, <1>5, <1>12, <1>15, <2>7, <3>2
    <3>4. h.buf = p /\ h.boff = 16 /\ h.hash = c.hash /\ h.nonzero_len = TRUE /\ SameKeys(h, c)
      BY <1>12, <3>2 DEF Cmacs, SameKeys
    <3>5. Holds(n, h, a, x) 
      <4>1. /\ h.boff = r + b \/ (r + b = n /\ h.boff = BUFFER_SIZE)
            /\ h.hash = Sum(n, h.key, a, x, q)
        BY <1>10, <2>7, <3>4 DEF BUFFER_SIZE, SameKeys
      <4>2. \A j \in 1 .. r + b : h.buf[j] = x[m + j] BY <1>11, <3>4
      <4>3. q = Done(n, x) /\ m = n*q BY <1>3, <2>4
      <4> QED BY <2>5, <4>1, <4>2, <4>3, HoldsIs
    <3>6. cmac_update(c, data) = h
      <4> HIDE DEF done, rest
      <4> QED BY <1>a, <2>2, <3>3
    <3> QED BY <1>d, <3>4, <3>5, <3>6
  <2>8. CASE r + b # n
    <3>1. done = f BY <1>1, <1>12, <2>8
    <3>2. Holds(n, f, a, x) 
      <4>1. f.boff = r + b /\ f.hash = Sum(n, f.key, a, x, q) BY <1>10, <1>12 DEF SameKeys
      <4>2. \A j \in 1 .. r + b : f.buf[j] = x[m + j] BY <1>11, <1>12
      <4>3. q = Done(n, x) /\ m = n*q BY <1>3, <2>4
      <4> QED BY <2>5, <4>1, <4>2, <4>3, HoldsIs
    <3> QED BY <1>a, <1>d, <1>12, <2>2, <3>1, <3>2
  <2> QED BY <2>7, <2>8
<1> QED BY <1>6, <1>13, <1>14, <1>15

\* A step of the chain, on blocks and on words.
LEMMA CmacStep ==
  ASSUME NEW n \in Nat \ {0}, NEW key, NEW x \in Bytes(n), NEW y \in Bytes(n)
  PROVE  /\ Cipher(key, XorSeq(x, y)) \in Bytes(n)
         /\ PackBE(x) \in Word(8*n)
         /\ E(n, key, Xor(PackBE(x), PackBE(y))) = PackBE(Cipher(key, XorSeq(x, y)))
         /\ UnpackBE(n, PackBE(x)) = x
<1>1. PICK b \in [1 .. n -> Byte], d \in [1 .. n -> Byte] : b = x /\ d = y BY DEF Bytes
<1>2. XorSeq(b, d) \in [1 .. n -> Byte] BY XorBlocks
<1>3. PICK z \in [1 .. n -> Byte] : z = XorSeq(b, d) BY <1>2
<1>4. PackBE(z) = Xor(PackBE(b), PackBE(d)) BY <1>3, XorPacked
<1>5. E(n, key, PackBE(z)) = PackBE(Cipher(key, z)) BY CipherPacked
<1>6. Cipher(key, z) \in [1 .. n -> Byte] BY CipherIs
<1>7. PackBE(b) \in Word(8*n) BY Packed
<1>8. UnpackBE(n, PackBE(b)) = b BY PackedBack
<1> QED BY <1>1, <1>3, <1>4, <1>5, <1>6, <1>7, <1>8 DEF Bytes

\* The text behind the blocks in the sum, and the last block of the definition.
Last(n, t) == SubSeq(t, n*Done(n, t) + 1, Len(t))
Final(n, key, t) ==
    LET K1 == TimesX(n, E(n, key, {}))
        last == Last(n, t)
    IN  IF Len(last) = n THEN Xor(PackBE(last), K1)
        ELSE Xor(PackBE(last \o <<{7}>> \o Zeros(n - 1 - Len(last))), TimesX(n, K1))

LEMMA LastIs ==
  ASSUME NEW n \in Nat \ {0}, NEW t \in Seq(Byte)
  PROVE  /\ Last(n, t) \in Seq(Byte) /\ Len(Last(n, t)) = Len(t) - n*Done(n, t)
         /\ Len(Last(n, t)) \in 0 .. n
         /\ \A j \in 1 .. Len(t) - n*Done(n, t) : Last(n, t)[j] = t[n*Done(n, t) + j]
<1>1. /\ n*Done(n, t) \in Nat
      /\ t = <<>> => Done(n, t) = 0 /\ Len(t) = 0
      /\ t # <<>> => Len(t) - n*Done(n, t) \in 1 .. n
  BY DoneIs
<1>2. PICK p \in Nat : p = n*Done(n, t) BY <1>1
<1>3. PICK l \in Nat : l = Len(t) BY LenProperties
<1>4. l - p \in 0 .. n
  <2>1. CASE t = <<>>
    <3>1. Done(n, t) = 0 /\ l = 0 BY <1>1, <1>3, <2>1
    <3>2. p = 0 BY <1>2, <3>1
    <3> QED BY <3>1, <3>2
  <2>2. CASE t # <<>>
    <3>1. l - p \in 1 .. n BY <1>1, <1>2, <1>3, <2>2
    <3> QED BY <3>1
  <2> QED BY <2>1, <2>2
<1>5. p + 1 \in Nat \ {0} /\ p + 1 <= l + 1 /\ l <= Len(t) BY <1>3, <1>4
<1>6. /\ SubSeq(t, p + 1, l) \in Seq(Byte) /\ Len(SubSeq(t, p + 1, l)) = l - (p + 1) + 1
      /\ \A j \in 1 .. l - (p + 1) + 1 : SubSeq(t, p + 1, l)[j] = t[(p + 1) + j - 1]
  BY <1>5, PartOf
<1>7. l - (p + 1) + 1 = l - p /\ \A j \in 1 .. l - p : (p + 1) + j - 1 = p + j BY <1>4
<1>8. Last(n, t) = SubSeq(t, p + 1, l) BY <1>2, <1>3 DEF Last
<1> QED BY <1>2, <1>3, <1>4, <1>6, <1>7, <1>8

\* CMAC, from the sum of the blocks but the last.
LEMMA CmacIs ==
  ASSUME NEW n \in {8, 16}, NEW key, NEW t \in Seq(Byte), NEW y \in Bytes(n),
         Final(n, key, t) = PackBE(y)
  PROVE  CMAC(n, key, t) = Cipher(key, XorSeq(Sum(n, key, Zeros(n), t, Done(n, t)), y))
<1> DEFINE m == IF t = <<>> THEN 1 ELSE (Len(t) + n - 1) \div n
           last == SubSeq(t, n*(m - 1) + 1, Len(t))
           K1 == TimesX(n, E(n, key, {}))
           fin == IF Len(last) = n THEN Xor(PackBE(last), K1)
                  ELSE Xor(PackBE(last \o <<{7}>> \o Zeros(n - 1 - Len(last))), TimesX(n, K1))
           W(i) == IF i = m THEN fin ELSE PackBE(SubSeq(t, n*(i-1) + 1, n*i))
           Is(f) == f = [i \in 0 .. m |-> IF i = 0 THEN {} ELSE E(n, key, Xor(f[i-1], W(i)))]
           v == CHOOSE f : Is(f)
           q == Done(n, t)
           G == [e \in Word(8*n) \X (1 .. m) |-> E(n, key, Xor(e[1], W(e[2])))]
           A == Sums(n, key, Zeros(n), t, q)
<1>a. CMAC(n, key, t) = UnpackBE(n, v[m]) BY DEF CMAC, E
<1>1. n \in Nat \ {0} OBVIOUS
<1>2. q \in Nat /\ Has(n, t, q) BY <1>1, DoneIs
<1>3. m = q + 1
  <2>1. CASE t = <<>>
    <3>1. q = 0 BY <1>1, <2>1, DoneIs
    <3> QED BY <2>1, <3>1
  <2>2. CASE t # <<>>
    <3>1. n*q \in Nat /\ Len(t) - n*q \in 1 .. n BY <1>1, <2>2, DoneIs
    <3>2. PICK r \in 0 .. n-1 : r = Len(t) - n*q - 1 BY <3>1
    <3>3. Len(t) \in Nat BY LenProperties
    <3>4. PICK p \in Nat : p = n*q BY <3>1
    <3>5. Len(t) + n - 1 = p + n + r BY <3>2, <3>3, <3>4
    <3>6. n*(q + 1) = p + n BY <1>1, <1>2, <3>4, TimesMonotonic
    <3>7. (n*(q + 1) + r) \div n = q + 1
      <4>1. PICK e \in Int : e = q + 1 BY <1>2
      <4>2. (n*e + r) \div n = e BY <1>1, Division
      <4> QED BY <4>1, <4>2
    <3> QED BY <2>2, <3>5, <3>6, <3>7
  <2> QED BY <2>1, <2>2
<1>4. last = Last(n, t)
  <2>1. m - 1 = q BY <1>2, <1>3
  <2> QED BY <2>1 DEF Last
<1>5. fin = PackBE(y)
  <2>1. fin = Final(n, key, t)
    <3> HIDE DEF last
    <3> QED BY <1>4 DEF Final
  <2> QED BY <2>1
<1> HIDE DEF fin, m, last, q
<1>7. AreSums(A, n, key, Zeros(n), t, q)
  <2>1. Zeros(n) \in Bytes(n)
    <3>1. Zeros(n) = [i \in 1 .. n |-> {}] BY DEF Zeros, Zero
    <3> QED BY <3>1, BytesAre DEF Bytes
  <2>2. PICK a \in Bytes(n) : a = Zeros(n) BY <2>1
  <2> QED BY <1>1, <1>2, <2>2, SumsAre
<1> HIDE DEF A
<1>8. ASSUME NEW i \in 1 .. m, i # m
      PROVE  Block(n, t, i) \in Bytes(n) /\ W(i) = PackBE(Block(n, t, i)) /\ i \in 1 .. q
  <2>1. i <= q BY <1>2, <1>3, <1>8
  <2>2. n*i \in Int /\ n*q \in Int /\ n*i <= n*q BY <1>1, <1>2, <2>1, TimesMonotonic
  <2>3. Has(n, t, i) BY <1>2, <2>2, LenProperties DEF Has
  <2>4. Block(n, t, i) \in Bytes(n) BY <1>1, <2>3, BlockIs
  <2>5. W(i) = PackBE(Block(n, t, i)) BY <1>8 DEF Block
  <2> QED BY <2>1, <2>4, <2>5, <1>2
<1>9. ASSUME NEW i \in 1 .. m PROVE \E d \in Bytes(n) : W(i) = PackBE(d)
  <2>1. CASE i = m BY <1>5, <2>1
  <2>2. CASE i # m BY <1>8, <2>2
  <2> QED BY <2>1, <2>2
<1> HIDE DEF W
<1>10. \A i \in 1 .. m : \A x \in Word(8*n) : E(n, key, Xor(x, W(i))) \in Word(8*n)
  <2> SUFFICES ASSUME NEW i \in 1 .. m, NEW x \in Word(8*n) PROVE E(n, key, Xor(x, W(i))) \in Word(8*n)
    OBVIOUS
  <2>1. PICK d \in Bytes(n) : W(i) = PackBE(d) BY <1>9
  <2>2. PICK w \in Word(8*n) : w = W(i) BY <1>1, <2>1, CmacStep
  <2>3. Xor(x, w) \in Word(8*n) BY <1>1, XorWords
  <2> QED BY <1>1, <2>2, <2>3, CipherPacked
<1>11. \A i \in 1 .. m : \A x \in Word(8*n) : G[<<x, i>>] = E(n, key, Xor(x, W(i))) OBVIOUS
<1>12. StepsIn(m, Word(8*n), G) BY <1>10, <1>11 DEF StepsIn
<1>13. m \in Nat /\ {} \in Word(8*n) BY <1>2, <1>3 DEF Word
<1> HIDE DEF G
<1>14. PICK f \in [0 .. m -> Word(8*n)] : Recursive(f, m, {}, G) BY <1>12, <1>13, Recursion
<1>15. Is(f)
  <2>1. \A i \in 1 .. m : f[i-1] \in Word(8*n) BY <1>13, <1>14
  <2>2. f[0] = {} /\ \A i \in 1 .. m : f[i] = G[<<f[i-1], i>>] BY <1>14 DEF Recursive
  <2>3. \A i \in 1 .. m : f[i] = E(n, key, Xor(f[i-1], W(i))) BY <1>11, <2>1, <2>2
  <2>4. \A i \in 0 .. m : f[i] = IF i = 0 THEN {} ELSE E(n, key, Xor(f[i-1], W(i))) BY <1>13, <2>2, <2>3
  <2>5. f = [i \in 0 .. m |-> IF i = 0 THEN {} ELSE E(n, key, Xor(f[i-1], W(i)))] BY <1>14, <2>4
  <2> QED BY <2>5
<1>16. Is(v) BY <1>15
<1> HIDE DEF v
<1>17. v[0] = {} /\ \A i \in 1 .. m : v[i] = E(n, key, Xor(v[i-1], W(i)))
  <2>1. v = [i \in 0 .. m |-> IF i = 0 THEN {} ELSE E(n, key, Xor(v[i-1], W(i)))] BY <1>16
  <2>2. 0 \in 0 .. m BY <1>13
  <2>3. \A i \in 1 .. m : i \in 0 .. m /\ i # 0 OBVIOUS
  <2> HIDE DEF Is
  <2> QED BY <2>1, <2>2, <2>3
<1>18. \A i \in 0 .. q : v[i] = PackBE(A[i])
  <2> DEFINE T == {i \in 0 .. q : v[i] = PackBE(A[i])}
  <2>1. 0 \in T
    <3>1. PackBE(Zeros(n)) = {} BY <1>1, ZeroBlock
    <3>2. A[0] = Zeros(n) BY <1>7 DEF AreSums
    <3>3. 0 \in 0 .. q BY <1>2
    <3>4. v[0] = PackBE(A[0]) BY <1>17, <3>1, <3>2
    <3> QED BY <3>3, <3>4
  <2>2. ASSUME NEW i \in 0 .. q-1, i \in T PROVE i+1 \in T
    <3>1. i+1 \in 1 .. m /\ i+1 # m /\ (i+1)-1 = i /\ i+1 \in 1 .. q /\ i \in 0 .. q BY <1>2, <1>3
    <3>2. PICK d \in Bytes(n) : d = Block(n, t, i+1) /\ W(i+1) = PackBE(d) BY <1>8, <3>1
    <3>3. PICK x \in Bytes(n) : x = A[i] BY <1>7, <3>1 DEF AreSums
    <3>4. A[i+1] = Cipher(key, XorSeq(x, d)) BY <1>7, <3>1, <3>2, <3>3 DEF AreSums
    <3>5. v[i+1] = E(n, key, Xor(PackBE(x), PackBE(d))) BY <1>17, <2>2, <3>1, <3>2, <3>3
    <3>6. E(n, key, Xor(PackBE(x), PackBE(d))) = PackBE(Cipher(key, XorSeq(x, d))) BY <1>1, CmacStep
    <3> QED BY <3>1, <3>4, <3>5, <3>6
  <2> HIDE DEF T
  <2>3. \A i \in 0 .. q : i \in T BY <1>2, <2>1, <2>2, Inductive
  <2> QED BY <2>3 DEF T
<1>19. PICK x \in Bytes(n) : x = A[q] /\ v[q] = PackBE(x)
  <2>1. q \in 0 .. q BY <1>2
  <2> QED BY <1>7, <1>18, <2>1 DEF AreSums
<1>20. v[m] = E(n, key, Xor(PackBE(x), PackBE(y)))
  <2>1. m \in 1 .. m /\ m - 1 = q BY <1>2, <1>3
  <2>2. W(m) = PackBE(y) BY <1>5, <2>1 DEF W
  <2> QED BY <1>17, <1>19, <2>1, <2>2
<1>21. v[m] = PackBE(Cipher(key, XorSeq(x, y))) /\ Cipher(key, XorSeq(x, y)) \in Bytes(n)
  BY <1>1, <1>20, CmacStep
<1>22. PICK z \in Bytes(n) : z = Cipher(key, XorSeq(x, y)) BY <1>21
<1>23. UnpackBE(n, PackBE(z)) = z BY <1>1, CmacStep
<1> QED BY <1>a, <1>19, <1>21, <1>22, <1>23 DEF A, q, Sum

LEMMA Padding ==
  ASSUME NEW n \in Nat \ {0}, NEW s \in Seq(Byte), Len(s) < n
  PROVE  s \o <<{7}>> \o Zeros(n - Len(s) - 1) \in Bytes(n)
<1>1. PICK l \in Nat, e \in Nat : l = Len(s) /\ e = n - Len(s) - 1 /\ l + 1 + e = n
  <2>1. Len(s) \in Nat BY LenProperties
  <2>2. n - Len(s) - 1 \in Nat /\ Len(s) + 1 + (n - Len(s) - 1) = n BY <2>1
  <2> QED BY <2>1, <2>2
<1>2. <<{7}>> \in Seq(Byte) /\ Len(<<{7}>>) = 1 BY BytesAre
<1>3. s \o <<{7}>> \in Seq(Byte) /\ Len(s \o <<{7}>>) = l + 1 BY <1>1, <1>2, ConcatProperties
<1>4. Zeros(e) \in Seq(Byte) /\ Len(Zeros(e)) = e
  <2>1. Zeros(e) = [i \in 1 .. e |-> {}] BY DEF Zeros, Zero
  <2>2. Zeros(e) \in [1 .. e -> Byte] BY <2>1, BytesAre
  <2> QED BY <2>2, FunctionIsSeq
<1>5. PICK a \in Seq(Byte), z \in Seq(Byte) : a = s \o <<{7}>> /\ z = Zeros(e) /\ Len(a) = l + 1 /\ Len(z) = e
  BY <1>3, <1>4
<1>6. a \o z \in Seq(Byte) /\ Len(a \o z) = n BY <1>1, <1>5, ConcatProperties
<1>7. a \o z \in [1 .. n -> Byte] BY <1>6, SeqIsFunction
<1> QED BY <1>1, <1>5, <1>7 DEF Bytes

\* What cmac_final makes of the buffer.
LastBlock(n, c) ==
    LET m == IF c.nonzero_len THEN c.boff ELSE 0
        padded == SubSeq(c.buf, 1, m) \o <<{7}>> \o Zeros(n - m - 1)
    IN  IF c.nonzero_len /\ c.boff = n THEN XorSeq(c.buf, c.k1) ELSE XorSeq(padded, c.k2)

LEMMA Finished ==
  ASSUME NEW k \in {"CMAC8", "CMAC16"}, NEW c \in Cmacs(k), NEW n, n = Blk(k), c.boff <= n
  PROVE  /\ LastBlock(n, c) \in Bytes(n)
         /\ cmac_final(c) \in Cmacs(k) /\ SameKeys(cmac_final(c), c)
         /\ cmac_final(c).hash = Cipher(c.key, XorSeq(c.hash, LastBlock(n, c)))
<1>1. n \in {8, 16} /\ n \in Nat \ {0} /\ c.blksize = n BY BlkIs DEF Cmacs
<1>2. PICK b \in [1 .. n -> Byte], k1 \in [1 .. n -> Byte], k2 \in [1 .. n -> Byte] :
        b = c.buf /\ k1 = c.k1 /\ k2 = c.k2
  BY DEF Cmacs, Bytes
<1>3. c.boff \in 0 .. n BY <1>1 DEF Cmacs
<1>4. LastBlock(n, c) \in [1 .. n -> Byte]
  <2>1. CASE c.nonzero_len /\ c.boff = n
    <3>1. XorSeq(b, k1) \in [1 .. n -> Byte] BY <1>1, XorBlocks
    <3> QED BY <1>2, <2>1, <3>1 DEF LastBlock
  <2>2. CASE ~(c.nonzero_len /\ c.boff = n)
    <3>1. PICK m \in 0 .. n-1 : m = IF c.nonzero_len THEN c.boff ELSE 0 BY <1>1, <1>3, <2>2
    <3>2. b \in Seq(Byte) /\ Len(b) = n BY <1>1, <1>2, FunctionIsSeq
    <3>3. SubSeq(b, 1, m) \in Seq(Byte) /\ Len(SubSeq(b, 1, m)) = m
      <4>1. m \in 0 .. Len(b) BY <1>1, <3>2
      <4> QED BY <3>2, <4>1, Cut
    <3>4. PICK s \in Seq(Byte) : s = SubSeq(b, 1, m) /\ Len(s) = m BY <3>3
    <3>a. Len(s) < n BY <1>1, <3>4
    <3>5. s \o <<{7}>> \o Zeros(n - Len(s) - 1) \in Bytes(n) BY <1>1, <3>a, Padding
    <3>6. PICK p \in [1 .. n -> Byte] : p = s \o <<{7}>> \o Zeros(n - m - 1) BY <3>4, <3>5 DEF Bytes
    <3>7. XorSeq(p, k2) \in [1 .. n -> Byte] BY <1>1, XorBlocks
    <3>8. LastBlock(n, c) = XorSeq(p, k2) BY <1>2, <2>2, <3>1, <3>4, <3>6 DEF LastBlock
    <3> QED BY <3>7, <3>8
  <2> QED BY <2>1, <2>2
<1>5. PICK y \in Bytes(Blk(k)) : y = LastBlock(n, c) BY <1>4 DEF Bytes
<1>6. cmac_final(c) = process_block([c EXCEPT !.buf = y], y)
  <2>1. LastBlock(n, c) = LastBlock(c.blksize, c) BY <1>1
  <2> QED BY <1>5, <2>1 DEF cmac_final, LastBlock
<1>7. PICK d \in Cmacs(k) : d = [c EXCEPT !.buf = y] BY DEF Cmacs
<1>8. PICK f \in Cmacs(k) : f = process_block(d, y) /\ f = [d EXCEPT !.hash = Cipher(d.key, XorSeq(d.hash, y))]
  BY Processed
<1>9. SameKeys(d, c) /\ d.hash = c.hash BY <1>7 DEF Cmacs, SameKeys
<1>10. f.hash = Cipher(d.key, XorSeq(d.hash, y)) /\ SameKeys(f, d) BY <1>8 DEF Cmacs, SameKeys
<1>11. cmac_final(c) = f BY <1>6, <1>7, <1>8
<1> QED BY <1>4, <1>5, <1>9, <1>10, <1>11 DEF Bytes, SameKeys

\* What final delivers for a context that follows the calls of its client.
LEMMA Tagged ==
  ASSUME NEW k \in {"CMAC8", "CMAC16"}, NEW c \in Cmacs(k), NEW n, n = Blk(k), NEW t \in Seq(Byte),
         c.boff <= n, Chained(n, c, t),
         PackBE(c.k1) = TimesX(n, E(n, c.key, {})), PackBE(c.k2) = TimesX(n, TimesX(n, E(n, c.key, {})))
  PROVE  cmac_final(c).hash = CMAC(n, c.key, t)
<1> DEFINE q == Done(n, t)
           y == LastBlock(n, c)
<1>1. n \in {8, 16} /\ n \in Nat \ {0} BY BlkIs
<1>2. y \in Bytes(n) /\ cmac_final(c).hash = Cipher(c.key, XorSeq(c.hash, y)) BY Finished
<1>3. c.hash = Sum(n, c.key, Zeros(n), t, q) BY DEF Chained, Holds, Sum
<1>4. PICK b \in [1 .. n -> Byte], k1 \in [1 .. n -> Byte], k2 \in [1 .. n -> Byte] :
        b = c.buf /\ k1 = c.k1 /\ k2 = c.k2
  BY DEF Cmacs, Bytes
<1>5. PICK s \in Seq(Byte), r \in 0 .. n :
        /\ s = Last(n, t) /\ Len(s) = r /\ r = Len(t) - n*q
        /\ \A j \in 1 .. r : s[j] = t[n*q + j]
  <2>1. /\ Last(n, t) \in Seq(Byte) /\ Len(Last(n, t)) = Len(t) - n*q
        /\ Len(Last(n, t)) \in 0 .. n
        /\ \A j \in 1 .. Len(t) - n*q : Last(n, t)[j] = t[n*q + j]
    BY <1>1, LastIs
  <2> HIDE DEF q
  <2>2. PICK s \in Seq(Byte), r \in 0 .. n : s = Last(n, t) /\ r = Len(t) - n*q BY <2>1
  <2> QED BY <2>1, <2>2
<1>6. c.boff = r
  <2>1. c.boff = r \/ (r = n /\ c.boff = 16) BY <1>5 DEF Chained, Holds, BUFFER_SIZE
  <2> QED BY <1>1, <2>1
<1>7. c.nonzero_len <=> r # 0
  <2>1. c.nonzero_len <=> t # <<>> BY DEF Chained
  <2>2. t = <<>> => r = 0
    <3>1. t = <<>> => q = 0 /\ Len(t) = 0 BY <1>1, DoneIs
    <3> QED BY <1>1, <1>5, <3>1
  <2>3. t # <<>> => r # 0
    <3>1. t # <<>> => Len(t) - n*q \in 1 .. n BY <1>1, DoneIs
    <3>2. t # <<>> => r \in 1 .. n BY <1>5, <3>1
    <3> QED BY <3>2
  <2> QED BY <2>1, <2>2, <2>3
<1> HIDE DEF q
<1>8. \A j \in 1 .. r : b[j] = s[j]
  <2>1. \A j \in 1 .. r : c.buf[j] = t[n*q + j] BY <1>5 DEF Chained, Holds, q
  <2> QED BY <1>4, <1>5, <2>1
<1>9. b \in Seq(Byte) /\ Len(b) = n BY <1>1, <1>4, FunctionIsSeq
<1>10. Final(n, c.key, t) = PackBE(y)
  <2>1. CASE r = n
    <3>1. b = s
      <4>1. s \in Bytes(n) /\ b \in Bytes(n) BY <1>4, <1>5, <2>1, SeqIsFunction DEF Bytes
      <4>2. SameFirst(n, b, s) /\ n \in Nat BY <1>1, <1>8, <2>1 DEF SameFirst
      <4> QED BY <4>1, <4>2, SameBytes
    <3>2. y = XorSeq(b, k1) BY <1>1, <1>4, <1>6, <1>7, <2>1 DEF LastBlock
    <3>3. PackBE(XorSeq(b, k1)) = Xor(PackBE(b), PackBE(k1)) BY <1>1, <1>4, XorPacked
    <3>4. Final(n, c.key, t) = Xor(PackBE(s), TimesX(n, E(n, c.key, {}))) BY <1>5, <2>1 DEF Final
    <3> QED BY <1>4, <3>1, <3>2, <3>3, <3>4
  <2>2. CASE r # n
    <3>1. SubSeq(b, 1, r) = s
      <4>1. r \in 0 .. Len(b) BY <1>1, <1>9
      <4>2. SubSeq(b, 1, r) \in Seq(Byte) /\ Len(SubSeq(b, 1, r)) = r BY <1>9, <4>1, Cut
      <4>3. \A j \in 1 .. r : SubSeq(b, 1, r)[j] = b[j]
        <5>1. 1 \in Nat \ {0} /\ r \in Nat /\ 1 <= r + 1 /\ r <= Len(b) BY <1>1, <1>9
        <5>2. \A j \in 1 .. r - 1 + 1 : SubSeq(b, 1, r)[j] = b[1 + j - 1] BY <1>9, <5>1, PartOf
        <5>3. r - 1 + 1 = r /\ \A j \in 1 .. r : 1 + j - 1 = j BY <1>1
        <5> QED BY <5>2, <5>3
      <4>4. SubSeq(b, 1, r) \in Bytes(r) /\ s \in Bytes(r) BY <1>5, <4>2, SeqIsFunction DEF Bytes
      <4>5. SameFirst(r, SubSeq(b, 1, r), s) /\ r \in Nat BY <1>1, <1>8, <4>3 DEF SameFirst
      <4> QED BY <4>4, <4>5, SameBytes
    <3>2. PICK m \in 0 .. n-1 : m = r /\ m = IF c.nonzero_len THEN c.boff ELSE 0 BY <1>1, <1>6, <1>7, <2>2
    <3>3. PICK p \in [1 .. n -> Byte] : p = s \o <<{7}>> \o Zeros(n - m - 1)
      <4>1. Len(s) = m /\ Len(s) < n BY <1>1, <1>5, <3>2
      <4>2. s \o <<{7}>> \o Zeros(n - Len(s) - 1) \in Bytes(n) BY <1>1, <1>5, <4>1, Padding
      <4> QED BY <4>1, <4>2 DEF Bytes
    <3>4. ~(c.nonzero_len /\ c.boff = n) BY <1>6, <2>2
    <3>5. y = XorSeq(p, k2) BY <1>4, <3>1, <3>2, <3>3, <3>4 DEF LastBlock
    <3>6. PackBE(XorSeq(p, k2)) = Xor(PackBE(p), PackBE(k2)) BY <1>1, <1>4, <3>3, XorPacked
    <3>7. n - 1 - Len(s) = n - m - 1 BY <1>1, <1>5, <3>2
    <3>8. Final(n, c.key, t) = Xor(PackBE(s \o <<{7}>> \o Zeros(n - 1 - Len(s))), TimesX(n, TimesX(n, E(n, c.key, {}))))
      BY <1>5, <2>2 DEF Final
    <3> QED BY <1>4, <3>3, <3>5, <3>6, <3>7, <3>8
  <2> QED BY <2>1, <2>2
<1>11. PICK z \in Bytes(n) : z = y BY <1>2
<1>12. CMAC(n, c.key, t) = Cipher(c.key, XorSeq(Sum(n, c.key, Zeros(n), t, Done(n, t)), z))
  BY <1>1, <1>10, <1>11, CmacIs
<1> QED BY <1>2, <1>3, <1>11, <1>12 DEF q

----------------------------------------------------------------------------
(* HMAC. *)

LEMMA PadIs ==
  ASSUME NEW b \in {Opad, Ipad}, NEW key \in Seq(Byte), Len(key) <= BlkSize
  PROVE  /\ KeyPad(b, key) \in Seq(Byte)
         /\ KeyPad(b, key) = XorSeq(key \o Zeros(BlkSize - Len(key)), [i \in 1 .. BlkSize |-> b])
<1>1. b \in Byte BY BytesAre DEF Opad, Ipad
<1>2. PICK l \in Nat, z \in Nat : l = Len(key) /\ z = BlkSize - Len(key) /\ l + z = BlkSize
  <2>1. Len(key) \in Nat /\ BlkSize \in Nat BY LenProperties, SizesAssumption
  <2>2. BlkSize - Len(key) \in Nat /\ Len(key) + (BlkSize - Len(key)) = BlkSize BY <2>1
  <2> QED BY <2>1, <2>2
<1>3. Zeros(z) \in Seq(Byte) /\ Len(Zeros(z)) = z /\ \A i \in 1 .. z : Zeros(z)[i] = {}
  <2>1. Zeros(z) = [i \in 1 .. z |-> {}] BY DEF Zeros, Zero
  <2>2. Zeros(z) \in [1 .. z -> Byte] BY <2>1, BytesAre
  <2> QED BY <2>1, <2>2, FunctionIsSeq
<1>4. PICK y \in Seq(Byte) : y = Zeros(z) /\ Len(y) = z /\ \A i \in 1 .. z : y[i] = {} BY <1>3
<1>5. /\ key \o y \in Seq(Byte) /\ Len(key \o y) = BlkSize
      /\ \A i \in 1 .. BlkSize : (key \o y)[i] = IF i <= l THEN key[i] ELSE y[i - l]
  <2>1. /\ key \o y \in Seq(Byte) /\ Len(key \o y) = Len(key) + Len(y)
        /\ \A i \in 1 .. Len(key) + Len(y) : (key \o y)[i] = IF i <= Len(key) THEN key[i] ELSE y[i - Len(key)]
    BY ConcatProperties
  <2> QED BY <1>2, <1>4, <2>1
<1>6. PICK p \in Seq(Byte) : p = key \o y /\ Len(p) = BlkSize
         /\ \A i \in 1 .. BlkSize : p[i] = IF i <= l THEN key[i] ELSE {}
  <2>1. \A i \in 1 .. BlkSize : ~(i <= l) => i - l \in 1 .. z BY <1>2
  <2>2. \A i \in 1 .. BlkSize : ~(i <= l) => y[i - l] = {} BY <1>4, <2>1
  <2> QED BY <1>5, <2>2
<1>7. p \in [1 .. BlkSize -> Byte] BY <1>6, SeqIsFunction
<1>8. XorSeq(p, [i \in 1 .. BlkSize |-> b]) = [i \in 1 .. BlkSize |-> Xor(p[i], b)] BY <1>7 DEF XorSeq
<1>9. ASSUME NEW i \in 1 .. BlkSize
      PROVE  /\ (IF i <= Len(key) THEN Xor(b, key[i]) ELSE b) = Xor(p[i], b)
             /\ Xor(p[i], b) \in Byte
  <2>1. p[i] \in Byte BY <1>7
  <2>2. PICK e \in Byte : e = p[i] BY <2>1
  <2>3. Xor(e, b) \in Byte /\ Xor(e, b) = Xor(b, e) /\ Xor({}, b) = b BY <1>1, XorByte
  <2>4. CASE i <= l BY <1>2, <1>6, <2>2, <2>3, <2>4
  <2>5. CASE ~(i <= l) BY <1>2, <1>6, <2>2, <2>3, <2>5
  <2> QED BY <2>4, <2>5
<1>10. KeyPad(b, key) = XorSeq(p, [i \in 1 .. BlkSize |-> b]) BY <1>8, <1>9 DEF KeyPad
<1>11. KeyPad(b, key) \in [1 .. BlkSize -> Byte] BY <1>8, <1>9, <1>10
<1>12. BlkSize \in Nat BY SizesAssumption
<1>13. KeyPad(b, key) \in Seq(Byte) BY <1>11, <1>12, FunctionIsSeq
<1> QED BY <1>2, <1>4, <1>6, <1>10, <1>13

LEMMA KeyOfIs ==
  ASSUME NEW key \in Seq(Byte)
  PROVE  /\ KeyOf(key) \in Seq(Byte) /\ Len(KeyOf(key)) <= BlkSize
         /\ KeyOf(KeyOf(key)) = KeyOf(key)
         /\ key # <<>> => KeyOf(key) # <<>>
<1>1. DigestSize \in Nat /\ DigestSize > 0 /\ DigestSize <= BlkSize /\ BlkSize \in Nat BY SizesAssumption
<1>2. CASE Len(key) > BlkSize
  <2>1. KeyOf(key) = Digest(key) BY <1>2 DEF KeyOf
  <2>2. PICK d \in Seq(Byte) : d = Digest(key) /\ Len(d) = DigestSize BY DigestIs
  <2>3. d # <<>> BY <1>1, <2>2
  <2>4. ~(Len(d) > BlkSize) /\ Len(d) <= BlkSize BY <1>1, <2>2
  <2>5. KeyOf(d) = d BY <2>4 DEF KeyOf
  <2> QED BY <2>1, <2>2, <2>3, <2>4, <2>5
<1>3. CASE ~(Len(key) > BlkSize)
  <2>1. KeyOf(key) = key BY <1>3 DEF KeyOf
  <2>2. Len(key) <= BlkSize BY <1>1, <1>3, LenProperties
  <2> QED BY <2>1, <2>2
<1> QED BY <1>2, <1>3

\* An HMAC context that has taken the key and the text.
HasText(c, key, text) ==
    /\ c.outside = KeyPad(Opad, KeyOf(key))
    /\ c.inside = KeyPad(Ipad, KeyOf(key)) \o text

LEMMA NoText ==
  ASSUME NEW s \in Seq(Byte)
  PROVE  s \o <<>> = s /\ <<>> \in Seq(Byte) /\ Len(<<>>) = 0
BY ConcatEmptySeq, EmptySeq

\* hmac_setkey hashes the key in again.
LEMMA HmacSetkey ==
  ASSUME NEW c, IsHmacContext(c), NEW key \in Seq(Byte)
  PROVE  /\ IsHmacContext(hmac_setkey(c, key)) /\ hmac_setkey(c, key).taglen = c.taglen
         /\ hmac_setkey(c, key).keybuf = KeyOf(key)
         /\ HasText(hmac_setkey(c, key), key, <<>>)
<1>1. PICK h \in Seq(Byte) : h = KeyOf(key) /\ Len(h) <= BlkSize BY KeyOfIs
<1>2. KeyPad(Opad, h) \in Seq(Byte) /\ KeyPad(Ipad, h) \in Seq(Byte)
  <2>1. Opad \in {Opad, Ipad} /\ Ipad \in {Opad, Ipad} OBVIOUS
  <2> QED BY <1>1, <2>1, PadIs
<1>3. PICK o \in Seq(Byte), i \in Seq(Byte) : o = KeyPad(Opad, h) /\ i = KeyPad(Ipad, h) BY <1>2
<1>4. hmac_setkey(c, key) = [c EXCEPT !.keybuf = h, !.outside = o, !.inside = i]
  BY <1>1, <1>3 DEF hmac_setkey, KeyOf
<1>5. PICK d \in Hmacs : d = [c EXCEPT !.keybuf = h, !.outside = o, !.inside = i] BY DEF IsHmacContext, Hmacs
<1>6. d.keybuf = h /\ d.outside = o /\ d.inside = i /\ d.taglen = c.taglen BY <1>5 DEF IsHmacContext, Hmacs
<1>7. i \o <<>> = i BY NoText
<1>8. c.taglen <= DigestSize BY DEF IsHmacContext
<1> QED BY <1>1, <1>3, <1>4, <1>5, <1>6, <1>7, <1>8 DEF IsHmacContext, HasText

LEMMA HmacReset ==
  ASSUME NEW c, IsHmacContext(c)
  PROVE  /\ IsHmacContext(hmac_reset(c)) /\ hmac_reset(c).taglen = c.taglen
         /\ hmac_reset(c).keybuf = c.keybuf
         /\ \A key \in Seq(Byte) : key # NoKey /\ c.keybuf = KeyOf(key) => HasText(hmac_reset(c), key, <<>>)
<1> DEFINE fresh == [c EXCEPT !.outside = <<>>, !.inside = <<>>]
<1>1. <<>> \in Seq(Byte) BY NoText, EmptySeq
<1>2. PICK f \in Hmacs : f = fresh BY <1>1 DEF IsHmacContext, Hmacs
<1>3. IsHmacContext(f) /\ f.taglen = c.taglen /\ f.keybuf = c.keybuf BY <1>2 DEF IsHmacContext, Hmacs
<1>4. c.keybuf \in Seq(Byte) /\ Len(c.keybuf) <= BlkSize BY DEF IsHmacContext, Hmacs
<1>5. KeyOf(c.keybuf) = c.keybuf
  <2>1. PICK b \in Seq(Byte) : b = c.keybuf /\ Len(b) <= BlkSize BY <1>4
  <2>2. ~(Len(b) > BlkSize) BY <2>1, LenProperties, SizesAssumption
  <2> QED BY <2>1, <2>2 DEF KeyOf
<1>6. CASE c.keybuf = <<>>
  <2>1. hmac_reset(c) = f BY <1>2, <1>6 DEF hmac_reset
  <2>2. \A key \in Seq(Byte) : key # NoKey => KeyOf(key) # <<>> BY KeyOfIs DEF NoKey
  <2> QED BY <1>3, <1>6, <2>1, <2>2
<1>7. CASE c.keybuf # <<>>
  <2>1. hmac_reset(c) = hmac_setkey(f, c.keybuf) BY <1>2, <1>7 DEF hmac_reset
  <2>2. PICK b \in Seq(Byte) : b = c.keybuf BY <1>4
  <2>3. /\ IsHmacContext(hmac_setkey(f, b)) /\ hmac_setkey(f, b).taglen = f.taglen
        /\ hmac_setkey(f, b).keybuf = KeyOf(b)
        /\ HasText(hmac_setkey(f, b), b, <<>>)
    BY <1>3, HmacSetkey
  <2>4. \A key \in Seq(Byte) : c.keybuf = KeyOf(key) => KeyOf(b) = KeyOf(key) BY <1>5, <2>2
  <2> QED BY <1>3, <1>5, <2>1, <2>2, <2>3, <2>4 DEF HasText
<1> QED BY <1>6, <1>7

LEMMA HmacUpdate ==
  ASSUME NEW c, IsHmacContext(c), NEW data \in Seq(Byte)
  PROVE  /\ IsHmacContext(hmac_update(c, data)) /\ hmac_update(c, data).taglen = c.taglen
         /\ hmac_update(c, data).keybuf = c.keybuf
         /\ \A key \in Seq(Byte), text \in Seq(Byte) :
              HasText(c, key, text) => HasText(hmac_update(c, data), key, text \o data)
<1>1. c.inside \in Seq(Byte) BY DEF IsHmacContext, Hmacs
<1>2. PICK h \in Seq(Byte) : h = c.inside \o data BY <1>1, ConcatProperties
<1>3. hmac_update(c, data) = [c EXCEPT !.inside = h] BY <1>2 DEF hmac_update
<1>4. PICK d \in Hmacs : d = [c EXCEPT !.inside = h] BY DEF IsHmacContext, Hmacs
<1>5. /\ IsHmacContext(d) /\ d.taglen = c.taglen /\ d.keybuf = c.keybuf /\ d.inside = h /\ d.outside = c.outside
  BY <1>4 DEF IsHmacContext, Hmacs
<1>6. ASSUME NEW key \in Seq(Byte), NEW text \in Seq(Byte), HasText(c, key, text)
      PROVE  h = KeyPad(Ipad, KeyOf(key)) \o (text \o data)
  <2>1. PICK b \in Seq(Byte) : b = KeyOf(key) /\ Len(b) <= BlkSize BY KeyOfIs
  <2>2. Ipad \in {Opad, Ipad} OBVIOUS
  <2>3. PICK p \in Seq(Byte) : p = KeyPad(Ipad, b) BY <2>1, <2>2, PadIs
  <2>4. (p \o text) \o data = p \o (text \o data) BY ConcatAssociative
  <2> QED BY <1>2, <1>6, <2>1, <2>3, <2>4 DEF HasText
<1> QED BY <1>3, <1>4, <1>5, <1>6 DEF HasText

LEMMA HmacFinal ==
  ASSUME NEW c, IsHmacContext(c)
  PROVE  /\ IsHmacContext(hmac_final(c)) /\ hmac_final(c).taglen = c.taglen
         /\ hmac_final(c).keybuf = c.keybuf
<1>1. <<>> \in Seq(Byte) BY EmptySeq
<1>2. PICK f \in Hmacs : f = [c EXCEPT !.outside = <<>>, !.inside = <<>>] BY <1>1 DEF IsHmacContext, Hmacs
<1>3. IsHmacContext(f) /\ f.taglen = c.taglen /\ f.keybuf = c.keybuf BY <1>2 DEF IsHmacContext, Hmacs
<1> QED BY <1>2, <1>3 DEF hmac_final

\* The tag is what the definition of HMAC says.
LEMMA HmacTag ==
  ASSUME NEW c, IsHmacContext(c), NEW key \in Seq(Byte), NEW text \in Seq(Byte), HasText(c, key, text)
  PROVE  /\ HMAC(key, text) \in Bytes(DigestSize) /\ HMAC(key, text) \in Seq(Byte)
         /\ Len(HMAC(key, text)) = DigestSize
         /\ hmac_tag(c) = SubSeq(HMAC(key, text), 1, c.taglen)
<1>1. PICK b \in Seq(Byte) : b = KeyOf(key) /\ Len(b) <= BlkSize BY KeyOfIs
<1>2. Opad \in {Opad, Ipad} /\ Ipad \in {Opad, Ipad} OBVIOUS
<1>3. /\ KeyPad(Opad, b) = XorSeq(b \o Zeros(BlkSize - Len(b)), [i \in 1 .. BlkSize |-> Opad])
      /\ KeyPad(Ipad, b) = XorSeq(b \o Zeros(BlkSize - Len(b)), [i \in 1 .. BlkSize |-> Ipad])
  BY <1>1, <1>2, PadIs
<1>4. HMAC(key, text) = Digest(KeyPad(Opad, b) \o Digest(KeyPad(Ipad, b) \o text))
  BY <1>1, <1>3 DEF HMAC, KeyOf
<1>5. hmac_tag(c) = SubSeq(HMAC(key, text), 1, c.taglen) BY <1>1, <1>4 DEF hmac_tag, HasText
<1> QED BY <1>4, <1>5, DigestIs DEF Bytes

LEMMA HmacIs ==
  ASSUME NEW key, NEW text
  PROVE  /\ HMAC(key, text) \in Bytes(DigestSize) /\ HMAC(key, text) \in Seq(Byte)
         /\ Len(HMAC(key, text)) = DigestSize
BY DigestIs DEF HMAC, Bytes

LEMMA FirstOf ==
  ASSUME NEW n \in Nat, NEW s \in Seq(Byte), n <= Len(s)
  PROVE  /\ SubSeq(s, 1, n) \in Seq(Byte) /\ Len(SubSeq(s, 1, n)) = n
         /\ \A i \in 1 .. n : SubSeq(s, 1, n)[i] = s[i]
<1>1. 1 \in Nat \ {0} /\ 1 <= n + 1 OBVIOUS
<1>2. /\ SubSeq(s, 1, n) \in Seq(Byte) /\ Len(SubSeq(s, 1, n)) = n - 1 + 1
      /\ \A i \in 1 .. n - 1 + 1 : SubSeq(s, 1, n)[i] = s[1 + i - 1]
  BY <1>1, PartOf
<1>3. n - 1 + 1 = n /\ \A i \in 1 .. n : 1 + i - 1 = i OBVIOUS
<1> QED BY <1>2, <1>3

\* One output of HMAC-KDF from a context that has the key, whole with outlen = DigestSize.
LEMMA HmackOut ==
  ASSUME NEW c, IsHmacContext(c), c.taglen = DigestSize, NEW key \in Seq(Byte), HasText(c, key, <<>>),
         NEW in \in Seq(Byte), NEW outlen
  PROVE  hmack_out(c, in, outlen) = SubSeq(HMAC(key, in), 1, outlen)
<1>1. <<>> \in Seq(Byte) /\ <<>> \o in = in BY EmptySeq, ConcatEmptySeq
<1>2. PICK d : d = hmac_update(c, in) OBVIOUS
<1>3. IsHmacContext(d) /\ d.taglen = DigestSize /\ HasText(d, key, in) BY <1>1, <1>2, HmacUpdate
<1>4. hmac_tag(d) = SubSeq(HMAC(key, in), 1, DigestSize) BY <1>3, HmacTag
<1>5. PICK h \in Seq(Byte) : h = HMAC(key, in) /\ Len(h) = DigestSize BY HmacIs
<1>6. SubSeq(h, 1, Len(h)) = h BY SubSeqFull
<1> QED BY <1>2, <1>4, <1>5, <1>6 DEF hmack_out

HasKey(c, key) ==
    IsHmacContext(c) /\ c.taglen = DigestSize /\ c.keybuf = KeyOf(key) /\ key # NoKey

LEMMA UIs ==
  ASSUME NEW c, NEW key \in Seq(Byte), HasKey(c, key), NEW x \in Seq(Byte)
  PROVE  u(c, x) = HMAC(key, x)
<1>1. PICK d : d = hmac_reset(c) OBVIOUS
<1>2. IsHmacContext(d) /\ d.taglen = DigestSize /\ HasText(d, key, <<>>) BY <1>1, HmacReset DEF HasKey
<1>3. hmack_out(d, x, DigestSize) = SubSeq(HMAC(key, x), 1, DigestSize) BY <1>2, HmackOut
<1>4. PICK h \in Seq(Byte) : h = HMAC(key, x) /\ Len(h) = DigestSize BY HmacIs
<1>5. SubSeq(h, 1, Len(h)) = h BY SubSeqFull
<1> QED BY <1>1, <1>3, <1>4, <1>5 DEF u

----------------------------------------------------------------------------
(* Chains of outputs. *)

\* The seed, and the output for each member of the chain.
Iterates(key, seed, m) ==
    LET A[j \in 0 .. m] == IF j = 0 THEN seed ELSE HMAC(key, A[j - 1]) IN A
AreIterates(f, key, seed, m) ==
    /\ f[0] = seed /\ \A j \in 1 .. m : f[j] = HMAC(key, f[j-1])
    /\ \A j \in 0 .. m : f[j] \in Seq(Byte)
    /\ \A j \in 1 .. m : f[j] \in Bytes(DigestSize)

LEMMA IteratesAre ==
  ASSUME NEW key, NEW seed \in Seq(Byte), NEW m \in Nat
  PROVE  AreIterates(Iterates(key, seed, m), key, seed, m)
<1> DEFINE Is(f) == f = [j \in 0 .. m |-> IF j = 0 THEN seed ELSE HMAC(key, f[j-1])]
           v == CHOOSE f : Is(f)
           G == [e \in Seq(Byte) \X (1 .. m) |-> HMAC(key, e[1])]
<1>a. Iterates(key, seed, m) = v BY DEF Iterates
<1>1. \A j \in 1 .. m : \A x \in Seq(Byte) : G[<<x, j>>] = HMAC(key, x) OBVIOUS
<1>2. StepsIn(m, Seq(Byte), G) BY <1>1, HmacIs DEF StepsIn
<1> HIDE DEF G
<1>3. PICK f \in [0 .. m -> Seq(Byte)] : Recursive(f, m, seed, G) BY <1>2, Recursion
<1>4. Is(f)
  <2>1. \A j \in 1 .. m : f[j-1] \in Seq(Byte) BY <1>3
  <2>2. f[0] = seed /\ \A j \in 1 .. m : f[j] = G[<<f[j-1], j>>] BY <1>3 DEF Recursive
  <2>3. \A j \in 1 .. m : f[j] = HMAC(key, f[j-1]) BY <1>1, <2>1, <2>2
  <2>4. \A j \in 0 .. m : f[j] = IF j = 0 THEN seed ELSE HMAC(key, f[j-1]) BY <2>2, <2>3
  <2> QED BY <1>3, <2>4
<1>5. Is(v) BY <1>4
<1> HIDE DEF v
<1>6. v[0] = seed /\ \A j \in 1 .. m : v[j] = HMAC(key, v[j-1]) BY <1>5
<1>7. \A j \in 1 .. m : v[j] \in Bytes(DigestSize) /\ v[j] \in Seq(Byte) BY <1>6, HmacIs
<1>8. \A j \in 0 .. m : v[j] \in Seq(Byte) BY <1>6, <1>7
<1> QED BY <1>a, <1>6, <1>7, <1>8 DEF AreIterates

LEMMA SameIterates ==
  ASSUME NEW key, NEW seed \in Seq(Byte), NEW m \in Nat, NEW i \in 0 .. m
  PROVE  Iterates(key, seed, i)[i] = Iterates(key, seed, m)[i]
<1> DEFINE A == Iterates(key, seed, i)
           B == Iterates(key, seed, m)
           T == {j \in 0 .. i : A[j] = B[j]}
<1>1. i \in Nat OBVIOUS
<1>2. AreIterates(A, key, seed, i) /\ AreIterates(B, key, seed, m) BY <1>1, IteratesAre
<1> HIDE DEF A, B
<1>3. 0 \in T BY <1>2 DEF AreIterates
<1>4. ASSUME NEW j \in 0 .. i-1, j \in T PROVE j+1 \in T
  <2>1. j+1 \in 1 .. i /\ j+1 \in 1 .. m /\ (j+1)-1 = j OBVIOUS
  <2>2. A[j+1] = HMAC(key, A[j]) /\ B[j+1] = HMAC(key, B[j]) BY <1>2, <2>1 DEF AreIterates
  <2> QED BY <1>4, <2>1, <2>2
<1> HIDE DEF T
<1>5. \A j \in 0 .. i : j \in T BY <1>1, <1>3, <1>4, Inductive
<1>6. i \in T BY <1>5
<1> QED BY <1>6 DEF A, B, T

\* The first m outputs of PBKDF2 added up.
Added(U, m) == LET T[j \in 0 .. m] == IF j = 0 THEN Zeros(DigestSize) ELSE XorSeq(T[j - 1], U[j]) IN T
AreAdded(T, U, m) ==
    /\ T[0] = Zeros(DigestSize) /\ \A j \in 1 .. m : T[j] = XorSeq(T[j-1], U[j])
    /\ \A j \in 0 .. m : T[j] \in Bytes(DigestSize)

LEMMA AddedAre ==
  ASSUME NEW m \in Nat, NEW U, \A j \in 1 .. m : U[j] \in Bytes(DigestSize)
  PROVE  AreAdded(Added(U, m), U, m)
<1> DEFINE Is(f) == f = [j \in 0 .. m |-> IF j = 0 THEN Zeros(DigestSize) ELSE XorSeq(f[j-1], U[j])]
           v == CHOOSE f : Is(f)
           G == [e \in Bytes(DigestSize) \X (1 .. m) |-> XorSeq(e[1], U[e[2]])]
<1>a. Added(U, m) = v BY DEF Added
<1>1. \A j \in 1 .. m : \A x \in Bytes(DigestSize) : G[<<x, j>>] = XorSeq(x, U[j]) OBVIOUS
<1>2. PICK n \in Nat : n = DigestSize BY SizesAssumption
<1>3. ASSUME NEW j \in 1 .. m, NEW x \in Bytes(DigestSize) PROVE XorSeq(x, U[j]) \in Bytes(DigestSize)
  <2>1. PICK a \in [1 .. n -> Byte], b \in [1 .. n -> Byte] : a = x /\ b = U[j] BY <1>2 DEF Bytes
  <2>2. XorSeq(a, b) \in [1 .. n -> Byte] BY XorBlocks
  <2> QED BY <1>2, <2>1, <2>2 DEF Bytes
<1>4. Zeros(DigestSize) \in Bytes(DigestSize)
  <2>1. Zeros(n) = [i \in 1 .. n |-> {}] BY DEF Zeros, Zero
  <2> QED BY <1>2, <2>1, BytesAre DEF Bytes
<1>5. StepsIn(m, Bytes(DigestSize), G) BY <1>1, <1>3 DEF StepsIn
<1> HIDE DEF G
<1>6. PICK z \in Bytes(DigestSize) : z = Zeros(DigestSize) BY <1>4
<1>7. PICK f \in [0 .. m -> Bytes(DigestSize)] : Recursive(f, m, z, G) BY <1>5, Recursion
<1>8. Is(f)
  <2>1. \A j \in 1 .. m : f[j-1] \in Bytes(DigestSize) BY <1>7
  <2>2. f[0] = z /\ \A j \in 1 .. m : f[j] = G[<<f[j-1], j>>] BY <1>7 DEF Recursive
  <2>3. \A j \in 1 .. m : f[j] = XorSeq(f[j-1], U[j]) BY <1>1, <2>1, <2>2
  <2>4. \A j \in 0 .. m : f[j] = IF j = 0 THEN Zeros(DigestSize) ELSE XorSeq(f[j-1], U[j]) BY <1>6, <2>2, <2>3
  <2> QED BY <1>7, <2>4
<1>9. Is(v) BY <1>8
<1> HIDE DEF v
<1>10. v[0] = Zeros(DigestSize) /\ \A j \in 1 .. m : v[j] = XorSeq(v[j-1], U[j]) BY <1>9
<1>11. v = [j \in 0 .. m |-> v[j]] BY <1>9
<1>12. v[0] \in Bytes(DigestSize) BY <1>4, <1>10
<1>13. \A j \in 1 .. m : v[j-1] \in Bytes(DigestSize) => v[j] \in Bytes(DigestSize) BY <1>3, <1>10
<1> HIDE DEF Is
<1>14. v \in [0 .. m -> Bytes(DigestSize)] BY <1>11, <1>12, <1>13, TypedRecursion
<1> QED BY <1>a, <1>10, <1>14 DEF AreAdded

LEMMA StoreIs ==
  ASSUME NEW x
  PROVE  store_uint32(x) \in Seq(Byte)
<1>1. OfNum(32, x) \in Word(8*4) BY DEF OfNum, Word
<1>2. 4 \in Nat \ {0} OBVIOUS
<1>3. UnpackBE(4, OfNum(32, x)) \in [1 .. 4 -> Byte] BY <1>1, <1>2, Unpacked
<1> QED BY <1>3, FunctionIsSeq DEF store_uint32

\* One block of PBKDF2: after turn j, buf is output j + 1 and store the sum of
\* the first j + 1.
LEMMA PbkdfBlock ==
  ASSUME NEW prf, NEW key \in Seq(Byte), HasKey(prf, key), NEW salt \in Seq(Byte), NEW i,
         NEW count \in Nat \ {0}
  PROVE  /\ pbkdf_block(prf, salt \o store_uint32(i), count) = PBKDF2(key, salt, count, i)
         /\ PBKDF2(key, salt, count, i) \in Bytes(DigestSize)
<1> DEFINE tmp == salt \o store_uint32(i)
           Is(f) == f = [j \in 0 .. count - 1 |->
                          IF j = 0 THEN [buf |-> u(prf, tmp), store |-> u(prf, tmp)]
                          ELSE LET t == f[j - 1]
                               IN  [buf |-> u(prf, t.buf), store |-> XorSeq(t.store, u(prf, t.buf))]]
           v == CHOOSE f : Is(f)
           U == Iterates(key, tmp, count)
           T == Added(U, count)
           g == [j \in 0 .. count - 1 |-> [buf |-> U[j + 1], store |-> T[j + 1]]]
<1>a. pbkdf_block(prf, tmp, count) = v[count - 1].store BY DEF pbkdf_block
<1>b. PBKDF2(key, salt, count, i) = T[count] BY DEF PBKDF2, Iterates, Added
<1>1. tmp \in Seq(Byte)
  <2>1. PICK s \in Seq(Byte) : s = store_uint32(i) BY StoreIs
  <2> QED BY <2>1, ConcatProperties
<1> HIDE DEF tmp
<1>2. AreIterates(U, key, tmp, count) BY <1>1, IteratesAre
<1>3. AreAdded(T, U, count) BY <1>2, AddedAre DEF AreIterates
<1> HIDE DEF U, T
<1>4. u(prf, tmp) = U[1] /\ T[1] = U[1]
  <2>1. 1 \in 1 .. count /\ 1 - 1 = 0 OBVIOUS
  <2>2. U[1] = HMAC(key, tmp) /\ U[1] \in Bytes(DigestSize) BY <1>2, <2>1 DEF AreIterates
  <2>3. T[1] = XorSeq(Zeros(DigestSize), U[1]) BY <1>3, <2>1 DEF AreAdded
  <2>4. PICK n \in Nat : n = DigestSize BY SizesAssumption
  <2>5. PICK a \in [1 .. n -> Byte] : a = U[1] BY <2>2, <2>4 DEF Bytes
  <2>6. XorSeq(Zeros(n), a) = a BY XorBlocks
  <2>7. u(prf, tmp) = HMAC(key, tmp) BY <1>1, UIs
  <2> QED BY <2>2, <2>3, <2>4, <2>5, <2>6, <2>7
<1>5. ASSUME NEW j \in 1 .. count - 1
      PROVE  u(prf, U[j]) = U[j + 1] /\ XorSeq(T[j], U[j + 1]) = T[j + 1]
  <2>1. j + 1 \in 1 .. count /\ (j + 1) - 1 = j /\ j \in 0 .. count OBVIOUS
  <2>2. U[j + 1] = HMAC(key, U[j]) /\ T[j + 1] = XorSeq(T[j], U[j + 1])
    BY <1>2, <1>3, <2>1 DEF AreIterates, AreAdded
  <2>3. PICK x \in Seq(Byte) : x = U[j] BY <1>2, <2>1 DEF AreIterates
  <2>4. u(prf, x) = HMAC(key, x) BY UIs
  <2> QED BY <2>2, <2>3, <2>4
<1>6. \A j \in 0 .. count - 1 : g[j].buf = U[j + 1] /\ g[j].store = T[j + 1] OBVIOUS
<1>7. Is(g)
  <2>1. ASSUME NEW j \in 0 .. count - 1
        PROVE  g[j] = IF j = 0 THEN [buf |-> u(prf, tmp), store |-> u(prf, tmp)]
                      ELSE LET t == g[j - 1]
                           IN  [buf |-> u(prf, t.buf), store |-> XorSeq(t.store, u(prf, t.buf))]
    <3>1. g[j] = [buf |-> U[j + 1], store |-> T[j + 1]] OBVIOUS
    <3>2. CASE j = 0
      <4>1. g[j] = [buf |-> U[1], store |-> T[1]] BY <3>1, <3>2
      <4> QED BY <1>4, <3>2, <4>1
    <3>3. CASE j # 0
      <4>1. j \in 1 .. count - 1 /\ j - 1 \in 0 .. count - 1 /\ (j - 1) + 1 = j BY <3>3
      <4>2. g[j - 1].buf = U[j] /\ g[j - 1].store = T[j] BY <1>6, <4>1
      <4>3. u(prf, U[j]) = U[j + 1] /\ XorSeq(T[j], U[j + 1]) = T[j + 1] BY <1>5, <4>1
      <4> HIDE DEF g
      <4> QED BY <3>1, <3>3, <4>2, <4>3
    <3> QED BY <3>2, <3>3
  <2>2. g = [j \in 0 .. count - 1 |-> g[j]] OBVIOUS
  <2> HIDE DEF g
  <2> QED BY <2>1, <2>2
<1> HIDE DEF g
<1>8. Is(v) BY <1>7
<1> HIDE DEF v
<1>9. v[0] = [buf |-> U[1], store |-> T[1]]
  <2>1. 0 \in 0 .. count - 1 OBVIOUS
  <2>2. v[0] = [buf |-> u(prf, tmp), store |-> u(prf, tmp)] BY <1>8, <2>1
  <2> QED BY <1>4, <2>2
<1>10. ASSUME NEW j \in 1 .. count - 1
       PROVE  v[j] = [buf |-> u(prf, v[j-1].buf), store |-> XorSeq(v[j-1].store, u(prf, v[j-1].buf))]
  <2>1. j \in 0 .. count - 1 /\ j # 0 OBVIOUS
  <2> QED BY <1>8, <2>1
<1> HIDE DEF Is
<1>11. \A j \in 0 .. count - 1 : v[j] = [buf |-> U[j + 1], store |-> T[j + 1]]
  <2> DEFINE Q == {j \in 0 .. count - 1 : v[j] = [buf |-> U[j + 1], store |-> T[j + 1]]}
  <2>1. 0 \in Q BY <1>9
  <2>2. ASSUME NEW j \in 0 .. (count - 1) - 1, j \in Q PROVE j+1 \in Q
    <3>1. j+1 \in 1 .. count - 1 /\ j+1 \in 0 .. count - 1 /\ (j+1)-1 = j OBVIOUS
    <3>2. v[j].buf = U[j + 1] /\ v[j].store = T[j + 1] BY <2>2
    <3>3. u(prf, U[j + 1]) = U[(j + 1) + 1] /\ XorSeq(T[j + 1], U[(j + 1) + 1]) = T[(j + 1) + 1] BY <1>5, <3>1
    <3>4. v[j + 1] = [buf |-> u(prf, v[j].buf), store |-> XorSeq(v[j].store, u(prf, v[j].buf))] BY <1>10, <3>1
    <3> QED BY <3>1, <3>2, <3>3, <3>4
  <2> HIDE DEF Q
  <2>3. count - 1 \in Nat OBVIOUS
  <2>4. \A j \in 0 .. count - 1 : j \in Q BY <2>1, <2>2, <2>3, Inductive
  <2> QED BY <2>4 DEF Q
<1>12. v[count - 1].store = T[count]
  <2>1. count - 1 \in 0 .. count - 1 /\ (count - 1) + 1 = count OBVIOUS
  <2>2. v[count - 1] = [buf |-> U[(count - 1) + 1], store |-> T[(count - 1) + 1]] BY <1>11, <2>1
  <2>3. v[count - 1].store = T[(count - 1) + 1] BY <2>2
  <2> QED BY <2>1, <2>3
<1>13. T[count] \in Bytes(DigestSize) BY <1>3 DEF AreAdded
<1> QED BY <1>a, <1>b, <1>12, <1>13 DEF tmp

\* Blocks of n bytes one behind the other: byte p is in block (p-1) \div n + 1.
At(blk, n, p) == blk[((p - 1) \div n) + 1][((p - 1) % n) + 1]
Chunks(n, m, blk, out) ==
    /\ \A i \in 1 .. m : blk[i] \in Bytes(n)
    /\ out[0] = <<>> /\ \A i \in 1 .. m : out[i] = out[i-1] \o blk[i]
Placed(n, m, blk, out) ==
    \A i \in 0 .. m : /\ out[i] \in Seq(Byte) /\ Len(out[i]) = n*i
                      /\ \A p \in 1 .. n*i : out[i][p] = At(blk, n, p)
LEMMA Appended ==
  ASSUME NEW n \in Nat \ {0}, NEW m \in Nat, NEW blk, NEW out, Chunks(n, m, blk, out)
  PROVE  Placed(n, m, blk, out)
<1> DEFINE T == {i \in 0 .. m : /\ out[i] \in Seq(Byte) /\ Len(out[i]) = n*i
                                /\ \A p \in 1 .. n*i : out[i][p] = At(blk, n, p)}
<1>1. 0 \in T
  <2>1. n*0 = 0 OBVIOUS
  <2>2. \A p \in 1 .. n*0 : FALSE BY <2>1
  <2>3. <<>> \in Seq(Byte) /\ Len(<<>>) = 0 BY EmptySeq
  <2>4. out[0] \in Seq(Byte) /\ Len(out[0]) = n*0 BY <2>1, <2>3 DEF Chunks
  <2>5. \A p \in 1 .. n*0 : out[0][p] = At(blk, n, p) BY <2>2
  <2>6. 0 \in 0 .. m OBVIOUS
  <2> QED BY <2>4, <2>5, <2>6
<1>2. ASSUME NEW i \in 0 .. m-1, i \in T PROVE i+1 \in T
  <2>1. i+1 \in 1 .. m /\ i+1 \in 0 .. m /\ (i+1)-1 = i OBVIOUS
  <2>2. PICK q \in Nat : q = n*i OBVIOUS
  <2>3. n*(i+1) = q + n
    <3>1. n*(i+1) = n*i + n BY TimesMonotonic
    <3> QED BY <2>2, <3>1
  <2>4. PICK s \in Seq(Byte) : s = out[i] /\ Len(s) = q /\ \A p \in 1 .. q : s[p] = At(blk, n, p)
    BY <1>2, <2>2
  <2>5. PICK b \in [1 .. n -> Byte] : b = blk[i+1] BY <2>1 DEF Bytes, Chunks
  <2>6. b \in Seq(Byte) /\ Len(b) = n BY FunctionIsSeq
  <2>7. /\ s \o b \in Seq(Byte) /\ Len(s \o b) = q + n
        /\ \A p \in 1 .. q + n : (s \o b)[p] = IF p <= q THEN s[p] ELSE b[p - q]
    <3>1. /\ s \o b \in Seq(Byte) /\ Len(s \o b) = Len(s) + Len(b)
          /\ \A p \in 1 .. Len(s) + Len(b) : (s \o b)[p] = IF p <= Len(s) THEN s[p] ELSE b[p - Len(s)]
      BY <2>6, ConcatProperties
    <3>2. Len(s) = q /\ Len(b) = n BY <2>4, <2>6
    <3> QED BY <3>1, <3>2
  <2>8. PICK x \in Seq(Byte) : x = s \o b BY <2>7
  <2>9. ASSUME NEW p \in 1 .. q + n PROVE x[p] = At(blk, n, p)
    <3>1. CASE p <= q
      <4>1. p \in 1 .. q BY <3>1
      <4> QED BY <2>4, <2>7, <2>8, <3>1, <4>1
    <3>2. CASE ~(p <= q)
      <4>1. PICK r \in 0 .. n-1 : r = p - q - 1 /\ p - 1 = q + r /\ r + 1 = p - q BY <3>2
      <4>a. i \in Int /\ r \in 0 .. n-1 BY <4>1
      <4>2. (n*i + r) \div n = i /\ (n*i + r) % n = r BY <4>a, Division
      <4>3. (p - 1) \div n = i /\ (p - 1) % n = r BY <2>2, <4>1, <4>2
      <4>4. At(blk, n, p) = b[r + 1] BY <2>5, <4>3 DEF At
      <4>5. x[p] = b[p - q] BY <2>7, <2>8, <3>2
      <4> QED BY <4>1, <4>4, <4>5
    <3> QED BY <3>1, <3>2
  <2>10. out[i+1] = x BY <2>1, <2>4, <2>5, <2>8 DEF Chunks
  <2>11. Len(out[i+1]) = n*(i+1) BY <2>3, <2>7, <2>8, <2>10
  <2>12. \A p \in 1 .. n*(i+1) : out[i+1][p] = At(blk, n, p) BY <2>3, <2>9, <2>10
  <2> QED BY <2>1, <2>10, <2>11, <2>12
<1> HIDE DEF T
<1>3. \A i \in 0 .. m : i \in T BY <1>1, <1>2, Inductive
<1> QED BY <1>3 DEF T, Placed

\* There are blocks enough for the output.
LEMMA TurnsAre ==
  ASSUME NEW outlen \in Nat
  PROVE  Turns(outlen) \in Nat /\ outlen <= DigestSize * Turns(outlen) /\ (outlen = 0 <=> Turns(outlen) = 0)
<1>1. PICK n \in Nat \ {0} : n = DigestSize BY SizesAssumption
<1>2. outlen + n - 1 \in Nat BY <1>1
<1>3. PICK q \in Nat, r \in 0 .. n-1 : q = (outlen + n - 1) \div n /\ outlen + n - 1 = n*q + r
  BY <1>1, <1>2, DivisionExists
<1>4. Turns(outlen) = q BY <1>1, <1>3 DEF Turns
<1>5. PICK p \in Nat : p = n*q OBVIOUS
<1>6. outlen <= p BY <1>3, <1>5
<1>7. q = 0 => p = 0 BY <1>5
<1>8. outlen = 0 => q = 0
  <2>1. outlen = 0 => p <= n - 1 BY <1>3, <1>5
  <2>2. q # 0 => n*1 <= n*q
    <3>1. q # 0 => 1 <= q OBVIOUS
    <3> QED BY <3>1, TimesMonotonic
  <2>3. n*1 = n OBVIOUS
  <2>4. q # 0 => n <= p BY <1>5, <2>2, <2>3
  <2> QED BY <2>1, <2>4
<1> QED BY <1>1, <1>4, <1>5, <1>6, <1>7, <1>8

\* The first outlen bytes of m blocks.
IsOutput(out, m, blk, outlen) ==
    /\ DOMAIN out = 1 .. outlen
    /\ \A p \in 1 .. outlen :
         ((p - 1) \div DigestSize) + 1 \in 1 .. m /\ out[p] = At(blk, DigestSize, p)
LEMMA Output ==
  ASSUME NEW m \in Nat, NEW blk, NEW out, Chunks(DigestSize, m, blk, out),
         NEW outlen \in Nat, outlen <= DigestSize * m
  PROVE  IsOutput(SubSeq(out[m], 1, outlen), m, blk, outlen)
<1>1. PICK n \in Nat \ {0} : n = DigestSize BY SizesAssumption
<1>2. Chunks(n, m, blk, out) BY <1>1
<1>3. Placed(n, m, blk, out) BY <1>2, Appended
<1>4. PICK l \in Nat : l = n*m OBVIOUS
<1>5. PICK s \in Seq(Byte) : s = out[m] /\ Len(s) = l /\ \A p \in 1 .. l : s[p] = At(blk, n, p)
  <2>1. m \in 0 .. m OBVIOUS
  <2> QED BY <1>3, <1>4, <2>1 DEF Placed
<1>6. outlen <= l BY <1>1, <1>4
<1>7. outlen <= Len(s) BY <1>5, <1>6
<1>8. /\ SubSeq(s, 1, outlen) \in Seq(Byte) /\ Len(SubSeq(s, 1, outlen)) = outlen
      /\ \A i \in 1 .. outlen : SubSeq(s, 1, outlen)[i] = s[i]
  BY <1>7, FirstOf
<1>9. ASSUME NEW p \in 1 .. outlen PROVE ((p - 1) \div n) + 1 \in 1 .. m
  <2>1. p - 1 \in Nat OBVIOUS
  <2>2. PICK q \in Nat, r \in 0 .. n-1 : q = (p - 1) \div n /\ p - 1 = n*q + r BY <2>1, DivisionExists
  <2>3. q < m
    <3>1. SUFFICES ASSUME m <= q PROVE FALSE OBVIOUS
    <3>2. n*m <= n*q BY <3>1, TimesMonotonic
    <3>3. PICK e \in Nat : e = n*q OBVIOUS
    <3>4. l <= e /\ p - 1 = e + r BY <1>4, <2>2, <3>2, <3>3
    <3> QED BY <1>6, <3>4
  <2> QED BY <2>2, <2>3
<1>10. DOMAIN SubSeq(s, 1, outlen) = 1 .. outlen
  <2>1. PICK x \in Seq(Byte) : x = SubSeq(s, 1, outlen) /\ Len(x) = outlen BY <1>8
  <2>2. DOMAIN x = 1 .. Len(x) BY LenProperties
  <2> QED BY <2>1, <2>2
<1>11. \A p \in 1 .. outlen : p \in 1 .. l BY <1>6
<1> QED BY <1>1, <1>5, <1>8, <1>9, <1>10, <1>11 DEF IsOutput

\* The context that generate sets up.
LEMMA PbkdfKey ==
  ASSUME NEW prf, IsHmacContext(prf), prf.taglen = DigestSize, NEW in \in Seq(Byte)
  PROVE  /\ in # NoKey => HasKey(hmac_setkey(hmac_reset(prf), in), in)
         /\ IsHmacContext(hmac_final(hmac_setkey(hmac_reset(prf), in)))
         /\ hmac_final(hmac_setkey(hmac_reset(prf), in)).taglen = DigestSize
<1>1. PICK c : c = hmac_reset(prf) OBVIOUS
<1>2. IsHmacContext(c) /\ c.taglen = DigestSize BY <1>1, HmacReset
<1>3. PICK d : d = hmac_setkey(c, in) OBVIOUS
<1>4. IsHmacContext(d) /\ d.taglen = DigestSize /\ d.keybuf = KeyOf(in) BY <1>2, <1>3, HmacSetkey
<1>5. IsHmacContext(hmac_final(d)) /\ hmac_final(d).taglen = DigestSize BY <1>4, HmacFinal
<1> QED BY <1>1, <1>3, <1>4, <1>5 DEF HasKey

LEMMA PbkdfOut ==
  ASSUME NEW h, IsHmacContext(h.prf), h.prf.taglen = DigestSize, h.salt \in Seq(Byte),
         h.count \in Nat \ {0}, NEW in \in Seq(Byte), in # NoKey, NEW outlen \in Nat
  PROVE  \A p \in DOMAIN pbkdf_out(h, outlen, in) :
           pbkdf_out(h, outlen, in)[p] =
             PBKDF2(in, h.salt, h.count, ((p - 1) \div DigestSize) + 1)[((p - 1) % DigestSize) + 1]
<1> DEFINE prf == hmac_setkey(hmac_reset(h.prf), in)
           m == Turns(outlen)
           Is(f) == f = [i \in 0 .. m |-> IF i = 0 THEN <<>>
                           ELSE f[i-1] \o pbkdf_block(prf, h.salt \o store_uint32(i), h.count)]
           v == CHOOSE f : Is(f)
           blk == [i \in 1 .. m |-> pbkdf_block(prf, h.salt \o store_uint32(i), h.count)]
           G == [e \in Seq(Byte) \X (1 .. m) |->
                   e[1] \o pbkdf_block(prf, h.salt \o store_uint32(e[2]), h.count)]
<1>a. pbkdf_out(h, outlen, in) = SubSeq(v[m], 1, outlen) BY DEF pbkdf_out
<1>1. HasKey(prf, in)
  <2>1. PICK c : c = h.prf OBVIOUS
  <2> QED BY <2>1, PbkdfKey
<1>2. m \in Nat /\ outlen <= DigestSize * m BY TurnsAre
<1> HIDE DEF prf, m
<1>3. PICK salt \in Seq(Byte), count \in Nat \ {0} : salt = h.salt /\ count = h.count OBVIOUS
<1>4. ASSUME NEW i \in 1 .. m
      PROVE  /\ pbkdf_block(prf, h.salt \o store_uint32(i), h.count) = PBKDF2(in, h.salt, h.count, i)
             /\ pbkdf_block(prf, h.salt \o store_uint32(i), h.count) \in Bytes(DigestSize)
             /\ pbkdf_block(prf, h.salt \o store_uint32(i), h.count) \in Seq(Byte)
  <2>1. /\ pbkdf_block(prf, salt \o store_uint32(i), count) = PBKDF2(in, salt, count, i)
        /\ PBKDF2(in, salt, count, i) \in Bytes(DigestSize)
    BY <1>1, PbkdfBlock
  <2>2. PICK n \in Nat : n = DigestSize BY SizesAssumption
  <2>3. PICK x \in [1 .. n -> Byte] : x = PBKDF2(in, salt, count, i) BY <2>1, <2>2 DEF Bytes
  <2>4. x \in Seq(Byte) BY FunctionIsSeq
  <2> QED BY <1>3, <2>1, <2>3, <2>4
<1>5. \A i \in 1 .. m : \A x \in Seq(Byte) :
        G[<<x, i>>] = x \o pbkdf_block(prf, h.salt \o store_uint32(i), h.count) OBVIOUS
<1>6. StepsIn(m, Seq(Byte), G)
  <2>1. ASSUME NEW i \in 1 .. m, NEW x \in Seq(Byte) PROVE G[<<x, i>>] \in Seq(Byte)
    <3>1. PICK b \in Seq(Byte) : b = pbkdf_block(prf, h.salt \o store_uint32(i), h.count) BY <1>4
    <3>2. x \o b \in Seq(Byte) BY ConcatProperties
    <3> QED BY <1>5, <3>1, <3>2
  <2> QED BY <2>1 DEF StepsIn
<1> HIDE DEF G
<1>7. <<>> \in Seq(Byte) BY EmptySeq
<1>8. PICK f \in [0 .. m -> Seq(Byte)] : Recursive(f, m, <<>>, G) BY <1>2, <1>6, <1>7, Recursion
<1>9. Is(f)
  <2>1. \A i \in 1 .. m : f[i-1] \in Seq(Byte) BY <1>2, <1>8
  <2>2. f[0] = <<>> /\ \A i \in 1 .. m : f[i] = G[<<f[i-1], i>>] BY <1>8 DEF Recursive
  <2>3. \A i \in 1 .. m : f[i] = f[i-1] \o pbkdf_block(prf, h.salt \o store_uint32(i), h.count)
    BY <1>5, <2>1, <2>2
  <2>4. \A i \in 0 .. m : i = 0 \/ i \in 1 .. m BY <1>2
  <2>5. \A i \in 0 .. m : f[i] = IF i = 0 THEN <<>>
                                  ELSE f[i-1] \o pbkdf_block(prf, h.salt \o store_uint32(i), h.count)
    BY <2>2, <2>3, <2>4
  <2> QED BY <1>8, <2>5
<1>10. Is(v) BY <1>9
<1> HIDE DEF v
<1>11. v[0] = <<>> /\ \A i \in 1 .. m : v[i] = v[i-1] \o pbkdf_block(prf, h.salt \o store_uint32(i), h.count)
  <2>1. 0 \in 0 .. m BY <1>2
  <2>2. \A i \in 1 .. m : i \in 0 .. m /\ i # 0 BY <1>2
  <2> QED BY <1>10, <2>1, <2>2
<1> HIDE DEF Is
<1>12. \A i \in 1 .. m : blk[i] = PBKDF2(in, h.salt, h.count, i) /\ blk[i] \in Bytes(DigestSize) BY <1>4
<1>13. \A i \in 1 .. m : v[i] = v[i-1] \o blk[i] BY <1>11
<1> HIDE DEF blk
<1>14. IsOutput(SubSeq(v[m], 1, outlen), m, blk, outlen)
  <2>1. Chunks(DigestSize, m, blk, v) BY <1>2, <1>11, <1>12, <1>13 DEF Chunks
  <2> QED BY <1>2, <2>1, Output
<1>15. ASSUME NEW p \in 1 .. outlen
       PROVE  SubSeq(v[m], 1, outlen)[p] =
                PBKDF2(in, h.salt, h.count, ((p - 1) \div DigestSize) + 1)[((p - 1) % DigestSize) + 1]
  <2>1. PICK i \in 1 .. m : i = ((p - 1) \div DigestSize) + 1 BY <1>14 DEF IsOutput
  <2>2. At(blk, DigestSize, p) = blk[i][((p - 1) % DigestSize) + 1] BY <2>1 DEF At
  <2>3. blk[i] = PBKDF2(in, h.salt, h.count, i) BY <1>12
  <2> QED BY <1>14, <2>1, <2>2, <2>3 DEF IsOutput
<1> QED BY <1>a, <1>14, <1>15 DEF IsOutput

\* The PRF of TLS: after turn i, ai is member i + 1 of the chain.
LEMMA TlsOut ==
  ASSUME NEW c, NEW key \in Seq(Byte), HasKey(c.prf, key), HasText(c.prf, key, <<>>),
         NEW in \in Seq(Byte), NEW outlen \in Nat
  PROVE  \A p \in DOMAIN tls_out(c, outlen, in) :
           tls_out(c, outlen, in)[p] =
             P_hash(key, in, ((p - 1) \div DigestSize) + 1)[((p - 1) % DigestSize) + 1]
<1> DEFINE m == Turns(outlen)
           Is(f) == f = [i \in 0 .. m |->
                          IF i = 0 THEN [ai |-> hmack_out(c.prf, in, DigestSize), out |-> <<>>]
                          ELSE LET t == f[i - 1]
                               IN  [ai |-> u(c.prf, t.ai), out |-> t.out \o u(c.prf, t.ai \o in)]]
           v == CHOOSE f : Is(f)
           A == Iterates(key, in, m + 1)
           blk == [i \in 1 .. m |-> HMAC(key, A[i] \o in)]
           G == [e \in Seq(Byte) \X (1 .. m) |-> e[1] \o blk[e[2]]]
<1>a. tls_out(c, outlen, in) = SubSeq(v[m].out, 1, outlen) BY DEF tls_out
<1>1. m \in Nat /\ outlen <= DigestSize * m BY TurnsAre
<1> HIDE DEF m
<1>2. AreIterates(A, key, in, m + 1)
  <2>1. m + 1 \in Nat BY <1>1
  <2> QED BY <2>1, IteratesAre
<1>3. ASSUME NEW i \in 1 .. m
      PROVE  blk[i] = P_hash(key, in, i)
  <2>1. i \in Nat /\ i \in 0 .. m + 1 /\ m + 1 \in Nat BY <1>1
  <2>2. Iterates(key, in, i)[i] = A[i] BY <2>1, SameIterates
  <2>3. P_hash(key, in, i) = HMAC(key, Iterates(key, in, i)[i] \o in) BY DEF P_hash, Iterates
  <2> HIDE DEF A
  <2> QED BY <2>2, <2>3
<1> HIDE DEF A
<1>4. hmack_out(c.prf, in, DigestSize) = A[1]
  <2>1. PICK d : d = c.prf OBVIOUS
  <2>2. hmack_out(d, in, DigestSize) = SubSeq(HMAC(key, in), 1, DigestSize) BY <2>1, HmackOut DEF HasKey
  <2>3. PICK h \in Seq(Byte) : h = HMAC(key, in) /\ Len(h) = DigestSize BY HmacIs
  <2>4. SubSeq(h, 1, Len(h)) = h BY SubSeqFull
  <2>5. 1 \in 1 .. m + 1 /\ 1 - 1 = 0 BY <1>1
  <2>6. A[1] = HMAC(key, in) BY <1>2, <2>5 DEF AreIterates
  <2> QED BY <2>1, <2>2, <2>3, <2>4, <2>6
<1>5. ASSUME NEW i \in 1 .. m
      PROVE  /\ u(c.prf, A[i]) = A[i + 1] /\ u(c.prf, A[i] \o in) = blk[i]
             /\ blk[i] \in Bytes(DigestSize) /\ blk[i] \in Seq(Byte)
  <2>1. i + 1 \in 1 .. m + 1 /\ (i + 1) - 1 = i /\ i \in 0 .. m + 1 BY <1>1
  <2>2. PICK x \in Seq(Byte) : x = A[i] BY <1>2, <2>1 DEF AreIterates
  <2>3. A[i + 1] = HMAC(key, x) BY <1>2, <2>1, <2>2 DEF AreIterates
  <2>4. PICK d : d = c.prf /\ HasKey(d, key) OBVIOUS
  <2>5. u(d, x) = HMAC(key, x) BY <2>4, UIs
  <2>6. PICK y \in Seq(Byte) : y = x \o in BY ConcatProperties
  <2>7. u(d, y) = HMAC(key, y) BY <2>4, UIs
  <2>8. blk[i] = HMAC(key, y) BY <2>2, <2>6
  <2> QED BY <2>2, <2>3, <2>4, <2>5, <2>6, <2>7, <2>8, HmacIs
<1> HIDE DEF blk
<1>6. \A i \in 1 .. m : \A x \in Seq(Byte) : G[<<x, i>>] = x \o blk[i] OBVIOUS
<1>7. StepsIn(m, Seq(Byte), G)
  <2>1. ASSUME NEW i \in 1 .. m, NEW x \in Seq(Byte) PROVE G[<<x, i>>] \in Seq(Byte)
    <3>1. PICK b \in Seq(Byte) : b = blk[i] BY <1>5
    <3>2. x \o b \in Seq(Byte) BY ConcatProperties
    <3> QED BY <1>6, <3>1, <3>2
  <2> QED BY <2>1 DEF StepsIn
<1> HIDE DEF G
<1>8. <<>> \in Seq(Byte) BY EmptySeq
<1>9. PICK o \in [0 .. m -> Seq(Byte)] : Recursive(o, m, <<>>, G) BY <1>1, <1>7, <1>8, Recursion
<1>10. o[0] = <<>> /\ \A i \in 1 .. m : o[i] = o[i-1] \o blk[i]
  <2>1. \A i \in 1 .. m : o[i-1] \in Seq(Byte) BY <1>1, <1>9
  <2>2. o[0] = <<>> /\ \A i \in 1 .. m : o[i] = G[<<o[i-1], i>>] BY <1>9 DEF Recursive
  <2> QED BY <1>6, <2>1, <2>2
<1> DEFINE g == [i \in 0 .. m |-> [ai |-> A[i + 1], out |-> o[i]]]
<1>11. Is(g)
  <2>1. ASSUME NEW i \in 0 .. m
        PROVE  g[i] = IF i = 0 THEN [ai |-> hmack_out(c.prf, in, DigestSize), out |-> <<>>]
                      ELSE LET t == g[i - 1]
                           IN  [ai |-> u(c.prf, t.ai), out |-> t.out \o u(c.prf, t.ai \o in)]
    <3>1. g[i] = [ai |-> A[i + 1], out |-> o[i]] OBVIOUS
    <3>2. CASE i = 0
      <4>1. g[i] = [ai |-> A[1], out |-> o[0]] BY <3>1, <3>2
      <4> QED BY <1>4, <1>10, <3>2, <4>1
    <3>3. CASE i # 0
      <4>1. i \in 1 .. m /\ i - 1 \in 0 .. m /\ (i - 1) + 1 = i BY <1>1, <3>3
      <4>2. g[i - 1] = [ai |-> A[(i - 1) + 1], out |-> o[i - 1]] BY <4>1
      <4>3. g[i - 1].ai = A[i] /\ g[i - 1].out = o[i - 1] BY <4>1, <4>2
      <4>4. u(c.prf, A[i]) = A[i + 1] /\ u(c.prf, A[i] \o in) = blk[i] /\ o[i] = o[i - 1] \o blk[i]
        BY <1>5, <1>10, <4>1
      <4> HIDE DEF g
      <4> QED BY <3>1, <3>3, <4>3, <4>4
    <3> QED BY <3>2, <3>3
  <2>2. g = [i \in 0 .. m |-> g[i]] OBVIOUS
  <2> HIDE DEF g
  <2> QED BY <2>1, <2>2
<1> HIDE DEF g
<1>12. Is(v) BY <1>11
<1> HIDE DEF v
<1>13. v[0] = [ai |-> A[1], out |-> <<>>]
  <2>1. 0 \in 0 .. m BY <1>1
  <2>2. v[0] = [ai |-> hmack_out(c.prf, in, DigestSize), out |-> <<>>] BY <1>12, <2>1
  <2> QED BY <1>4, <2>2
<1>14. ASSUME NEW i \in 1 .. m
       PROVE  v[i] = [ai |-> u(c.prf, v[i-1].ai), out |-> v[i-1].out \o u(c.prf, v[i-1].ai \o in)]
  <2>1. i \in 0 .. m /\ i # 0 BY <1>1
  <2> QED BY <1>12, <2>1
<1> HIDE DEF Is
<1>15. \A i \in 0 .. m : v[i] = [ai |-> A[i + 1], out |-> o[i]]
  <2> DEFINE Q == {i \in 0 .. m : v[i] = [ai |-> A[i + 1], out |-> o[i]]}
  <2>1. 0 \in Q BY <1>1, <1>10, <1>13
  <2>2. ASSUME NEW i \in 0 .. m-1, i \in Q PROVE i+1 \in Q
    <3>1. i+1 \in 1 .. m /\ i+1 \in 0 .. m /\ (i+1)-1 = i BY <1>1
    <3>2. v[i].ai = A[i + 1] /\ v[i].out = o[i] BY <2>2
    <3>3. /\ u(c.prf, A[i + 1]) = A[(i + 1) + 1] /\ u(c.prf, A[i + 1] \o in) = blk[i + 1]
          /\ o[i + 1] = o[i] \o blk[i + 1]
      BY <1>5, <1>10, <3>1
    <3>4. v[i + 1] = [ai |-> u(c.prf, v[i].ai), out |-> v[i].out \o u(c.prf, v[i].ai \o in)] BY <1>14, <3>1
    <3> QED BY <3>1, <3>2, <3>3, <3>4
  <2> HIDE DEF Q
  <2>3. \A i \in 0 .. m : i \in Q BY <1>1, <2>1, <2>2, Inductive
  <2> QED BY <2>3 DEF Q
<1>16. v[m].out = o[m]
  <2>1. m \in 0 .. m BY <1>1
  <2>2. v[m] = [ai |-> A[m + 1], out |-> o[m]] BY <1>15, <2>1
  <2> QED BY <2>2
<1>17. \A i \in 1 .. m : blk[i] \in Bytes(DigestSize) BY <1>5
<1>18. IsOutput(SubSeq(o[m], 1, outlen), m, blk, outlen)
  <2>1. Chunks(DigestSize, m, blk, o) BY <1>1, <1>10, <1>17 DEF Chunks
  <2> QED BY <1>1, <2>1, Output
<1>19. ASSUME NEW p \in 1 .. outlen
       PROVE  SubSeq(o[m], 1, outlen)[p] =
                P_hash(key, in, ((p - 1) \div DigestSize) + 1)[((p - 1) % DigestSize) + 1]
  <2>1. PICK i \in 1 .. m : i = ((p - 1) \div DigestSize) + 1 BY <1>18 DEF IsOutput
  <2>2. At(blk, DigestSize, p) = blk[i][((p - 1) % DigestSize) + 1] BY <2>1 DEF At
  <2>3. blk[i] = P_hash(key, in, i) BY <1>3
  <2> QED BY <1>18, <2>1, <2>2, <2>3 DEF IsOutput
<1> QED BY <1>a, <1>16, <1>18, <1>19 DEF IsOutput

----------------------------------------------------------------------------
(* Each operation keeps what a context holds of its client's calls. *)

LEMMA NothingIs ==
  /\ Nothing \in Requests /\ Nothing.key = NoKey /\ Nothing.text = <<>> /\ Nothing.salt = <<>>
  /\ \A key \in Seq(Byte), ok \in BOOLEAN :
       /\ [Nothing EXCEPT !.key = key, !.ok = ok] \in Requests
       /\ [Nothing EXCEPT !.key = key, !.ok = ok].key = key
       /\ [Nothing EXCEPT !.key = key, !.ok = ok].text = <<>>
       /\ [Nothing EXCEPT !.key = key, !.ok = ok].salt = <<>>
       /\ [Nothing EXCEPT !.key = key, !.ok = ok].ok = ok
<1>1. <<>> \in Seq(Byte) BY EmptySeq
<1> QED BY <1>1 DEF Nothing, Requests, NoKey

LEMMA KeyedReset ==
  ASSUME NEW c, IsHmacContext(c), NEW a \in Requests, Keyed(c, a)
  PROVE  Keyed(hmac_reset(c), [a EXCEPT !.text = <<>>, !.ok = TRUE])
<1>1. PICK b \in Requests : b = [a EXCEPT !.text = <<>>, !.ok = TRUE]
  BY EmptySeq DEF Requests
<1>2. b.key = a.key /\ b.text = <<>> /\ b.key \in Seq(Byte) BY <1>1 DEF Requests
<1>3. ASSUME b.key # NoKey
      PROVE  hmac_reset(c).keybuf = KeyOf(b.key) /\ HasText(hmac_reset(c), b.key, <<>>)
  <2>1. c.keybuf = KeyOf(b.key) BY <1>2, <1>3 DEF Keyed
  <2> QED BY <1>2, <1>3, <2>1, HmacReset
<1> QED BY <1>1, <1>2, <1>3 DEF Keyed, HasText

LEMMA KeyedSetkey ==
  ASSUME NEW c, IsHmacContext(c), NEW key \in Seq(Byte)
  PROVE  Keyed(hmac_setkey(c, key), [Nothing EXCEPT !.key = key, !.ok = TRUE])
<1>1. PICK b \in Requests : b = [Nothing EXCEPT !.key = key, !.ok = TRUE] /\ b.key = key /\ b.text = <<>>
  BY NothingIs
<1>2. hmac_setkey(c, key).keybuf = KeyOf(key) /\ HasText(hmac_setkey(c, key), key, <<>>) BY HmacSetkey
<1> QED BY <1>1, <1>2 DEF Keyed, HasText

LEMMA KeyedUpdate ==
  ASSUME NEW c, IsHmacContext(c), NEW a \in Requests, Keyed(c, a), NEW data \in Seq(Byte)
  PROVE  Keyed(hmac_update(c, data), [a EXCEPT !.text = @ \o data])
<1>1. a.text \in Seq(Byte) /\ a.key \in Seq(Byte) BY DEF Requests
<1>2. PICK t \in Seq(Byte), x \in Seq(Byte), key \in Seq(Byte) : t = a.text /\ x = t \o data /\ key = a.key
  BY <1>1, ConcatProperties
<1>3. PICK b \in Requests : b = [a EXCEPT !.text = x] BY DEF Requests
<1>4. b.key = key /\ b.text = x /\ b.ok = a.ok BY <1>2, <1>3 DEF Requests
<1>5. b = [a EXCEPT !.text = @ \o data] BY <1>2, <1>3
<1>6. hmac_update(c, data).keybuf = c.keybuf BY HmacUpdate
<1>7. ASSUME a.key # NoKey, a.ok PROVE HasText(hmac_update(c, data), key, x)
  <2>1. HasText(c, key, t) BY <1>2, <1>7 DEF Keyed, HasText
  <2> QED BY <1>2, <2>1, HmacUpdate
<1> QED BY <1>2, <1>4, <1>5, <1>6, <1>7 DEF Keyed, HasText

LEMMA KeyedFinal ==
  ASSUME NEW c, IsHmacContext(c), NEW a \in Requests, Keyed(c, a)
  PROVE  Keyed(hmac_final(c), [a EXCEPT !.ok = FALSE])
<1>1. PICK b \in Requests : b = [a EXCEPT !.ok = FALSE] BY DEF Requests
<1>2. b.key = a.key /\ ~b.ok BY <1>1 DEF Requests
<1>3. hmac_final(c).keybuf = c.keybuf BY HmacFinal
<1> QED BY <1>1, <1>2, <1>3 DEF Keyed

\* A context that has no text.
LEMMA ChainedEmpty ==
  ASSUME NEW n \in Nat \ {0}, NEW c, c.boff = 0, c.hash = Zeros(n), c.nonzero_len = FALSE
  PROVE  Chained(n, c, <<>>)
<1>1. <<>> \in Seq(Byte) /\ Len(<<>>) = 0 BY EmptySeq
<1>2. PICK t \in Seq(Byte) : t = <<>> /\ Len(t) = 0 BY <1>1
<1>3. Done(n, t) = 0 /\ Has(n, t, Done(n, t)) BY <1>2, DoneIs
<1>4. PICK q \in Nat : q = 0 /\ q = Done(n, t) /\ Has(n, t, q) BY <1>3
<1>q. q = Done(n, t) BY <1>4
<1>5. Zeros(n) \in Bytes(n)
  <2>1. Zeros(n) = [i \in 1 .. n |-> {}] BY DEF Zeros, Zero
  <2> QED BY <2>1, BytesAre DEF Bytes
<1>6. PICK z \in Bytes(n) : z = Zeros(n) BY <1>5
<1>7. Sum(n, c.key, z, t, q) = z BY <1>4, SumIs
<1>8. n*q = 0 /\ Len(t) - n*q = 0 BY <1>2, <1>4
<1>9. PICK r \in Nat, m \in Nat : r = 0 /\ m = 0 OBVIOUS
<1>10. m = n*q /\ r = Len(t) - m BY <1>2, <1>8, <1>9
<1>11. \A j \in 1 .. r : c.buf[j] = t[m + j] BY <1>9
<1>b. c.boff = r \/ (r = n /\ c.boff = BUFFER_SIZE) BY <1>9
<1>m. m = n*q BY <1>10
<1>r. r = Len(t) - m BY <1>10
<1>12. c.hash = Sum(n, c.key, z, t, q) BY <1>6, <1>7
<1>13. Holds(n, c, z, t)
  <2>1. ASSUME NEW nn, NEW cc, NEW aa, NEW tt, NEW qq, NEW mm, NEW rr, qq = Done(nn, tt), mm = nn*qq,
                rr = Len(tt) - mm, cc.boff = rr, \A j \in 1 .. rr : cc.buf[j] = tt[mm + j],
                cc.hash = Sum(nn, cc.key, aa, tt, qq)
        PROVE  Holds(nn, cc, aa, tt)
    BY <2>1, HoldsIs
  <2> QED BY <1>q, <1>m, <1>r, <1>9, <1>11, <1>12, <2>1
<1> QED BY <1>2, <1>6, <1>13 DEF Chained

LEMMA SummedReset ==
  ASSUME NEW k \in {"CMAC8", "CMAC16"}, NEW c \in Cmacs(k), NEW a \in Requests, Summed(Blk(k), c, a)
  PROVE  /\ cmac_reset(c) \in Cmacs(k)
         /\ Summed(Blk(k), cmac_reset(c), [a EXCEPT !.text = <<>>, !.ok = TRUE])
<1>1. PICK n \in Nat \ {0} : n = Blk(k) /\ c.blksize = n BY BlkIs DEF Cmacs
<1>2. PICK b \in Requests : b = [a EXCEPT !.text = <<>>, !.ok = TRUE] BY EmptySeq DEF Requests
<1>3. b.key = a.key /\ b.text = <<>> BY <1>2 DEF Requests
<1>4. PICK z \in Bytes(n) : z = Zeros(n)
  <2>1. Zeros(n) = [i \in 1 .. n |-> {}] BY DEF Zeros, Zero
  <2> QED BY <2>1, BytesAre DEF Bytes
<1>5. cmac_reset(c) = [c EXCEPT !.boff = 0, !.nonzero_len = FALSE, !.hash = z] BY <1>1, <1>4 DEF cmac_reset
<1>6. 0 \in 0 .. BUFFER_SIZE BY DEF BUFFER_SIZE
<1>7. PICK d \in Cmacs(k) : d = [c EXCEPT !.boff = 0, !.nonzero_len = FALSE, !.hash = z]
  BY <1>1, <1>6 DEF Cmacs
<1>8. d.boff = 0 /\ d.hash = Zeros(n) /\ d.nonzero_len = FALSE /\ SameKeys(d, c)
  BY <1>4, <1>7 DEF Cmacs, SameKeys
<1>9. Chained(n, d, <<>>) BY <1>8, ChainedEmpty
<1> QED BY <1>1, <1>2, <1>3, <1>5, <1>7, <1>8, <1>9 DEF Summed, SameKeys

LEMMA SummedSubkeys ==
  ASSUME NEW k \in {"CMAC8", "CMAC16"}, NEW c \in Cmacs(k), NEW a \in Requests, Summed(Blk(k), c, a),
         NEW key \in Seq(Byte)
  PROVE  /\ cmac_subkeys(c, key) \in Cmacs(k)
         /\ Summed(Blk(k), cmac_subkeys(c, key), [a EXCEPT !.key = key, !.ok = @ /\ a.text = <<>>])
<1>1. PICK n \in Nat \ {0} : n = Blk(k) /\ c.blksize = n BY BlkIs DEF Cmacs
<1>2. PICK b \in Requests : b = [a EXCEPT !.key = key, !.ok = @ /\ a.text = <<>>] BY DEF Requests
<1>3. b.key = key /\ b.text = a.text /\ (b.ok => a.ok /\ a.text = <<>>) BY <1>2 DEF Requests
<1>4. PICK d \in Cmacs(k) : d = cmac_subkeys(c, key) BY Subkeys
<1>5. /\ d.key = key
      /\ PackBE(d.k1) = TimesX(n, E(n, key, {}))
      /\ PackBE(d.k2) = TimesX(n, TimesX(n, E(n, key, {})))
      /\ \A f \in {"buf", "hash", "boff", "nonzero_len", "taglen"} : d[f] = c[f]
  BY <1>1, <1>4, Subkeys
<1>6. d.boff = c.boff /\ d.hash = c.hash /\ d.nonzero_len = c.nonzero_len BY <1>5
<1>7. ASSUME b.ok PROVE Chained(n, d, <<>>)
  <2>1. Chained(n, c, <<>>) BY <1>1, <1>3, <1>7 DEF Summed
  <2>2. PICK t \in Seq(Byte) : t = <<>> /\ Len(t) = 0 BY EmptySeq
  <2>3. Done(n, t) = 0 /\ Has(n, t, Done(n, t)) BY <2>2, DoneIs
  <2>4. PICK q \in Nat : q = 0 /\ q = Done(n, t) /\ Has(n, t, q) BY <2>3
  <2>5. PICK z \in Bytes(n) : z = Zeros(n)
    <3>1. Zeros(n) = [i \in 1 .. n |-> {}] BY DEF Zeros, Zero
    <3> QED BY <3>1, BytesAre DEF Bytes
  <2>6. Sum(n, c.key, z, t, q) = z BY <2>4, SumIs
  <2>7. c.hash = Sum(n, c.key, z, t, q) BY <2>1, <2>2, <2>4, <2>5 DEF Chained, Holds, Sum
  <2>8. c.hash = Zeros(n) BY <2>5, <2>6, <2>7
  <2>9. c.nonzero_len = FALSE BY <2>1 DEF Chained, Cmacs
  <2>10. Len(t) - n*Done(n, t) = 0
    <3>1. n*q = 0 BY <2>4
    <3> QED BY <2>2, <2>4, <3>1
  <2>11. c.boff = 0
    <3>1. c.boff = Len(t) - n*Done(n, t) \/ Len(t) - n*Done(n, t) = n BY <2>1, <2>2 DEF Chained, Holds
    <3> QED BY <2>10, <3>1
  <2> QED BY <1>6, <2>8, <2>9, <2>11, ChainedEmpty
<1> QED BY <1>1, <1>2, <1>3, <1>4, <1>5, <1>7 DEF Summed

\* A key that the cipher refuses: the subkeys are made again from the one it has.
LEMMA SummedRefused ==
  ASSUME NEW k \in {"CMAC8", "CMAC16"}, NEW c \in Cmacs(k), NEW a \in Requests, Summed(Blk(k), c, a)
  PROVE  cmac_subkeys(c, c.key) \in Cmacs(k) /\ Summed(Blk(k), cmac_subkeys(c, c.key), a)
<1>1. PICK n \in Nat \ {0} : n = Blk(k) BY BlkIs
<1>2. PICK key \in Seq(Byte) : key = c.key /\ key = a.key BY <1>1 DEF Summed, Cmacs
<1>3. PICK d \in Cmacs(k) : d = cmac_subkeys(c, key) BY Subkeys
<1>4. /\ d.key = key
      /\ PackBE(d.k1) = TimesX(n, E(n, key, {}))
      /\ PackBE(d.k2) = TimesX(n, TimesX(n, E(n, key, {})))
      /\ \A f \in {"buf", "hash", "boff", "nonzero_len", "taglen"} : d[f] = c[f]
  BY <1>1, <1>3, Subkeys
<1>5. d.boff = c.boff /\ d.hash = c.hash /\ d.nonzero_len = c.nonzero_len /\ d.buf = c.buf BY <1>4
<1>6. ASSUME a.ok PROVE Chained(n, d, a.text)
  <2>1. Chained(n, c, a.text) BY <1>1, <1>6 DEF Summed
  <2> QED BY <1>2, <1>4, <1>5, <2>1 DEF Chained, Holds
<1>7. Summed(n, d, a) BY <1>2, <1>4, <1>6 DEF Summed
<1> QED BY <1>1, <1>2, <1>3, <1>7

LEMMA SummedSetkey ==
  ASSUME NEW k \in {"CMAC8", "CMAC16"}, NEW c \in Cmacs(k), NEW a \in Requests, Summed(Blk(k), c, a),
         NEW key \in Seq(Byte)
  PROVE  /\ cmac_setkey(c, key) \in Cmacs(k)
         /\ Summed(Blk(k), cmac_setkey(c, key),
                   IF CipherTakes(k, key) THEN [a EXCEPT !.key = key, !.ok = @ /\ a.text = <<>>] ELSE a)
<1>1. c.kind = k BY DEF Cmacs
<1>2. CASE CipherTakes(k, key)
  <2>1. cmac_setkey(c, key) = cmac_subkeys(c, key) BY <1>1, <1>2 DEF cmac_setkey
  <2>2. PICK b : b = [a EXCEPT !.key = key, !.ok = @ /\ a.text = <<>>] OBVIOUS
  <2>3. cmac_subkeys(c, key) \in Cmacs(k) /\ Summed(Blk(k), cmac_subkeys(c, key), b) BY <2>2, SummedSubkeys
  <2> QED BY <1>2, <2>1, <2>2, <2>3
<1>3. CASE ~CipherTakes(k, key)
  <2>1. cmac_setkey(c, key) = cmac_subkeys(c, c.key) BY <1>1, <1>3 DEF cmac_setkey
  <2>2. cmac_subkeys(c, c.key) \in Cmacs(k) /\ Summed(Blk(k), cmac_subkeys(c, c.key), a) BY SummedRefused
  <2> QED BY <1>3, <2>1, <2>2
<1> QED BY <1>2, <1>3

\* A context whose position is in its buffer, whatever it holds.
LEMMA CmacUpdateTyped ==
  ASSUME NEW k \in {"CMAC8", "CMAC16"}, NEW c \in Cmacs(k), NEW data \in Seq(Byte),
         c.boff <= Blk(k) \/ data = <<>>
  PROVE  cmac_update(c, data) \in Cmacs(k) /\ SameKeys(cmac_update(c, data), c)
<1>1. PICK n \in Nat \ {0} : n = Blk(k) /\ n \in {8, 16} /\ c.blksize = n BY BlkIs DEF Cmacs
<1>2. CASE data = <<>>
  <2>1. cmac_update(c, data) = c BY <1>2 DEF cmac_update
  <2> QED BY <2>1 DEF SameKeys
<1>3. CASE data # <<>> /\ c.boff <= n
  <2>a. c.buf \in Bytes(n) /\ c.hash \in Bytes(n) /\ c.boff \in 0 .. BUFFER_SIZE BY <1>1 DEF Cmacs
  <2>b. PICK b \in [1 .. n -> Byte] : b = c.buf BY <2>a DEF Bytes
  <2>h. PICK h \in Bytes(n) : h = c.hash BY <2>a
  <2>r. PICK r \in 0 .. n : r = c.boff BY <1>1, <1>3, <2>a DEF BUFFER_SIZE
  <2>1. b = c.buf /\ r = c.boff /\ h = c.hash BY <2>b, <2>h, <2>r
  <2>2. b \in Seq(Byte) /\ Len(b) = n BY <2>b, FunctionIsSeq
  <2>3. r \in Nat /\ r <= Len(b) BY <1>1, <2>r, <2>2
  <2>4. PICK t \in Seq(Byte) : Len(t) = r /\ \A i \in 1 .. r : t[i] = b[i]
    <3>1. /\ SubSeq(b, 1, r) \in Seq(Byte) /\ Len(SubSeq(b, 1, r)) = r
          /\ \A i \in 1 .. r : SubSeq(b, 1, r)[i] = b[i]
      BY <2>2, <2>3, FirstOf
    <3> QED BY <3>1
  <2>5. PICK q \in Nat : q = 0 /\ q = Done(n, t)
    <3>1. CASE r = 0
      <4>1. t = <<>> BY <2>4, <3>1, EmptySeq
      <4> QED BY <4>1, DoneIs
    <3>2. CASE r # 0
      <4>1. PICK e \in 1 .. n : e = r BY <2>r, <3>2
      <4>2. Len(t) = n*0 + e BY <2>4, <4>1
      <4>3. PICK o \in Nat : o = 0 /\ Len(t) = n*o + e BY <4>2
      <4>4. Done(n, t) = o BY <4>3, DoneAt
      <4> QED BY <4>3, <4>4
    <3> QED BY <2>r, <3>1, <3>2
  <2>6. PICK m \in Nat : m = 0 /\ m = n*q BY <2>5
  <2>7. r = Len(t) - m BY <2>r, <2>4, <2>6
  <2>8. c.boff = r /\ \A j \in 1 .. r : c.buf[j] = t[m + j]
    <3>1. \A j \in 1 .. r : m + j = j BY <2>r, <2>6
    <3> QED BY <2>1, <2>4, <3>1
  <2>9. c.hash = Sum(n, c.key, h, t, q)
    <3>1. Has(n, t, q) BY <1>1, <2>5, DoneIs
    <3>2. Sum(n, c.key, h, t, q) = h BY <2>5, <3>1, SumIs
    <3> QED BY <2>1, <3>2
    <2>q. q = Done(n, t) BY <2>5
  <2>m. m = n*q BY <2>6
  <2>10. Holds(n, c, h, t) BY <2>q, <2>m, <2>7, <2>8, <2>9, HoldsIs
  <2>11. n = Blk(k) /\ c.boff <= n BY <1>1, <1>3
  <2> QED BY <1>3, <2>h, <2>10, <2>11, Updated
<1> QED BY <1>1, <1>2, <1>3

LEMMA SummedUpdate ==
  ASSUME NEW k \in {"CMAC8", "CMAC16"}, NEW c \in Cmacs(k), NEW a \in Requests, Summed(Blk(k), c, a),
         NEW data \in Seq(Byte), c.boff <= Blk(k) \/ data = <<>>
  PROVE  Summed(Blk(k), cmac_update(c, data), [a EXCEPT !.text = @ \o data])
<1>1. PICK n \in Nat \ {0} : n = Blk(k) BY BlkIs
<1>2. PICK t \in Seq(Byte), x \in Seq(Byte) : t = a.text /\ x = t \o data BY ConcatProperties DEF Requests
<1>3. PICK b \in Requests : b = [a EXCEPT !.text = x] BY DEF Requests
<1>4. b.key = a.key /\ b.text = x /\ b.ok = a.ok BY <1>3 DEF Requests
<1>5. b = [a EXCEPT !.text = @ \o data] BY <1>2, <1>3
<1>6. PICK d \in Cmacs(k) : d = cmac_update(c, data) /\ SameKeys(d, c) BY CmacUpdateTyped
<1>7. ASSUME a.ok PROVE Chained(n, d, x)
  <2>1. Chained(n, c, t) BY <1>1, <1>2, <1>7 DEF Summed
  <2>2. CASE data = <<>>
    <3>1. d = c BY <1>6, <2>2 DEF cmac_update
    <3>2. x = t BY <1>2, <2>2, NoText
    <3> QED BY <2>1, <3>1, <3>2
  <2>3. CASE data # <<>>
    <3>1. PICK z \in Bytes(n) : z = Zeros(n)
      <4>1. Zeros(n) = [i \in 1 .. n |-> {}] BY DEF Zeros, Zero
      <4> QED BY <4>1, BytesAre DEF Bytes
    <3>2. Holds(n, c, z, t) BY <2>1, <3>1 DEF Chained
    <3>3. c.boff <= n BY <1>1, <2>3
    <3>4. Holds(n, cmac_update(c, data), z, t \o data) /\ cmac_update(c, data).nonzero_len = TRUE
      BY <1>1, <2>3, <3>2, <3>3, Updated
    <3>5. x # <<>>
      <4>1. Len(x) = Len(t) + Len(data) BY <1>2, ConcatProperties
      <4>2. Len(data) # 0 /\ Len(data) \in Nat /\ Len(t) \in Nat BY <2>3, EmptySeq, LenProperties
      <4>3. Len(x) # 0 BY <4>1, <4>2
      <4> QED BY <4>3
    <3> QED BY <1>2, <1>6, <3>1, <3>4, <3>5 DEF Chained
  <2> QED BY <2>2, <2>3
<1> QED BY <1>1, <1>4, <1>5, <1>6, <1>7 DEF Summed, SameKeys

LEMMA SummedFinal ==
  ASSUME NEW k \in {"CMAC8", "CMAC16"}, NEW c \in Cmacs(k), NEW a \in Requests, Summed(Blk(k), c, a),
         c.boff <= Blk(k)
  PROVE  /\ cmac_final(c) \in Cmacs(k)
         /\ Summed(Blk(k), cmac_final(c), [a EXCEPT !.ok = FALSE])
         /\ a.ok /\ a.key # NoKey => cmac_final(c).hash = CMAC(Blk(k), a.key, a.text)
<1>1. PICK n \in Nat \ {0} : n = Blk(k) BY BlkIs
<1>2. PICK b \in Requests : b = [a EXCEPT !.ok = FALSE] BY DEF Requests
<1>3. b.key = a.key /\ ~b.ok BY <1>2 DEF Requests
<1>4. c.boff <= n BY <1>1
<1>5. PICK d \in Cmacs(k) : d = cmac_final(c) /\ SameKeys(d, c) BY <1>1, <1>4, Finished
<1>6. ASSUME a.ok, a.key # NoKey PROVE d.hash = CMAC(n, a.key, a.text)
  <2>1. PICK t \in Seq(Byte) : t = a.text BY DEF Requests
  <2>2. /\ Chained(n, c, t) /\ c.key = a.key
        /\ PackBE(c.k1) = TimesX(n, E(n, c.key, {}))
        /\ PackBE(c.k2) = TimesX(n, TimesX(n, E(n, c.key, {})))
    BY <1>1, <1>6, <2>1 DEF Summed
  <2>3. cmac_final(c).hash = CMAC(n, c.key, t) BY <1>1, <1>4, <2>2, Tagged
  <2> QED BY <1>5, <2>1, <2>2, <2>3
<1> QED BY <1>1, <1>2, <1>3, <1>5, <1>6 DEF Summed, SameKeys

----------------------------------------------------------------------------
(* The operations of each kind of context. *)

\* A context of kind k that is typed, and holds what its client asked for.
Serves(k, c, a) == a \in Requests /\ Typed(k, c) /\ Follows(k, c, a)

LEMMA KindIs ==
  ASSUME NEW k \in Kinds
  PROVE  k \in {"HMAC", "HMAC-KDF"} \/ k \in {"CMAC8", "CMAC16"} \/ k = "PBKDF2" \/ k = "TLS"
BY ClientAssumption DEF AllKinds

LEMMA HmacServes ==
  ASSUME NEW k \in {"HMAC", "HMAC-KDF"}, NEW c, NEW a
  PROVE  Serves(k, c, a) <=> /\ a \in Requests /\ IsHmacContext(c) /\ Keyed(c, a)
                             /\ k = "HMAC-KDF" => a.text = <<>> /\ c.taglen = DigestSize
BY DEF Serves, Typed, Follows

LEMMA CmacServes ==
  ASSUME NEW k \in {"CMAC8", "CMAC16"}, NEW c, NEW a
  PROVE  Serves(k, c, a) <=> a \in Requests /\ c \in Cmacs(k) /\ Summed(Blk(k), c, a)
BY DEF Serves, Typed, Follows

\* saltsz counts the first bytes of the salt only.
Salted(c, a) == c.salt = SubSeq(a.salt, 1, Len(a.salt) % 256)

LEMMA PbkdfServes ==
  ASSUME NEW c, NEW a
  PROVE  Serves("PBKDF2", c, a) <=> /\ a \in Requests /\ c \in Pbkdfs
                                    /\ IsHmacContext(c.prf) /\ c.prf.taglen = DigestSize
                                    /\ Salted(c, a)
BY DEF Serves, Typed, Follows, Salted

LEMMA TlsServes ==
  ASSUME NEW c, NEW a
  PROVE  Serves("TLS", c, a) <=>
           /\ a \in Requests /\ c \in Tlss /\ IsHmacContext(c.prf) /\ c.prf.taglen = DigestSize
           /\ Keyed(c.prf, a) /\ a.text = <<>>
BY DEF Serves, Typed, Follows

LEMMA ZerosAre ==
  ASSUME NEW n \in Nat
  PROVE  Zeros(n) \in Bytes(n)
<1>1. Zeros(n) = [i \in 1 .. n |-> {}] BY DEF Zeros, Zero
<1> QED BY <1>1, BytesAre DEF Bytes

\* init: the client has asked for nothing yet.
LEMMA FreshHmac ==
  ASSUME NEW taglen \in 0 .. DigestSize
  PROVE  /\ IsHmacContext(hmac_init(taglen))
         /\ taglen = 0 => hmac_init(taglen).taglen = DigestSize
<1>1. <<>> \in Seq(Byte) /\ Len(<<>>) = 0 BY EmptySeq
<1>2. PICK l \in 0 .. DigestSize : l = IF taglen = 0 THEN DigestSize ELSE taglen BY SizesAssumption
<1>3. hmac_init(taglen) =
        [kind |-> "HMAC", outside |-> <<>>, inside |-> <<>>, keybuf |-> <<>>, taglen |-> l]
  BY <1>2 DEF hmac_init
<1>4. l \in Nat /\ l <= DigestSize BY SizesAssumption
<1>5. Len(<<>>) <= BlkSize BY <1>1, SizesAssumption
<1> QED BY <1>1, <1>2, <1>3, <1>4, <1>5 DEF IsHmacContext, Hmacs

LEMMA FreshIs ==
  /\ [Nothing EXCEPT !.ok = TRUE] \in Requests
  /\ [Nothing EXCEPT !.ok = TRUE].key = NoKey
  /\ [Nothing EXCEPT !.ok = TRUE].text = <<>>
  /\ [Nothing EXCEPT !.ok = TRUE].salt = <<>>
BY EmptySeq DEF Nothing, Requests, NoKey

LEMMA FreshCmac ==
  ASSUME NEW k \in {"CMAC8", "CMAC16"}, NEW taglen \in 0 .. Blk(k)
  PROVE  Serves(k, cmac_init(k, taglen), [Nothing EXCEPT !.ok = TRUE])
<1>1. PICK n \in Nat \ {0} : n = Blk(k) BY BlkIs
<1>2. PICK a \in Requests : a = [Nothing EXCEPT !.ok = TRUE] /\ a.key = NoKey /\ a.text = <<>> BY FreshIs
<1>3. PICK z \in Bytes(n) : z = Zeros(n) BY ZerosAre
<1>4. PICK l \in 0 .. n : l = IF taglen = 0 THEN n ELSE taglen BY <1>1
<1>5. cmac_init(k, taglen) =
        [kind |-> k, blksize |-> n, key |-> NoKey, buf |-> z, hash |-> z, k1 |-> z, k2 |-> z,
         boff |-> 0, nonzero_len |-> FALSE, taglen |-> l]
  BY <1>1, <1>3, <1>4 DEF cmac_init
<1>6. NoKey \in Seq(Byte) /\ 0 \in 0 .. BUFFER_SIZE BY EmptySeq DEF NoKey, BUFFER_SIZE
<1>7. PICK c \in Cmacs(k) : c = [kind |-> k, blksize |-> n, key |-> NoKey, buf |-> z, hash |-> z,
                                 k1 |-> z, k2 |-> z, boff |-> 0, nonzero_len |-> FALSE, taglen |-> l]
  BY <1>1, <1>3, <1>4, <1>6 DEF Cmacs
<1>8. c.key = NoKey /\ c.boff = 0 /\ c.hash = z /\ c.nonzero_len = FALSE BY <1>7
<1>9. Chained(n, c, <<>>) BY <1>3, <1>8, ChainedEmpty
<1>10. Summed(n, c, a) BY <1>2, <1>8, <1>9 DEF Summed
<1> QED BY <1>1, <1>2, <1>5, <1>7, <1>10, CmacServes

LEMMA FreshPrf ==
  /\ IsHmacContext(hmac_reset(hmac_init(0))) /\ hmac_reset(hmac_init(0)).taglen = DigestSize
  /\ hmac_reset(hmac_init(0)) \in Hmacs
<1>1. PICK c : c = hmac_init(0) OBVIOUS
<1>2. IsHmacContext(c) /\ c.taglen = DigestSize BY <1>1, FreshHmac, SizesAssumption
<1>3. IsHmacContext(hmac_reset(c)) /\ hmac_reset(c).taglen = DigestSize BY <1>2, HmacReset
<1> QED BY <1>1, <1>3 DEF IsHmacContext

LEMMA FreshServes ==
  ASSUME NEW k \in Kinds, NEW s \in Slots, NEW taglen \in TagLengths(k)
  PROVE  /\ k \in {"HMAC", "HMAC-KDF"} => Serves(k, hmac_init(taglen), [Nothing EXCEPT !.ok = TRUE])
         /\ k \in {"CMAC8", "CMAC16"} => Serves(k, cmac_init(k, taglen), [Nothing EXCEPT !.ok = TRUE])
         /\ k = "PBKDF2" => Serves(k, pbkdf_init(s, hmac_init(0)), [Nothing EXCEPT !.ok = TRUE])
         /\ k = "TLS" => Serves(k, tls_init(hmac_init(0)), [Nothing EXCEPT !.ok = TRUE])
<1>1. taglen \in 0 .. TagSize(k) BY ClientAssumption
<1>2. PICK a \in Requests : a = [Nothing EXCEPT !.ok = TRUE] /\ a.key = NoKey /\ a.text = <<>> /\ a.salt = <<>>
  BY FreshIs
<1>3. ASSUME NEW c PROVE Keyed(c, a) BY <1>2 DEF Keyed
<1>4. CASE k \in {"HMAC", "HMAC-KDF"}
  <2>1. taglen \in 0 .. DigestSize /\ (k = "HMAC-KDF" => taglen = 0)
    BY <1>1, <1>4, SizesAssumption DEF TagSize
  <2>2. IsHmacContext(hmac_init(taglen)) /\ (taglen = 0 => hmac_init(taglen).taglen = DigestSize)
    BY <2>1, FreshHmac
  <2>3. Serves(k, hmac_init(taglen), a) BY <1>2, <1>3, <1>4, <2>1, <2>2, HmacServes
  <2> QED BY <1>2, <1>4, <2>3
<1>5. CASE k \in {"CMAC8", "CMAC16"}
  <2>1. taglen \in 0 .. Blk(k) BY <1>1, <1>5 DEF TagSize
  <2>2. Serves(k, cmac_init(k, taglen), [Nothing EXCEPT !.ok = TRUE]) BY <1>5, <2>1, FreshCmac
  <2> QED BY <1>5, <2>2
<1>6. CASE k = "PBKDF2"
  <2>1. PICK p \in Hmacs : p = hmac_reset(hmac_init(0)) /\ IsHmacContext(p) /\ p.taglen = DigestSize BY FreshPrf
  <2>2. <<>> \in Seq(Byte) /\ <<>> = SubSeq(<<>>, 1, Len(<<>>) % 256)
    <3>1. <<>> \in Seq(Byte) /\ Len(<<>>) = 0 BY EmptySeq
    <3>2. SubSeq(<<>>, 1, 0) = <<>> BY <3>1, FirstOf, EmptySeq
    <3> QED BY <3>1, <3>2
  <2>3. PICK c \in Pbkdfs : c = [kind |-> "PBKDF2", prf |-> p, home |-> s, freed |-> FALSE,
                               salt |-> <<>>, count |-> 0]
    BY <2>2 DEF Pbkdfs
  <2>4. c.prf = p /\ c.salt = <<>> BY <2>3
  <2>5. Serves("PBKDF2", c, a)
    <3>1. Salted(c, a) BY <1>2, <2>2, <2>4 DEF Salted
    <3> QED BY <1>2, <2>1, <2>2, <2>3, <2>4, <3>1, PbkdfServes
  <2>6. pbkdf_init(s, hmac_init(0)) = c BY <2>1, <2>3 DEF pbkdf_init
  <2> QED BY <1>2, <1>6, <2>5, <2>6
<1>7. CASE k = "TLS"
  <2>1. PICK p \in Hmacs : p = hmac_reset(hmac_init(0)) /\ IsHmacContext(p) /\ p.taglen = DigestSize BY FreshPrf
  <2>2. PICK c \in Tlss : c = [kind |-> "TLS", prf |-> p] BY DEF Tlss
  <2>3. c.prf = p BY <2>2
  <2>4. Keyed(p, a) BY <1>3
  <2>5. Serves("TLS", c, a) BY <1>2, <2>1, <2>2, <2>3, <2>4, TlsServes
  <2>6. tls_init(hmac_init(0)) = c BY <2>1, <2>2 DEF tls_init
  <2> QED BY <1>2, <1>7, <2>5, <2>6
<1> QED BY <1>4, <1>5, <1>6, <1>7, KindIs

LEMMA ResetServes ==
  ASSUME NEW k \in Kinds, NEW c, NEW a, Serves(k, c, a)
  PROVE  LET b == [a EXCEPT !.text = <<>>, !.ok = TRUE]
         IN  /\ k \in {"HMAC", "HMAC-KDF"} => Serves(k, hmac_reset(c), b)
             /\ k \in {"CMAC8", "CMAC16"} => Serves(k, cmac_reset(c), b)
             /\ k = "PBKDF2" => Serves(k, pbkdf_reset(c), b)
             /\ k = "TLS" => Serves(k, tls_reset(c), b)
<1>1. a \in Requests BY DEF Serves
<1>2. PICK b \in Requests : b = [a EXCEPT !.text = <<>>, !.ok = TRUE] BY <1>1, EmptySeq DEF Requests
<1>3. b.text = <<>> /\ b.salt = a.salt BY <1>1, <1>2 DEF Requests
<1>4. ASSUME k \in {"HMAC", "HMAC-KDF"} PROVE Serves(k, hmac_reset(c), b)
  <2>1. /\ IsHmacContext(c) /\ Keyed(c, a) /\ (k = "HMAC-KDF" => c.taglen = DigestSize)
    BY <1>4, HmacServes
  <2>2. Keyed(hmac_reset(c), [a EXCEPT !.text = <<>>, !.ok = TRUE]) BY <1>1, <2>1, KeyedReset
  <2>3. IsHmacContext(hmac_reset(c)) /\ hmac_reset(c).taglen = c.taglen BY <2>1, HmacReset
  <2> QED BY <1>2, <1>3, <1>4, <2>1, <2>2, <2>3, HmacServes
<1>5. ASSUME k \in {"CMAC8", "CMAC16"} PROVE Serves(k, cmac_reset(c), b)
  <2>1. c \in Cmacs(k) /\ Summed(Blk(k), c, a) BY <1>5, CmacServes
  <2>2. /\ cmac_reset(c) \in Cmacs(k)
        /\ Summed(Blk(k), cmac_reset(c), [a EXCEPT !.text = <<>>, !.ok = TRUE])
    BY <1>1, <1>5, <2>1, SummedReset
  <2> QED BY <1>2, <1>5, <2>2, CmacServes
<1>6. ASSUME k = "PBKDF2" PROVE Serves(k, pbkdf_reset(c), b)
  <2>1. /\ c \in Pbkdfs /\ IsHmacContext(c.prf) /\ c.prf.taglen = DigestSize
        /\ Salted(c, a)
    BY <1>6, PbkdfServes
  <2>2. IsHmacContext(hmac_reset(c.prf)) /\ hmac_reset(c.prf).taglen = DigestSize BY <2>1, HmacReset
  <2>3. PICK p \in Hmacs : p = hmac_reset(c.prf) /\ IsHmacContext(p) /\ p.taglen = DigestSize
    BY <2>2 DEF IsHmacContext
  <2>4. PICK d \in Pbkdfs : d = [c EXCEPT !.prf = p] BY <2>1 DEF Pbkdfs
  <2>5. d.prf = p /\ d.salt = c.salt BY <2>1, <2>4 DEF Pbkdfs
  <2>6. Salted(d, b) BY <1>3, <2>1, <2>5 DEF Salted
  <2>7. Serves("PBKDF2", d, b) BY <1>2, <2>3, <2>4, <2>5, <2>6, PbkdfServes
  <2>8. d = pbkdf_reset(c) BY <2>3, <2>4 DEF pbkdf_reset
  <2> QED BY <1>6, <2>7, <2>8
<1>7. ASSUME k = "TLS" PROVE Serves(k, tls_reset(c), b)
  <2>1. c \in Tlss /\ IsHmacContext(c.prf) /\ c.prf.taglen = DigestSize /\ Keyed(c.prf, a)
    BY <1>7, TlsServes
  <2>2. IsHmacContext(hmac_reset(c.prf)) /\ hmac_reset(c.prf).taglen = DigestSize BY <2>1, HmacReset
  <2>3. PICK p \in Hmacs : p = hmac_reset(c.prf) /\ IsHmacContext(p) /\ p.taglen = DigestSize
    BY <2>2 DEF IsHmacContext
  <2>4. PICK d \in Tlss : d = [c EXCEPT !.prf = p] BY <2>1 DEF Tlss
  <2>5. d.prf = p BY <2>1, <2>4 DEF Tlss
  <2>6. Keyed(hmac_reset(c.prf), [a EXCEPT !.text = <<>>, !.ok = TRUE]) BY <1>1, <2>1, KeyedReset
  <2>7. Keyed(p, b) BY <1>2, <2>3, <2>6
  <2>8. Serves("TLS", d, b) BY <1>2, <1>3, <2>3, <2>4, <2>5, <2>7, TlsServes
  <2>9. d = tls_reset(c) BY <2>3, <2>4 DEF tls_reset
  <2> QED BY <1>7, <2>8, <2>9
<1> QED BY <1>2, <1>4, <1>5, <1>6, <1>7

LEMMA SetkeyServes ==
  ASSUME NEW k \in Kinds, NEW c, NEW a, Serves(k, c, a), NEW key \in Seq(Byte)
  PROVE  LET b == [Nothing EXCEPT !.key = key, !.ok = TRUE]
             d == IF CipherTakes(k, key) THEN [a EXCEPT !.key = key, !.ok = @ /\ a.text = <<>>] ELSE a
         IN  /\ k \in {"HMAC", "HMAC-KDF"} => Serves(k, hmac_setkey(c, key), b)
             /\ k \in {"CMAC8", "CMAC16"} => Serves(k, cmac_setkey(c, key), d)
             /\ k = "TLS" => Serves(k, tls_setkey(c, key), b)
<1>1. a \in Requests BY DEF Serves
<1>2. PICK b \in Requests : b = [Nothing EXCEPT !.key = key, !.ok = TRUE] /\ b.text = <<>> BY NothingIs
<1>3. PICK d \in Requests :
        d = IF CipherTakes(k, key) THEN [a EXCEPT !.key = key, !.ok = @ /\ a.text = <<>>] ELSE a
  <2>1. [a EXCEPT !.key = key, !.ok = @ /\ a.text = <<>>] \in Requests BY <1>1 DEF Requests
  <2> QED BY <1>1, <2>1
<1>4. ASSUME k \in {"HMAC", "HMAC-KDF"} PROVE Serves(k, hmac_setkey(c, key), b)
  <2>1. IsHmacContext(c) /\ (k = "HMAC-KDF" => c.taglen = DigestSize) BY <1>4, HmacServes
  <2>2. Keyed(hmac_setkey(c, key), [Nothing EXCEPT !.key = key, !.ok = TRUE]) BY <2>1, KeyedSetkey
  <2>3. IsHmacContext(hmac_setkey(c, key)) /\ hmac_setkey(c, key).taglen = c.taglen BY <2>1, HmacSetkey
  <2> QED BY <1>2, <1>4, <2>1, <2>2, <2>3, HmacServes
<1>5. ASSUME k \in {"CMAC8", "CMAC16"} PROVE Serves(k, cmac_setkey(c, key), d)
  <2>1. c \in Cmacs(k) /\ Summed(Blk(k), c, a) BY <1>5, CmacServes
  <2>2. /\ cmac_setkey(c, key) \in Cmacs(k)
        /\ Summed(Blk(k), cmac_setkey(c, key),
                  IF CipherTakes(k, key) THEN [a EXCEPT !.key = key, !.ok = @ /\ a.text = <<>>] ELSE a)
    BY <1>1, <1>5, <2>1, SummedSetkey
  <2> QED BY <1>3, <1>5, <2>2, CmacServes
<1>6. ASSUME k = "TLS" PROVE Serves(k, tls_setkey(c, key), b)
  <2>1. c \in Tlss /\ IsHmacContext(c.prf) /\ c.prf.taglen = DigestSize BY <1>6, TlsServes
  <2>2. IsHmacContext(hmac_setkey(c.prf, key)) /\ hmac_setkey(c.prf, key).taglen = DigestSize
    BY <2>1, HmacSetkey
  <2>3. PICK p \in Hmacs : p = hmac_setkey(c.prf, key) /\ IsHmacContext(p) /\ p.taglen = DigestSize
    BY <2>2 DEF IsHmacContext
  <2>4. PICK e \in Tlss : e = [c EXCEPT !.prf = p] BY <2>1 DEF Tlss
  <2>5. e.prf = p BY <2>1, <2>4 DEF Tlss
  <2>6. Keyed(hmac_setkey(c.prf, key), [Nothing EXCEPT !.key = key, !.ok = TRUE]) BY <2>1, KeyedSetkey
  <2>7. Keyed(p, b) BY <1>2, <2>3, <2>6
  <2>8. Serves("TLS", e, b) BY <1>2, <2>3, <2>4, <2>5, <2>7, TlsServes
  <2>9. e = tls_setkey(c, key) BY <2>3, <2>4 DEF tls_setkey
  <2> QED BY <1>6, <2>8, <2>9
<1> QED BY <1>2, <1>3, <1>4, <1>5, <1>6

LEMMA SetsaltServes ==
  ASSUME NEW c, NEW a, Serves("PBKDF2", c, a), NEW salt \in Seq(Byte)
  PROVE  Serves("PBKDF2", pbkdf_setsalt(c, salt), [a EXCEPT !.salt = salt])
<1>1. /\ a \in Requests /\ c \in Pbkdfs /\ IsHmacContext(c.prf) /\ c.prf.taglen = DigestSize
  BY PbkdfServes
<1>2. PICK b \in Requests : b = [a EXCEPT !.salt = salt] BY <1>1 DEF Requests
<1>3. b.salt = salt BY <1>1, <1>2 DEF Requests
<1>4. PICK l \in Nat : l = Len(salt) BY LenProperties
<1>5. PICK m \in Nat : m = Len(salt) % 256 /\ m <= Len(salt)
  BY <1>4
<1>6. PICK x \in Seq(Byte) : x = SubSeq(salt, 1, m) BY <1>5, FirstOf
<1>7. PICK d \in Pbkdfs : d = [c EXCEPT !.salt = x] BY <1>1 DEF Pbkdfs
<1>8. d.prf = c.prf /\ d.salt = x BY <1>1, <1>7 DEF Pbkdfs
<1>9. d = pbkdf_setsalt(c, salt) BY <1>5, <1>6, <1>7 DEF pbkdf_setsalt
<1>10. Salted(d, b) BY <1>3, <1>5, <1>6, <1>8 DEF Salted
<1>11. Serves("PBKDF2", d, b) BY <1>1, <1>2, <1>7, <1>8, <1>10, PbkdfServes
<1> QED BY <1>2, <1>9, <1>11

LEMMA SetcountServes ==
  ASSUME NEW c, NEW a, Serves("PBKDF2", c, a), NEW count \in Nat
  PROVE  Serves("PBKDF2", pbkdf_setcount(c, count), a)
<1>1. /\ a \in Requests /\ c \in Pbkdfs /\ IsHmacContext(c.prf) /\ c.prf.taglen = DigestSize
      /\ Salted(c, a)
  BY PbkdfServes
<1>2. PICK d \in Pbkdfs : d = [c EXCEPT !.count = count] BY <1>1 DEF Pbkdfs
<1>3. d.prf = c.prf /\ d.salt = c.salt BY <1>1, <1>2 DEF Pbkdfs
<1>4. Salted(d, a) BY <1>1, <1>3 DEF Salted
<1>5. Serves("PBKDF2", d, a) BY <1>1, <1>2, <1>3, <1>4, PbkdfServes
<1> QED BY <1>2, <1>5 DEF pbkdf_setcount

\* What the sharing of a PRF does to the other context is no harm to it.
LEMMA SharedServes ==
  ASSUME NEW d, NEW a, Serves("PBKDF2", d, a), NEW c, NEW b, c = None \/ Serves("PBKDF2", c, b)
  PROVE  Serves("PBKDF2", Shared(d, c), a)
<1>1. /\ a \in Requests /\ d \in Pbkdfs /\ IsHmacContext(d.prf) /\ d.prf.taglen = DigestSize
      /\ Salted(d, a)
  BY PbkdfServes
<1>2. CASE c = None
  <2>1. PICK e \in Pbkdfs : e = [d EXCEPT !.freed = TRUE] BY <1>1 DEF Pbkdfs
  <2>2. e.prf = d.prf /\ e.salt = d.salt BY <1>1, <2>1 DEF Pbkdfs
  <2>3. Salted(e, a) BY <1>1, <2>2 DEF Salted
  <2>4. Serves("PBKDF2", e, a) BY <1>1, <2>2, <2>3, PbkdfServes
  <2> QED BY <1>2, <2>1, <2>4 DEF Shared
<1>3. CASE c # None
  <2>1. c \in Pbkdfs /\ IsHmacContext(c.prf) /\ c.prf.taglen = DigestSize BY <1>3, PbkdfServes
  <2>2. PICK p \in Hmacs : p = c.prf BY <2>1 DEF Pbkdfs
  <2>3. PICK e \in Pbkdfs : e = [d EXCEPT !.prf = p] BY <1>1 DEF Pbkdfs
  <2>4. e.prf = p /\ e.salt = d.salt BY <1>1, <2>3 DEF Pbkdfs
  <2>5. Salted(e, a) BY <1>1, <2>4 DEF Salted
  <2>6. Serves("PBKDF2", e, a) BY <1>1, <2>1, <2>2, <2>4, <2>5, PbkdfServes
  <2> QED BY <1>3, <2>2, <2>3, <2>6 DEF Shared
<1> QED BY <1>2, <1>3

\* The conversion of a message, in parts of any size.
LEMMA UpdateServes ==
  ASSUME NEW k \in {"HMAC", "CMAC8", "CMAC16"}, NEW c, NEW a, Serves(k, c, a), NEW data \in Seq(Byte)
  PROVE  LET b == [a EXCEPT !.text = @ \o data]
         IN  /\ k = "HMAC" => Serves(k, hmac_update(c, data), b)
             /\ k # "HMAC" /\ (c.boff <= Blk(k) \/ data = <<>>) => Serves(k, cmac_update(c, data), b)
<1>1. a \in Requests /\ a.text \in Seq(Byte) BY DEF Serves, Requests
<1>2. PICK x \in Seq(Byte) : x = a.text \o data BY <1>1, ConcatProperties
<1>3. PICK b \in Requests : b = [a EXCEPT !.text = x] BY <1>1 DEF Requests
<1>4. b = [a EXCEPT !.text = @ \o data] BY <1>2, <1>3
<1>5. ASSUME k = "HMAC" PROVE Serves(k, hmac_update(c, data), b)
  <2>1. IsHmacContext(c) /\ Keyed(c, a) BY <1>5, HmacServes
  <2>2. Keyed(hmac_update(c, data), [a EXCEPT !.text = @ \o data]) BY <1>1, <2>1, KeyedUpdate
  <2>3. IsHmacContext(hmac_update(c, data)) BY <2>1, HmacUpdate
  <2>4. Keyed(hmac_update(c, data), b) BY <1>4, <2>2
  <2> QED BY <1>3, <1>5, <2>3, <2>4, HmacServes
<1>6. ASSUME k # "HMAC", c.boff <= Blk(k) \/ data = <<>> PROVE Serves(k, cmac_update(c, data), b)
  <2>1. k \in {"CMAC8", "CMAC16"} BY <1>6
  <2>2. c \in Cmacs(k) /\ Summed(Blk(k), c, a) BY <2>1, CmacServes
  <2>3. cmac_update(c, data) \in Cmacs(k) BY <1>6, <2>1, <2>2, CmacUpdateTyped
  <2>4. Summed(Blk(k), cmac_update(c, data), [a EXCEPT !.text = @ \o data])
    BY <1>1, <1>6, <2>1, <2>2, SummedUpdate
  <2>5. Summed(Blk(k), cmac_update(c, data), b) BY <1>4, <2>4
  <2> QED BY <1>3, <2>1, <2>3, <2>5, CmacServes
<1> QED BY <1>4, <1>5, <1>6

\* An output that is the first bytes of a block.
FirstBytes(out, n, blk) == \A i \in DOMAIN out : (i - 1) \div n = 0 /\ out[i] = blk[((i - 1) % n) + 1]

LEMMA FirstBytesAre ==
  ASSUME NEW n \in Nat \ {0}, NEW blk \in Seq(Byte), Len(blk) = n, NEW l \in 0 .. n
  PROVE  FirstBytes(SubSeq(blk, 1, l), n, blk)
<1>0. l \in Nat /\ l <= Len(blk) OBVIOUS
<1>1. PICK out \in Seq(Byte) : out = SubSeq(blk, 1, l) /\ Len(out) = l /\ \A i \in 1 .. l : out[i] = blk[i]
  BY <1>0, FirstOf
<1>2. DOMAIN out = 1 .. l BY <1>1, LenProperties
<1>3. ASSUME NEW i \in 1 .. l PROVE (i - 1) \div n = 0 /\ ((i - 1) % n) + 1 = i
  <2>1. PICK r \in 0 .. n-1 : r = i - 1 OBVIOUS
  <2>2. (n*0 + r) \div n = 0 /\ (n*0 + r) % n = r BY <2>1, Division
  <2>3. n*0 + r = r BY <2>1
  <2>4. r \div n = 0 /\ r % n = r BY <2>2, <2>3
  <2> QED BY <2>1, <2>4
<1> QED BY <1>1, <1>2, <1>3 DEF FirstBytes

LEMMA FinalServes ==
  ASSUME NEW k \in {"HMAC", "CMAC8", "CMAC16"}, NEW c, NEW a, Serves(k, c, a)
  PROVE  LET b == [a EXCEPT !.ok = FALSE]
         IN  /\ k = "HMAC" =>
                  /\ Serves(k, hmac_final(c), b)
                  /\ a.ok /\ a.key # NoKey => FirstBytes(hmac_tag(c), DigestSize, HMAC(a.key, a.text))
             /\ k # "HMAC" /\ c.boff <= Blk(k) =>
                  /\ Serves(k, cmac_final(c), b)
                  /\ a.ok /\ a.key # NoKey => FirstBytes(cmac_tag(c), Blk(k), CMAC(Blk(k), a.key, a.text))
<1>1. a \in Requests /\ a.key \in Seq(Byte) /\ a.text \in Seq(Byte) BY DEF Serves, Requests
<1>2. PICK b \in Requests : b = [a EXCEPT !.ok = FALSE] BY <1>1 DEF Requests
<1>3. ASSUME k = "HMAC"
      PROVE  /\ Serves(k, hmac_final(c), b)
             /\ a.ok /\ a.key # NoKey => FirstBytes(hmac_tag(c), DigestSize, HMAC(a.key, a.text))
  <2>1. IsHmacContext(c) /\ Keyed(c, a) BY <1>3, HmacServes
  <2>2. Keyed(hmac_final(c), [a EXCEPT !.ok = FALSE]) BY <1>1, <2>1, KeyedFinal
  <2>3. IsHmacContext(hmac_final(c)) BY <2>1, HmacFinal
  <2>4. Keyed(hmac_final(c), b) BY <1>2, <2>2
  <2>5. Serves(k, hmac_final(c), b) BY <1>2, <1>3, <2>3, <2>4, HmacServes
  <2>6. ASSUME a.ok, a.key # NoKey PROVE FirstBytes(hmac_tag(c), DigestSize, HMAC(a.key, a.text))
    <3>1. HasText(c, a.key, a.text) BY <2>1, <2>6 DEF Keyed, HasText
    <3>2. PICK m \in Seq(Byte) : /\ m = HMAC(a.key, a.text) /\ Len(m) = DigestSize
                                 /\ hmac_tag(c) = SubSeq(m, 1, c.taglen)
      BY <1>1, <2>1, <3>1, HmacTag
    <3>3. c.taglen \in 0 .. DigestSize /\ DigestSize \in Nat \ {0}
      BY <2>1, SizesAssumption DEF IsHmacContext, Hmacs
    <3>4. FirstBytes(SubSeq(m, 1, c.taglen), DigestSize, m) BY <3>2, <3>3, FirstBytesAre
    <3> QED BY <3>2, <3>4
  <2> QED BY <2>5, <2>6
<1>4. ASSUME k # "HMAC", c.boff <= Blk(k)
      PROVE  /\ Serves(k, cmac_final(c), b)
             /\ a.ok /\ a.key # NoKey => FirstBytes(cmac_tag(c), Blk(k), CMAC(Blk(k), a.key, a.text))
  <2>1. k \in {"CMAC8", "CMAC16"} BY <1>4
  <2>2. c \in Cmacs(k) /\ Summed(Blk(k), c, a) BY <2>1, CmacServes
  <2>3. PICK d \in Cmacs(k) : d = cmac_final(c)
    BY <1>1, <1>4, <2>1, <2>2, SummedFinal
  <2>4. /\ Summed(Blk(k), d, [a EXCEPT !.ok = FALSE])
        /\ a.ok /\ a.key # NoKey => d.hash = CMAC(Blk(k), a.key, a.text)
    BY <1>1, <1>4, <2>1, <2>2, <2>3, SummedFinal
  <2>5. Serves(k, d, b) BY <1>2, <2>1, <2>3, <2>4, CmacServes
  <2>6. ASSUME a.ok, a.key # NoKey PROVE FirstBytes(cmac_tag(c), Blk(k), CMAC(Blk(k), a.key, a.text))
    <3>1. PICK n \in Nat \ {0} : n = Blk(k) BY <2>1, BlkIs
    <3>2. d.hash \in Bytes(n) /\ c.taglen \in 0 .. n BY <2>2, <2>3, <3>1 DEF Cmacs
    <3>3. PICK h \in Seq(Byte) : h = d.hash /\ Len(h) = n
      <4>1. PICK h \in [1 .. n -> Byte] : h = d.hash BY <3>2 DEF Bytes
      <4>2. h \in Seq(Byte) /\ Len(h) = n BY <3>1, <4>1, FunctionIsSeq
      <4> QED BY <4>1, <4>2
    <3>4. cmac_tag(c) = SubSeq(h, 1, c.taglen) BY <2>3, <3>3 DEF cmac_tag
    <3>5. FirstBytes(SubSeq(h, 1, c.taglen), n, h) BY <3>1, <3>2, <3>3, FirstBytesAre
    <3> QED BY <2>4, <2>6, <3>1, <3>3, <3>4, <3>5
  <2> QED BY <2>3, <2>5, <2>6
<1> QED BY <1>2, <1>3, <1>4

LEMMA Small ==
  ASSUME NEW n \in Nat \ {0}, NEW l \in Nat, l < n
  PROVE  l % n = l
<1>1. l \in 0 .. n-1 OBVIOUS
<1>2. (n*0 + l) % n = l BY <1>1, Division
<1>3. n*0 + l = l OBVIOUS
<1> QED BY <1>2, <1>3

\* One call of generate.
LEMMA KeyedWithout ==
  ASSUME NEW a \in Requests, NEW c, NEW d, Keyed(c, a), d.keybuf = c.keybuf, NEW b \in Requests,
         b.key = a.key, ~b.ok
  PROVE  Keyed(d, b)
BY DEF Keyed

LEMMA HmackServes ==
  ASSUME NEW c, NEW a, Serves("HMAC-KDF", c, a), NEW in \in Seq(Byte), NEW outlen \in 0 .. DigestSize
  PROVE  /\ Serves("HMAC-KDF", hmack_generate(c, in), [a EXCEPT !.ok = FALSE])
         /\ a.ok /\ a.key # NoKey => FirstBytes(hmack_out(c, in, outlen), DigestSize, HMAC(a.key, in))
<1>1. a \in Requests /\ a.key \in Seq(Byte) BY DEF Serves, Requests
<1>2. PICK b \in Requests : b = [a EXCEPT !.ok = FALSE] BY <1>1 DEF Requests
<1>3. b.key = a.key /\ b.text = a.text /\ ~b.ok BY <1>1, <1>2 DEF Requests
<1>4. IsHmacContext(c) /\ Keyed(c, a) /\ a.text = <<>> /\ c.taglen = DigestSize BY HmacServes
<1>5. PICK e : e = hmac_update(c, in) OBVIOUS
<1>6. IsHmacContext(e) /\ e.taglen = c.taglen /\ e.keybuf = c.keybuf BY <1>4, <1>5, HmacUpdate
<1>7. PICK d : d = hmac_final(e) OBVIOUS
<1>8. IsHmacContext(d) /\ d.taglen = e.taglen /\ d.keybuf = e.keybuf BY <1>6, <1>7, HmacFinal
<1>9. d = hmack_generate(c, in) BY <1>5, <1>7 DEF hmack_generate
<1>10. d.keybuf = c.keybuf BY <1>6, <1>8
<1>11. Keyed(d, b) BY <1>1, <1>2, <1>3, <1>4, <1>10, KeyedWithout
<1>12. Serves("HMAC-KDF", d, b) BY <1>2, <1>3, <1>4, <1>6, <1>8, <1>11, HmacServes
<1>13. ASSUME a.ok, a.key # NoKey PROVE FirstBytes(hmack_out(c, in, outlen), DigestSize, HMAC(a.key, in))
  <2>1. HasText(c, a.key, <<>>) BY <1>4, <1>13 DEF Keyed, HasText
  <2>2. hmack_out(c, in, outlen) = SubSeq(HMAC(a.key, in), 1, outlen) BY <1>1, <1>4, <2>1, HmackOut
  <2>3. PICK m \in Seq(Byte) : m = HMAC(a.key, in) /\ Len(m) = DigestSize BY HmacIs
  <2>4. DigestSize \in Nat \ {0} BY SizesAssumption
  <2>5. FirstBytes(SubSeq(m, 1, outlen), DigestSize, m) BY <2>3, <2>4, FirstBytesAre
  <2> QED BY <2>2, <2>3, <2>5
<1> QED BY <1>2, <1>9, <1>12, <1>13

LEMMA TlsGenerates ==
  ASSUME NEW c, NEW a, Serves("TLS", c, a), NEW in \in Seq(Byte), NEW outlen \in Nat
  PROVE  /\ Serves("TLS", tls_generate(c, outlen), [a EXCEPT !.ok = outlen = 0 /\ @])
         /\ a.ok /\ a.key # NoKey =>
              \A p \in DOMAIN tls_out(c, outlen, in) :
                tls_out(c, outlen, in)[p] =
                  P_hash(a.key, in, ((p - 1) \div DigestSize) + 1)[((p - 1) % DigestSize) + 1]
<1>1. a \in Requests /\ a.key \in Seq(Byte) BY DEF Serves, Requests
<1>2. /\ c \in Tlss /\ IsHmacContext(c.prf) /\ c.prf.taglen = DigestSize
      /\ Keyed(c.prf, a) /\ a.text = <<>>
  BY TlsServes
<1>3. Serves("TLS", tls_generate(c, outlen), [a EXCEPT !.ok = outlen = 0 /\ @])
  <2>1. CASE outlen = 0
    <3>1. tls_generate(c, outlen) = c BY <1>2, <2>1 DEF tls_generate, Tlss
    <3>2. [a EXCEPT !.ok = outlen = 0 /\ @] = a BY <1>1, <2>1 DEF Requests
    <3> QED BY <3>1, <3>2
  <2>2. CASE outlen # 0
    <3>1. PICK b \in Requests : b = [a EXCEPT !.ok = outlen = 0 /\ @] BY <1>1 DEF Requests
    <3>2. b.key = a.key /\ b.text = a.text /\ ~b.ok BY <1>1, <2>2, <3>1 DEF Requests
    <3>3. PICK e : e = hmac_reset(c.prf) OBVIOUS
    <3>4. IsHmacContext(e) /\ e.taglen = DigestSize /\ e.keybuf = c.prf.keybuf BY <1>2, <3>3, HmacReset
    <3>5. IsHmacContext(hmac_final(e)) /\ hmac_final(e).taglen = DigestSize /\ hmac_final(e).keybuf = e.keybuf
      BY <3>4, HmacFinal
    <3>6. PICK p \in Hmacs : /\ p = hmac_final(e) /\ IsHmacContext(p) /\ p.taglen = DigestSize
                             /\ p.keybuf = c.prf.keybuf
      BY <3>4, <3>5 DEF IsHmacContext
    <3>7. PICK d \in Tlss : d = [c EXCEPT !.prf = p] BY <1>2 DEF Tlss
    <3>8. d.prf = p BY <1>2, <3>7 DEF Tlss
    <3>9. Keyed(p, b) BY <1>1, <1>2, <3>1, <3>2, <3>6, KeyedWithout
    <3>10. Serves("TLS", d, b) BY <1>2, <3>1, <3>2, <3>6, <3>7, <3>8, <3>9, TlsServes
    <3>11. d = tls_generate(c, outlen) BY <2>2, <3>3, <3>6, <3>7 DEF tls_generate
    <3> QED BY <3>1, <3>10, <3>11
  <2> QED BY <2>1, <2>2
<1>4. ASSUME a.ok, a.key # NoKey
      PROVE  \A p \in DOMAIN tls_out(c, outlen, in) :
               tls_out(c, outlen, in)[p] =
                 P_hash(a.key, in, ((p - 1) \div DigestSize) + 1)[((p - 1) % DigestSize) + 1]
  <2>1. HasText(c.prf, a.key, <<>>) BY <1>2, <1>4 DEF Keyed, HasText
  <2>2. HasKey(c.prf, a.key) BY <1>2, <1>4 DEF Keyed, HasKey
  <2> QED BY <1>1, <2>1, <2>2, TlsOut
<1> QED BY <1>3, <1>4

LEMMA PbkdfGenerates ==
  ASSUME NEW c, NEW a, Serves("PBKDF2", c, a), NEW in \in Seq(Byte), NEW outlen \in Nat
  PROVE  /\ Serves("PBKDF2", pbkdf_generate(c, in), a) /\ c.count \in Nat
         /\ in # NoKey /\ c.count # 0 /\ Len(a.salt) < 256 =>
              \A p \in DOMAIN pbkdf_out(c, outlen, in) :
                pbkdf_out(c, outlen, in)[p] =
                  PBKDF2(in, a.salt, c.count, ((p - 1) \div DigestSize) + 1)[((p - 1) % DigestSize) + 1]
<1>1. a \in Requests /\ a.salt \in Seq(Byte) BY DEF Serves, Requests
<1>2. /\ c \in Pbkdfs /\ IsHmacContext(c.prf) /\ c.prf.taglen = DigestSize /\ Salted(c, a) BY PbkdfServes
<1>3. Serves("PBKDF2", pbkdf_generate(c, in), a)
  <2>1. PICK e : e = hmac_final(hmac_setkey(hmac_reset(c.prf), in)) OBVIOUS
  <2>2. IsHmacContext(e) /\ e.taglen = DigestSize BY <1>2, <2>1, PbkdfKey
  <2>3. PICK p \in Hmacs : p = e BY <2>2 DEF IsHmacContext
  <2>4. PICK d \in Pbkdfs : d = [c EXCEPT !.prf = p] BY <1>2 DEF Pbkdfs
  <2>5. d.prf = p /\ d.salt = c.salt BY <1>2, <2>4 DEF Pbkdfs
  <2>6. Salted(d, a) BY <1>2, <2>5 DEF Salted
  <2>7. Serves("PBKDF2", d, a) BY <1>1, <2>2, <2>3, <2>4, <2>5, <2>6, PbkdfServes
  <2>8. d = pbkdf_generate(c, in) BY <2>1, <2>3, <2>4 DEF pbkdf_generate
  <2> QED BY <2>7, <2>8
<1>4. c.count \in Nat /\ c.salt \in Seq(Byte) BY <1>2 DEF Pbkdfs
<1>5. ASSUME in # NoKey, c.count # 0, Len(a.salt) < 256
      PROVE  \A p \in DOMAIN pbkdf_out(c, outlen, in) :
               pbkdf_out(c, outlen, in)[p] =
                 PBKDF2(in, a.salt, c.count, ((p - 1) \div DigestSize) + 1)[((p - 1) % DigestSize) + 1]
  <2>1. c.salt = a.salt
    <3>1. PICK l \in Nat : l = Len(a.salt) BY <1>1, LenProperties
    <3>2. l % 256 = l
      <4>1. l < 256 BY <1>5, <3>1
      <4>2. PICK w \in Nat \ {0} : w = 256 OBVIOUS
      <4>3. l < w /\ w \in Nat \ {0} BY <4>1, <4>2
      <4>4. l % w = l BY <3>1, <4>3, Small
      <4> QED BY <4>2, <4>4
    <3>3. PICK x \in Seq(Byte) : /\ x = SubSeq(a.salt, 1, l) /\ Len(x) = l
                                 /\ \A i \in 1 .. l : x[i] = a.salt[i]
      BY <1>1, <3>1, FirstOf
    <3>4. x = a.salt BY <1>1, <3>1, <3>3, SeqEqual
    <3> QED BY <1>2, <3>1, <3>2, <3>3, <3>4 DEF Salted
  <2>2. c.count \in Nat \ {0} BY <1>4, <1>5
  <2>3. \A p \in DOMAIN pbkdf_out(c, outlen, in) :
          pbkdf_out(c, outlen, in)[p] =
            PBKDF2(in, c.salt, c.count, ((p - 1) \div DigestSize) + 1)[((p - 1) % DigestSize) + 1]
    BY <1>2, <1>4, <1>5, <2>2, PbkdfOut
  <2> QED BY <2>1, <2>3
<1> QED BY <1>3, <1>4, <1>5

----------------------------------------------------------------------------
(* The steps. *)

\* The contexts, apart from the last answer.
Slotted ==
    /\ ctx = [s \in Slots |-> ctx[s]] /\ asked \in [Slots -> Requests]
    /\ \A s \in Slots : ctx[s] # None => Serves(kind, ctx[s], asked[s])

LEMMA IInvIs ==
  IInv <=> /\ kind \in Kinds /\ calls \in 0 .. MaxCalls(kind) /\ undefined \in BOOLEAN
           /\ Slotted /\ MacCorrect /\ KdfCorrect
<1>1. ASSUME IInv PROVE Slotted BY <1>1 DEF IInv, TInv, Slotted, Serves
<1>2. ASSUME Slotted PROVE \A s \in Slots : ctx[s] # None => Typed(kind, ctx[s]) /\ Follows(kind, ctx[s], asked[s])
  BY <1>2 DEF Slotted, Serves
<1> QED BY <1>1, <1>2 DEF IInv, TInv, Slotted

LEMMA SlotServes ==
  ASSUME IInv, NEW s \in Slots, Live(s)
  PROVE  Serves(kind, ctx[s], asked[s]) /\ asked[s] \in Requests /\ kind \in Kinds
BY IInvIs DEF Slotted, Live

LEMMA Kept ==
  ASSUME IInv, NEW s \in Slots, NEW c, NEW a \in Requests, c = None \/ Serves(kind, c, a), Keep(s, c, a)
  PROVE  Slotted' /\ kind' = kind
<1>1. /\ kind' = kind
      /\ ctx' = [t \in Slots |-> IF t = s THEN c ELSE IF Shares(s, t) THEN Shared(ctx[t], c) ELSE ctx[t]]
      /\ asked' = [asked EXCEPT ![s] = a]
  BY DEF Keep
<1>2. asked \in [Slots -> Requests] BY IInvIs DEF Slotted
<1>3. ctx' = [t \in Slots |-> ctx'[t]] BY <1>1
<1>4. asked' \in [Slots -> Requests] BY <1>1, <1>2
<1>5. ASSUME NEW t \in Slots, ctx'[t] # None PROVE Serves(kind, ctx'[t], asked'[t])
  <2>1. CASE t = s
    <3>1. ctx'[t] = c /\ asked'[t] = a BY <1>1, <1>2, <2>1
    <3> QED BY <1>5, <3>1
  <2>2. CASE t # s /\ Shares(s, t)
    <3>1. PICK d : d = ctx[t] OBVIOUS
    <3>2. ctx'[t] = Shared(d, c) /\ asked'[t] = asked[t] BY <1>1, <1>2, <2>2, <3>1
    <3>3. kind = "PBKDF2" /\ d # None BY <2>2, <3>1 DEF Shares
    <3>4. Serves("PBKDF2", d, asked[t]) BY <3>1, <3>3, IInvIs DEF Slotted
    <3>5. Serves("PBKDF2", Shared(d, c), asked[t]) BY <3>3, <3>4, SharedServes
    <3> QED BY <3>2, <3>3, <3>5
  <2>3. CASE t # s /\ ~Shares(s, t)
    <3>1. ctx'[t] = ctx[t] /\ asked'[t] = asked[t] BY <1>1, <1>2, <2>3
    <3> QED BY <1>5, <3>1, IInvIs DEF Slotted
  <2> QED BY <2>1, <2>2, <2>3
<1> QED BY <1>1, <1>3, <1>4, <1>5 DEF Slotted

\* A step that delivers nothing.
LEMMA SameAnswer ==
  ASSUME MacCorrect, KdfCorrect, answer' = answer
  PROVE  MacCorrect' /\ KdfCorrect'
BY DEF MacCorrect, KdfCorrect, IsPrefixOf

LEMMA Quiet ==
  ASSUME IInv, Slotted', kind' = kind, calls' \in 0 .. MaxCalls(kind), undefined' \in BOOLEAN,
         MacCorrect' /\ KdfCorrect'
  PROVE  IInv'
<1>1. kind' \in Kinds /\ calls' \in 0 .. MaxCalls(kind') BY IInvIs
<1>2. kind' \in Kinds /\ calls' \in 0 .. MaxCalls(kind') /\ undefined' \in BOOLEAN
      /\ Slotted' /\ MacCorrect' /\ KdfCorrect'
  BY <1>1
<1> QED BY <1>2 DEF IInv, TInv, Slotted, Serves

LEMMA Unanswered ==
  ASSUME IInv, NEW s \in Slots, NEW c, NEW a \in Requests, c = None \/ Serves(kind, c, a), Keep(s, c, a),
         UNCHANGED <<answer, calls, undefined>>
  PROVE  IInv'
<1>1. Slotted' /\ kind' = kind BY Kept
<1>2. calls' \in 0 .. MaxCalls(kind) /\ undefined' \in BOOLEAN BY IInvIs
<1>3. MacCorrect' /\ KdfCorrect' BY IInvIs, SameAnswer
<1> QED BY <1>1, <1>2, <1>3, Quiet

LEMMA InitInv == Init => IInv
<1> SUFFICES ASSUME Init PROVE IInv OBVIOUS
<1>1. Nothing \in Requests BY NothingIs
<1>2. Slotted BY <1>1 DEF Init, Slotted
<1>3. kind \in Kinds /\ calls \in 0 .. MaxCalls(kind) /\ undefined \in BOOLEAN
  <2>1. kind \in Kinds /\ calls = 0 /\ undefined \in BOOLEAN BY DEF Init
  <2>2. PICK m \in Nat : m = MaxCalls(kind) BY <2>1, ClientAssumption
  <2> QED BY <2>1, <2>2
<1>4. MacCorrect /\ KdfCorrect BY DEF Init, None, MacCorrect, KdfCorrect
<1> QED BY <1>2, <1>3, <1>4, IInvIs

LEMMA InitStep ==
  ASSUME IInv, NEW s \in Slots, NEW taglen \in TagLengths(kind), init(s, taglen)
  PROVE  IInv'
<1> DEFINE a == [Nothing EXCEPT !.ok = TRUE]
<1>1. kind \in Kinds /\ a \in Requests BY IInvIs, FreshIs
<1>2. PICK c : c = CASE IsHmac -> hmac_init(taglen)
                     [] IsCmac -> cmac_init(kind, taglen)
                     [] kind = "PBKDF2" -> pbkdf_init(s, hmac_init(0))
                     [] kind = "TLS" -> tls_init(hmac_init(0))
  OBVIOUS
<1>3. Keep(s, c, a) /\ UNCHANGED <<answer, calls, undefined>> BY <1>2 DEF init
<1>4. Serves(kind, c, a)
  <2>1. CASE kind \in {"HMAC", "HMAC-KDF"} BY <1>1, <1>2, <2>1, FreshServes DEF IsHmac, IsCmac
  <2>2. CASE kind \in {"CMAC8", "CMAC16"} BY <1>1, <1>2, <2>2, FreshServes DEF IsHmac, IsCmac
  <2>3. CASE kind = "PBKDF2" BY <1>1, <1>2, <2>3, FreshServes DEF IsHmac, IsCmac
  <2>4. CASE kind = "TLS" BY <1>1, <1>2, <2>4, FreshServes DEF IsHmac, IsCmac
  <2> QED BY <1>1, <2>1, <2>2, <2>3, <2>4, KindIs
<1> QED BY <1>1, <1>3, <1>4, Unanswered

LEMMA CloneStep ==
  ASSUME IInv, NEW s \in Slots, NEW t \in Slots, clone(s, t)
  PROVE  IInv'
<1>1. Live(s) /\ Keep(t, ctx[s], asked[s]) /\ UNCHANGED <<answer, calls, undefined>> BY DEF clone
<1>2. Serves(kind, ctx[s], asked[s]) /\ asked[s] \in Requests BY <1>1, SlotServes
<1> QED BY <1>1, <1>2, Unanswered

\* A call that comes to nothing leaves all as it is.
LEMMA UndefinedStep ==
  ASSUME IInv, Undefined, calls' \in 0 .. MaxCalls(kind)
  PROVE  IInv'
<1>1. kind' = kind /\ ctx' = ctx /\ asked' = asked /\ answer' = answer /\ undefined' = TRUE BY DEF Undefined
<1>2. Slotted' BY <1>1, IInvIs DEF Slotted
<1>3. MacCorrect' /\ KdfCorrect' BY <1>1, IInvIs, SameAnswer
<1> QED BY <1>1, <1>2, <1>3, Quiet

LEMMA FiniStep ==
  ASSUME IInv, NEW s \in Slots, fini(s)
  PROVE  IInv'
<1>1. CASE PrfFreed(s)
  <2>1. Undefined /\ calls' = calls BY <1>1 DEF fini
  <2>2. calls' \in 0 .. MaxCalls(kind) BY <2>1, IInvIs
  <2> QED BY <2>1, <2>2, UndefinedStep
<1>2. CASE ~PrfFreed(s)
  <2>1. Keep(s, None, Nothing) /\ UNCHANGED <<answer, calls, undefined>> BY <1>2 DEF fini
  <2>2. Nothing \in Requests BY NothingIs
  <2> QED BY <2>1, <2>2, Unanswered
<1> QED BY <1>1, <1>2

LEMMA ResetStep ==
  ASSUME IInv, NEW s \in Slots, reset(s)
  PROVE  IInv'
<1> DEFINE a == [asked[s] EXCEPT !.text = <<>>, !.ok = TRUE]
<1>1. kind \in Kinds /\ Serves(kind, ctx[s], asked[s]) BY SlotServes DEF reset
<1>2. PICK c : c = CASE IsHmac -> hmac_reset(ctx[s])
                     [] IsCmac -> cmac_reset(ctx[s])
                     [] kind = "PBKDF2" -> pbkdf_reset(ctx[s])
                     [] kind = "TLS" -> tls_reset(ctx[s])
  OBVIOUS
<1>3. CASE PrfFreed(s)
  <2>1. Undefined /\ calls' = calls BY <1>3 DEF reset
  <2>2. calls' \in 0 .. MaxCalls(kind) BY <2>1, IInvIs
  <2> QED BY <2>1, <2>2, UndefinedStep
<1>4. Serves(kind, c, a)
  <2>1. CASE kind \in {"HMAC", "HMAC-KDF"} BY <1>1, <1>2, <2>1, ResetServes DEF IsHmac, IsCmac
  <2>2. CASE kind \in {"CMAC8", "CMAC16"} BY <1>1, <1>2, <2>2, ResetServes DEF IsHmac, IsCmac
  <2>3. CASE kind = "PBKDF2" BY <1>1, <1>2, <2>3, ResetServes DEF IsHmac, IsCmac
  <2>4. CASE kind = "TLS" BY <1>1, <1>2, <2>4, ResetServes DEF IsHmac, IsCmac
  <2> QED BY <1>1, <2>1, <2>2, <2>3, <2>4, KindIs
<1>5. a \in Requests BY <1>4 DEF Serves
<1>6. CASE ~PrfFreed(s)
  <2>1. Keep(s, c, a) /\ UNCHANGED <<answer, calls, undefined>> BY <1>2, <1>6 DEF reset
  <2> QED BY <1>4, <1>5, <2>1, Unanswered
<1> QED BY <1>3, <1>6

LEMMA SetkeyStep ==
  ASSUME IInv, NEW s \in Slots, NEW key \in Keys(kind), setkey(s, key)
  PROVE  IInv'
<1>1. kind \in Kinds /\ Serves(kind, ctx[s], asked[s]) /\ kind # "PBKDF2" BY SlotServes DEF setkey
<1>2. key \in Seq(Byte) BY <1>1, ClientAssumption
<1>3. PICK c : c = CASE IsHmac -> hmac_setkey(ctx[s], key)
                     [] IsCmac -> cmac_setkey(ctx[s], key)
                     [] kind = "TLS" -> tls_setkey(ctx[s], key)
  OBVIOUS
<1>4. PICK a : a = IF ~IsCmac THEN [Nothing EXCEPT !.key = key, !.ok = TRUE]
                   ELSE IF CipherTakes(kind, key)
                        THEN [asked[s] EXCEPT !.key = key, !.ok = @ /\ asked[s].text = <<>>]
                        ELSE asked[s]
  OBVIOUS
<1>5. Keep(s, c, a) /\ UNCHANGED <<answer, calls, undefined>> BY <1>3, <1>4 DEF setkey
<1>6. Serves(kind, c, a)
  <2>1. CASE kind \in {"HMAC", "HMAC-KDF"}
    BY <1>1, <1>2, <1>3, <1>4, <2>1, SetkeyServes DEF IsHmac, IsCmac
  <2>2. CASE kind \in {"CMAC8", "CMAC16"}
    BY <1>1, <1>2, <1>3, <1>4, <2>2, SetkeyServes DEF IsHmac, IsCmac
  <2>3. CASE kind = "TLS" BY <1>1, <1>2, <1>3, <1>4, <2>3, SetkeyServes DEF IsHmac, IsCmac
  <2> QED BY <1>1, <2>1, <2>2, <2>3, KindIs
<1>7. a \in Requests BY <1>6 DEF Serves
<1> QED BY <1>5, <1>6, <1>7, Unanswered

LEMMA SetsaltStep ==
  ASSUME IInv, NEW s \in Slots, NEW salt \in Salts, setsalt(s, salt)
  PROVE  IInv'
<1>1. kind = "PBKDF2" /\ Serves(kind, ctx[s], asked[s]) BY SlotServes DEF setsalt
<1>2. salt \in Seq(Byte) BY ClientAssumption
<1>3. PICK c, a : c = pbkdf_setsalt(ctx[s], salt) /\ a = [asked[s] EXCEPT !.salt = salt] OBVIOUS
<1>4. Keep(s, c, a) /\ UNCHANGED <<answer, calls, undefined>> BY <1>3 DEF setsalt
<1>5. Serves(kind, c, a) BY <1>1, <1>2, <1>3, SetsaltServes
<1>6. a \in Requests BY <1>5 DEF Serves
<1> QED BY <1>4, <1>5, <1>6, Unanswered

LEMMA SetcountStep ==
  ASSUME IInv, NEW s \in Slots, NEW count \in Counts, setcount(s, count)
  PROVE  IInv'
<1>1. kind = "PBKDF2" /\ Serves(kind, ctx[s], asked[s]) /\ asked[s] \in Requests BY SlotServes DEF setcount
<1>2. count \in Nat BY ClientAssumption
<1>3. PICK c : c = pbkdf_setcount(ctx[s], count) OBVIOUS
<1>4. Keep(s, c, asked[s]) /\ UNCHANGED <<answer, calls, undefined>> BY <1>3 DEF setcount
<1>5. Serves(kind, c, asked[s]) BY <1>1, <1>2, <1>3, SetcountServes
<1> QED BY <1>1, <1>4, <1>5, Unanswered

LEMMA Called ==
  ASSUME IInv, NEW s \in Slots, Call(s)
  PROVE  /\ calls' \in 0 .. MaxCalls(kind)
         /\ kind \in Kinds /\ Serves(kind, ctx[s], asked[s]) /\ asked[s] \in Requests
<1>1. kind \in Kinds BY IInvIs
<1>2. PICK m \in Nat : m = MaxCalls(kind) BY <1>1, ClientAssumption
<1>3. calls \in 0 .. m /\ calls < m /\ calls' = calls + 1 BY <1>2, IInvIs DEF Call
<1>4. calls' \in 0 .. m BY <1>3
<1> QED BY <1>2, <1>4, SlotServes DEF Call

\* Outside of OutOfBuffer, the position is in the buffer.
LEMMA InBuffer ==
  ASSUME NEW k \in {"CMAC8", "CMAC16"}, NEW c, NEW a, Serves(k, c, a), ~OutOfBuffer(c)
  PROVE  c.boff <= Blk(k)
<1>1. c \in Cmacs(k) BY CmacServes
<1>2. c.kind = k /\ c.blksize = Blk(k) /\ c.boff \in 0 .. BUFFER_SIZE BY <1>1 DEF Cmacs
<1>3. PICK n \in Nat : n = Blk(k) BY BlkIs
<1>4. ~(c.boff > n) BY <1>2, <1>3 DEF OutOfBuffer
<1>5. PICK x \in Nat : x = c.boff BY <1>2 DEF BUFFER_SIZE
<1> QED BY <1>3, <1>4, <1>5

LEMMA UpdateStep ==
  ASSUME IInv, NEW s \in Slots, NEW data \in Data(kind), update(s, data)
  PROVE  IInv'
<1>1. kind \in {"HMAC", "CMAC8", "CMAC16"} /\ Call(s) BY DEF update
<1>2. /\ calls' \in 0 .. MaxCalls(kind)
      /\ kind \in Kinds /\ Serves(kind, ctx[s], asked[s]) /\ asked[s] \in Requests
  BY <1>1, Called
<1>3. data \in Seq(Byte) BY <1>2, ClientAssumption
<1>4. CASE OutOfBuffer(ctx[s]) /\ data # <<>> BY <1>2, <1>4, UndefinedStep DEF update
<1>5. CASE ~(OutOfBuffer(ctx[s]) /\ data # <<>>)
  <2>1. PICK c, a : /\ c = IF IsHmac THEN hmac_update(ctx[s], data) ELSE cmac_update(ctx[s], data)
                    /\ a = [asked[s] EXCEPT !.text = @ \o data]
    OBVIOUS
  <2>2. Keep(s, c, a) /\ answer' = answer /\ undefined' = undefined BY <1>5, <2>1 DEF update
  <2>3. Serves(kind, c, a)
    <3>1. CASE kind = "HMAC" BY <1>1, <1>2, <1>3, <2>1, <3>1, UpdateServes DEF IsHmac
    <3>2. CASE kind # "HMAC"
      <4>1. kind \in {"CMAC8", "CMAC16"} BY <1>1, <3>2
      <4>2. ctx[s].boff <= Blk(kind) \/ data = <<>> BY <1>2, <1>5, <4>1, InBuffer
      <4>3. c = cmac_update(ctx[s], data) BY <2>1, <4>1 DEF IsHmac
      <4>4. PICK d : d = ctx[s] OBVIOUS
      <4>5. Serves(kind, d, asked[s]) /\ (d.boff <= Blk(kind) \/ data = <<>>) BY <1>2, <4>2, <4>4
      <4>6. Serves(kind, cmac_update(d, data), [asked[s] EXCEPT !.text = @ \o data])
        BY <1>1, <1>3, <3>2, <4>5, UpdateServes
      <4> QED BY <2>1, <4>3, <4>4, <4>6
    <3> QED BY <3>1, <3>2
  <2>4. a \in Requests BY <2>3 DEF Serves
  <2>5. Slotted' /\ kind' = kind BY <2>2, <2>3, <2>4, Kept
  <2>6. MacCorrect' /\ KdfCorrect' BY <2>2, IInvIs, SameAnswer
  <2>7. undefined' \in BOOLEAN BY <2>2, IInvIs
  <2> QED BY <1>2, <2>5, <2>6, <2>7, Quiet
<1> QED BY <1>4, <1>5

\* The answer of final.
LEMMA TagAnswer ==
  ASSUME NEW k \in {"HMAC", "CMAC8", "CMAC16"}, NEW key, NEW text, NEW out,
         answer' = [kind |-> k, key |-> key, text |-> text, out |-> out],
         k = "HMAC" => FirstBytes(out, DigestSize, HMAC(key, text)),
         k # "HMAC" => FirstBytes(out, Blk(k), CMAC(Blk(k), key, text))
  PROVE  MacCorrect' /\ KdfCorrect'
<1>1. /\ answer'.kind = k /\ answer'.key = key /\ answer'.text = text /\ answer'.out = out OBVIOUS
<1>2. KdfCorrect' BY <1>1 DEF KdfCorrect
<1>3. CASE k = "HMAC"
  <2>1. \A i \in DOMAIN out : out[i] = HMAC(key, text)[((i - 1) % DigestSize) + 1]
    BY <1>3 DEF FirstBytes
  <2>2. MacCorrect' BY <1>1, <1>3, <2>1 DEF MacCorrect, IsPrefixOf
  <2> QED BY <1>2, <2>2
<1>4. CASE k # "HMAC"
  <2>1. \A i \in DOMAIN out : out[i] = CMAC(Blk(k), key, text)[((i - 1) % Blk(k)) + 1]
    BY <1>4 DEF FirstBytes
  <2>2. MacCorrect' BY <1>1, <1>4, <2>1 DEF MacCorrect, IsPrefixOf
  <2> QED BY <1>2, <2>2
<1> QED BY <1>3, <1>4

LEMMA FinalStep ==
  ASSUME IInv, NEW s \in Slots, final(s)
  PROVE  IInv'
<1>1. kind \in {"HMAC", "CMAC8", "CMAC16"} /\ Call(s) BY DEF final
<1>2. /\ calls' \in 0 .. MaxCalls(kind)
      /\ kind \in Kinds /\ Serves(kind, ctx[s], asked[s]) /\ asked[s] \in Requests
  BY <1>1, Called
<1>3. CASE OutOfBuffer(ctx[s]) BY <1>2, <1>3, UndefinedStep DEF final
<1>4. CASE ~OutOfBuffer(ctx[s])
  <2>1. PICK c, a : /\ c = IF IsHmac THEN hmac_final(ctx[s]) ELSE cmac_final(ctx[s])
                    /\ a = [asked[s] EXCEPT !.ok = FALSE]
    OBVIOUS
  <2>2. PICK k, key, text : k = kind /\ key = asked[s].key /\ text = asked[s].text OBVIOUS
  <2>3. PICK out : out = IF IsHmac THEN hmac_tag(ctx[s]) ELSE cmac_tag(ctx[s]) OBVIOUS
  <2>4. /\ Keep(s, c, a) /\ undefined' = FALSE
        /\ answer' = IF asked[s].ok /\ key # NoKey
                     THEN [kind |-> k, key |-> key, text |-> text, out |-> out] ELSE answer
    BY <1>4, <2>1, <2>2, <2>3 DEF final, Answer
  <2>5. CASE kind = "HMAC"
    <3>1. Serves(kind, c, a) BY <1>2, <2>1, <2>5, FinalServes DEF IsHmac
    <3>2. asked[s].ok /\ key # NoKey => FirstBytes(out, DigestSize, HMAC(key, text))
      BY <1>2, <2>2, <2>3, <2>5, FinalServes DEF IsHmac
    <3>3. k = "HMAC" BY <2>2, <2>5
    <3>4. MacCorrect' /\ KdfCorrect'
      <4>1. CASE asked[s].ok /\ key # NoKey BY <2>4, <3>2, <3>3, <4>1, TagAnswer
      <4>2. CASE ~(asked[s].ok /\ key # NoKey) BY <2>4, <4>2, IInvIs, SameAnswer
      <4> QED BY <4>1, <4>2
    <3> QED BY <1>2, <2>4, <3>1, <3>4, Kept, Quiet DEF Serves
  <2>6. CASE kind # "HMAC"
    <3>1. kind \in {"CMAC8", "CMAC16"} BY <1>1, <2>6
    <3>2. ctx[s].boff <= Blk(kind) BY <1>2, <1>4, <3>1, InBuffer
    <3>3. ~IsHmac BY <3>1 DEF IsHmac
    <3>4. Serves(kind, c, a) BY <1>1, <1>2, <2>1, <2>6, <3>2, <3>3, FinalServes
    <3>5. asked[s].ok /\ key # NoKey => FirstBytes(out, Blk(k), CMAC(Blk(k), key, text))
      BY <1>1, <1>2, <2>2, <2>3, <2>6, <3>2, <3>3, FinalServes
    <3>6. k \in {"HMAC", "CMAC8", "CMAC16"} /\ k # "HMAC" BY <2>2, <3>1
    <3>7. MacCorrect' /\ KdfCorrect'
      <4>1. CASE asked[s].ok /\ key # NoKey BY <2>4, <3>5, <3>6, <4>1, TagAnswer
      <4>2. CASE ~(asked[s].ok /\ key # NoKey) BY <2>4, <4>2, IInvIs, SameAnswer
      <4> QED BY <4>1, <4>2
    <3> QED BY <1>2, <2>4, <3>4, <3>7, Kept, Quiet DEF Serves
  <2> QED BY <2>5, <2>6
<1> QED BY <1>3, <1>4

\* The answers of generate.
LEMMA HmackAnswer ==
  ASSUME NEW key, NEW text, NEW out,
         answer' = [kind |-> "HMAC-KDF", key |-> key, text |-> text, out |-> out],
         FirstBytes(out, DigestSize, HMAC(key, text))
  PROVE  MacCorrect' /\ KdfCorrect'
<1>1. answer'.kind = "HMAC-KDF" /\ answer'.key = key /\ answer'.text = text /\ answer'.out = out OBVIOUS
<1>2. \A i \in DOMAIN out : out[i] = HMAC(key, text)[((i - 1) % DigestSize) + 1] BY DEF FirstBytes
<1>3. MacCorrect' BY <1>1 DEF MacCorrect
<1>4. KdfCorrect' BY <1>1, <1>2 DEF KdfCorrect, IsPrefixOf
<1> QED BY <1>3, <1>4

LEMMA TlsAnswer ==
  ASSUME NEW key, NEW text, NEW out,
         answer' = [kind |-> "TLS", key |-> key, text |-> text, out |-> out],
         \A p \in DOMAIN out :
           out[p] = P_hash(key, text, ((p - 1) \div DigestSize) + 1)[((p - 1) % DigestSize) + 1]
  PROVE  MacCorrect' /\ KdfCorrect'
<1>1. answer'.kind = "TLS" /\ answer'.key = key /\ answer'.text = text /\ answer'.out = out OBVIOUS
<1>2. MacCorrect' BY <1>1 DEF MacCorrect
<1>3. KdfCorrect' BY <1>1 DEF KdfCorrect, IsPrefixOf
<1> QED BY <1>2, <1>3

LEMMA PbkdfAnswer ==
  ASSUME NEW key, NEW salt, NEW count, NEW out,
         answer' = [kind |-> "PBKDF2", key |-> key, salt |-> salt, count |-> count, out |-> out],
         Len(salt) < 256 =>
           \A p \in DOMAIN out :
             out[p] = PBKDF2(key, salt, count, ((p - 1) \div DigestSize) + 1)[((p - 1) % DigestSize) + 1]
  PROVE  MacCorrect' /\ KdfCorrect'
<1>1. /\ answer'.kind = "PBKDF2" /\ answer'.key = key /\ answer'.salt = salt /\ answer'.count = count
      /\ answer'.out = out
  OBVIOUS
<1>2. MacCorrect' BY <1>1 DEF MacCorrect
<1>3. KdfCorrect' BY <1>1 DEF KdfCorrect, IsPrefixOf
<1> QED BY <1>2, <1>3

LEMMA GenerateStep ==
  ASSUME IInv, NEW s \in Slots, NEW outlen \in OutLengths, NEW in \in Keys(kind), generate(s, outlen, in)
  PROVE  IInv'
<1>1. /\ calls' \in 0 .. MaxCalls(kind)
      /\ kind \in Kinds /\ Serves(kind, ctx[s], asked[s]) /\ asked[s] \in Requests
  BY Called DEF generate
<1>2. in \in Seq(Byte) /\ outlen \in Nat BY <1>1, ClientAssumption
<1>3. PICK d, b, key, ok : d = ctx[s] /\ b = asked[s] /\ key = asked[s].key /\ ok = asked[s].ok OBVIOUS
<1>4. CASE /\ kind = "HMAC-KDF" /\ outlen <= DigestSize
           /\ Keep(s, hmack_generate(ctx[s], in), [asked[s] EXCEPT !.ok = FALSE])
           /\ Answer(s, [kind |-> kind, key |-> asked[s].key, text |-> in,
                         out |-> hmack_out(ctx[s], in, outlen)])
  <2>1. PICK c, a, out : /\ c = hmack_generate(d, in) /\ a = [b EXCEPT !.ok = FALSE]
                         /\ out = hmack_out(d, in, outlen)
    OBVIOUS
  <2>2. /\ Keep(s, c, a) /\ undefined' = FALSE
        /\ answer' = IF ok /\ key # NoKey
                     THEN [kind |-> "HMAC-KDF", key |-> key, text |-> in, out |-> out] ELSE answer
    BY <1>3, <1>4, <2>1 DEF Answer
  <2>3. outlen \in 0 .. DigestSize BY <1>2, <1>4, SizesAssumption
  <2>4. Serves("HMAC-KDF", d, b) BY <1>1, <1>3, <1>4
  <2>5. /\ Serves("HMAC-KDF", c, a)
        /\ b.ok /\ b.key # NoKey => FirstBytes(out, DigestSize, HMAC(b.key, in))
    BY <1>2, <2>1, <2>3, <2>4, HmackServes
  <2>6. Serves(kind, c, a) /\ a \in Requests BY <1>4, <2>5 DEF Serves
  <2>7. MacCorrect' /\ KdfCorrect'
    <3>1. CASE ok /\ key # NoKey BY <1>3, <2>2, <2>5, <3>1, HmackAnswer
    <3>2. CASE ~(ok /\ key # NoKey) BY <2>2, <3>2, IInvIs, SameAnswer
    <3> QED BY <3>1, <3>2
  <2> QED BY <1>1, <2>2, <2>6, <2>7, Kept, Quiet
<1>5. CASE /\ kind = "TLS"
           /\ Keep(s, tls_generate(ctx[s], outlen), [asked[s] EXCEPT !.ok = outlen = 0 /\ @])
           /\ Answer(s, [kind |-> kind, key |-> asked[s].key, text |-> in,
                         out |-> tls_out(ctx[s], outlen, in)])
  <2>1. PICK c, a, out : /\ c = tls_generate(d, outlen) /\ a = [b EXCEPT !.ok = outlen = 0 /\ @]
                         /\ out = tls_out(d, outlen, in)
    OBVIOUS
  <2>2. /\ Keep(s, c, a) /\ undefined' = FALSE
        /\ answer' = IF ok /\ key # NoKey
                     THEN [kind |-> "TLS", key |-> key, text |-> in, out |-> out] ELSE answer
    BY <1>3, <1>5, <2>1 DEF Answer
  <2>4. Serves("TLS", d, b) BY <1>1, <1>3, <1>5
  <2>5. Serves("TLS", c, a) BY <1>2, <2>1, <2>4, TlsGenerates
  <2>6. ASSUME b.ok, b.key # NoKey
        PROVE  \A p \in DOMAIN out :
                 out[p] = P_hash(b.key, in, ((p - 1) \div DigestSize) + 1)[((p - 1) % DigestSize) + 1]
    <3>1. \A p \in DOMAIN tls_out(d, outlen, in) :
            tls_out(d, outlen, in)[p] =
              P_hash(b.key, in, ((p - 1) \div DigestSize) + 1)[((p - 1) % DigestSize) + 1]
      BY <1>2, <2>4, <2>6, TlsGenerates
    <3> QED BY <2>1, <3>1
  <2>7. Serves(kind, c, a) /\ a \in Requests BY <1>5, <2>5 DEF Serves
  <2>8. MacCorrect' /\ KdfCorrect'
    <3>1. CASE ok /\ key # NoKey
      <4>1. answer' = [kind |-> "TLS", key |-> key, text |-> in, out |-> out] BY <2>2, <3>1
      <4>2. \A p \in DOMAIN out :
              out[p] = P_hash(key, in, ((p - 1) \div DigestSize) + 1)[((p - 1) % DigestSize) + 1]
        BY <1>3, <2>6, <3>1
      <4> QED BY <4>1, <4>2, TlsAnswer
    <3>2. CASE ~(ok /\ key # NoKey) BY <2>2, <3>2, IInvIs, SameAnswer
    <3> QED BY <3>1, <3>2
  <2> QED BY <1>1, <2>2, <2>7, <2>8, Kept, Quiet
<1>6. CASE kind = "PBKDF2" /\ outlen # 0 /\ ctx[s].count # 0 /\ PrfFreed(s) /\ Undefined
  BY <1>1, <1>6, UndefinedStep
<1>7. CASE /\ kind = "PBKDF2" /\ outlen # 0 /\ ctx[s].count # 0 /\ ~PrfFreed(s)
           /\ Keep(s, pbkdf_generate(ctx[s], in), asked[s])
           /\ answer' = IF in = NoKey THEN answer
                        ELSE [kind |-> kind, key |-> in, salt |-> asked[s].salt,
                              count |-> ctx[s].count, out |-> pbkdf_out(ctx[s], outlen, in)]
           /\ undefined' = FALSE
  <2>1. PICK c, out, salt, count : /\ c = pbkdf_generate(d, in) /\ out = pbkdf_out(d, outlen, in)
                                   /\ salt = b.salt /\ count = d.count
    OBVIOUS
  <2>2. /\ Keep(s, c, b) /\ undefined' = FALSE /\ count # 0
        /\ answer' = IF in = NoKey THEN answer
                     ELSE [kind |-> "PBKDF2", key |-> in, salt |-> salt, count |-> count, out |-> out]
    BY <1>3, <1>7, <2>1
  <2>3. Serves("PBKDF2", d, b) BY <1>1, <1>3, <1>7
  <2>4. Serves("PBKDF2", c, b) BY <1>2, <2>1, <2>3, PbkdfGenerates
  <2>5. in # NoKey /\ count # 0 /\ Len(salt) < 256 =>
          \A p \in DOMAIN out :
            out[p] = PBKDF2(in, salt, count, ((p - 1) \div DigestSize) + 1)[((p - 1) % DigestSize) + 1]
    BY <1>2, <2>1, <2>3, PbkdfGenerates
  <2>6. Serves(kind, c, b) /\ b \in Requests BY <1>7, <2>4 DEF Serves
  <2>7. MacCorrect' /\ KdfCorrect'
    <3>1. CASE in # NoKey
      <4>1. answer' = [kind |-> "PBKDF2", key |-> in, salt |-> salt, count |-> count, out |-> out]
        BY <2>2, <3>1
      <4>2. Len(salt) < 256 =>
              \A p \in DOMAIN out :
                out[p] = PBKDF2(in, salt, count, ((p - 1) \div DigestSize) + 1)[((p - 1) % DigestSize) + 1]
        BY <2>2, <2>5, <3>1
      <4> QED BY <4>1, <4>2, PbkdfAnswer
    <3>2. CASE in = NoKey BY <2>2, <3>2, IInvIs, SameAnswer
    <3> QED BY <3>1, <3>2
  <2> QED BY <1>1, <2>2, <2>6, <2>7, Kept, Quiet
<1> QED BY <1>4, <1>5, <1>6, <1>7 DEF generate

LEMMA NextInv == IInv /\ [Next]_vars => IInv'
<1> SUFFICES ASSUME IInv, [Next]_vars PROVE IInv' OBVIOUS
<1>1. CASE Next
  <2>1. PICK s \in Slots :
          \/ \E n \in TagLengths(kind) : init(s, n)
          \/ reset(s) \/ fini(s) \/ final(s)
          \/ \E t \in Slots : clone(s, t)
          \/ \E key \in Keys(kind) : setkey(s, key)
          \/ \E salt \in Salts : setsalt(s, salt)
          \/ \E count \in Counts : setcount(s, count)
          \/ \E data \in Data(kind) : update(s, data)
          \/ \E n \in OutLengths, in \in Keys(kind) : generate(s, n, in)
    BY <1>1 DEF Next
  <2>2. CASE \E n \in TagLengths(kind) : init(s, n) BY <2>2, InitStep
  <2>3. CASE reset(s) BY <2>3, ResetStep
  <2>4. CASE fini(s) BY <2>4, FiniStep
  <2>5. CASE final(s) BY <2>5, FinalStep
  <2>6. CASE \E t \in Slots : clone(s, t) BY <2>6, CloneStep
  <2>7. CASE \E key \in Keys(kind) : setkey(s, key) BY <2>7, SetkeyStep
  <2>8. CASE \E salt \in Salts : setsalt(s, salt) BY <2>8, SetsaltStep
  <2>9. CASE \E count \in Counts : setcount(s, count) BY <2>9, SetcountStep
  <2>10. CASE \E data \in Data(kind) : update(s, data) BY <2>10, UpdateStep
  <2>11. CASE \E n \in OutLengths, in \in Keys(kind) : generate(s, n, in) BY <2>11, GenerateStep
  <2> QED BY <2>1, <2>2, <2>3, <2>4, <2>5, <2>6, <2>7, <2>8, <2>9, <2>10, <2>11
<1>2. CASE UNCHANGED vars
  <2>1. /\ kind' = kind /\ ctx' = ctx /\ asked' = asked /\ answer' = answer /\ calls' = calls
        /\ undefined' = undefined
    BY <1>2 DEF vars
  <2>2. Slotted' BY <2>1, IInvIs DEF Slotted
  <2>3. MacCorrect' /\ KdfCorrect' BY <2>1, IInvIs, SameAnswer
  <2>4. calls' \in 0 .. MaxCalls(kind) /\ undefined' \in BOOLEAN BY <2>1, IInvIs
  <2> QED BY <2>1, <2>2, <2>3, <2>4, Quiet
<1> QED BY <1>1, <1>2

\* The contexts hold what their clients asked for, in every state.
THEOREM Invariance == Spec => []IInv
<1> QED BY InitInv, NextInv, PTL DEF Spec

LEMMA TypeOKIs == IInv => TypeOK
<1> SUFFICES ASSUME IInv PROVE TypeOK OBVIOUS
<1>1. kind \in Kinds /\ calls \in 0 .. MaxCalls(kind) /\ undefined \in BOOLEAN BY IInvIs
<1>2. ASSUME NEW s \in Slots, ctx[s] # None
      PROVE  /\ ctx[s].kind = IF kind = "HMAC-KDF" THEN "HMAC" ELSE kind
             /\ IsHmac => Len(ctx[s].keybuf) <= BlkSize
             /\ IsCmac => /\ Len(ctx[s].buf) = ctx[s].blksize /\ Len(ctx[s].hash) = ctx[s].blksize
                          /\ ctx[s].boff \in 0 .. BUFFER_SIZE
             /\ kind \in {"PBKDF2", "TLS"} => Len(ctx[s].prf.keybuf) <= BlkSize
  <2>1. Serves(kind, ctx[s], asked[s]) BY <1>2, IInvIs DEF Slotted
  <2>2. PICK c : c = ctx[s] OBVIOUS
  <2>3. Typed(kind, c) BY <2>1, <2>2 DEF Serves
  <2>4. CASE kind \in {"HMAC", "HMAC-KDF"}
    <3>1. c.kind = "HMAC" /\ Len(c.keybuf) <= BlkSize BY <2>3, <2>4 DEF Typed, IsHmacContext, Hmacs
    <3> QED BY <2>2, <2>4, <3>1 DEF IsCmac
  <2>5. CASE kind \in {"CMAC8", "CMAC16"}
    <3>1. c \in Cmacs(kind) BY <2>3, <2>5 DEF Typed
    <3>2. PICK n \in Nat \ {0} : n = Blk(kind) BY <2>5, BlkIs
    <3>3. /\ c.kind = kind /\ c.blksize = n /\ c.buf \in Bytes(n) /\ c.hash \in Bytes(n)
          /\ c.boff \in 0 .. BUFFER_SIZE
      BY <3>1, <3>2 DEF Cmacs
    <3>4. ASSUME NEW b \in Bytes(n) PROVE Len(b) = n
      <4>1. b \in [1 .. n -> Byte] BY DEF Bytes
      <4> QED BY <4>1, FunctionIsSeq
    <3>5. Len(c.buf) = n /\ Len(c.hash) = n BY <3>3, <3>4
    <3> QED BY <2>2, <2>5, <3>3, <3>5 DEF IsHmac
  <2>6. CASE kind = "PBKDF2"
    <3>1. c.kind = "PBKDF2" /\ Len(c.prf.keybuf) <= BlkSize BY <2>3, <2>6 DEF Typed, IsHmacContext, Pbkdfs
    <3> QED BY <2>2, <2>6, <3>1 DEF IsHmac, IsCmac
  <2>7. CASE kind = "TLS"
    <3>1. c.kind = "TLS" /\ Len(c.prf.keybuf) <= BlkSize BY <2>3, <2>7 DEF Typed, IsHmacContext, Tlss
    <3> QED BY <2>2, <2>7, <3>1 DEF IsHmac, IsCmac
  <2> QED BY <1>1, <2>4, <2>5, <2>6, <2>7, KindIs
<1> QED BY <1>1, <1>2 DEF TypeOK

\* No buffer of hmac.c or cmac.c has more than its size, and the position of a CMAC
\* context is within BUFFER_SIZE, whatever the order of the calls.
THEOREM TypeCorrect == Spec => []TypeOK
<1> QED BY Invariance, TypeOKIs, PTL

\* The tags that hmac_final and cmac_final deliver are those of RFC 2104 and of
\* SP 800-38B, for every hash and every cipher, in parts of any length.
THEOREM TagsCorrect == Spec => []MacCorrect
<1>1. IInv => MacCorrect BY DEF IInv
<1> QED BY <1>1, Invariance, PTL

\* The outputs of the key derivation functions are those of their definitions, for
\* every hash, every count and outputs of any length.
THEOREM KeysCorrect == Spec => []KdfCorrect
<1>1. IInv => KdfCorrect BY DEF IInv
<1> QED BY <1>1, Invariance, PTL
==============================================================================
