------------------------------- MODULE Buffers -------------------------------
(***************************************************************************)
(* What the proofs need of buffers and words: sequences of n elements as   *)
(* functions, their parts, memcpy into them, bytes packed into machine     *)
(* words, sums and rotations of words, and loops that undo one another.    *)
(***************************************************************************)
EXTENDS Words, Arithmetic, SequenceTheorems, TLAPS

\* A function on 1 .. n is a sequence of length n.
LEMMA FunctionIsSeq ==
  ASSUME NEW S, NEW n \in Nat, NEW f \in [1 .. n -> S]
  PROVE  f \in Seq(S) /\ Len(f) = n
BY SeqDef

\* A sequence of n elements is a function on 1 .. n.
LEMMA SeqIsFunction ==
  ASSUME NEW S, NEW s \in Seq(S)
  PROVE  s \in [1 .. Len(s) -> S] /\ Len(s) \in Nat
BY LenProperties

\* The part of a sequence from place m to place n.
LEMMA PartOf ==
  ASSUME NEW S, NEW s \in Seq(S), NEW m \in Nat \ {0}, NEW n \in Nat,
         m <= n + 1, n <= Len(s)
  PROVE  /\ SubSeq(s, m, n) \in Seq(S) /\ Len(SubSeq(s, m, n)) = n - m + 1
         /\ \A i \in 1 .. n - m + 1 : SubSeq(s, m, n)[i] = s[m + i - 1]
<1>1. \A i \in m .. n : s[i] \in S BY ElementOfSeq, LenProperties
<1> QED BY <1>1, SubSeqProperties

Over(buf, off, data) ==
    SubSeq(buf, 1, off) \o data \o SubSeq(buf, off + Len(data) + 1, Len(buf))
\* A sequence of n elements, the ones behind the first off replaced by data.
LEMMA Overwritten ==
  ASSUME NEW S, NEW n \in Nat, NEW buf \in [1 .. n -> S], NEW off \in 0 .. n,
         NEW data \in Seq(S), off + Len(data) <= n
  PROVE  /\ Over(buf, off, data) \in [1 .. n -> S]
         /\ \A i \in 1 .. n : Over(buf, off, data)[i] =
              IF i <= off \/ i > off + Len(data) THEN buf[i] ELSE data[i - off]
<1> DEFINE l == Len(data)
           a == SubSeq(buf, 1, off)
           c == SubSeq(buf, off + l + 1, n)
<1>1. buf \in Seq(S) /\ Len(buf) = n BY FunctionIsSeq
<1>2. l \in Nat BY LenProperties
<1>3. /\ a \in Seq(S) /\ Len(a) = off /\ \A i \in 1 .. off : a[i] = buf[i]
  BY <1>1, PartOf
<1>4. /\ c \in Seq(S) /\ Len(c) = n - off - l
      /\ \A i \in 1 .. n - off - l : c[i] = buf[off + l + i]
  <2>1. off + l + 1 \in Nat \ {0} /\ off + l + 1 <= n + 1 BY <1>2
  <2>2. /\ c \in Seq(S) /\ Len(c) = n - (off + l + 1) + 1
        /\ \A i \in 1 .. n - (off + l + 1) + 1 : c[i] = buf[off + l + 1 + i - 1]
    BY <1>1, <2>1, PartOf
  <2> QED BY <2>2, <1>2
<1> HIDE DEF a, c, l
<1>5. /\ a \o data \in Seq(S) /\ Len(a \o data) = off + l
      /\ \A i \in 1 .. off + l : (a \o data)[i] = IF i <= off THEN a[i] ELSE data[i - off]
  BY <1>2, <1>3, ConcatProperties DEF l
<1>6. /\ (a \o data) \o c \in Seq(S) /\ Len((a \o data) \o c) = n
      /\ \A i \in 1 .. n : ((a \o data) \o c)[i] =
           IF i <= off + l THEN (a \o data)[i] ELSE c[i - (off + l)]
  <2>1. PICK x \in Seq(S) : x = a \o data BY <1>5
  <2>2. /\ x \o c \in Seq(S) /\ Len(x \o c) = Len(x) + Len(c)
        /\ \A i \in 1 .. Len(x) + Len(c) : (x \o c)[i] = IF i <= Len(x) THEN x[i] ELSE c[i - Len(x)]
    BY <1>4, ConcatProperties
  <2>3. Len(x) = off + l BY <1>5, <2>1
  <2>4. Len(x) + Len(c) = n BY <1>2, <1>4, <2>3
  <2> QED BY <2>1, <2>2, <2>3, <2>4
<1>7. Over(buf, off, data) = (a \o data) \o c BY <1>1 DEF Over, a, c, l
<1>8. ASSUME NEW i \in 1 .. n
      PROVE Over(buf, off, data)[i] =
              IF i <= off \/ i > off + l THEN buf[i] ELSE data[i - off]
  <2>1. CASE i <= off BY <1>2, <1>3, <1>5, <1>6, <1>7, <2>1
  <2>2. CASE i > off /\ i <= off + l BY <1>2, <1>5, <1>6, <1>7, <2>2
  <2>3. CASE i > off + l
    <3>1. PICK j \in 1 .. n - off - l : j = i - (off + l) /\ off + l + j = i BY <2>3, <1>2
    <3>2. ~(i <= off + l) BY <1>2, <2>3
    <3>3. Over(buf, off, data)[i] = c[j] BY <1>6, <1>7, <3>1, <3>2
    <3>4. c[j] = buf[i] BY <1>4, <3>1
    <3> QED BY <2>3, <3>3, <3>4
  <2> QED BY <2>1, <2>2, <2>3, <1>2
<1>9. Over(buf, off, data) \in [1 .. n -> S] BY <1>6, <1>7, SeqIsFunction
<1> QED BY <1>8, <1>9 DEF l

\* A sequence is its first i elements and the rest.
LEMMA Cut ==
  ASSUME NEW S, NEW d \in Seq(S), NEW i \in 0 .. Len(d)
  PROVE  /\ SubSeq(d, 1, i) \in Seq(S) /\ Len(SubSeq(d, 1, i)) = i
         /\ SubSeq(d, i + 1, Len(d)) \in Seq(S) /\ Len(SubSeq(d, i + 1, Len(d))) = Len(d) - i
         /\ SubSeq(d, 1, i) \o SubSeq(d, i + 1, Len(d)) = d
<1>1. PICK l \in Nat : l = Len(d) BY LenProperties
<1>2. i \in Nat /\ i <= l BY <1>1
<1>3. SubSeq(d, 1, i) \in Seq(S) /\ Len(SubSeq(d, 1, i)) = i - 1 + 1 BY <1>1, <1>2, PartOf
<1>4. /\ SubSeq(d, i + 1, l) \in Seq(S) /\ Len(SubSeq(d, i + 1, l)) = l - (i + 1) + 1
  BY <1>1, <1>2, PartOf
<1>5. SubSeq(d, 1, i) \o SubSeq(d, i + 1, l) = SubSeq(d, 1, l)
  <2>1. 1 \in 1 .. l + 1 /\ i \in 1 - 1 .. l /\ l \in i .. l BY <1>2
  <2>2. 1 \in 1 .. Len(d) + 1 /\ i \in 1 - 1 .. Len(d) /\ l \in i .. Len(d) BY <1>1, <2>1
  <2> QED BY <2>2, ConcatAdjacentSubSeq
<1>6. SubSeq(d, 1, l) = d BY <1>1, SubSeqFull
<1>7. i - 1 + 1 = i /\ l - (i + 1) + 1 = l - i BY <1>2
<1>8. SubSeq(d, 1, i) \o SubSeq(d, i + 1, Len(d)) = d BY <1>1, <1>5, <1>6
<1>9. SubSeq(d, i + 1, Len(d)) \in Seq(S) /\ Len(SubSeq(d, i + 1, Len(d))) = Len(d) - i
  BY <1>1, <1>4, <1>7
<1>10. SubSeq(d, 1, i) \in Seq(S) /\ Len(SubSeq(d, 1, i)) = i BY <1>3, <1>7
<1> QED BY <1>8, <1>9, <1>10

----------------------------------------------------------------------------
(* Words and blocks of bytes. *)

LEMMA BytesAre == Byte = SUBSET (0 .. 7)
<1>1. 8-1 = 7 OBVIOUS
<1> QED BY <1>1 DEF Byte, Word

\* A byte keeps its eight bits under the exclusive or, which undoes itself.
LEMMA XorByte ==
  ASSUME NEW x \in Byte, NEW y \in Byte
  PROVE  Xor(x, y) \in Byte /\ Xor(x, y) = Xor(y, x) /\ Xor({}, x) = x /\ {} \in Byte
BY BytesAre DEF Xor

\* Byte i of n, counted from the most significant one, holds the positions
\* 8*(n-i) to 8*(n-i) + 7.
LEMMA Place ==
  ASSUME NEW n \in Nat \ {0}, NEW i \in 1 .. n, NEW j \in 0 .. 7
  PROVE  /\ 8*(n - i) + j \in 0 .. 8*n - 1
         /\ \A h \in 1 .. n, k \in 0 .. 7 : 8*(n - h) + k = 8*(n - i) + j => h = i /\ k = j
OBVIOUS

LEMMA PlaceOf ==
  ASSUME NEW n \in Nat \ {0}, NEW x \in 0 .. 8*n - 1
  PROVE  \E i \in 1 .. n, j \in 0 .. 7 : x = 8*(n - i) + j
<1>1. x \in Nat /\ x <= 8*n - 1 OBVIOUS
<1>2. PICK q \in Nat, r \in 0 .. 7 : x = 8*q + r
  <2>1. x \div 8 \in Nat /\ x % 8 \in 0 .. 7 /\ x = 8*(x \div 8) + (x % 8) BY <1>1
  <2> QED BY <2>1
<1>3. q < n BY <1>1, <1>2
<1>4. n - q \in 1 .. n /\ x = 8*(n - (n - q)) + r BY <1>2, <1>3
<1> QED BY <1>4

\* Two words of n bytes are the same if they agree bit for bit.
LEMMA SameWord ==
  ASSUME NEW n \in Nat \ {0}, NEW x \in Word(8*n), NEW y \in Word(8*n),
         \A i \in 1 .. n, j \in 0 .. 7 : 8*(n - i) + j \in x <=> 8*(n - i) + j \in y
  PROVE  x = y
<1>1. x \subseteq 0 .. 8*n - 1 /\ y \subseteq 0 .. 8*n - 1 BY DEF Word
<1>2. ASSUME NEW p \in 0 .. 8*n - 1 PROVE p \in x <=> p \in y
  <2>1. PICK i \in 1 .. n, j \in 0 .. 7 : p = 8*(n - i) + j BY PlaceOf
  <2> QED BY <2>1
<1> QED BY <1>1, <1>2

\* The bits of a block packed into a word, and of a word taken apart.
LEMMA Packed ==
  ASSUME NEW n \in Nat \ {0}, NEW b \in [1 .. n -> Byte]
  PROVE  /\ PackBE(b) \in Word(8*n)
         /\ \A i \in 1 .. n, j \in 0 .. 7 : 8*(n - i) + j \in PackBE(b) <=> j \in b[i]
<1>1. b \in Seq(Byte) /\ Len(b) = n /\ DOMAIN b = 1 .. n BY FunctionIsSeq
<1>2. PackBE(b) = UNION {{8 * (n - i) + j : j \in b[i]} : i \in 1 .. n} BY <1>1 DEF PackBE
<1>3. \A i \in 1 .. n : b[i] \subseteq 0 .. 7 BY BytesAre
<1>4. \A x : x \in PackBE(b) <=> \E i \in 1 .. n : \E j \in b[i] : x = 8*(n - i) + j
  <2> DEFINE V(i) == {8 * (n - i) + j : j \in b[i]}
  <2>1. \A x : x \in PackBE(b) <=> \E i \in 1 .. n : x \in V(i) BY <1>2
  <2>2. \A i : \A x : x \in V(i) <=> \E j \in b[i] : x = 8*(n - i) + j OBVIOUS
  <2> HIDE DEF V
  <2> QED BY <2>1, <2>2
<1>5. ASSUME NEW x \in PackBE(b) PROVE x \in 0 .. 8*n - 1
  <2>1. PICK i \in 1 .. n : \E j \in b[i] : x = 8*(n - i) + j BY <1>4
  <2>2. PICK j \in b[i] : x = 8*(n - i) + j BY <2>1
  <2>3. j \in 0 .. 7 BY <1>3
  <2> QED BY <2>2, <2>3, Place
<1>6. ASSUME NEW i \in 1 .. n, NEW j \in 0 .. 7
      PROVE  8*(n - i) + j \in PackBE(b) <=> j \in b[i]
  <2>1. ASSUME 8*(n - i) + j \in PackBE(b) PROVE j \in b[i]
    <3>1. PICK h \in 1 .. n : \E k \in b[h] : 8*(n - i) + j = 8*(n - h) + k BY <1>4, <2>1
    <3>2. PICK k \in b[h] : 8*(n - i) + j = 8*(n - h) + k BY <3>1
    <3>3. k \in 0 .. 7 BY <1>3
    <3>4. h = i /\ k = j BY <3>2, <3>3, Place
    <3> QED BY <3>2, <3>4
  <2>2. ASSUME j \in b[i] PROVE 8*(n - i) + j \in PackBE(b) BY <1>4, <2>2
  <2> QED BY <2>1, <2>2
<1>7. PackBE(b) \in Word(8*n) BY <1>5 DEF Word
<1> QED BY <1>6, <1>7

LEMMA Unpacked ==
  ASSUME NEW n \in Nat \ {0}, NEW x \in Word(8*n)
  PROVE  /\ UnpackBE(n, x) \in [1 .. n -> Byte]
         /\ \A i \in 1 .. n, j \in 0 .. 7 : j \in UnpackBE(n, x)[i] <=> 8*(n - i) + j \in x
<1>1. x \subseteq Int BY DEF Word
<1>2. ASSUME NEW i \in 1 .. n
      PROVE  /\ UnpackBE(n, x)[i] = {p - 8*(n - i) : p \in x \cap (8*(n - i) .. 8*(n - i) + 8 - 1)}
             /\ UnpackBE(n, x)[i] \subseteq 0 .. 7
             /\ \A j \in 0 .. 7 : j \in UnpackBE(n, x)[i] <=> 8*(n - i) + j \in x
  <2>1. UnpackBE(n, x)[i] = {p - 8*(n - i) : p \in x \cap (8*(n - i) .. 8*(n - i) + 8 - 1)}
    BY DEF UnpackBE, GetByte, Field
  <2>2. PICK lo \in Nat : lo = 8*(n - i) OBVIOUS
  <2>3. UnpackBE(n, x)[i] = {p - lo : p \in x \cap (lo .. lo + 7)} BY <2>1, <2>2
  <2>4. {p - lo : p \in x \cap (lo .. lo + 7)} \subseteq 0 .. 7 BY <2>2
  <2>5. ASSUME NEW j \in 0 .. 7
        PROVE  j \in {p - lo : p \in x \cap (lo .. lo + 7)} <=> lo + j \in x
    <3>1. lo + j \in x => lo + j \in x \cap (lo .. lo + 7) /\ j = (lo + j) - lo BY <2>2
    <3>2. \A p \in x \cap (lo .. lo + 7) : j = p - lo => p = lo + j BY <1>1, <2>2
    <3> QED BY <3>1, <3>2
  <2> QED BY <2>1, <2>2, <2>3, <2>4, <2>5
<1>3. UnpackBE(n, x) \in [1 .. n -> Byte] BY <1>2, BytesAre DEF UnpackBE
<1> QED BY <1>2, <1>3

\* Packing and unpacking undo each other.
LEMMA PackedBack ==
  ASSUME NEW n \in Nat \ {0}, NEW b \in [1 .. n -> Byte]
  PROVE  UnpackBE(n, PackBE(b)) = b
<1>1. PackBE(b) \in Word(8*n) /\ \A i \in 1 .. n, j \in 0 .. 7 : 8*(n - i) + j \in PackBE(b) <=> j \in b[i]
  BY Packed
<1>2. /\ UnpackBE(n, PackBE(b)) \in [1 .. n -> Byte]
      /\ \A i \in 1 .. n, j \in 0 .. 7 : j \in UnpackBE(n, PackBE(b))[i] <=> 8*(n - i) + j \in PackBE(b)
  BY <1>1, Unpacked
<1>3. ASSUME NEW i \in 1 .. n PROVE UnpackBE(n, PackBE(b))[i] = b[i]
  <2>1. UnpackBE(n, PackBE(b))[i] \subseteq 0 .. 7 /\ b[i] \subseteq 0 .. 7 BY <1>2, BytesAre
  <2> QED BY <1>1, <1>2, <2>1
<1> QED BY <1>2, <1>3

LEMMA UnpackedBack ==
  ASSUME NEW n \in Nat \ {0}, NEW x \in Word(8*n)
  PROVE  PackBE(UnpackBE(n, x)) = x
<1>1. PICK b \in [1 .. n -> Byte] :
        b = UnpackBE(n, x) /\ \A i \in 1 .. n, j \in 0 .. 7 : j \in b[i] <=> 8*(n - i) + j \in x
  BY Unpacked
<1>2. PackBE(b) \in Word(8*n) /\ \A i \in 1 .. n, j \in 0 .. 7 : 8*(n - i) + j \in PackBE(b) <=> j \in b[i]
  BY Packed
<1>3. PackBE(b) = x BY <1>1, <1>2, SameWord
<1> QED BY <1>1, <1>3

\* The exclusive or of blocks is that of the words.
LEMMA XorBlocks ==
  ASSUME NEW n \in Nat, NEW a \in [1 .. n -> Byte], NEW b \in [1 .. n -> Byte]
  PROVE  /\ XorSeq(a, b) \in [1 .. n -> Byte]
         /\ \A i \in 1 .. n : XorSeq(a, b)[i] = Xor(a[i], b[i])
         /\ XorSeq(a, b) = XorSeq(b, a)
         /\ Zeros(n) \in [1 .. n -> Byte] /\ XorSeq(Zeros(n), a) = a
<1>1. \A i \in 1 .. n : /\ Xor(a[i], b[i]) \in Byte /\ Xor(a[i], b[i]) = Xor(b[i], a[i])
                        /\ Xor({}, a[i]) = a[i]
  BY XorByte
<1>2. XorSeq(a, b) = [i \in 1 .. n |-> Xor(a[i], b[i])] /\ XorSeq(b, a) = [i \in 1 .. n |-> Xor(b[i], a[i])]
  BY DEF XorSeq
<1>3. Zeros(n) = [i \in 1 .. n |-> {}] /\ {} \in Byte BY BytesAre DEF Zeros, Zero
<1>4. XorSeq(Zeros(n), a) = [i \in 1 .. n |-> Xor({}, a[i])] BY <1>3 DEF XorSeq
<1>5. XorSeq(a, b) = XorSeq(b, a) BY <1>1, <1>2
<1>6. [i \in 1 .. n |-> Xor({}, a[i])] = a BY <1>1
<1> QED BY <1>1, <1>2, <1>3, <1>4, <1>5, <1>6

LEMMA XorWords ==
  ASSUME NEW n \in Nat, NEW x \in Word(8*n), NEW y \in Word(8*n)
  PROVE  Xor(x, y) \in Word(8*n) /\ \A p : p \in Xor(x, y) <=> ~(p \in x <=> p \in y)
BY DEF Xor, Word

LEMMA XorPacked ==
  ASSUME NEW n \in Nat \ {0}, NEW a \in [1 .. n -> Byte], NEW b \in [1 .. n -> Byte]
  PROVE  PackBE(XorSeq(a, b)) = Xor(PackBE(a), PackBE(b))
<1>1. /\ PackBE(a) \in Word(8*n)
      /\ \A i \in 1 .. n, j \in 0 .. 7 : 8*(n - i) + j \in PackBE(a) <=> j \in a[i]
  BY Packed
<1>2. /\ PackBE(b) \in Word(8*n)
      /\ \A i \in 1 .. n, j \in 0 .. 7 : 8*(n - i) + j \in PackBE(b) <=> j \in b[i]
  BY Packed
<1>3. /\ XorSeq(a, b) \in [1 .. n -> Byte]
      /\ \A i \in 1 .. n : XorSeq(a, b)[i] = Xor(a[i], b[i])
  BY XorBlocks
<1>4. /\ PackBE(XorSeq(a, b)) \in Word(8*n)
      /\ \A i \in 1 .. n, j \in 0 .. 7 : 8*(n - i) + j \in PackBE(XorSeq(a, b)) <=> j \in XorSeq(a, b)[i]
  BY <1>3, Packed
<1>5. /\ Xor(PackBE(a), PackBE(b)) \in Word(8*n)
      /\ \A p : p \in Xor(PackBE(a), PackBE(b)) <=> ~(p \in PackBE(a) <=> p \in PackBE(b))
  BY <1>1, <1>2, XorWords
<1>6. \A i \in 1 .. n, j \in 0 .. 7 : j \in XorSeq(a, b)[i] <=> ~(j \in a[i] <=> j \in b[i])
  BY <1>3 DEF Xor
<1>7. \A i \in 1 .. n, j \in 0 .. 7 :
        8*(n - i) + j \in PackBE(XorSeq(a, b)) <=> 8*(n - i) + j \in Xor(PackBE(a), PackBE(b))
  BY <1>1, <1>2, <1>4, <1>5, <1>6
<1> QED BY <1>4, <1>5, <1>7, SameWord

----------------------------------------------------------------------------
(* Loops. *)

\* A loop whose turns do not leave S is a recursive definition in S.
LEMMA IteratedIs ==
  ASSUME NEW n \in Nat, NEW S, NEW x \in S, NEW turn, StepsIn(n, S, turn)
  PROVE  \E f \in [0 .. n -> S] : Recursive(f, n, x, turn) /\ Iterated(n, x, turn) = f[n]
<1> DEFINE Is(h) == h = [i \in 0 .. n |-> IF i = 0 THEN x ELSE turn[<<h[i-1], i>>]]
           v == CHOOSE h : Is(h)
<1>1. Iterated(n, x, turn) = v[n] BY DEF Iterated
<1>2. PICK f \in [0 .. n -> S] : Recursive(f, n, x, turn) BY Recursion
<1>3. \A i \in 0 .. n : f[i] = IF i = 0 THEN x ELSE turn[<<f[i-1], i>>] BY <1>2 DEF Recursive
<1>4. Is(f) BY <1>2, <1>3
<1>5. Is(v) BY Zenon, <1>4
<1> HIDE DEF v
<1>6. Recursive(v, n, x, turn) BY <1>5 DEF Recursive
<1>7. v[n] = f[n] BY <1>2, <1>6, SameRecursion
<1> QED BY <1>1, <1>2, <1>7

\* back undoes turn: what P makes of the state after a turn, it takes to what P
\* makes of the state before.  Then the loop of back undoes the loop of turn.
Undoes(n, S, P, turn, back) ==
    /\ \A i \in 0 .. n : \A s \in S : P[<<s, i>>] \in S
    /\ \A i \in 1 .. n : \A s \in S : back[<<P[<<turn[<<s, i>>], i>>], n + 1 - i>>] = P[<<s, i - 1>>]
LEMMA Unwound ==
  ASSUME NEW n \in Nat, NEW S, NEW x \in S, NEW turn, NEW back, NEW P,
         StepsIn(n, S, turn), StepsIn(n, S, back), Undoes(n, S, P, turn, back)
  PROVE  /\ Iterated(n, x, turn) \in S
         /\ Iterated(n, P[<<Iterated(n, x, turn), n>>], back) = P[<<x, 0>>]
<1>1. PICK f \in [0 .. n -> S] : Recursive(f, n, x, turn) /\ Iterated(n, x, turn) = f[n]
  BY IteratedIs
<1>2. PICK b \in S : b = P[<<f[n], n>>] BY DEF Undoes
<1>3. PICK g \in [0 .. n -> S] : Recursive(g, n, b, back) /\ Iterated(n, b, back) = g[n]
  BY IteratedIs
<1> DEFINE T == {i \in 0 .. n : g[i] = P[<<f[n - i], n - i>>]}
<1>4. 0 \in T BY <1>2, <1>3 DEF Recursive
<1>5. ASSUME NEW i \in 0 .. n-1, i \in T PROVE i + 1 \in T
  <2>1. n - i \in 1 .. n /\ i + 1 \in 1 .. n /\ (i + 1) - 1 = i /\ n - (i + 1) = (n - i) - 1
        /\ n + 1 - (n - i) = i + 1 /\ n - (i + 1) \in 0 .. n
    OBVIOUS
  <2>2. g[i + 1] = back[<<g[i], i + 1>>] BY <1>3, <2>1 DEF Recursive
  <2>3. g[i] = P[<<f[n - i], n - i>>] BY <1>5
  <2>4. f[n - i] = turn[<<f[n - (i + 1)], n - i>>] BY <1>1, <2>1 DEF Recursive
  <2>5. f[n - (i + 1)] \in S BY <2>1
  <2>6. back[<<P[<<turn[<<f[n - (i + 1)], n - i>>], n - i>>], i + 1>>] = P[<<f[n - (i + 1)], n - (i + 1)>>]
    BY <2>1, <2>5 DEF Undoes
  <2> QED BY <2>1, <2>2, <2>3, <2>4, <2>6
<1> HIDE DEF T
<1>6. \A i \in 0 .. n : i \in T BY Zenon, <1>4, <1>5, Inductive
<1>7. g[n] = P[<<f[0], 0>>]
  <2>1. n \in 0 .. n /\ n - n = 0 OBVIOUS
  <2>2. g[n] = P[<<f[n - n], n - n>>] BY <1>6, <2>1 DEF T
  <2> QED BY <2>1, <2>2
<1> QED BY <1>1, <1>2, <1>3, <1>7 DEF Recursive

----------------------------------------------------------------------------
(* Blocks as words. *)

\* The places of the words of n bytes in a block of m of them.
LEMMA PlaceInBlock ==
  ASSUME NEW n \in Nat \ {0}, NEW m \in Nat, NEW i \in 1 .. m, NEW j \in 1 .. n
  PROVE  /\ n*(i-1) + j \in 1 .. n*m /\ n*(i-1) + 1 \in Nat \ {0} /\ n*i \in Nat
         /\ n*i = n*(i-1) + n /\ n*i <= n*m /\ n*(i-1) \in Nat
         /\ (n*(i-1) + j - 1) \div n = i - 1 /\ (n*(i-1) + j - 1) % n = j - 1
<1>1. /\ n*(i-1) \in Int /\ n*i \in Int /\ n*m \in Int /\ n*((i-1) + 1) = n*(i-1) + n
      /\ n*i <= n*m /\ n*0 <= n*(i-1)
  BY TimesMonotonic
<1>2. PICK p \in Nat, q \in Nat : p = n*(i-1) /\ q = n*m
  <2>1. n*0 = 0 OBVIOUS
  <2>2. n*(i-1) >= 0 /\ n*m >= n*i /\ n*i = n*(i-1) + n BY <1>1, <2>1
  <2> QED BY <1>1, <2>2
<1>3. n*i = p + n /\ p + n <= q BY <1>1, <1>2
<1>4. j - 1 \in 0 .. n-1 /\ i - 1 \in Int OBVIOUS
<1>5. (n*(i-1) + (j-1)) \div n = i-1 /\ (n*(i-1) + (j-1)) % n = j-1 BY Zenon, <1>4, Division
<1>6. n*(i-1) + j - 1 = n*(i-1) + (j-1) BY <1>2
<1>7. p + j \in 1 .. q /\ p + 1 \in Nat \ {0} BY <1>3
<1> QED BY <1>2, <1>3, <1>5, <1>6, <1>7

\* And the word and the byte that a place belongs to.
LEMMA WordAndByte ==
  ASSUME NEW n \in Nat \ {0}, NEW m \in Nat, NEW p \in 1 .. n*m
  PROVE  \E i \in 1 .. m, j \in 1 .. n : p = n*(i-1) + j
<1>0. n*m \in Nat OBVIOUS
<1>1. p - 1 \in Nat BY <1>0
<1>2. PICK q \in Nat, r \in 0 .. n-1 : p - 1 = n*q + r
  <2>1. PICK a \in Nat : a = p - 1 BY <1>1
  <2>2. \E q \in Nat, r \in 0 .. n-1 : q = a \div n /\ r = a % n /\ a = n*q + r BY DivisionExists, Zenon
  <2> QED BY <2>1, <2>2, Zenon
<1>3. q < m
  <2>1. ASSUME m <= q PROVE FALSE
    <3>1. n*m <= n*q /\ n*q \in Int BY <2>1, TimesMonotonic
    <3>2. PICK a \in Int, b \in Int : a = n*m /\ b = n*q BY <1>0, <3>1
    <3>3. a <= b /\ p - 1 = b + r /\ p <= a BY <3>1, <3>2, <1>2
    <3> QED BY <3>3
  <2> QED BY <2>1
<1>4. q + 1 \in 1 .. m /\ r + 1 \in 1 .. n /\ (q + 1) - 1 = q BY <1>3
<1>5. PICK b \in Int : b = n*q OBVIOUS
<1>6. p = b + (r + 1) BY <1>2, <1>5
<1>7. p = n*((q + 1) - 1) + (r + 1) BY <1>4, <1>5, <1>6
<1> QED BY Zenon, <1>4, <1>7

Reversed(n, b) == [i \in 1 .. n |-> b[n + 1 - i]]
LEMMA PackedLE ==
  ASSUME NEW n \in Nat \ {0}
  PROVE  /\ \A b \in [1 .. n -> Byte] :
              PackLE(b) \in Word(8*n) /\ UnpackLE(n, PackLE(b)) = b
         /\ \A x \in Word(8*n) :
              UnpackLE(n, x) \in [1 .. n -> Byte] /\ PackLE(UnpackLE(n, x)) = x
<1>1. ASSUME NEW b \in [1 .. n -> Byte] PROVE PackLE(b) = PackBE(Reversed(n, b))
  <2>1. DOMAIN b = 1 .. n /\ b \in Seq(Byte) /\ Len(b) = n BY FunctionIsSeq
  <2>2. /\ Reversed(n, b) \in [1 .. n -> Byte]
        /\ \A i \in 1 .. n : Reversed(n, b)[i] = b[n + 1 - i] /\ b[i] = Reversed(n, b)[n + 1 - i]
    BY DEF Reversed
  <2>3. PICK r \in [1 .. n -> Byte] : r = Reversed(n, b) BY <2>2
  <2>4. DOMAIN r = 1 .. n /\ Len(r) = n BY FunctionIsSeq
  <2> DEFINE V(i) == {8 * (i - 1) + j : j \in b[i]}
             U(i) == {8 * (n - i) + j : j \in r[i]}
  <2>5. PackLE(b) = UNION {V(i) : i \in 1 .. n} BY <2>1 DEF PackLE
  <2>6. PackBE(r) = UNION {U(i) : i \in 1 .. n} BY <2>4 DEF PackBE
  <2>7. \A i \in 1 .. n : n + 1 - i \in 1 .. n /\ V(i) = U(n + 1 - i) /\ U(i) = V(n + 1 - i)
    <3> TAKE i \in 1 .. n
    <3>1. n + 1 - i \in 1 .. n /\ n - (n + 1 - i) = i - 1 /\ (n + 1 - i) - 1 = n - i OBVIOUS
    <3> QED BY <2>2, <2>3, <3>1
  <2> HIDE DEF U, V
  <2>8. UNION {V(i) : i \in 1 .. n} = UNION {U(i) : i \in 1 .. n}
    <3>1. \A x : x \in UNION {V(i) : i \in 1 .. n} <=> \E i \in 1 .. n : x \in V(i) OBVIOUS
    <3>2. \A x : x \in UNION {U(i) : i \in 1 .. n} <=> \E i \in 1 .. n : x \in U(i) OBVIOUS
    <3>3. \A x : (\E i \in 1 .. n : x \in V(i)) => (\E i \in 1 .. n : x \in U(i)) BY <2>7
    <3>4. \A x : (\E i \in 1 .. n : x \in U(i)) => (\E i \in 1 .. n : x \in V(i)) BY <2>7
    <3> QED BY <3>1, <3>2, <3>3, <3>4
  <2> QED BY <2>3, <2>5, <2>6, <2>8
<1>2. ASSUME NEW x \in Word(8*n)
      PROVE  UnpackLE(n, x) = Reversed(n, UnpackBE(n, x)) /\ UnpackLE(n, x) \in [1 .. n -> Byte]
  <2>1. UnpackBE(n, x) \in [1 .. n -> Byte] BY Unpacked
  <2>2. \A i \in 1 .. n : n + 1 - i \in 1 .. n /\ n - (n + 1 - i) = i - 1 OBVIOUS
  <2>3. UnpackLE(n, x) = Reversed(n, UnpackBE(n, x)) BY <2>2 DEF UnpackLE, UnpackBE, Reversed
  <2>4. Reversed(n, UnpackBE(n, x)) \in [1 .. n -> Byte] BY <2>1, <2>2 DEF Reversed
  <2> QED BY <2>3, <2>4
<1>3. \A b \in [1 .. n -> Byte] : Reversed(n, b) \in [1 .. n -> Byte] /\ Reversed(n, Reversed(n, b)) = b
  BY DEF Reversed
<1>4. ASSUME NEW b \in [1 .. n -> Byte]
      PROVE  PackLE(b) \in Word(8*n) /\ UnpackLE(n, PackLE(b)) = b
  <2>1. PICK r \in [1 .. n -> Byte] : r = Reversed(n, b) /\ Reversed(n, r) = b BY <1>3
  <2>2. PackBE(r) \in Word(8*n) /\ UnpackBE(n, PackBE(r)) = r BY Packed, PackedBack
  <2>3. PackLE(b) = PackBE(r) BY <1>1, <2>1
  <2> QED BY <1>2, <2>1, <2>2, <2>3
<1>5. ASSUME NEW x \in Word(8*n)
      PROVE  PackLE(UnpackLE(n, x)) = x
  <2>1. PICK b \in [1 .. n -> Byte] : b = UnpackBE(n, x) /\ PackBE(b) = x BY Unpacked, UnpackedBack
  <2>2. PICK r \in [1 .. n -> Byte] : r = Reversed(n, b) /\ Reversed(n, r) = b BY <1>3
  <2>3. PackLE(r) = PackBE(Reversed(n, r)) BY <1>1
  <2> QED BY <1>2, <2>1, <2>2, <2>3
<1> QED BY <1>2, <1>4, <1>5


----------------------------------------------------------------------------
(* Sums and differences of words. *)

\* The carries that x and y generate, where x has the bit of z (all ones for the
\* sum, none for the borrows of the difference); one step of Plus and of Minus; and
\* the function that takes them.
Gen(z, x, y) == {i \in y : i \in x <=> i \in z}
CarryStep(z, w, t) == <<Xor(t[1], t[2]), Shl(w, Gen(z, t[1], t[2]), 1)>>
Adds(z, w, h) == h = [t \in WordPairs(w) |-> IF t[2] = {} THEN t[1] ELSE h[CarryStep(z, w, t)]]

\* c holds the carries of the sum, bit by bit: two of three.
Carries(z, w, x, y, c) ==
    /\ c \in Word(w)
    /\ 0 \notin c
    /\ \A i \in 0 .. w-2 : i + 1 \in c <=>
         \/ (i \in x <=> i \in z) /\ i \in y
         \/ (i \in x <=> i \in z) /\ i \in c
         \/ i \in y /\ i \in c

LEMMA CarriesUnique ==
  ASSUME NEW w \in Nat \ {0}, NEW z, NEW x, NEW y, NEW c, NEW d,
         Carries(z, w, x, y, c), Carries(z, w, x, y, d)
  PROVE  c = d
<1> DEFINE T == {i \in 0 .. w-1 : i \in c <=> i \in d}
<1>1. 0 \in T BY DEF Carries
<1>2. ASSUME NEW i \in 0 .. (w-1) - 1, i \in T PROVE i + 1 \in T
  <2>1. i \in 0 .. w-2 /\ i + 1 \in 0 .. w-1 OBVIOUS
  <2>2. i \in c <=> i \in d BY <1>2
  <2>3. i + 1 \in c <=> i + 1 \in d BY <2>1, <2>2 DEF Carries
  <2> QED BY <2>1, <2>3
<1>3. w - 1 \in Nat OBVIOUS
<1> HIDE DEF T
<1>4. \A i \in 0 .. w-1 : i \in T BY <1>1, <1>2, <1>3, Inductive
<1>5. \A i \in 0 .. w-1 : i \in c <=> i \in d BY <1>4 DEF T
<1>6. c \subseteq 0 .. w-1 /\ d \subseteq 0 .. w-1 BY DEF Carries, Word
<1> QED BY Zenon, <1>5, <1>6

\* A step and the carries that remain after it.
LEMMA StepCarries ==
  ASSUME NEW w \in Nat \ {0}, NEW z, NEW t \in WordPairs(w)
  PROVE  /\ CarryStep(z, w, t) \in WordPairs(w)
         /\ \A k \in 0 .. w : t[2] \subseteq (k .. w-1) => CarryStep(z, w, t)[2] \subseteq (k + 1 .. w-1)
         /\ \A c : Carries(z, w, CarryStep(z, w, t)[1], CarryStep(z, w, t)[2], c) =>
              \E d : /\ Carries(z, w, t[1], t[2], d)
                     /\ Xor3(t[1], t[2], d) = Xor3(CarryStep(z, w, t)[1], CarryStep(z, w, t)[2], c)
<1> DEFINE x == t[1]
           y == t[2]
<1>1. x \subseteq 0 .. w-1 /\ y \subseteq 0 .. w-1 BY DEF WordPairs, Word
<1>2. PICK a, b : a = Xor(x, y) /\ b = Shl(w, Gen(z, x, y), 1) /\ CarryStep(z, w, t) = <<a, b>>
  BY DEF CarryStep
<1>3. /\ b \subseteq 1 .. w-1
      /\ \A i \in 0 .. w-2 : i + 1 \in b <=> ((i \in x <=> i \in z) /\ i \in y)
  <2>1. b = {i + 1 : i \in {j \in Gen(z, x, y) : j + 1 < w}} BY <1>2 DEF Shl
  <2>2. \A j \in Gen(z, x, y) : j \in 0 .. w-1 BY <1>1 DEF Gen
  <2>3. ASSUME NEW e \in b PROVE e \in 1 .. w-1
    <3>1. PICK j \in Gen(z, x, y) : e = j + 1 /\ j + 1 < w BY <2>1
    <3> QED BY <2>2, <3>1
  <2>4. ASSUME NEW i \in 0 .. w-2 PROVE i + 1 \in b <=> i \in Gen(z, x, y)
    <3>1. i + 1 < w OBVIOUS
    <3>2. i \in Gen(z, x, y) => i + 1 \in b BY <2>1, <3>1
    <3>3. ASSUME i + 1 \in b PROVE i \in Gen(z, x, y)
      <4>1. PICK j \in Gen(z, x, y) : i + 1 = j + 1 BY <2>1, <3>3
      <4> QED BY <2>2, <4>1
    <3> QED BY <3>2, <3>3
  <2> QED BY <2>3, <2>4 DEF Gen
<1>4. a \subseteq 0 .. w-1 /\ \A i : i \in a <=> ~(i \in x <=> i \in y) BY <1>1, <1>2 DEF Xor
<1>5. CarryStep(z, w, t) \in WordPairs(w) BY <1>2, <1>3, <1>4 DEF WordPairs, Word
<1>6. ASSUME NEW k \in 0 .. w, y \subseteq k .. w-1 PROVE b \subseteq k + 1 .. w-1
  <2> SUFFICES ASSUME NEW e \in b PROVE e \in k + 1 .. w-1 OBVIOUS
  <2>1. e \in 1 .. w-1 BY <1>3
  <2>2. e - 1 \in 0 .. w-2 /\ (e - 1) + 1 = e BY <2>1
  <2>3. e - 1 \in y BY <1>3, <2>2
  <2> QED BY <1>6, <2>1, <2>3
<1>7. ASSUME NEW c, Carries(z, w, a, b, c)
      PROVE  \E d : Carries(z, w, x, y, d) /\ Xor3(x, y, d) = Xor3(a, b, c)
  <2>1. /\ c \subseteq 0 .. w-1 /\ 0 \notin c
        /\ \A i \in 0 .. w-2 : i + 1 \in c <=> \/ (i \in a <=> i \in z) /\ i \in b
                                               \/ (i \in a <=> i \in z) /\ i \in c
                                               \/ i \in b /\ i \in c
    BY <1>7 DEF Carries, Word
  <2> DEFINE T == {i \in 0 .. w-1 : ~(i \in b /\ i \in c)}
  <2>2. 0 \in T BY <2>1
  <2>3. ASSUME NEW i \in 0 .. (w-1) - 1, i \in T PROVE i + 1 \in T
    <3>1. i \in 0 .. w-2 /\ i + 1 \in 0 .. w-1 OBVIOUS
    <3>2. ~(i \in b /\ i \in c) BY <2>3
    <3>3. ~(i + 1 \in b /\ i + 1 \in c) BY <1>3, <1>4, <2>1, <3>1, <3>2
    <3> QED BY <3>1, <3>3
  <2>4. w - 1 \in Nat OBVIOUS
  <2> HIDE DEF T
  <2>5. \A i \in 0 .. w-1 : i \in T BY <2>2, <2>3, <2>4, Inductive
  <2>6. \A i : ~(i \in b /\ i \in c) BY Zenon, <2>1, <2>5 DEF T
  <2> DEFINE d == b \union c
  <2>7. d \in Word(w) /\ 0 \notin d BY <1>3, <2>1 DEF Word
  <2>8. ASSUME NEW i \in 0 .. w-2
        PROVE  i + 1 \in d <=> \/ (i \in x <=> i \in z) /\ i \in y
                               \/ (i \in x <=> i \in z) /\ i \in d
                               \/ i \in y /\ i \in d
    BY <1>3, <1>4, <2>1, <2>6
  <2>9. Carries(z, w, x, y, d) BY <2>7, <2>8 DEF Carries
  <2>10. Xor3(x, y, d) = Xor3(a, b, c) BY <1>2, <2>6 DEF Xor3, Xor
  <2> HIDE DEF d
  <2> QED BY <2>9, <2>10
<1> QED BY <1>2, <1>5, <1>6, <1>7

\* The steps lead to the exclusive or of the two words and the carries.
LEMMA CarryChain ==
  ASSUME NEW w \in Nat \ {0}, NEW z, NEW h, NEW t \in WordPairs(w)
  PROVE  \E c : /\ Carries(z, w, t[1], t[2], c)
                /\ Adds(z, w, h) => h[t] = Xor3(t[1], t[2], c)
<1> DEFINE Good(u) == \E c : /\ Carries(z, w, u[1], u[2], c)
                             /\ Adds(z, w, h) => h[u] = Xor3(u[1], u[2], c)
           T == {k \in 0 .. w : \A u \in WordPairs(w) : u[2] \subseteq (w - k .. w-1) => Good(u)}
<1>1. ASSUME NEW u \in WordPairs(w), u[2] = {} PROVE Good(u)
  <2>1. Carries(z, w, u[1], u[2], {}) BY <1>1 DEF Carries, Word
  <2>2. Xor3(u[1], u[2], {}) = u[1] BY <1>1 DEF Xor3, Xor
  <2>3. Adds(z, w, h) => h[u] = u[1] BY <1>1 DEF Adds
  <2> QED BY <2>1, <2>2, <2>3
<1>2. ASSUME NEW u \in WordPairs(w), u[2] # {}, Good(CarryStep(z, w, u)) PROVE Good(u)
  <2>1. PICK v \in WordPairs(w) : v = CarryStep(z, w, u) BY StepCarries
  <2>2. PICK c : Carries(z, w, v[1], v[2], c) /\ (Adds(z, w, h) => h[v] = Xor3(v[1], v[2], c))
    BY <1>2, <2>1
  <2>3. PICK d : Carries(z, w, u[1], u[2], d) /\ Xor3(u[1], u[2], d) = Xor3(v[1], v[2], c)
    BY <2>1, <2>2, StepCarries
  <2>4. Adds(z, w, h) => h[u] = h[v] BY <1>2, <2>1 DEF Adds
  <2> QED BY <2>2, <2>3, <2>4
<1> HIDE DEF Good
<1>3. 0 \in T
  <2>1. \A u \in WordPairs(w) : u[2] \subseteq (w - 0 .. w-1) => u[2] = {} OBVIOUS
  <2> QED BY <1>1, <2>1
<1>4. ASSUME NEW k \in 0 .. w-1, k \in T PROVE k + 1 \in T
  <2> SUFFICES ASSUME NEW u \in WordPairs(w), u[2] \subseteq (w - (k + 1) .. w-1) PROVE Good(u)
    OBVIOUS
  <2>1. w - (k + 1) \in 0 .. w /\ (w - (k + 1)) + 1 = w - k OBVIOUS
  <2>2. CASE u[2] # {}
    <3>1. CarryStep(z, w, u) \in WordPairs(w) /\ CarryStep(z, w, u)[2] \subseteq (w - k .. w-1)
      BY <2>1, StepCarries
    <3>2. Good(CarryStep(z, w, u)) BY <1>4, <3>1
    <3> QED BY <1>2, <2>2, <3>2
  <2> QED BY <1>1, <2>2
<1> HIDE DEF T
<1>5. w \in T BY <1>3, <1>4, Inductive
<1>6. t[2] \subseteq (w - w .. w-1) BY DEF WordPairs, Word
<1>7. Good(t) BY <1>5, <1>6 DEF T
<1> QED BY <1>7 DEF Good

\* There is a function that takes the steps, so what CHOOSE picks takes them.
LEMMA AddsExists ==
  ASSUME NEW w \in Nat \ {0}, NEW z
  PROVE  Adds(z, w, CHOOSE h : Adds(z, w, h))
<1> DEFINE Val(t) == CHOOSE r : \E c : Carries(z, w, t[1], t[2], c) /\ r = Xor3(t[1], t[2], c)
           h == [t \in WordPairs(w) |-> Val(t)]
<1>1. ASSUME NEW t \in WordPairs(w), NEW c, Carries(z, w, t[1], t[2], c)
      PROVE  h[t] = Xor3(t[1], t[2], c)
  <2>1. \E r : \E d : Carries(z, w, t[1], t[2], d) /\ r = Xor3(t[1], t[2], d) BY <1>1
  <2>2. PICK d : Carries(z, w, t[1], t[2], d) /\ Val(t) = Xor3(t[1], t[2], d) BY <2>1
  <2>3. d = c BY <1>1, <2>2, CarriesUnique
  <2> HIDE DEF Val
  <2> QED BY <2>2, <2>3
<1>2. h = [t \in WordPairs(w) |-> h[t]] OBVIOUS
<1> HIDE DEF h
<1>3. ASSUME NEW t \in WordPairs(w)
      PROVE  h[t] = IF t[2] = {} THEN t[1] ELSE h[CarryStep(z, w, t)]
  <2>1. CASE t[2] = {}
    <3>1. Carries(z, w, t[1], t[2], {}) BY <2>1 DEF Carries, Word
    <3>2. h[t] = Xor3(t[1], t[2], {}) BY <1>1, <3>1
    <3>3. Xor3(t[1], t[2], {}) = t[1] BY <2>1 DEF Xor3, Xor
    <3> QED BY <2>1, <3>2, <3>3
  <2>2. CASE t[2] # {}
    <3>1. PICK v \in WordPairs(w) : v = CarryStep(z, w, t) BY StepCarries
    <3>2. PICK c : Carries(z, w, v[1], v[2], c) BY CarryChain
    <3>3. PICK d : Carries(z, w, t[1], t[2], d) /\ Xor3(t[1], t[2], d) = Xor3(v[1], v[2], c)
      BY <3>1, <3>2, StepCarries
    <3>4. h[t] = h[v] BY <1>1, <3>2, <3>3
    <3> QED BY <2>2, <3>1, <3>4
  <2> QED BY <2>1, <2>2
<1>4. Adds(z, w, h) BY <1>2, <1>3 DEF Adds
<1> QED BY <1>4

\* The sum and the difference of two words are their exclusive or with the carries.
LEMMA PlusIs ==
  ASSUME NEW w \in Nat \ {0}, NEW x \in Word(w), NEW y \in Word(w)
  PROVE  \E c : Carries(0 .. w-1, w, x, y, c) /\ Plus(w, x, y) = Xor3(x, y, c)
<1> DEFINE Is(h) == h = [t \in WordPairs(w) |->
                  IF t[2] = {} THEN t[1] ELSE h[<<Xor(t[1], t[2]), Shl(w, t[1] \cap t[2], 1)>>]]
           v == CHOOSE h : Is(h)
           u == CHOOSE h : Adds(0 .. w-1, w, h)
<1>1. Plus(w, x, y) = v[<<x, y>>] BY DEF Plus
<1>2. ASSUME NEW t \in WordPairs(w) PROVE Gen(0 .. w-1, t[1], t[2]) = t[1] \cap t[2]
  BY DEF Gen, WordPairs, Word
<1>3. \A h : Is(h) <=> Adds(0 .. w-1, w, h)
  <2> TAKE h
  <2>1. \A t \in WordPairs(w) : h[<<Xor(t[1], t[2]), Shl(w, t[1] \cap t[2], 1)>>] = h[CarryStep(0 .. w-1, w, t)]
    BY Zenon, <1>2 DEF CarryStep
  <2> QED BY Zenon, <2>1 DEF Adds
<1>4. Adds(0 .. w-1, w, u) BY AddsExists
<1>5. Is(u) BY Zenon, <1>3, <1>4
<1>6. Is(v)
  <2> HIDE DEF Is
  <2> QED BY <1>5
<1>7. Adds(0 .. w-1, w, v) BY Zenon, <1>3, <1>6
<1> HIDE DEF v
<1>8. <<x, y>> \in WordPairs(w) /\ <<x, y>>[1] = x /\ <<x, y>>[2] = y BY DEF WordPairs
<1>10. PICK t \in WordPairs(w) : t = <<x, y>> /\ t[1] = x /\ t[2] = y BY <1>8
<1>9. \E c : /\ Carries(0 .. w-1, w, t[1], t[2], c)
             /\ Adds(0 .. w-1, w, v) => v[t] = Xor3(t[1], t[2], c)
  BY CarryChain
<1> QED BY <1>1, <1>7, <1>9, <1>10
LEMMA MinusIs ==
  ASSUME NEW w \in Nat \ {0}, NEW x \in Word(w), NEW y \in Word(w)
  PROVE  \E c : Carries({}, w, x, y, c) /\ Minus(w, x, y) = Xor3(x, y, c)
<1> DEFINE Is(h) == h = [t \in WordPairs(w) |->
                  IF t[2] = {} THEN t[1] ELSE h[<<Xor(t[1], t[2]), Shl(w, t[2] \ t[1], 1)>>]]
           v == CHOOSE h : Is(h)
           u == CHOOSE h : Adds({}, w, h)
<1>1. Minus(w, x, y) = v[<<x, y>>] BY DEF Minus
<1>2. ASSUME NEW t \in WordPairs(w) PROVE Gen({}, t[1], t[2]) = t[2] \ t[1]
  BY DEF Gen, WordPairs, Word
<1>3. \A h : Is(h) <=> Adds({}, w, h)
  <2> TAKE h
  <2>1. \A t \in WordPairs(w) : h[<<Xor(t[1], t[2]), Shl(w, t[2] \ t[1], 1)>>] = h[CarryStep({}, w, t)]
    BY <1>2 DEF CarryStep
  <2> QED BY Zenon, <2>1 DEF Adds
<1>4. Adds({}, w, u) BY AddsExists
<1>5. Is(u) BY Zenon, <1>3, <1>4
<1>6. Is(v)
  <2> HIDE DEF Is
  <2> QED BY <1>5
<1>7. Adds({}, w, v) BY Zenon, <1>3, <1>6
<1> HIDE DEF v
<1>8. <<x, y>> \in WordPairs(w) /\ <<x, y>>[1] = x /\ <<x, y>>[2] = y BY DEF WordPairs
<1>10. PICK t \in WordPairs(w) : t = <<x, y>> /\ t[1] = x /\ t[2] = y BY <1>8
<1>9. \E c : /\ Carries({}, w, t[1], t[2], c)
             /\ Adds({}, w, v) => v[t] = Xor3(t[1], t[2], c)
  BY CarryChain
<1> QED BY <1>1, <1>7, <1>9, <1>10

\* Bit by bit.
LEMMA Xor3Bits ==
  ASSUME NEW w \in Nat, NEW x \in Word(w), NEW y \in Word(w), NEW c \in Word(w)
  PROVE  /\ Xor3(x, y, c) \in Word(w)
         /\ \A i : i \in Xor3(x, y, c) <=> ((i \in x <=> i \in y) <=> i \in c)
BY DEF Xor3, Xor, Word

\* Each undoes the other.
LEMMA PlusMinus ==
  ASSUME NEW w \in Nat \ {0}, NEW x \in Word(w), NEW y \in Word(w)
  PROVE  /\ Plus(w, x, y) \in Word(w) /\ Minus(w, x, y) \in Word(w)
         /\ Minus(w, Plus(w, x, y), y) = x /\ Plus(w, Minus(w, x, y), y) = x
         /\ Plus(w, x, y) = Plus(w, y, x)
<1>1. PICK c : Carries(0 .. w-1, w, x, y, c) /\ Plus(w, x, y) = Xor3(x, y, c) BY PlusIs
<1>2. PICK d : Carries({}, w, x, y, d) /\ Minus(w, x, y) = Xor3(x, y, d) BY MinusIs
<1>3. c \in Word(w) /\ d \in Word(w) BY <1>1, <1>2 DEF Carries
<1>4. PICK p \in Word(w) : p = Plus(w, x, y) /\ p = Xor3(x, y, c)
                           /\ \A i : i \in p <=> ((i \in x <=> i \in y) <=> i \in c)
  BY <1>1, <1>3, Xor3Bits
<1>5. PICK m \in Word(w) : m = Minus(w, x, y) /\ m = Xor3(x, y, d)
                           /\ \A i : i \in m <=> ((i \in x <=> i \in y) <=> i \in d)
  BY <1>2, <1>3, Xor3Bits
<1>6. \A i \in 0 .. w-2 : i \in 0 .. w-1 OBVIOUS
<1>7. Carries({}, w, p, y, c)
  <2>1. ASSUME NEW i \in 0 .. w-2
        PROVE  i + 1 \in c <=> \/ (i \in p <=> i \in {}) /\ i \in y
                               \/ (i \in p <=> i \in {}) /\ i \in c
                               \/ i \in y /\ i \in c
    <3>1. i + 1 \in c <=> \/ (i \in x <=> i \in 0 .. w-1) /\ i \in y
                          \/ (i \in x <=> i \in 0 .. w-1) /\ i \in c
                          \/ i \in y /\ i \in c
      BY <1>1 DEF Carries
    <3>2. i \in 0 .. w-1 /\ i \notin {} BY <1>6
    <3> QED BY <1>4, <3>1, <3>2
  <2> QED BY <1>1, <2>1 DEF Carries
<1>8. Carries(0 .. w-1, w, m, y, d)
  <2>1. ASSUME NEW i \in 0 .. w-2
        PROVE  i + 1 \in d <=> \/ (i \in m <=> i \in 0 .. w-1) /\ i \in y
                               \/ (i \in m <=> i \in 0 .. w-1) /\ i \in d
                               \/ i \in y /\ i \in d
    <3>1. i + 1 \in d <=> \/ (i \in x <=> i \in {}) /\ i \in y
                          \/ (i \in x <=> i \in {}) /\ i \in d
                          \/ i \in y /\ i \in d
      BY <1>2 DEF Carries
    <3>2. i \in 0 .. w-1 /\ i \notin {} BY <1>6
    <3> QED BY <1>5, <3>1, <3>2
  <2> QED BY <1>2, <2>1 DEF Carries
<1>9. PICK e : Carries({}, w, p, y, e) /\ Minus(w, p, y) = Xor3(p, y, e) BY MinusIs
<1>10. e = c BY <1>7, <1>9, CarriesUnique
<1>11. Xor3(p, y, c) = x BY <1>4 DEF Xor3, Xor
<1>12. PICK f : Carries(0 .. w-1, w, m, y, f) /\ Plus(w, m, y) = Xor3(m, y, f) BY PlusIs
<1>13. f = d BY <1>8, <1>12, CarriesUnique
<1>14. Xor3(m, y, d) = x BY <1>5 DEF Xor3, Xor
<1>15. Carries(0 .. w-1, w, y, x, c)
  <2>1. ASSUME NEW i \in 0 .. w-2
        PROVE  i + 1 \in c <=> \/ (i \in y <=> i \in 0 .. w-1) /\ i \in x
                               \/ (i \in y <=> i \in 0 .. w-1) /\ i \in c
                               \/ i \in x /\ i \in c
    <3>1. i + 1 \in c <=> \/ (i \in x <=> i \in 0 .. w-1) /\ i \in y
                          \/ (i \in x <=> i \in 0 .. w-1) /\ i \in c
                          \/ i \in y /\ i \in c
      BY <1>1 DEF Carries
    <3>2. i \in 0 .. w-1 BY <1>6
    <3> QED BY <3>1, <3>2
  <2> QED BY <1>1, <2>1 DEF Carries
<1>16. PICK k : Carries(0 .. w-1, w, y, x, k) /\ Plus(w, y, x) = Xor3(y, x, k) BY PlusIs
<1>17. k = c BY <1>15, <1>16, CarriesUnique
<1>18. Xor3(y, x, c) = Xor3(x, y, c) BY DEF Xor3, Xor
<1> QED BY <1>4, <1>5, <1>9, <1>10, <1>11, <1>12, <1>13, <1>14, <1>16, <1>17, <1>18

----------------------------------------------------------------------------
(* Blocks and their words. *)

\* Word i of a block.
LEMMA PartOfBlock ==
  ASSUME NEW n \in Nat \ {0}, NEW m \in Nat, NEW b \in [1 .. n*m -> Byte]
  PROVE  /\ Len(b) = n*m /\ Len(b) \div n = m
         /\ \A i \in 1 .. m :
              /\ SubSeq(b, n*(i-1)+1, n*i) \in [1 .. n -> Byte]
              /\ \A j \in 1 .. n : SubSeq(b, n*(i-1)+1, n*i)[j] = b[n*(i-1) + j]
<1>1. n*m \in Nat OBVIOUS
<1>2. b \in Seq(Byte) /\ Len(b) = n*m BY <1>1, FunctionIsSeq
<1>3. (n*m) \div n = m
  <2>1. (n*m + 0) \div n = m BY Division
  <2>2. n*m + 0 = n*m BY <1>1
  <2> QED BY <2>1, <2>2
<1>4. ASSUME NEW i \in 1 .. m
      PROVE  /\ SubSeq(b, n*(i-1)+1, n*i) \in [1 .. n -> Byte]
             /\ \A j \in 1 .. n : SubSeq(b, n*(i-1)+1, n*i)[j] = b[n*(i-1) + j]
  <2>1. PICK p \in Nat, q \in Nat : p = n*(i-1) /\ q = n*i /\ q = p + n /\ q <= Len(b)
    <3>1. 1 \in 1 .. n OBVIOUS
    <3> QED BY <1>2, <3>1, PlaceInBlock
  <2>2. p + 1 \in Nat \ {0} /\ p + 1 <= q + 1 /\ q - (p + 1) + 1 = n /\ \A j \in 1 .. n : (p + 1) + j - 1 = p + j
    BY <2>1
  <2>3. /\ SubSeq(b, p + 1, q) \in Seq(Byte) /\ Len(SubSeq(b, p + 1, q)) = n
        /\ \A j \in 1 .. n : SubSeq(b, p + 1, q)[j] = b[p + j]
    BY <1>2, <2>1, <2>2, PartOf
  <2>4. SubSeq(b, p + 1, q) \in [1 .. n -> Byte] BY Zenon, <2>3, SeqIsFunction
  <2> QED BY <2>1, <2>3, <2>4
<1> QED BY Zenon, <1>2, <1>3, <1>4

\* A block as words and the words as a block.
LEMMA BlockWordsBE ==
  ASSUME NEW n \in Nat \ {0}, NEW m \in Nat
  PROVE  /\ \A b \in [1 .. n*m -> Byte] :
              WordsBE(n, b) \in [1 .. m -> Word(8*n)] /\ BytesBE(n, WordsBE(n, b)) = b
         /\ \A s \in [1 .. m -> Word(8*n)] :
              BytesBE(n, s) \in [1 .. n*m -> Byte] /\ WordsBE(n, BytesBE(n, s)) = s
<1>1. ASSUME NEW s \in [1 .. m -> Word(8*n)]
      PROVE  /\ BytesBE(n, s) \in [1 .. n*m -> Byte]
             /\ \A i \in 1 .. m, j \in 1 .. n : BytesBE(n, s)[n*(i-1) + j] = UnpackBE(n, s[i])[j]
  <2>1. Len(s) = m BY FunctionIsSeq
  <2>2. BytesBE(n, s) = [p \in 1 .. n*m |-> GetByte(s[(p-1) \div n + 1], n-1 - ((p-1) % n))]
    BY <2>1 DEF BytesBE
  <2>3. ASSUME NEW i \in 1 .. m, NEW j \in 1 .. n
        PROVE  BytesBE(n, s)[n*(i-1) + j] = UnpackBE(n, s[i])[j]
    <3>1. PICK p \in 1 .. n*m : p = n*(i-1) + j /\ (p - 1) \div n = i - 1 /\ (p - 1) % n = j - 1
      BY PlaceInBlock
    <3>2. (i - 1) + 1 = i /\ n - 1 - (j - 1) = n - j OBVIOUS
    <3>3. BytesBE(n, s)[p] = GetByte(s[i], n - j) BY Zenon, <2>2, <3>1, <3>2
    <3> QED BY <3>1, <3>3 DEF UnpackBE
  <2>4. ASSUME NEW p \in 1 .. n*m PROVE BytesBE(n, s)[p] \in Byte
    <3>1. PICK i \in 1 .. m, j \in 1 .. n : p = n*(i-1) + j BY Zenon, WordAndByte
    <3>2. UnpackBE(n, s[i]) \in [1 .. n -> Byte] BY Unpacked
    <3> QED BY Zenon, <2>3, <3>1, <3>2
  <2>5. BytesBE(n, s) = [p \in 1 .. n*m |-> BytesBE(n, s)[p]] BY <2>2
  <2> QED BY Zenon, <2>3, <2>4, <2>5
<1>2. ASSUME NEW b \in [1 .. n*m -> Byte]
      PROVE  /\ WordsBE(n, b) \in [1 .. m -> Word(8*n)]
             /\ \A i \in 1 .. m : UnpackBE(n, WordsBE(n, b)[i]) = SubSeq(b, n*(i-1)+1, n*i)
  <2>1. WordsBE(n, b) = [i \in 1 .. m |-> PackBE(SubSeq(b, n*(i-1)+1, n*i))]
    <3>1. Len(b) \div n = m BY Zenon, PartOfBlock
    <3> QED BY <3>1 DEF WordsBE
  <2>2. ASSUME NEW i \in 1 .. m
        PROVE  /\ PackBE(SubSeq(b, n*(i-1)+1, n*i)) \in Word(8*n)
               /\ UnpackBE(n, PackBE(SubSeq(b, n*(i-1)+1, n*i))) = SubSeq(b, n*(i-1)+1, n*i)
    <3>1. PICK p \in [1 .. n -> Byte] : p = SubSeq(b, n*(i-1)+1, n*i) BY Zenon, PartOfBlock
    <3>2. PackBE(p) \in Word(8*n) /\ UnpackBE(n, PackBE(p)) = p BY Packed, PackedBack
    <3> QED BY <3>1, <3>2
  <2> QED BY Zenon, <2>1, <2>2
<1>3. ASSUME NEW b \in [1 .. n*m -> Byte] PROVE BytesBE(n, WordsBE(n, b)) = b
  <2>1. PICK s \in [1 .. m -> Word(8*n)] :
          s = WordsBE(n, b) /\ \A i \in 1 .. m : UnpackBE(n, s[i]) = SubSeq(b, n*(i-1)+1, n*i)
    BY <1>2
  <2>2. \A i \in 1 .. m, j \in 1 .. n : SubSeq(b, n*(i-1)+1, n*i)[j] = b[n*(i-1) + j] BY PartOfBlock
  <2>3. PICK a \in [1 .. n*m -> Byte] : a = BytesBE(n, s) /\
          \A i \in 1 .. m, j \in 1 .. n : a[n*(i-1) + j] = UnpackBE(n, s[i])[j]
    BY Zenon, <1>1
  <2>4. \A i \in 1 .. m, j \in 1 .. n : a[n*(i-1) + j] = b[n*(i-1) + j]
    <3> TAKE i \in 1 .. m, j \in 1 .. n
    <3>1. a[n*(i-1) + j] = UnpackBE(n, s[i])[j] BY <2>3
    <3>2. SubSeq(b, n*(i-1)+1, n*i)[j] = b[n*(i-1) + j] BY <2>2
    <3>3. UnpackBE(n, s[i]) = SubSeq(b, n*(i-1)+1, n*i) BY <2>1
    <3> QED BY <3>1, <3>2, <3>3
  <2>5. ASSUME NEW p \in 1 .. n*m PROVE a[p] = b[p]
    <3>1. PICK i \in 1 .. m, j \in 1 .. n : p = n*(i-1) + j BY Zenon, WordAndByte
    <3> QED BY Zenon, <2>4, <3>1
  <2>6. a = b BY <2>5
  <2> QED BY <2>1, <2>3, <2>6
<1>4. ASSUME NEW s \in [1 .. m -> Word(8*n)] PROVE WordsBE(n, BytesBE(n, s)) = s
  <2>1. PICK b \in [1 .. n*m -> Byte] : b = BytesBE(n, s) /\
          \A i \in 1 .. m, j \in 1 .. n : b[n*(i-1) + j] = UnpackBE(n, s[i])[j]
    BY Zenon, <1>1
  <2>2. PICK t \in [1 .. m -> Word(8*n)] :
          t = WordsBE(n, b) /\ \A i \in 1 .. m : UnpackBE(n, t[i]) = SubSeq(b, n*(i-1)+1, n*i)
    BY <1>2
  <2>3. ASSUME NEW i \in 1 .. m PROVE t[i] = s[i]
    <3>1. t[i] \in Word(8*n) /\ s[i] \in Word(8*n) OBVIOUS
    <3>2. UnpackBE(n, t[i]) \in [1 .. n -> Byte] /\ UnpackBE(n, s[i]) \in [1 .. n -> Byte]
      BY Zenon, <3>1, Unpacked
    <3>3. \A j \in 1 .. n : SubSeq(b, n*(i-1)+1, n*i)[j] = b[n*(i-1) + j] BY PartOfBlock
    <3>4. \A j \in 1 .. n : UnpackBE(n, t[i])[j] = UnpackBE(n, s[i])[j] BY Zenon, <2>1, <2>2, <3>3
    <3>5. UnpackBE(n, t[i]) = UnpackBE(n, s[i]) BY <3>2, <3>4
    <3>6. PackBE(UnpackBE(n, t[i])) = t[i] /\ PackBE(UnpackBE(n, s[i])) = s[i] BY <3>1, UnpackedBack
    <3> QED BY <3>5, <3>6
  <2>4. t = s BY <2>3
  <2> QED BY <2>1, <2>2, <2>4
<1> QED BY <1>1, <1>2, <1>3, <1>4
LEMMA BlockWordsLE ==
  ASSUME NEW n \in Nat \ {0}, NEW m \in Nat
  PROVE  /\ \A b \in [1 .. n*m -> Byte] :
              WordsLE(n, b) \in [1 .. m -> Word(8*n)] /\ BytesLE(n, WordsLE(n, b)) = b
         /\ \A s \in [1 .. m -> Word(8*n)] :
              BytesLE(n, s) \in [1 .. n*m -> Byte] /\ WordsLE(n, BytesLE(n, s)) = s
<1>1. ASSUME NEW s \in [1 .. m -> Word(8*n)]
      PROVE  /\ BytesLE(n, s) \in [1 .. n*m -> Byte]
             /\ \A i \in 1 .. m, j \in 1 .. n : BytesLE(n, s)[n*(i-1) + j] = UnpackLE(n, s[i])[j]
  <2>1. Len(s) = m BY FunctionIsSeq
  <2>2. BytesLE(n, s) = [p \in 1 .. n*m |-> GetByte(s[(p-1) \div n + 1], (p-1) % n)]
    BY <2>1 DEF BytesLE
  <2>3. ASSUME NEW i \in 1 .. m, NEW j \in 1 .. n
        PROVE  BytesLE(n, s)[n*(i-1) + j] = UnpackLE(n, s[i])[j]
    <3>1. PICK p \in 1 .. n*m : p = n*(i-1) + j /\ (p - 1) \div n = i - 1 /\ (p - 1) % n = j - 1
      BY PlaceInBlock
    <3>2. (i - 1) + 1 = i OBVIOUS
    <3>3. BytesLE(n, s)[p] = GetByte(s[i], j - 1) BY Zenon, <2>2, <3>1, <3>2
    <3> QED BY <3>1, <3>3 DEF UnpackLE
  <2>4. ASSUME NEW p \in 1 .. n*m PROVE BytesLE(n, s)[p] \in Byte
    <3>1. PICK i \in 1 .. m, j \in 1 .. n : p = n*(i-1) + j BY Zenon, WordAndByte
    <3>2. UnpackLE(n, s[i]) \in [1 .. n -> Byte] BY PackedLE
    <3> QED BY Zenon, <2>3, <3>1, <3>2
  <2>5. BytesLE(n, s) = [p \in 1 .. n*m |-> BytesLE(n, s)[p]] BY <2>2
  <2> QED BY Zenon, <2>3, <2>4, <2>5
<1>2. ASSUME NEW b \in [1 .. n*m -> Byte]
      PROVE  /\ WordsLE(n, b) \in [1 .. m -> Word(8*n)]
             /\ \A i \in 1 .. m : UnpackLE(n, WordsLE(n, b)[i]) = SubSeq(b, n*(i-1)+1, n*i)
  <2>1. WordsLE(n, b) = [i \in 1 .. m |-> PackLE(SubSeq(b, n*(i-1)+1, n*i))]
    <3>1. Len(b) \div n = m BY Zenon, PartOfBlock
    <3> QED BY <3>1 DEF WordsLE
  <2>2. ASSUME NEW i \in 1 .. m
        PROVE  /\ PackLE(SubSeq(b, n*(i-1)+1, n*i)) \in Word(8*n)
               /\ UnpackLE(n, PackLE(SubSeq(b, n*(i-1)+1, n*i))) = SubSeq(b, n*(i-1)+1, n*i)
    <3>1. PICK p \in [1 .. n -> Byte] : p = SubSeq(b, n*(i-1)+1, n*i) BY Zenon, PartOfBlock
    <3>2. PackLE(p) \in Word(8*n) /\ UnpackLE(n, PackLE(p)) = p BY PackedLE
    <3> QED BY <3>1, <3>2
  <2> QED BY Zenon, <2>1, <2>2
<1>3. ASSUME NEW b \in [1 .. n*m -> Byte] PROVE BytesLE(n, WordsLE(n, b)) = b
  <2>1. PICK s \in [1 .. m -> Word(8*n)] :
          s = WordsLE(n, b) /\ \A i \in 1 .. m : UnpackLE(n, s[i]) = SubSeq(b, n*(i-1)+1, n*i)
    BY <1>2
  <2>2. \A i \in 1 .. m, j \in 1 .. n : SubSeq(b, n*(i-1)+1, n*i)[j] = b[n*(i-1) + j] BY PartOfBlock
  <2>3. PICK a \in [1 .. n*m -> Byte] : a = BytesLE(n, s) /\
          \A i \in 1 .. m, j \in 1 .. n : a[n*(i-1) + j] = UnpackLE(n, s[i])[j]
    BY Zenon, <1>1
  <2>4. \A i \in 1 .. m, j \in 1 .. n : a[n*(i-1) + j] = b[n*(i-1) + j]
    <3> TAKE i \in 1 .. m, j \in 1 .. n
    <3>1. a[n*(i-1) + j] = UnpackLE(n, s[i])[j] BY <2>3
    <3>2. SubSeq(b, n*(i-1)+1, n*i)[j] = b[n*(i-1) + j] BY <2>2
    <3>3. UnpackLE(n, s[i]) = SubSeq(b, n*(i-1)+1, n*i) BY <2>1
    <3> QED BY <3>1, <3>2, <3>3
  <2>5. ASSUME NEW p \in 1 .. n*m PROVE a[p] = b[p]
    <3>1. PICK i \in 1 .. m, j \in 1 .. n : p = n*(i-1) + j BY Zenon, WordAndByte
    <3> QED BY Zenon, <2>4, <3>1
  <2>6. a = b BY <2>5
  <2> QED BY <2>1, <2>3, <2>6
<1>4. ASSUME NEW s \in [1 .. m -> Word(8*n)] PROVE WordsLE(n, BytesLE(n, s)) = s
  <2>1. PICK b \in [1 .. n*m -> Byte] : b = BytesLE(n, s) /\
          \A i \in 1 .. m, j \in 1 .. n : b[n*(i-1) + j] = UnpackLE(n, s[i])[j]
    BY Zenon, <1>1
  <2>2. PICK t \in [1 .. m -> Word(8*n)] :
          t = WordsLE(n, b) /\ \A i \in 1 .. m : UnpackLE(n, t[i]) = SubSeq(b, n*(i-1)+1, n*i)
    BY <1>2
  <2>3. ASSUME NEW i \in 1 .. m PROVE t[i] = s[i]
    <3>1. t[i] \in Word(8*n) /\ s[i] \in Word(8*n) OBVIOUS
    <3>2. UnpackLE(n, t[i]) \in [1 .. n -> Byte] /\ UnpackLE(n, s[i]) \in [1 .. n -> Byte]
      BY <3>1, PackedLE
    <3>3. \A j \in 1 .. n : SubSeq(b, n*(i-1)+1, n*i)[j] = b[n*(i-1) + j] BY PartOfBlock
    <3>4. \A j \in 1 .. n : UnpackLE(n, t[i])[j] = UnpackLE(n, s[i])[j] BY Zenon, <2>1, <2>2, <3>3
    <3>5. UnpackLE(n, t[i]) = UnpackLE(n, s[i]) BY <3>2, <3>4
    <3>6. PackLE(UnpackLE(n, t[i])) = t[i] /\ PackLE(UnpackLE(n, s[i])) = s[i] BY <3>1, PackedLE
    <3> QED BY <3>5, <3>6
  <2>4. t = s BY <2>3
  <2> QED BY <2>1, <2>2, <2>4
<1> QED BY <1>1, <1>2, <1>3, <1>4

----------------------------------------------------------------------------
(* Rotations, and pairs of words. *)

LEMMA RemainderOfInt ==
  ASSUME NEW w \in Nat \ {0}, NEW a \in Int
  PROVE  \E q \in Int, r \in 0 .. w-1 : r = a % w /\ a = w*q + r
<1>1. a \div w \in Int /\ a % w \in 0 .. w-1 /\ a = w * (a \div w) + (a % w)
  OBVIOUS
<1> QED BY <1>1

LEMMA RotlBack ==
  ASSUME NEW w \in Nat \ {0}, NEW x \in Word(w), NEW n \in Int
  PROVE  Rotl(w, x, n) \in Word(w) /\ Rotl(w, Rotl(w, x, n), -n) = x
<1>0. x \subseteq 0 .. w-1 BY DEF Word
<1>1. ASSUME NEW i \in 0 .. w-1
      PROVE  (i + n) % w \in 0 .. w-1 /\ (((i + n) % w) + (-n)) % w = i
  <2>1. i + n \in Int OBVIOUS
  <2>2. PICK q \in Int, r \in 0 .. w-1 : r = (i + n) % w /\ i + n = w*q + r BY <2>1, RemainderOfInt
  <2>3. -q \in Int /\ w*(-q) = -(w*q) OBVIOUS
  <2>4. PICK b \in Int : b = w*q OBVIOUS
  <2>5. r + (-n) = -b + i
    <3>1. i + n = b + r BY <2>2, <2>4
    <3>2. r \in Int OBVIOUS
    <3> QED BY <3>1, <3>2
  <2>6. (w*(-q) + i) % w = i BY <2>3, Division
  <2> QED BY <2>2, <2>3, <2>4, <2>5, <2>6
<1>2. PICK y : y = Rotl(w, x, n) /\ y = {(i + n) % w : i \in x} BY Zenon DEF Rotl
<1>3. y \in Word(w) BY <1>0, <1>1, <1>2 DEF Word
<1>4. Rotl(w, y, -n) = {(j + (-n)) % w : j \in y} BY DEF Rotl
<1>5. \A e : e \in {(j + (-n)) % w : j \in y} => e \in x
  <2> TAKE e
  <2> HAVE e \in {(j + (-n)) % w : j \in y}
  <2>1. PICK j \in y : e = (j + (-n)) % w OBVIOUS
  <2>2. PICK i \in x : j = (i + n) % w BY <1>2
  <2>3. i \in 0 .. w-1 BY <1>0
  <2>4. (((i + n) % w) + (-n)) % w = i BY <1>1, <2>3
  <2> QED BY <2>1, <2>2, <2>4
<1>6. \A i \in x : i \in {(j + (-n)) % w : j \in y}
  <2> TAKE i \in x
  <2>1. (i + n) % w \in y BY <1>2
  <2>2. (((i + n) % w) + (-n)) % w = i BY <1>0, <1>1
  <2> QED BY <2>1, <2>2
<1> QED BY Zenon, <1>2, <1>3, <1>4, <1>5, <1>6

LEMMA Rotations ==
  ASSUME NEW w \in Nat \ {0}, NEW x \in Word(w), NEW n \in Int
  PROVE  /\ Rotl(w, x, n) \in Word(w) /\ Rotr(w, x, n) \in Word(w)
         /\ Rotr(w, Rotl(w, x, n), n) = x /\ Rotl(w, Rotr(w, x, n), n) = x
<1>0. x \subseteq 0 .. w-1 BY DEF Word
<1>1. \A y \in Word(w) : Rotr(w, y, n) = Rotl(w, y, -n)
  <2> TAKE y \in Word(w)
  <2>1. \A i \in y : i - n = i + (-n) BY DEF Word
  <2> QED BY <2>1 DEF Rotl, Rotr
<1>2. -n \in Int /\ -(-n) = n OBVIOUS
<1>3. Rotl(w, x, n) \in Word(w) /\ Rotl(w, Rotl(w, x, n), -n) = x BY RotlBack
<1>4. Rotl(w, x, -n) \in Word(w) /\ Rotl(w, Rotl(w, x, -n), n) = x BY <1>2, RotlBack
<1> QED BY <1>1, <1>3, <1>4

\* Rotating by k undoes rotating by j.
Cancels(j, k) ==
    \A x \in Word(32) : Rotl(32, x, j) \in Word(32) /\ Rotl(32, Rotl(32, x, j), k) = x
LEMMA RotlAndBack ==
  ASSUME NEW j \in Int, NEW k \in Int, j + k = 0
  PROVE  Cancels(j, k)
<1>1. k = -j OBVIOUS
<1>2. 32 \in Nat \ {0} OBVIOUS
<1> QED BY <1>1, <1>2, RotlBack DEF Cancels

\* The exclusive or undoes itself, and so does the exchange of bits.
LEMMA XorTwice == \A x, y : Xor(Xor(x, y), y) = x
BY DEF Xor
LEMMA SwapTwice == \A x, y, m : SwapBits(SwapBits(x, y, m)[2], SwapBits(x, y, m)[1], m) = <<y, x>>
<1> TAKE x, y, m
<1>1. PICK a, b : a = (x \ m) \union (y \cap m) /\ b = (y \ m) \union (x \cap m) BY Zenon
<1>2. SwapBits(x, y, m) = <<a, b>> BY <1>1 DEF SwapBits
<1>3. SwapBits(b, a, m) = <<(b \ m) \union (a \cap m), (a \ m) \union (b \cap m)>> BY DEF SwapBits
<1>4. (b \ m) \union (a \cap m) = y /\ (a \ m) \union (b \cap m) = x BY <1>1
<1> QED BY <1>2, <1>3, <1>4

LEMMA PairsAre ==
  /\ \A w : WordPairs(w) = [1 .. 2 -> Word(w)]
  /\ \A w : \A x \in Word(w), y \in Word(w) : <<x, y>> \in WordPairs(w)
  /\ \A w : \A v \in WordPairs(w) : v = <<v[1], v[2]>> /\ v[1] \in Word(w) /\ v[2] \in Word(w)
<1>1. ASSUME NEW S PROVE S \X S = [1 .. 2 -> S]
  <2>1. \A v \in S \X S : v \in [1 .. 2 -> S] OBVIOUS
  <2>2. \A v \in [1 .. 2 -> S] : v \in S \X S
    <3> TAKE v \in [1 .. 2 -> S]
    <3>1. v = <<v[1], v[2]>> OBVIOUS
    <3>2. v[1] \in S /\ v[2] \in S OBVIOUS
    <3> QED BY <3>1, <3>2
  <2> QED BY <2>1, <2>2
<1>2. \A w : WordPairs(w) = [1 .. 2 -> Word(w)] BY <1>1 DEF WordPairs
<1> QED BY <1>2 DEF WordPairs

\* A block of two words.
TwoWordsAre(n, w, l, h) ==
    /\ \A b \in [1 .. l -> Byte] :
         /\ <<PackBE(SubSeq(b, 1, n)), PackBE(SubSeq(b, h, l))>> = WordsBE(n, b)
         /\ WordsBE(n, b) \in WordPairs(w) /\ BytesBE(n, WordsBE(n, b)) = b
    /\ \A v \in WordPairs(w) :
         BytesBE(n, v) \in [1 .. l -> Byte] /\ WordsBE(n, BytesBE(n, v)) = v
LEMMA TwoWords ==
  ASSUME NEW n \in Nat \ {0}, NEW w, NEW l, NEW h, w = 8*n, l = n*2, h = n + 1
  PROVE  TwoWordsAre(n, w, l, h)
<1>1. WordPairs(8*n) = [1 .. 2 -> Word(8*n)] BY PairsAre
<1>2. ASSUME NEW b \in [1 .. n*2 -> Byte]
      PROVE  <<PackBE(SubSeq(b, 1, n)), PackBE(SubSeq(b, n + 1, n*2))>> = WordsBE(n, b)
  <2>1. Len(b) \div n = 2 BY Zenon, PartOfBlock
  <2>2. WordsBE(n, b) = [i \in 1 .. 2 |-> PackBE(SubSeq(b, n*(i-1)+1, n*i))] BY <2>1 DEF WordsBE
  <2>3. n*(1-1)+1 = 1 /\ n*1 = n /\ n*(2-1)+1 = n+1 OBVIOUS
  <2>4. WordsBE(n, b) = <<PackBE(SubSeq(b, n*(1-1)+1, n*1)), PackBE(SubSeq(b, n*(2-1)+1, n*2))>>
    BY <2>2
  <2> QED BY <2>3, <2>4
<1>3. /\ \A b \in [1 .. n*2 -> Byte] :
           WordsBE(n, b) \in WordPairs(8*n) /\ BytesBE(n, WordsBE(n, b)) = b
      /\ \A v \in WordPairs(8*n) :
           BytesBE(n, v) \in [1 .. n*2 -> Byte] /\ WordsBE(n, BytesBE(n, v)) = v
  BY Zenon, <1>1, BlockWordsBE
<1> QED BY <1>2, <1>3 DEF TwoWordsAre


----------------------------------------------------------------------------
(* Blocks of eight and of sixteen bytes, and the steps of a loop. *)

Block8 == [1 .. 8 -> Byte]
LEMMA WordsOf8 == TwoWordsAre(4, 32, 8, 5)
<1>1. 4 \in Nat \ {0} /\ 32 = 8*4 /\ 8 = 4*2 /\ 5 = 4 + 1 OBVIOUS
<1> QED BY <1>1, TwoWords, Zenon
----------------------------------------------------------------------------
(* Loops that undo one another, both ways. *)

\* What P makes of the state after a turn, back takes to what P makes of it before.
TurnedBack(n, S, P, turn, back) ==
    /\ StepsIn(n, S, turn) /\ StepsIn(n, S, back)
    /\ \A s \in S : P[s] \in S
    /\ \A i \in 1 .. n : \A s \in S : back[<<P[turn[<<s, i>>]], n + 1 - i>>] = P[s]
LEMMA LoopsUndo ==
  ASSUME NEW n \in Nat, NEW S, NEW P, NEW turn, NEW back, TurnedBack(n, S, P, turn, back), NEW x \in S
  PROVE  /\ Iterated(n, x, turn) \in S
         /\ Iterated(n, P[Iterated(n, x, turn)], back) = P[x]
<1>1. PICK R : R = [t \in S \X (0 .. n) |-> P[t[1]]] BY Zenon
<1>2. ASSUME NEW s \in S, NEW i \in 0 .. n PROVE R[<<s, i>>] = P[s]
  <2>1. <<s, i>> \in S \X (0 .. n) OBVIOUS
  <2> QED BY <1>1, <2>1
<1>3. StepsIn(n, S, turn) /\ StepsIn(n, S, back) BY DEF TurnedBack
<1>4. Undoes(n, S, R, turn, back)
  <2>1. ASSUME NEW i \in 0 .. n, NEW s \in S PROVE R[<<s, i>>] \in S BY <1>2 DEF TurnedBack
  <2>2. ASSUME NEW i \in 1 .. n, NEW s \in S
        PROVE  back[<<R[<<turn[<<s, i>>], i>>], n + 1 - i>>] = R[<<s, i - 1>>]
    <3>1. i \in 0 .. n /\ i - 1 \in 0 .. n OBVIOUS
    <3>2. turn[<<s, i>>] \in S BY <1>3 DEF StepsIn
    <3>3. R[<<turn[<<s, i>>], i>>] = P[turn[<<s, i>>]] /\ R[<<s, i - 1>>] = P[s] BY <1>2, <3>1, <3>2
    <3> QED BY <3>3 DEF TurnedBack
  <2> QED BY <2>1, <2>2 DEF Undoes
<1>5. /\ Iterated(n, x, turn) \in S
      /\ Iterated(n, R[<<Iterated(n, x, turn), n>>], back) = R[<<x, 0>>]
  BY <1>3, <1>4, Unwound
<1>6. 0 \in 0 .. n /\ n \in 0 .. n OBVIOUS
<1> QED BY <1>2, <1>5, <1>6

\* The same where nothing is done in between.
LoopsBack(n, S, turn, back) ==
    /\ StepsIn(n, S, turn) /\ StepsIn(n, S, back)
    /\ \A i \in 1 .. n : \A s \in S : back[<<turn[<<s, i>>], n + 1 - i>>] = s
LEMMA LoopBack ==
  ASSUME NEW n \in Nat, NEW S, NEW turn, NEW back, LoopsBack(n, S, turn, back), NEW x \in S
  PROVE  Iterated(n, x, turn) \in S /\ Iterated(n, Iterated(n, x, turn), back) = x
<1>1. PICK P : P = [s \in S |-> s] BY Zenon
<1>2. \A s \in S : P[s] = s BY <1>1
<1>3. TurnedBack(n, S, P, turn, back)
  <2>1. ASSUME NEW i \in 1 .. n, NEW s \in S PROVE back[<<P[turn[<<s, i>>]], n + 1 - i>>] = P[s]
    <3>1. turn[<<s, i>>] \in S BY DEF LoopsBack, StepsIn
    <3> QED BY <1>2, <3>1 DEF LoopsBack
  <2> QED BY <1>2, <2>1 DEF TurnedBack, LoopsBack
<1> QED BY <1>2, <1>3, LoopsUndo

\* A byte indexes a table, whatever the word it is of.
LEMMA ByteOf == \A x, lo : lo \in Int => Field(x, lo, 8) \in Word(10) /\ Field(x, lo, 8) \in Byte
<1> SUFFICES ASSUME NEW x, NEW lo \in Int PROVE Field(x, lo, 8) \in Word(10) /\ Field(x, lo, 8) \in Byte
  OBVIOUS
<1>1. \A i \in x \cap (lo .. lo + 8 - 1) : i - lo \in 0 .. 10 - 1 /\ i - lo \in 0 .. 8 - 1 OBVIOUS
<1> QED BY <1>1 DEF Field, Word, Byte

LEMMA Xor32 ==
  /\ \A x \in Word(32), y \in Word(32) : Xor(x, y) \in Word(32)
  /\ \A x \in Word(64), y \in Word(64) : Xor(x, y) \in Word(64)
BY DEF Xor, Word

Block16 == [1 .. 16 -> Byte]
LEMMA WordsOf16 == TwoWordsAre(8, 64, 16, 9)
<1>1. 8 \in Nat \ {0} /\ 64 = 8*8 /\ 16 = 8*2 /\ 9 = 8 + 1 OBVIOUS
<1> QED BY <1>1, TwoWords, Zenon

\* A block of four words, in either order of the bytes.
LEMMA FourWords ==
  /\ \A b \in Block16 : WordsBE(4, b) \in Words(32, 4) /\ BytesBE(4, WordsBE(4, b)) = b
  /\ \A s \in Words(32, 4) : BytesBE(4, s) \in Block16 /\ WordsBE(4, BytesBE(4, s)) = s
  /\ \A b \in Block16 : WordsLE(4, b) \in Words(32, 4) /\ BytesLE(4, WordsLE(4, b)) = b
  /\ \A s \in Words(32, 4) : BytesLE(4, s) \in Block16 /\ WordsLE(4, BytesLE(4, s)) = s
<1>1. PICK n \in Nat \ {0} : n = 4 OBVIOUS
<1>2. 8*n = 32 /\ n*n = 16 BY <1>1
<1>3. /\ \A b \in [1 .. n*n -> Byte] : WordsBE(n, b) \in [1 .. n -> Word(8*n)] /\ BytesBE(n, WordsBE(n, b)) = b
      /\ \A s \in [1 .. n -> Word(8*n)] : BytesBE(n, s) \in [1 .. n*n -> Byte] /\ WordsBE(n, BytesBE(n, s)) = s
  BY BlockWordsBE
<1>4. /\ \A b \in [1 .. n*n -> Byte] : WordsLE(n, b) \in [1 .. n -> Word(8*n)] /\ BytesLE(n, WordsLE(n, b)) = b
      /\ \A s \in [1 .. n -> Word(8*n)] : BytesLE(n, s) \in [1 .. n*n -> Byte] /\ WordsLE(n, BytesLE(n, s)) = s
  BY BlockWordsLE
<1> QED BY <1>1, <1>2, <1>3, <1>4 DEF Words, Block16

\* What f makes of the state of a loop follows a loop of its own.
LEMMA Followed ==
  ASSUME NEW n \in Nat, NEW S, NEW T, NEW f \in [S -> T], NEW turn, NEW other,
         StepsIn(n, S, turn), StepsIn(n, T, other),
         \A i \in 1 .. n : \A s \in S : f[turn[<<s, i>>]] = other[<<f[s], i>>],
         NEW x \in S
  PROVE  Iterated(n, x, turn) \in S /\ f[Iterated(n, x, turn)] = Iterated(n, f[x], other)
<1>1. PICK g \in [0 .. n -> S] : Recursive(g, n, x, turn) /\ Iterated(n, x, turn) = g[n] BY IteratedIs
<1>2. PICK y \in T : y = f[x] OBVIOUS
<1>3. PICK h \in [0 .. n -> T] : Recursive(h, n, y, other) /\ Iterated(n, y, other) = h[n] BY IteratedIs
<1> DEFINE U == {i \in 0 .. n : f[g[i]] = h[i]}
<1>4. 0 \in U BY <1>1, <1>2, <1>3 DEF Recursive
<1>5. ASSUME NEW i \in 0 .. n-1, i \in U PROVE i + 1 \in U
  <2>1. i + 1 \in 1 .. n /\ (i + 1) - 1 = i /\ i \in 0 .. n OBVIOUS
  <2>2. g[i + 1] = turn[<<g[i], i + 1>>] /\ h[i + 1] = other[<<h[i], i + 1>>] BY <1>1, <1>3, <2>1 DEF Recursive
  <2>3. f[turn[<<g[i], i + 1>>]] = other[<<f[g[i]], i + 1>>] BY <2>1
  <2> QED BY <1>5, <2>1, <2>2, <2>3
<1> HIDE DEF U
<1>6. \A i \in 0 .. n : i \in U BY Zenon, <1>4, <1>5, Inductive
<1>7. n \in U BY <1>6
<1>8. f[g[n]] = h[n] BY <1>7 DEF U
<1> QED BY <1>1, <1>2, <1>3, <1>8

----------------------------------------------------------------------------
(* Sums: associativity, x + 0, x + x, and thirty-two times x. *)

LEMMA PlusAssociates ==
  ASSUME NEW w \in Nat \ {0}, NEW x \in Word(w), NEW y \in Word(w), NEW z \in Word(w)
  PROVE  Plus(w, Plus(w, x, y), z) = Plus(w, x, Plus(w, y, z))
<1> DEFINE Z == 0 .. w-1
<1>1. PICK a : Carries(Z, w, x, y, a) /\ Plus(w, x, y) = Xor3(x, y, a) BY PlusIs
<1>2. PICK c : Carries(Z, w, y, z, c) /\ Plus(w, y, z) = Xor3(y, z, c) BY PlusIs
<1>3. a \in Word(w) /\ c \in Word(w) BY <1>1, <1>2 DEF Carries
<1>4. PICK p \in Word(w) : p = Plus(w, x, y) /\ \A i : i \in p <=> ((i \in x <=> i \in y) <=> i \in a)
  BY <1>1, <1>3, Xor3Bits
<1>5. PICK q \in Word(w) : q = Plus(w, y, z) /\ \A i : i \in q <=> ((i \in y <=> i \in z) <=> i \in c)
  BY <1>2, <1>3, Xor3Bits
<1>6. PICK b : Carries(Z, w, p, z, b) /\ Plus(w, p, z) = Xor3(p, z, b) BY PlusIs
<1>7. PICK d : Carries(Z, w, x, q, d) /\ Plus(w, x, q) = Xor3(x, q, d) BY PlusIs
<1>8. b \in Word(w) /\ d \in Word(w) BY <1>6, <1>7 DEF Carries
<1> DEFINE T == {i \in 0 .. w-1 : /\ (i \in a /\ i \in b) <=> (i \in c /\ i \in d)
                                  /\ (i \in a \/ i \in b) <=> (i \in c \/ i \in d)}
<1>9. w - 1 \in Nat OBVIOUS
<1>10. 0 \in T
  <2>1. 0 \notin a /\ 0 \notin b /\ 0 \notin c /\ 0 \notin d BY <1>1, <1>2, <1>6, <1>7 DEF Carries
  <2> QED BY <1>9, <2>1
<1>11. ASSUME NEW i \in 0 .. (w-1) - 1, i \in T PROVE i + 1 \in T
  <2>1. i \in 0 .. w-2 /\ i \in Z /\ i + 1 \in Z OBVIOUS
  <2>2. i + 1 \in a <=> (i \in x /\ i \in y) \/ (i \in x /\ i \in a) \/ (i \in y /\ i \in a)
    BY <1>1, <2>1 DEF Carries
  <2>3. i + 1 \in b <=> (i \in p /\ i \in z) \/ (i \in p /\ i \in b) \/ (i \in z /\ i \in b)
    BY <1>6, <2>1 DEF Carries
  <2>4. i + 1 \in c <=> (i \in y /\ i \in z) \/ (i \in y /\ i \in c) \/ (i \in z /\ i \in c)
    BY <1>2, <2>1 DEF Carries
  <2>5. i + 1 \in d <=> (i \in x /\ i \in q) \/ (i \in x /\ i \in d) \/ (i \in q /\ i \in d)
    BY <1>7, <2>1 DEF Carries
  <2>6. i \in p <=> ((i \in x <=> i \in y) <=> i \in a) BY <1>4
  <2>7. i \in q <=> ((i \in y <=> i \in z) <=> i \in c) BY <1>5
  <2>8. /\ (i \in a /\ i \in b) <=> (i \in c /\ i \in d)
        /\ (i \in a \/ i \in b) <=> (i \in c \/ i \in d)
    BY <1>11
  <2>9. /\ (i + 1 \in a /\ i + 1 \in b) <=> (i + 1 \in c /\ i + 1 \in d)
        /\ (i + 1 \in a \/ i + 1 \in b) <=> (i + 1 \in c \/ i + 1 \in d)
    BY <2>2, <2>3, <2>4, <2>5, <2>6, <2>7, <2>8
  <2> QED BY <2>1, <2>9
<1> HIDE DEF T
<1>12. \A i \in 0 .. w-1 : i \in T BY <1>9, <1>10, <1>11, Inductive
<1>13. PICK l \in Word(w) : l = Plus(w, p, z) /\ \A i : i \in l <=> ((i \in p <=> i \in z) <=> i \in b)
  BY <1>6, <1>8, Xor3Bits
<1>14. PICK r \in Word(w) : r = Plus(w, x, q) /\ \A i : i \in r <=> ((i \in x <=> i \in q) <=> i \in d)
  BY <1>7, <1>8, Xor3Bits
<1>15. \A i \in 0 .. w-1 : i \in l <=> i \in r
  <2> TAKE i \in 0 .. w-1
  <2>1. /\ (i \in a /\ i \in b) <=> (i \in c /\ i \in d)
        /\ (i \in a \/ i \in b) <=> (i \in c \/ i \in d)
    BY <1>12 DEF T
  <2>2. i \in p <=> ((i \in x <=> i \in y) <=> i \in a) BY <1>4
  <2>3. i \in q <=> ((i \in y <=> i \in z) <=> i \in c) BY <1>5
  <2>4. i \in l <=> ((i \in p <=> i \in z) <=> i \in b) BY <1>13
  <2>5. i \in r <=> ((i \in x <=> i \in q) <=> i \in d) BY <1>14
  <2> QED BY <2>1, <2>2, <2>3, <2>4, <2>5
<1>16. l = r BY Zenon, <1>15 DEF Word
<1> QED BY <1>4, <1>5, <1>13, <1>14, <1>16

\* x + 0, and x + x.
LEMMA PlusZero ==
  ASSUME NEW w \in Nat \ {0}, NEW x \in Word(w)
  PROVE  Plus(w, x, {}) = x /\ Plus(w, x, x) = Shl(w, x, 1) /\ Shl(w, x, 1) \in Word(w)
<1>1. {} \in Word(w) BY DEF Word
<1>2. Plus(w, x, {}) = x
  <2>1. PICK c : Carries(0 .. w-1, w, x, {}, c) /\ Plus(w, x, {}) = Xor3(x, {}, c) BY <1>1, PlusIs
  <2>2. Carries(0 .. w-1, w, x, {}, {})
    <3>1. \A i \in 0 .. w-2 : i \notin {} /\ i + 1 \notin {} OBVIOUS
    <3> QED BY <1>1, <3>1 DEF Carries
  <2>3. c = {} BY <1>1, <2>1, <2>2, CarriesUnique
  <2>4. Xor3(x, {}, {}) = x BY DEF Xor3, Xor
  <2> QED BY <2>1, <2>3, <2>4
<1>3. PICK s : s = Shl(w, x, 1) OBVIOUS
<1>4. s \in Word(w) /\ \A i \in 0 .. w-2 : i + 1 \in s <=> i \in x
  <2>1. s = {i + 1 : i \in {j \in x : j + 1 < w}} BY <1>3 DEF Shl
  <2>2. \A j \in x : j \in 0 .. w-1 BY DEF Word
  <2>3. \A e \in s : e \in 0 .. w-1 BY <2>1, <2>2
  <2>4. ASSUME NEW i \in 0 .. w-2 PROVE i + 1 \in s <=> i \in x
    <3>1. i + 1 < w OBVIOUS
    <3>2. \A j \in x : j + 1 = i + 1 => j = i BY <2>2
    <3> QED BY <2>1, <3>1, <3>2
  <2> QED BY <2>3, <2>4 DEF Word
<1>5. Plus(w, x, x) = s
  <2>1. PICK c : Carries(0 .. w-1, w, x, x, c) /\ Plus(w, x, x) = Xor3(x, x, c) BY PlusIs
  <2>2. Carries(0 .. w-1, w, x, x, s)
    <3>1. 0 \notin s
      <4>1. \A j \in x : j + 1 # 0 BY DEF Word
      <4> QED BY <1>3, <4>1 DEF Shl
    <3>2. ASSUME NEW i \in 0 .. w-2
          PROVE  i + 1 \in s <=> \/ (i \in x <=> i \in 0 .. w-1) /\ i \in x
                                 \/ (i \in x <=> i \in 0 .. w-1) /\ i \in s
                                 \/ i \in x /\ i \in s
      <4>1. i \in 0 .. w-1 OBVIOUS
      <4>2. i + 1 \in s <=> i \in x BY <1>4
      <4> QED BY <4>1, <4>2
    <3> QED BY <1>4, <3>1, <3>2 DEF Carries
  <2>3. c = s BY <2>1, <2>2, CarriesUnique
  <2>4. Xor3(x, x, s) = s BY DEF Xor3, Xor
  <2> QED BY <2>1, <2>3, <2>4
<1> QED BY <1>2, <1>3, <1>4, <1>5


\* i deltas and j more.
LEMMA Multiples ==
  ASSUME NEW n \in Nat, NEW d \in Word(32), NEW f \in [0 .. n -> Word(32)],
         f[0] = {}, \A i \in 1 .. n : f[i] = Plus(32, f[i-1], d)
  PROVE  \A i \in 0 .. n, j \in 0 .. n : i + j \in 0 .. n => f[i + j] = Plus(32, f[i], f[j])
<1>0. PICK w \in Nat \ {0} : w = 32 OBVIOUS
<1> SUFFICES ASSUME NEW i \in 0 .. n
             PROVE  \A j \in 0 .. n : i + j \in 0 .. n => f[i + j] = Plus(w, f[i], f[j])
  BY <1>0
<1> DEFINE T == {j \in 0 .. n : i + j \in 0 .. n => f[i + j] = Plus(w, f[i], f[j])}
<1>1. 0 \in T
  <2>1. f[i] \in Word(w) BY <1>0
  <2>2. Plus(w, f[i], {}) = f[i] BY <2>1, PlusZero
  <2>3. i + 0 = i /\ 0 \in 0 .. n OBVIOUS
  <2> QED BY Zenon, <2>2, <2>3
<1>2. ASSUME NEW j \in 0 .. n-1, j \in T PROVE j + 1 \in T
  <2>1. j \in 0 .. n /\ j + 1 \in 1 .. n /\ (j + 1) - 1 = j OBVIOUS
  <2> SUFFICES ASSUME i + (j + 1) \in 0 .. n PROVE f[i + (j + 1)] = Plus(w, f[i], f[j + 1])
    BY <2>1
  <2>2. i + (j + 1) \in 1 .. n /\ (i + (j + 1)) - 1 = i + j /\ i + j \in 0 .. n OBVIOUS
  <2>3. f[i + (j + 1)] = Plus(w, f[i + j], d) BY <1>0, <2>2
  <2>4. f[i + j] = Plus(w, f[i], f[j]) BY <1>2, <2>2
  <2>5. f[i] \in Word(w) /\ f[j] \in Word(w) /\ d \in Word(w) BY <1>0, <2>1
  <2>6. f[j + 1] = Plus(w, f[j], d) BY <1>0, <2>1
  <2>7. Plus(w, Plus(w, f[i], f[j]), d) = Plus(w, f[i], Plus(w, f[j], d)) BY <2>5, PlusAssociates
  <2> QED BY <2>3, <2>4, <2>6, <2>7
<1> HIDE DEF T
<1>3. \A j \in 0 .. n : j \in T BY Zenon, <1>1, <1>2, Inductive
<1> QED BY <1>3 DEF T

LEMMA ShlShl ==
  ASSUME NEW w \in Nat, NEW x \in Word(w), NEW k \in Nat
  PROVE  Shl(w, Shl(w, x, k), 1) = Shl(w, x, k + 1)
<1>1. x \subseteq 0 .. w-1 BY DEF Word
<1>2. \A e : e \in Shl(w, Shl(w, x, k), 1) <=> \E i \in x : i + k < w /\ (i + k) + 1 < w /\ e = (i + k) + 1
  BY DEF Shl
<1>3. \A e : e \in Shl(w, x, k + 1) <=> \E i \in x : i + (k + 1) < w /\ e = i + (k + 1)
  BY DEF Shl
<1>4. \A i \in x : (i + k) + 1 = i + (k + 1) /\ ((i + k) + 1 < w => i + k < w) BY <1>1
<1> QED BY <1>2, <1>3, <1>4
==============================================================================
