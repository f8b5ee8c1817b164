------------------------------ MODULE HashProofs ------------------------------
(***************************************************************************)
(* Theorems about the base class of the hash functions and the functions   *)
(* of a hash plugin, for blocks, length fields, counters, pieces of data   *)
(* and numbers of contexts of any size.                                    *)
(***************************************************************************)
EXTENDS Hash, Arithmetic, SequenceTheorems, TLAPS

Buffers == INSTANCE Buffers

\* A block of bytes, and the blocks that a context has transformed, with the off
\* bytes that wait in its buffer, stand for the text t.
Block == [1 .. BlkSize -> Byte]
Represents(blocks, buf, off, t) ==
    /\ blocks \in Seq(Block) /\ buf \in Block /\ off \in 0 .. BlkSize-1 /\ t \in Seq(Byte)
    /\ Len(t) = BlkSize * Len(blocks) + off
    /\ \A i \in 1 .. Len(blocks), j \in 1 .. BlkSize : t[BlkSize*(i-1) + j] = blocks[i][j]
    /\ \A j \in 1 .. off : t[BlkSize * Len(blocks) + j] = buf[j]

----------------------------------------------------------------------------
(* Buffers. *)

\* memcpy(buf + off, data, Len(data)) changes Len(data) bytes of a buffer.
LEMMA Copied ==
  ASSUME NEW n \in Nat, NEW buf \in [1 .. n -> Byte], NEW off \in 0 .. n,
         NEW data \in Seq(Byte), off + Len(data) <= n
  PROVE  /\ CopyTo(buf, off, data) \in [1 .. n -> Byte]
         /\ \A i \in 1 .. n : CopyTo(buf, off, data)[i] =
              IF i <= off \/ i > off + Len(data) THEN buf[i] ELSE data[i - off]
<1>1. CopyTo(buf, off, data) = Buffers!Over(buf, off, data) BY DEF CopyTo, Buffers!Over
<1> QED BY <1>1, Buffers!Overwritten

\* The same of a block, place by place.
CopyAt(buf, off, data, i) ==
    CopyTo(buf, off, data)[i] = IF i <= off \/ i > off + Len(data) THEN buf[i] ELSE data[i - off]
LEMMA BlockCopied ==
  ASSUME NEW buf \in Block, NEW off \in 0 .. BlkSize, NEW data \in Seq(Byte),
         off + Len(data) <= BlkSize
  PROVE  \A i \in 1 .. BlkSize : CopyAt(buf, off, data, i)
<1>1. BlkSize \in Nat /\ buf \in [1 .. BlkSize -> Byte] BY SizesAssumption DEF Block
<1> QED BY <1>1, Copied DEF CopyAt

\* The whole blocks of data, and the bytes that are left.
LEMMA Split ==
  ASSUME NEW d \in Seq(Byte)
  PROVE  /\ Len(d) \in Nat /\ Len(d) \div BlkSize \in Nat /\ Len(d) % BlkSize \in 0 .. BlkSize-1
         /\ Len(d) = BlkSize * (Len(d) \div BlkSize) + (Len(d) % BlkSize)
         /\ Whole(d) \in Seq(Block) /\ Len(Whole(d)) = Len(d) \div BlkSize
         /\ \A i \in 1 .. Len(Whole(d)), j \in 1 .. BlkSize : Whole(d)[i][j] = d[BlkSize*(i-1) + j]
         /\ Left(d) \in Seq(Byte) /\ Len(Left(d)) = Len(d) % BlkSize
         /\ \A j \in 1 .. Len(Left(d)) : Left(d)[j] = d[BlkSize * (Len(d) \div BlkSize) + j]
<1> USE SizesAssumption
<1>1. PICK l \in Nat : l = Len(d) BY LenProperties
<1>2. PICK q \in Nat, r \in 0 .. BlkSize-1 :
        q = Len(d) \div BlkSize /\ r = Len(d) % BlkSize /\ Len(d) = BlkSize*q + r
  <2>1. \E q \in Nat, r \in 0 .. BlkSize-1 :
          q = l \div BlkSize /\ r = l % BlkSize /\ l = BlkSize*q + r
    BY DivisionExists
  <2> QED BY <1>1, <2>1
<1>3. ASSUME NEW i \in 1 .. q
      PROVE /\ SubSeq(d, BlkSize*(i-1) + 1, BlkSize*i) \in Block
            /\ \A j \in 1 .. BlkSize :
                 SubSeq(d, BlkSize*(i-1) + 1, BlkSize*i)[j] = d[BlkSize*(i-1) + j]
  <2>1. /\ BlkSize*(i-1) \in Nat /\ BlkSize*i = BlkSize*(i-1) + BlkSize /\ BlkSize*i <= BlkSize*q
    BY TimesMonotonic
  <2>2. PICK m \in Nat : m = BlkSize*(i-1) BY <2>1
  <2>3. m + BlkSize <= Len(d) BY <1>2, <2>1, <2>2
  <2>4. /\ SubSeq(d, m + 1, m + BlkSize) \in Seq(Byte)
        /\ Len(SubSeq(d, m + 1, m + BlkSize)) = BlkSize
        /\ \A j \in 1 .. BlkSize : SubSeq(d, m + 1, m + BlkSize)[j] = d[m + j]
    <3>1. /\ SubSeq(d, m + 1, m + BlkSize) \in Seq(Byte)
          /\ Len(SubSeq(d, m + 1, m + BlkSize)) = (m + BlkSize) - (m + 1) + 1
          /\ \A j \in 1 .. (m + BlkSize) - (m + 1) + 1 :
               SubSeq(d, m + 1, m + BlkSize)[j] = d[(m + 1) + j - 1]
      BY <2>3, Buffers!PartOf
    <3> QED BY <3>1
  <2>5. SubSeq(d, m + 1, m + BlkSize) \in Block BY <2>4, Buffers!SeqIsFunction DEF Block
  <2> QED BY <2>1, <2>2, <2>4, <2>5
<1>4. /\ Whole(d) \in Seq(Block) /\ Len(Whole(d)) = q
      /\ \A i \in 1 .. q : Whole(d)[i] = SubSeq(d, BlkSize*(i-1) + 1, BlkSize*i)
  <2>1. Whole(d) = [i \in 1 .. q |-> SubSeq(d, BlkSize*(i-1) + 1, BlkSize*i)]
    BY <1>2 DEF Whole
  <2>2. Whole(d) \in [1 .. q -> Block] BY <1>3, <2>1
  <2> QED BY <2>1, <2>2, Buffers!FunctionIsSeq
<1>5. /\ Left(d) \in Seq(Byte) /\ Len(Left(d)) = r
      /\ \A j \in 1 .. r : Left(d)[j] = d[BlkSize*q + j]
  <2>1. PICK m \in Nat : m = BlkSize*q
    BY <1>2
  <2>2. Left(d) = SubSeq(d, m + 1, m + r)
    <3>1. Len(d) = m + r /\ Len(d) % BlkSize = r BY <1>2, <2>1
    <3>2. Left(d) = SubSeq(d, (m + r) - r + 1, m + r) BY <3>1 DEF Left
    <3> QED BY <3>2
  <2>0. Len(d) = m + r BY <1>2, <2>1
  <2>3. /\ SubSeq(d, m + 1, m + r) \in Seq(Byte)
        /\ Len(SubSeq(d, m + 1, m + r)) = (m + r) - (m + 1) + 1
        /\ \A j \in 1 .. (m + r) - (m + 1) + 1 :
             SubSeq(d, m + 1, m + r)[j] = d[(m + 1) + j - 1]
    <3>1. PICK a \in Nat \ {0}, b \in Nat :
            a = m + 1 /\ b = m + r /\ a <= b + 1 /\ b <= Len(d)
      BY <2>0
    <3>2. a <= b + 1 /\ b <= Len(d) BY <3>1
    <3>3. /\ SubSeq(d, a, b) \in Seq(Byte) /\ Len(SubSeq(d, a, b)) = b - a + 1
          /\ \A j \in 1 .. b - a + 1 : SubSeq(d, a, b)[j] = d[a + j - 1]
      BY <3>2, Buffers!PartOf
    <3> QED BY <3>1, <3>3
  <2> QED BY <2>1, <2>2, <2>3
<1>6. \A i \in 1 .. q, j \in 1 .. BlkSize : Whole(d)[i][j] = d[BlkSize*(i-1) + j]
  BY <1>3, <1>4
<1>7. Len(d) \div BlkSize = q /\ Len(d) % BlkSize = r /\ Len(d) = BlkSize*q + r BY <1>2
<1> QED BY <1>1, <1>4, <1>5, <1>6, <1>7

----------------------------------------------------------------------------
(* What Update and Pad make of a text. *)

\* Bytes that fit into the buffer.
LEMMA Filled ==
  ASSUME NEW blocks, NEW buf, NEW off, NEW t, Represents(blocks, buf, off, t),
         NEW d \in Seq(Byte), off + Len(d) <= BlkSize
  PROVE  /\ CopyTo(buf, off, d) \in Block
         /\ off + Len(d) < BlkSize =>
              Represents(blocks, CopyTo(buf, off, d), off + Len(d), t \o d)
         /\ off + Len(d) = BlkSize =>
              \A any \in Block :
                Represents(Append(blocks, CopyTo(buf, off, d)), any, 0, t \o d)
<1> USE SizesAssumption
<1>0. /\ Len(t) = BlkSize * Len(blocks) + off
      /\ \A i \in 1 .. Len(blocks), j \in 1 .. BlkSize : t[BlkSize*(i-1) + j] = blocks[i][j]
      /\ \A j \in 1 .. off : t[BlkSize * Len(blocks) + j] = buf[j]
  BY DEF Represents
<1>1. /\ blocks \in Seq(Block) /\ buf \in Block /\ off \in 0 .. BlkSize-1 /\ t \in Seq(Byte)
  BY DEF Represents
<1>2. PICK l \in Nat : l = Len(d) BY LenProperties
<1>3. PICK n \in Nat : n = Len(blocks) BY <1>1, LenProperties
<1>4. PICK m \in Nat : m = BlkSize*n BY <1>3
<1> DEFINE nb == CopyTo(buf, off, d)
           u == t \o d
<1>a. /\ Len(t) = m + off
      /\ \A i \in 1 .. n, j \in 1 .. BlkSize : t[BlkSize*(i-1) + j] = blocks[i][j]
      /\ \A j \in 1 .. off : t[m + j] = buf[j]
  BY <1>0, <1>3, <1>4
<1>5. /\ nb \in Block
      /\ \A i \in 1 .. BlkSize : nb[i] = IF i <= off \/ i > off + l THEN buf[i] ELSE d[i - off]
  <2>1. BlkSize \in Nat /\ buf \in [1 .. BlkSize -> Byte] /\ off \in 0 .. BlkSize
    BY <1>1 DEF Block
  <2> QED BY <1>2, <2>1, Copied DEF Block
<1>6. /\ u \in Seq(Byte) /\ Len(u) = m + off + l
      /\ \A i \in 1 .. m + off + l : u[i] = IF i <= m + off THEN t[i] ELSE d[i - (m + off)]
  <2>1. /\ u \in Seq(Byte) /\ Len(u) = Len(t) + Len(d)
        /\ \A i \in 1 .. Len(t) + Len(d) : u[i] = IF i <= Len(t) THEN t[i] ELSE d[i - Len(t)]
    BY <1>1, ConcatProperties
  <2> QED BY <1>2, <1>a, <2>1
<1> HIDE DEF nb, u
<1>7. ASSUME NEW i \in 1 .. n, NEW j \in 1 .. BlkSize
      PROVE u[BlkSize*(i-1) + j] = blocks[i][j]
  <2>1. PICK k \in Nat : k = BlkSize*(i-1) /\ k + BlkSize <= m BY <1>4, TimesMonotonic
  <2>2. k + j \in 1 .. m + off + l /\ k + j <= m + off BY <1>1, <2>1
  <2>3. u[k + j] = t[k + j] BY <1>6, <2>2
  <2> QED BY <1>a, <2>1, <2>3
<1>8. ASSUME NEW j \in 1 .. off + l PROVE u[m + j] = nb[j]
  <2>0. m + j \in 1 .. m + off + l /\ j \in 1 .. BlkSize BY <1>1, <1>2
  <2>1. CASE j <= off
    <3>1. u[m + j] = t[m + j] BY <1>1, <1>6, <2>0, <2>1
    <3>2. t[m + j] = buf[j] BY <1>1, <1>a, <2>1
    <3> QED BY <1>5, <2>0, <2>1, <3>1, <3>2
  <2>2. CASE j > off
    <3>1. (m + j) - (m + off) = j - off /\ ~(m + j <= m + off) BY <1>1, <2>2
    <3>2. u[m + j] = d[j - off] BY <1>6, <2>0, <3>1
    <3>3. ~(j <= off \/ j > off + l) BY <1>1, <2>2
    <3> QED BY <1>5, <2>0, <3>2, <3>3
  <2> QED BY <2>1, <2>2, <1>1
<1>9. ASSUME off + l < BlkSize PROVE Represents(blocks, nb, off + l, u)
  BY <1>1, <1>2, <1>3, <1>4, <1>5, <1>6, <1>7, <1>8, <1>9 DEF Represents
<1>10. ASSUME off + l = BlkSize, NEW any \in Block
       PROVE Represents(Append(blocks, nb), any, 0, u)
  <2> DEFINE b == Append(blocks, nb)
  <2>1. /\ b \in Seq(Block) /\ Len(b) = n + 1 /\ b[n + 1] = nb
        /\ \A i \in 1 .. n : b[i] = blocks[i]
    BY <1>1, <1>3, <1>5, AppendProperties
  <2> HIDE DEF b
  <2>2. Len(u) = BlkSize * (n + 1) + 0 BY <1>1, <1>4, <1>6, <1>10, TimesMonotonic
  <2>3. ASSUME NEW i \in 1 .. n + 1, NEW j \in 1 .. BlkSize
        PROVE u[BlkSize*(i-1) + j] = b[i][j]
    <3>1. CASE i <= n
      <4>1. i \in 1 .. n BY <3>1
      <4>2. u[BlkSize*(i-1) + j] = blocks[i][j] BY <1>7, <4>1
      <4> QED BY <2>1, <4>1, <4>2
    <3>2. CASE i = n + 1
      <4>1. u[m + j] = nb[j] BY <1>8, <1>10
      <4> QED BY <1>4, <2>1, <3>2, <4>1
    <3> QED BY <3>1, <3>2
  <2>4. Represents(b, any, 0, u) BY <1>6, <2>1, <2>2, <2>3 DEF Represents
  <2> QED BY <2>4 DEF b
<1> QED BY <1>2, <1>5, <1>9, <1>10 DEF nb, u

\* A buffer with nothing in it may have any contents.
LEMMA AnyBuffer ==
  ASSUME NEW blocks, NEW buf, NEW t, Represents(blocks, buf, 0, t), NEW any \in Block
  PROVE  Represents(blocks, any, 0, t)
BY DEF Represents

\* Data in whole blocks and a rest, when nothing waits in the buffer.
LEMMA WholeBlocks ==
  ASSUME NEW blocks, NEW buf, NEW t, Represents(blocks, buf, 0, t), NEW d \in Seq(Byte)
  PROVE  /\ CopyTo(buf, 0, Left(d)) \in Block
         /\ Represents(blocks \o Whole(d), CopyTo(buf, 0, Left(d)), Len(d) % BlkSize, t \o d)
<1> USE SizesAssumption
<1>0. /\ Len(t) = BlkSize * Len(blocks) + 0
      /\ \A i \in 1 .. Len(blocks), j \in 1 .. BlkSize : t[BlkSize*(i-1) + j] = blocks[i][j]
  BY DEF Represents
<1>1. blocks \in Seq(Block) /\ buf \in Block /\ t \in Seq(Byte) BY DEF Represents
<1>2. PICK q \in Nat, r \in 0 .. BlkSize-1 :
        q = Len(d) \div BlkSize /\ r = Len(d) % BlkSize /\ Len(d) = BlkSize*q + r
  BY Split
<1>3. PICK n \in Nat : n = Len(blocks) BY <1>1, LenProperties
<1>4. PICK m \in Nat, k \in Nat : m = BlkSize*n /\ k = BlkSize*q BY <1>2, <1>3
<1>5. BlkSize * (n + q) = m + k BY <1>4
<1> DEFINE u == t \o d
           b == blocks \o Whole(d)
           nb == CopyTo(buf, 0, Left(d))
<1>6. /\ Left(d) \in Seq(Byte) /\ Len(Left(d)) = r
      /\ \A j \in 1 .. r : Left(d)[j] = d[k + j]
  BY <1>2, <1>4, Split
<1>7. /\ Whole(d) \in Seq(Block) /\ Len(Whole(d)) = q
      /\ \A i \in 1 .. q, j \in 1 .. BlkSize : Whole(d)[i][j] = d[BlkSize*(i-1) + j]
  <2>1. Len(d) \div BlkSize = q BY <1>2
  <2>2. Whole(d) \in Seq(Block) /\ Len(Whole(d)) = q BY <2>1, Split
  <2>3. \A i \in 1 .. Len(Whole(d)), j \in 1 .. BlkSize : Whole(d)[i][j] = d[BlkSize*(i-1) + j]
    BY Split
  <2> QED BY <2>2, <2>3
<1>8. /\ nb \in Block /\ \A j \in 1 .. r : nb[j] = d[k + j]
  <2>1. BlkSize \in Nat /\ buf \in [1 .. BlkSize -> Byte] /\ 0 \in 0 .. BlkSize
    BY <1>1 DEF Block
  <2>2. /\ nb \in [1 .. BlkSize -> Byte]
        /\ \A i \in 1 .. BlkSize : nb[i] = IF i <= 0 \/ i > 0 + r THEN buf[i] ELSE Left(d)[i - 0]
    <3>1. PICK x \in Seq(Byte) : x = Left(d) /\ Len(x) = r BY <1>6
    <3>2. 0 + Len(x) <= BlkSize BY <3>1
    <3> HIDE DEF nb
    <3>3. /\ CopyTo(buf, 0, x) \in [1 .. BlkSize -> Byte]
          /\ \A i \in 1 .. BlkSize : CopyTo(buf, 0, x)[i] =
               IF i <= 0 \/ i > 0 + Len(x) THEN buf[i] ELSE x[i - 0]
      BY <2>1, <3>2, Copied
    <3> QED BY <3>1, <3>3 DEF nb
  <2>3. ASSUME NEW j \in 1 .. r PROVE nb[j] = d[k + j]
    <3>1. j \in 1 .. BlkSize /\ ~(j <= 0 \/ j > 0 + r) /\ j - 0 = j OBVIOUS
    <3> QED BY <1>6, <2>2, <3>1
  <2> QED BY <2>2, <2>3 DEF Block
<1>9. /\ u \in Seq(Byte) /\ Len(u) = m + k + r
      /\ \A i \in 1 .. m + k + r : u[i] = IF i <= m THEN t[i] ELSE d[i - m]
  <2>1. Len(t) = m /\ Len(d) = k + r
    <3>1. Len(t) = BlkSize * n + 0 BY <1>0, <1>3
    <3>2. Len(d) = BlkSize * q + r BY <1>2
    <3> QED BY <3>1, <3>2, <1>4
  <2>2. /\ u \in Seq(Byte) /\ Len(u) = Len(t) + Len(d)
        /\ \A i \in 1 .. Len(t) + Len(d) : u[i] = IF i <= Len(t) THEN t[i] ELSE d[i - Len(t)]
    BY <1>1, ConcatProperties
  <2> QED BY <2>1, <2>2
<1>10. /\ b \in Seq(Block) /\ Len(b) = n + q
       /\ \A i \in 1 .. n + q : b[i] = IF i <= n THEN blocks[i] ELSE Whole(d)[i - n]
  <2>1. /\ b \in Seq(Block) /\ Len(b) = Len(blocks) + Len(Whole(d))
        /\ \A i \in 1 .. Len(blocks) + Len(Whole(d)) :
             b[i] = IF i <= Len(blocks) THEN blocks[i] ELSE Whole(d)[i - Len(blocks)]
    <3>1. PICK x \in Seq(Block) : x = Whole(d) BY <1>7
    <3>2. /\ blocks \o x \in Seq(Block) /\ Len(blocks \o x) = Len(blocks) + Len(x)
          /\ \A i \in 1 .. Len(blocks) + Len(x) :
               (blocks \o x)[i] = IF i <= Len(blocks) THEN blocks[i] ELSE x[i - Len(blocks)]
      BY <1>1, ConcatProperties
    <3> QED BY <3>1, <3>2
  <2> QED BY <1>3, <1>7, <2>1
<1> HIDE DEF u, b, nb
<1>11. ASSUME NEW i \in 1 .. n + q, NEW j \in 1 .. BlkSize
       PROVE u[BlkSize*(i-1) + j] = b[i][j]
  <2>1. CASE i <= n
    <3>1. PICK x \in Nat : x = BlkSize*(i-1) /\ x + BlkSize <= m
      BY <1>4, <2>1, TimesMonotonic
    <3>2. x + j \in 1 .. m + k + r /\ x + j <= m BY <3>1
    <3>3. u[x + j] = t[x + j] BY <1>9, <3>2
    <3>4. i \in 1 .. n BY <2>1
    <3>5. t[BlkSize*(i-1) + j] = blocks[i][j] BY <1>0, <1>3, <3>4
    <3> QED BY <1>10, <2>1, <3>1, <3>3, <3>5
  <2>2. CASE i > n
    <3>1. PICK h \in 1 .. q : h = i - n BY <2>2
    <3>2. PICK x \in Nat : x = BlkSize*(h-1) /\ x + BlkSize <= k
      BY <1>4, TimesMonotonic
    <3>3. BlkSize*(i-1) = m + x BY <1>4, <3>1, <3>2
    <3>4. m + x + j \in 1 .. m + k + r /\ ~(m + x + j <= m) /\ m + x + j - m = x + j
      BY <3>2
    <3>5. u[m + x + j] = d[x + j] BY <1>9, <3>4
    <3>6. Whole(d)[h][j] = d[x + j] BY <1>7, <3>2
    <3>7. b[i] = Whole(d)[h] BY <1>10, <2>2, <3>1
    <3> QED BY <3>3, <3>5, <3>6, <3>7
  <2> QED BY <2>1, <2>2
<1>12. ASSUME NEW j \in 1 .. r PROVE u[BlkSize * (n + q) + j] = nb[j]
  <2>1. m + k + j \in 1 .. m + k + r /\ ~(m + k + j <= m) /\ m + k + j - m = k + j OBVIOUS
  <2>2. u[m + k + j] = d[k + j] BY <1>9, <2>1
  <2> QED BY <1>5, <1>8, <2>2
<1>13. Represents(b, nb, r, u)
  <2>1. Len(u) = BlkSize * Len(b) + r BY <1>5, <1>9, <1>10
  <2> QED BY <1>8, <1>9, <1>10, <1>11, <1>12, <2>1 DEF Represents
<1> QED BY <1>2, <1>8, <1>13 DEF u, b, nb

\* memcpy of no bytes.
LEMMA NothingCopied ==
  ASSUME NEW buf \in Block, NEW off \in 0 .. BlkSize
  PROVE  CopyTo(buf, off, <<>>) = buf
<1>1. BlkSize \in Nat /\ buf \in [1 .. BlkSize -> Byte] BY SizesAssumption DEF Block
<1>2. PICK e \in Seq(Byte) : e = <<>> /\ Len(e) = 0 BY EmptySeq
<1>3. off + Len(e) <= BlkSize BY <1>1, <1>2
<1>4. /\ CopyTo(buf, off, e) \in [1 .. BlkSize -> Byte]
      /\ \A i \in 1 .. BlkSize : CopyTo(buf, off, e)[i] =
           IF i <= off \/ i > off + Len(e) THEN buf[i] ELSE e[i - off]
  BY <1>1, <1>3, Copied
<1>5. \A i \in 1 .. BlkSize : CopyTo(buf, off, e)[i] = buf[i]
  BY <1>1, <1>2, <1>4
<1>6. CopyTo(buf, off, e) = buf BY <1>1, <1>4, <1>5
<1> QED BY <1>2, <1>6

\* Of no data there is no block and no rest.
LEMMA NothingSplit == Whole(<<>>) = <<>> /\ Left(<<>>) = <<>>
<1>1. <<>> \in Seq(Byte) /\ Len(<<>>) = 0 BY EmptySeq
<1>2. PICK e \in Seq(Byte) : e = <<>> /\ Len(e) = 0 BY <1>1
<1>3. 0 \div BlkSize = 0 /\ 0 % BlkSize = 0 
  <2>1. (BlkSize*0 + 0) \div BlkSize = 0 /\ (BlkSize*0 + 0) % BlkSize = 0
    BY SizesAssumption, Division
  <2> QED BY <2>1, SizesAssumption
<1>4. Whole(e) \in Seq(Block) /\ Len(Whole(e)) = 0 /\ Left(e) \in Seq(Byte) /\ Len(Left(e)) = 0
  BY <1>2, <1>3, Split
<1> QED BY <1>2, <1>4, EmptySeq

----------------------------------------------------------------------------
(* The operations of the class on a context. *)

Counter == 0 .. Modulus-1
Context == [blocks : Seq(Block), buf : Block, len : Counter \X Counter]

\* The context k stands for the text t.
Carries(k, t) == Represents(k.blocks, k.buf, k.len[1] % BlkSize, t)

\* What is counted: the place in the buffer, and every byte.
LEMMA Counted ==
  ASSUME NEW len \in Counter \X Counter, NEW n \in Nat
  PROVE  /\ Count(len, n) \in Counter \X Counter
         /\ Count(len, n)[1] % BlkSize = ((len[1] % BlkSize) + n) % BlkSize
         /\ n < Modulus /\ len[1] + Modulus * len[2] + n < Modulus * Modulus =>
              Count(len, n)[1] + Modulus * Count(len, n)[2] = len[1] + Modulus * len[2] + n
<1> USE SizesAssumption
<1>1. PICK a \in Counter, b \in Counter : len = <<a, b>> OBVIOUS
<1>2. a \in Nat /\ b \in Nat /\ a < Modulus /\ b < Modulus BY DEF Counter
<1>a. a + n \in Nat /\ Modulus \in Nat \ {0} /\ BlkSize \in Nat \ {0} BY <1>2
<1>3. PICK lo \in Counter : lo = (a + n) % Modulus
  <2>1. (a + n) % Modulus \in 0 .. Modulus-1 BY <1>a, DivisionExists
  <2> QED BY <2>1 DEF Counter
<1>4. PICK hi \in Counter : hi = IF lo < a THEN (b + 1) % Modulus ELSE b
  <2>1. (b + 1) % Modulus \in Counter BY <1>2, RemainderOfWord DEF Counter
  <2> QED BY <2>1
<1>5. Count(len, n) = <<lo, hi>> BY <1>1, <1>3, <1>4 DEF Count
<1>6. lo % BlkSize = ((a % BlkSize) + n) % BlkSize
  <2>1. lo % BlkSize = (a + n) % BlkSize
    <3>1. \A x \in Nat : (x % Modulus) % BlkSize = x % BlkSize BY <1>a, RemainderOfWord
    <3> QED BY <1>3, <1>a, <3>1
  <2> QED BY <1>2, <2>1, RemainderOfSum
<1>7. ASSUME n < Modulus, a + Modulus*b + n < Modulus*Modulus
      PROVE lo + Modulus*hi = a + Modulus*b + n
  <2>1. CASE a + n < Modulus
    <3>0. a + n \in 0 .. Modulus-1 BY <1>2, <2>1
    <3>1. (Modulus*0 + (a + n)) % Modulus = a + n
      <4>1. PICK y \in 0 .. Modulus-1 : y = a + n BY <3>0
      <4>2. (Modulus*0 + y) % Modulus = y BY <1>a, Division
      <4> QED BY <4>1, <4>2
    <3>2. Modulus*0 + (a + n) = a + n BY <1>2
    <3>3. lo = a + n BY <1>3, <3>1, <3>2
    <3>4. hi = b BY <1>2, <1>4, <3>3
    <3> QED BY <1>2, <3>3, <3>4
  <2>2. CASE a + n >= Modulus
    <3>1. a + n - Modulus \in 0 .. Modulus-1 BY <1>2, <1>7, <2>2
    <3>2. (Modulus*1 + (a + n - Modulus)) % Modulus = a + n - Modulus
      <4>1. PICK y \in 0 .. Modulus-1 : y = a + n - Modulus BY <3>1
      <4>2. (Modulus*1 + y) % Modulus = y BY <1>a, Division
      <4> QED BY <4>1, <4>2
    <3>3. Modulus*1 + (a + n - Modulus) = a + n BY <1>2
    <3>4. lo = a + n - Modulus BY <1>3, <3>2, <3>3
    <3>5. lo < a BY <1>2, <1>7, <3>4
    <3>6. b + 1 <= Modulus - 1
      <4>1. ASSUME b + 1 >= Modulus PROVE FALSE
        <5>1. b = Modulus - 1 BY <1>2, <4>1
        <5>2. Modulus*b = Modulus*Modulus - Modulus BY <5>1
        <5>3. a + Modulus*b + n >= Modulus*Modulus BY <1>2, <2>2, <5>2
        <5> QED BY <1>2, <1>7, <5>2, <5>3
      <4> QED BY <1>2, <4>1
    <3>7. (Modulus*0 + (b + 1)) % Modulus = b + 1
      <4>1. PICK y \in 0 .. Modulus-1 : y = b + 1 BY <1>2, <3>6
      <4>2. (Modulus*0 + y) % Modulus = y BY <1>a, Division
      <4> QED BY <4>1, <4>2
    <3>8. Modulus*0 + (b + 1) = b + 1 BY <1>2
    <3>9. hi = b + 1 BY <1>4, <3>5, <3>7, <3>8
    <3>10. Modulus*hi = Modulus*b + Modulus BY <1>2, <3>9
    <3> QED BY <1>2, <3>4, <3>10
  <2> QED BY <1>2, <2>1, <2>2
<1> QED BY <1>1, <1>5, <1>6, <1>7

\* Update appends the data to the text.
LEMMA Updated ==
  ASSUME NEW k \in Context, NEW t, Carries(k, t), NEW d \in Seq(Byte)
  PROVE  /\ Update(k, d) \in Context /\ Carries(Update(k, d), t \o d)
         /\ Update(k, d).len = Count(k.len, Len(d))
<1> USE SizesAssumption
<1> DEFINE blocks == k.blocks
           buf == k.buf
           off == k.len[1] % BlkSize
           i == IF off = 0 THEN 0 ELSE IF BlkSize - off < Len(d) THEN BlkSize - off ELSE Len(d)
           nb == CopyTo(buf, off, SubSeq(d, 1, i))
           bs == IF off # 0 /\ i + off = BlkSize THEN Append(blocks, nb) ELSE blocks
           rest == SubSeq(d, i + 1, Len(d))
           fb == bs \o Whole(rest)
           fbuf == CopyTo(nb, 0, Left(rest))
           noff == (off + Len(d)) % BlkSize
<1>1. Represents(blocks, buf, off, t) BY DEF Carries
<1>2. /\ blocks \in Seq(Block) /\ buf \in Block /\ off \in 0 .. BlkSize-1 /\ t \in Seq(Byte)
  BY <1>1 DEF Represents
<1>3. PICK l \in Nat : l = Len(d) BY LenProperties
<1>4. Update(k, d) = [k EXCEPT !.blocks = fb, !.buf = fbuf, !.len = Count(k.len, Len(d))]
  BY DEF Update
<1> HIDE DEF blocks, buf, off
<1>5. i \in 0 .. Len(d) /\ i \in Nat BY <1>2, <1>3
<1> HIDE DEF i
<1>6. /\ SubSeq(d, 1, i) \in Seq(Byte) /\ Len(SubSeq(d, 1, i)) = i
      /\ rest \in Seq(Byte) /\ Len(rest) = Len(d) - i
      /\ SubSeq(d, 1, i) \o rest = d
  BY <1>5, Buffers!Cut
<1> DEFINE first == SubSeq(d, 1, i)
<1>a. /\ first \in Seq(Byte) /\ Len(first) = i
      /\ rest \in Seq(Byte) /\ Len(rest) = l - i
      /\ first \o rest = d /\ nb = CopyTo(buf, off, first)
  BY <1>3, <1>6
<1>b. off \in 0 .. BlkSize BY <1>2
<1>c. /\ bs = IF off # 0 /\ i + off = BlkSize THEN Append(blocks, nb) ELSE blocks
      /\ fb = bs \o Whole(rest) /\ fbuf = CopyTo(nb, 0, Left(rest))
      /\ noff = (off + l) % BlkSize
  BY <1>3
<1> HIDE DEF rest, first, nb, bs, fb, fbuf, noff
<1>7. /\ fb \in Seq(Block) /\ fbuf \in Block
      /\ Represents(fb, fbuf, noff, t \o d)
  <2>1. CASE off = 0
    <3>1. i = 0 BY <2>1 DEF i
    <3>2. first = <<>> BY <1>a, <3>1, EmptySeq
    <3>3. nb = buf BY <1>2, <1>a, <1>b, <3>2, NothingCopied
    <3>4. rest = d BY <1>a, <3>2, ConcatEmptySeq
    <3>5. bs = blocks BY <1>c, <2>1
    <3>6. Represents(blocks \o Whole(d), CopyTo(buf, 0, Left(d)), Len(d) % BlkSize, t \o d)
      BY <1>1, <2>1, WholeBlocks
    <3>7. noff = Len(d) % BlkSize BY <1>3, <1>c, <2>1
    <3>8. Represents(fb, fbuf, noff, t \o d) BY <1>c, <3>3, <3>4, <3>5, <3>6, <3>7
    <3> QED BY <3>8 DEF Represents
  <2>2. CASE off # 0 /\ BlkSize - off <= l
    <3>1. i = BlkSize - off BY <1>2, <1>3, <2>2 DEF i
    <3>2. i + off = BlkSize /\ off + i = BlkSize BY <1>2, <3>1
    <3>3. bs = Append(blocks, nb) BY <1>c, <2>2, <3>2
    <3>4. nb \in Block /\ \A any \in Block : Represents(Append(blocks, nb), any, 0, t \o first)
      <4>1. off + Len(first) = BlkSize BY <1>a, <3>2
      <4>2. off + Len(first) <= BlkSize BY <4>1
      <4> QED BY <1>1, <1>a, <4>1, <4>2, Filled
    <3>5. Represents(Append(blocks, nb), nb, 0, t \o first) BY <3>4
    <3>6. Represents(Append(blocks, nb) \o Whole(rest), CopyTo(nb, 0, Left(rest)), Len(rest) % BlkSize,
                     (t \o first) \o rest)
      BY <1>a, <3>5, WholeBlocks
    <3>7. (t \o first) \o rest = t \o d
      <4>0. t \in Seq(Byte) /\ first \in Seq(Byte) /\ rest \in Seq(Byte) BY <1>2, <1>a
      <4>1. (t \o first) \o rest = t \o (first \o rest) BY <4>0, ConcatAssociative
      <4> QED BY <1>a, <4>1
    <3>8. noff = Len(rest) % BlkSize
      <4>1. PICK x \in Nat : x = Len(rest) /\ x = l - i
        BY <1>a, LenProperties
      <4>2. off + l = BlkSize + x BY <1>2, <1>5, <3>2, <4>1
      <4>3. BlkSize % BlkSize = 0
        <5>1. (BlkSize*1 + 0) % BlkSize = 0 BY Division
        <5> QED BY <5>1
      <4>4. ((BlkSize % BlkSize) + x) % BlkSize = (BlkSize + x) % BlkSize BY RemainderOfSum
      <4>5. (BlkSize % BlkSize) + x = x BY <4>3
      <4> QED BY <1>c, <4>1, <4>2, <4>4, <4>5
    <3>9. Represents(fb, fbuf, noff, t \o d) BY <1>c, <3>3, <3>6, <3>7, <3>8
    <3> QED BY <3>9 DEF Represents
  <2>3. CASE off # 0 /\ BlkSize - off > l
    <3>1. i = l BY <1>2, <1>3, <2>3 DEF i
    <3>2. i + off < BlkSize /\ off + i < BlkSize BY <1>2, <2>3, <3>1
    <3>3. rest = <<>> BY <1>3, <1>a, <3>1, EmptySeq
    <3>4. first = d BY <1>a, <3>3, ConcatEmptySeq
    <3>5. bs = blocks BY <1>c, <3>2
    <3>6. nb \in Block /\ Represents(blocks, nb, off + i, t \o d)
      <4>1. off + Len(d) < BlkSize /\ off + Len(d) = off + i BY <1>3, <3>1, <3>2
      <4>2. off + Len(d) <= BlkSize BY <1>2, <1>3, <4>1
      <4>3. CopyTo(buf, off, d) \in Block /\ Represents(blocks, CopyTo(buf, off, d), off + Len(d), t \o d)
        BY <1>1, <4>1, <4>2, Filled
      <4> QED BY <1>a, <3>4, <4>1, <4>3
    <3>7. fbuf = nb
      <4>1. CopyTo(nb, 0, <<>>) = nb BY <3>6, NothingCopied
      <4> QED BY <1>c, <3>3, <4>1, NothingSplit
    <3>8. fb = blocks BY <1>2, <1>c, <3>3, <3>5, NothingSplit, ConcatEmptySeq
    <3>9. noff = off + i
      <4>1. PICK x \in 0 .. BlkSize-1 : x = off + l BY <1>2, <3>1, <3>2
      <4>2. (BlkSize*0 + x) % BlkSize = x BY Division
      <4>3. BlkSize*0 + x = x OBVIOUS
      <4> QED BY <1>c, <3>1, <4>1, <4>2, <4>3
    <3> QED BY <1>2, <3>6, <3>7, <3>8, <3>9
  <2> QED BY <1>2, <1>3, <2>1, <2>2, <2>3
<1>8. /\ Count(k.len, Len(d)) \in Counter \X Counter
      /\ Count(k.len, Len(d))[1] % BlkSize = noff
  BY <1>3, Counted DEF Context, off, noff
<1>9. /\ Update(k, d) \in Context /\ Update(k, d).blocks = fb /\ Update(k, d).buf = fbuf
      /\ Update(k, d).len = Count(k.len, Len(d))
  BY <1>4, <1>7, <1>8 DEF Context
<1> QED BY <1>7, <1>8, <1>9 DEF Carries

\* So does UpdateFast, with whole blocks when nothing waits in the buffer.
LEMMA UpdatedFast ==
  ASSUME NEW k \in Context, NEW t, Carries(k, t), k.len[1] % BlkSize = 0,
         NEW d \in Seq(Byte), Len(d) % BlkSize = 0
  PROVE  /\ UpdateFast(k, d) \in Context /\ Carries(UpdateFast(k, d), t \o d)
         /\ UpdateFast(k, d).len = Count(k.len, Len(d))
         /\ UpdateFast(k, d).len[1] % BlkSize = 0
<1> USE SizesAssumption
<1>1. Represents(k.blocks, k.buf, 0, t) BY DEF Carries
<1>2. k.blocks \in Seq(Block) /\ k.buf \in Block /\ t \in Seq(Byte) BY <1>1 DEF Represents
<1>3. Represents(k.blocks \o Whole(d), CopyTo(k.buf, 0, Left(d)), 0, t \o d)
  BY <1>1, WholeBlocks
<1>4. Represents(k.blocks \o Whole(d), k.buf, 0, t \o d) BY <1>2, <1>3, AnyBuffer
<1>5. k.blocks \o Whole(d) \in Seq(Block) BY <1>4 DEF Represents
<1>6. /\ Count(k.len, Len(d)) \in Counter \X Counter
      /\ Count(k.len, Len(d))[1] % BlkSize = 0
  <2>1. PICK l \in Nat : l = Len(d) BY LenProperties
  <2>2. /\ Count(k.len, l) \in Counter \X Counter
        /\ Count(k.len, l)[1] % BlkSize = (0 + l) % BlkSize
    BY Counted DEF Context
  <2> QED BY <2>1, <2>2
<1>7. UpdateFast(k, d) = [k EXCEPT !.blocks = k.blocks \o Whole(d), !.len = Count(k.len, Len(d))]
  BY DEF UpdateFast
<1>8. /\ UpdateFast(k, d) \in Context /\ UpdateFast(k, d).blocks = k.blocks \o Whole(d)
      /\ UpdateFast(k, d).buf = k.buf /\ UpdateFast(k, d).len = Count(k.len, Len(d))
  BY <1>5, <1>6, <1>7 DEF Context
<1> QED BY <1>4, <1>6, <1>8 DEF Carries

----------------------------------------------------------------------------
(* The padding. *)

LEMMA Zeros ==
  ASSUME NEW n \in Nat
  PROVE  /\ ZeroBytes(n) \in Seq(Byte) /\ Len(ZeroBytes(n)) = n
         /\ \A i \in 1 .. n : ZeroBytes(n)[i] = ZeroByte
<1>1. ZeroBytes(n) \in [1 .. n -> Byte] BY BytesAssumption DEF ZeroBytes
<1> QED BY <1>1, Buffers!FunctionIsSeq DEF ZeroBytes

LEMMA MoreZeros ==
  ASSUME NEW n \in Nat, NEW m \in Nat
  PROVE  ZeroBytes(n) \o ZeroBytes(m) = ZeroBytes(n + m)
<1>1. PICK x \in Seq(Byte), y \in Seq(Byte), z \in Seq(Byte) :
        /\ x = ZeroBytes(n) /\ y = ZeroBytes(m) /\ z = ZeroBytes(n + m)
        /\ Len(x) = n /\ Len(y) = m /\ Len(z) = n + m
        /\ \A i \in 1 .. n : x[i] = ZeroByte
        /\ \A i \in 1 .. m : y[i] = ZeroByte
        /\ \A i \in 1 .. n + m : z[i] = ZeroByte
  <2>1. n + m \in Nat OBVIOUS
  <2> QED BY <2>1, Zeros
<1>2. /\ x \o y \in Seq(Byte) /\ Len(x \o y) = n + m
      /\ \A i \in 1 .. n + m : (x \o y)[i] = IF i <= n THEN x[i] ELSE y[i - n]
  <2>1. /\ x \o y \in Seq(Byte) /\ Len(x \o y) = Len(x) + Len(y)
        /\ \A i \in 1 .. Len(x) + Len(y) :
             (x \o y)[i] = IF i <= Len(x) THEN x[i] ELSE y[i - Len(x)]
    BY <1>1, ConcatProperties
  <2> QED BY <1>1, <2>1
<1>3. \A i \in 1 .. n + m : (x \o y)[i] = z[i]
  <2> SUFFICES ASSUME NEW i \in 1 .. n + m PROVE (x \o y)[i] = z[i] OBVIOUS
  <2>1. CASE i <= n BY <1>1, <1>2, <2>1
  <2>2. CASE ~(i <= n)
    <3>1. i - n \in 1 .. m BY <2>2
    <3> QED BY <1>1, <1>2, <2>2, <3>1
  <2> QED BY <2>1, <2>2
<1>4. x \o y = z BY <1>1, <1>2, <1>3, SeqEqual
<1> QED BY <1>1, <1>4

\* The mark and n zeros, alone and before a sequence f.
LEMMA Marked ==
  ASSUME NEW n \in Nat, NEW f \in Seq(Byte)
  PROVE  /\ <<Mark>> \o ZeroBytes(n) \in Seq(Byte) /\ Len(<<Mark>> \o ZeroBytes(n)) = n + 1
         /\ \A i \in 1 .. n + 1 :
              (<<Mark>> \o ZeroBytes(n))[i] = IF i = 1 THEN Mark ELSE ZeroByte
         /\ (<<Mark>> \o ZeroBytes(n)) \o f \in Seq(Byte)
         /\ Len((<<Mark>> \o ZeroBytes(n)) \o f) = n + 1 + Len(f)
         /\ \A i \in 1 .. n + 1 + Len(f) :
              ((<<Mark>> \o ZeroBytes(n)) \o f)[i] =
                IF i = 1 THEN Mark ELSE IF i <= n + 1 THEN ZeroByte ELSE f[i - (n + 1)]
<1>1. PICK x \in Seq(Byte), y \in Seq(Byte) :
        /\ x = <<Mark>> /\ y = ZeroBytes(n) /\ Len(x) = 1 /\ Len(y) = n /\ x[1] = Mark
        /\ \A i \in 1 .. n : y[i] = ZeroByte
  <2>1. <<Mark>> \in Seq(Byte) /\ Len(<<Mark>>) = 1 /\ <<Mark>>[1] = Mark BY BytesAssumption
  <2> QED BY <2>1, Zeros
<1>2. /\ x \o y \in Seq(Byte) /\ Len(x \o y) = n + 1
      /\ \A i \in 1 .. n + 1 : (x \o y)[i] = IF i <= 1 THEN x[i] ELSE y[i - 1]
  <2>1. /\ x \o y \in Seq(Byte) /\ Len(x \o y) = Len(x) + Len(y)
        /\ \A i \in 1 .. Len(x) + Len(y) :
             (x \o y)[i] = IF i <= Len(x) THEN x[i] ELSE y[i - Len(x)]
    BY ConcatProperties
  <2> QED BY <1>1, <2>1
<1>3. PICK u \in Seq(Byte) : u = x \o y /\ Len(u) = n + 1 BY <1>2
<1>4. ASSUME NEW i \in 1 .. n + 1 PROVE u[i] = IF i = 1 THEN Mark ELSE ZeroByte
  <2>1. CASE i = 1 BY <1>1, <1>2, <1>3, <2>1
  <2>2. CASE i # 1
    <3>1. ~(i <= 1) /\ i - 1 \in 1 .. n BY <2>2
    <3> QED BY <1>1, <1>2, <1>3, <3>1
  <2> QED BY <2>1, <2>2
<1>5. PICK l \in Nat : l = Len(f) BY LenProperties
<1>6. /\ u \o f \in Seq(Byte) /\ Len(u \o f) = n + 1 + l
      /\ \A i \in 1 .. n + 1 + l : (u \o f)[i] = IF i <= n + 1 THEN u[i] ELSE f[i - (n + 1)]
  <2>1. /\ u \o f \in Seq(Byte) /\ Len(u \o f) = Len(u) + Len(f)
        /\ \A i \in 1 .. Len(u) + Len(f) :
             (u \o f)[i] = IF i <= Len(u) THEN u[i] ELSE f[i - Len(u)]
    BY ConcatProperties
  <2> QED BY <1>3, <1>5, <2>1
<1>7. ASSUME NEW i \in 1 .. n + 1 + l
      PROVE (u \o f)[i] = IF i = 1 THEN Mark ELSE IF i <= n + 1 THEN ZeroByte ELSE f[i - (n + 1)]
  <2>1. CASE i <= n + 1
    <3>1. i \in 1 .. n + 1 BY <2>1
    <3> QED BY <1>4, <1>6, <2>1, <3>1
  <2>2. CASE ~(i <= n + 1)
    <3>1. i # 1 BY <2>2
    <3> QED BY <1>6, <2>2, <3>1
  <2> QED BY <2>1, <2>2
<1> QED BY <1>1, <1>3, <1>4, <1>5, <1>6, <1>7

\* Where the parts of a sequence are put together does not matter.
Regroups(p, q, r) == (p \o q) \o r = p \o (q \o r)
LEMMA Regrouped ==
  ASSUME NEW S, NEW p \in Seq(S), NEW q \in Seq(S), NEW r \in Seq(S)
  PROVE  p \o q \in Seq(S) /\ Regroups(p, q, r)
<1>1. p \o q \in Seq(S) BY ConcatProperties
<1>2. (p \o q) \o r = p \o (q \o r) BY ConcatAssociative
<1> QED BY <1>1, <1>2 DEF Regroups

\* Pad appends the mark, the fewest zeros that fill up a block, and the field.
LEMMA PaddedWith ==
  ASSUME NEW k \in Context, NEW t, Carries(k, t), NEW f \in Seq(Byte),
         Len(f) = FieldSize
  PROVE  LET p == PadWith(k, Mark, BlkSize - FieldSize, f)
         IN  /\ p \in Context
             /\ p.len = k.len
             /\ \E z \in 0 .. BlkSize-1 :
                  /\ (Len(t) + 1 + z + FieldSize) % BlkSize = 0
                  /\ Represents(p.blocks, p.buf, 0, t \o ((<<Mark>> \o ZeroBytes(z)) \o f))
<1> DEFINE trip == BlkSize - FieldSize
           p == PadWith(k, Mark, trip, f)
           noff == k.len[1] % BlkSize
           first == <<Mark>> \o ZeroBytes(BlkSize - noff - 1)
           marked == CopyTo(k.buf, noff, first)
           nb == CopyTo(IF noff >= trip THEN ZeroBytes(BlkSize) ELSE marked, trip, f)
           bs == Append(IF noff >= trip THEN Append(k.blocks, marked) ELSE k.blocks, nb)
<1>1. Represents(k.blocks, k.buf, noff, t) BY DEF Carries
<1>2. /\ k.blocks \in Seq(Block) /\ k.buf \in Block /\ noff \in 0 .. BlkSize-1 /\ t \in Seq(Byte)
  BY <1>1 DEF Represents
<1>3. /\ trip \in 0 .. BlkSize-1 /\ trip \in Nat /\ trip + FieldSize = BlkSize /\ FieldSize \in Nat
      /\ BlkSize \in Nat /\ BlkSize \in Nat \ {0} /\ BlkSize - noff - 1 \in Nat
  BY <1>2, SizesAssumption
<1>4. f \in Seq(Byte) /\ Len(f) = FieldSize OBVIOUS
<1>5. PICK n \in Nat, m \in Nat : n = Len(k.blocks) /\ m = BlkSize*n /\ Len(t) = m + noff
  <2>1. PICK n \in Nat : n = Len(k.blocks) BY <1>2, LenProperties
  <2>2. Len(t) = BlkSize * n + noff BY <1>1, <2>1 DEF Represents
  <2> QED BY <1>3, <2>1, <2>2
<1>6. p = [k EXCEPT !.blocks = bs, !.buf = nb] BY DEF PadWith
<1> HIDE DEF p, noff, trip
<1>7. PICK x \in Seq(Byte) :
        /\ x = first /\ Len(x) = BlkSize - noff
        /\ \A i \in 1 .. BlkSize - noff : x[i] = IF i = 1 THEN Mark ELSE ZeroByte
  <2>1. PICK h \in Nat : h = BlkSize - noff - 1 /\ h + 1 = BlkSize - noff BY <1>2, <1>3
  <2>2. /\ <<Mark>> \o ZeroBytes(h) \in Seq(Byte) /\ Len(<<Mark>> \o ZeroBytes(h)) = h + 1
        /\ \A i \in 1 .. h + 1 : (<<Mark>> \o ZeroBytes(h))[i] = IF i = 1 THEN Mark ELSE ZeroByte
    BY <1>4, Marked
  <2> QED BY <2>1, <2>2
<1> HIDE DEF first
<1>8. /\ marked \in Block
      /\ \A i \in 1 .. BlkSize : marked[i] = IF i <= noff THEN k.buf[i] ELSE x[i - noff]
      /\ \A any \in Block : Represents(Append(k.blocks, marked), any, 0, t \o x)
  <2>1. noff + Len(x) = BlkSize /\ noff + Len(x) <= BlkSize BY <1>2, <1>3, <1>7
  <2>2. noff \in 0 .. BlkSize /\ k.buf \in [1 .. BlkSize -> Byte] BY <1>2, <1>3 DEF Block
  <2>3. \A i \in 1 .. BlkSize : CopyTo(k.buf, noff, x)[i] =
          IF i <= noff \/ i > noff + Len(x) THEN k.buf[i] ELSE x[i - noff]
    <3>1. \A i \in 1 .. BlkSize : CopyAt(k.buf, noff, x, i) BY <1>2, <2>1, <2>2, BlockCopied
    <3> QED BY <3>1 DEF CopyAt
  <2>4. \A i \in 1 .. BlkSize : CopyTo(k.buf, noff, x)[i] = IF i <= noff THEN k.buf[i] ELSE x[i - noff]
    BY <1>3, <2>1, <2>3
  <2>5. /\ CopyTo(k.buf, noff, x) \in Block
        /\ \A any \in Block : Represents(Append(k.blocks, CopyTo(k.buf, noff, x)), any, 0, t \o x)
    BY <1>1, <2>1, Filled
  <2> QED BY <1>7, <2>4, <2>5
<1> HIDE DEF marked
<1> DEFINE base == IF noff >= trip THEN ZeroBytes(BlkSize) ELSE marked
<1>9. /\ nb \in Block
      /\ \A i \in 1 .. BlkSize : nb[i] = IF i <= trip THEN base[i] ELSE f[i - trip]
  <2>1. base \in Block
    <3>1. ZeroBytes(BlkSize) \in Block BY BytesAssumption DEF Block, ZeroBytes
    <3> QED BY <1>8, <3>1
  <2>2. PICK b \in Block : b = base BY <2>1
  <2>3. trip \in 0 .. BlkSize /\ trip + Len(f) = BlkSize /\ trip + Len(f) <= BlkSize
    BY <1>3, <1>4
  <2>4. /\ CopyTo(b, trip, f) \in [1 .. BlkSize -> Byte]
        /\ \A i \in 1 .. BlkSize : CopyTo(b, trip, f)[i] =
             IF i <= trip \/ i > trip + Len(f) THEN b[i] ELSE f[i - trip]
    <3>1. b \in [1 .. BlkSize -> Byte] BY DEF Block
    <3> QED BY <1>3, <1>4, <2>3, <3>1, Copied
  <2>5. nb = CopyTo(b, trip, f) BY <1>4, <2>2
  <2> HIDE DEF nb, base
  <2> QED BY <2>2, <2>3, <2>4, <2>5 DEF Block
<1> HIDE DEF nb, base
<1> DEFINE Fits(z) == /\ (Len(t) + 1 + z + FieldSize) % BlkSize = 0
                      /\ Represents(bs, nb, 0, t \o ((<<Mark>> \o ZeroBytes(z)) \o f))
<1>10. ASSUME noff < trip PROVE \E z \in 0 .. BlkSize-1 : Fits(z)
  <2>1. PICK z \in 0 .. BlkSize-1 : z = trip - noff - 1 BY <1>2, <1>3, <1>10
  <2>2. bs = Append(k.blocks, nb) /\ base = marked BY <1>2, <1>3, <1>10 DEF base
  <2>3. PICK d \in Seq(Byte) :
          /\ d = (<<Mark>> \o ZeroBytes(z)) \o f /\ Len(d) = z + 1 + FieldSize
          /\ \A i \in 1 .. z + 1 + FieldSize :
               d[i] = IF i = 1 THEN Mark ELSE IF i <= z + 1 THEN ZeroByte ELSE f[i - (z + 1)]
    <3>1. z \in Nat BY <1>3, <2>1
    <3>2. /\ (<<Mark>> \o ZeroBytes(z)) \o f \in Seq(Byte)
          /\ Len((<<Mark>> \o ZeroBytes(z)) \o f) = z + 1 + Len(f)
          /\ \A i \in 1 .. z + 1 + Len(f) : ((<<Mark>> \o ZeroBytes(z)) \o f)[i] =
               IF i = 1 THEN Mark ELSE IF i <= z + 1 THEN ZeroByte ELSE f[i - (z + 1)]
      BY <3>1, Marked
    <3>3. Len(f) = FieldSize BY <1>4
    <3> QED BY <3>2, <3>3
  <2>4. noff + Len(d) = BlkSize /\ noff + Len(d) <= BlkSize /\ noff \in 0 .. BlkSize
    <3>1. Len(d) = z + 1 + FieldSize BY <2>3
    <3>2. noff \in 0 .. BlkSize-1 BY <1>2
    <3> QED BY <1>3, <2>1, <3>1, <3>2
  <2>5. /\ CopyTo(k.buf, noff, d) \in Block
        /\ \A any \in Block : Represents(Append(k.blocks, CopyTo(k.buf, noff, d)), any, 0, t \o d)
    BY <1>1, <2>4, Filled
  <2>6. \A i \in 1 .. BlkSize : CopyTo(k.buf, noff, d)[i] = IF i <= noff THEN k.buf[i] ELSE d[i - noff]
    <3>1. \A i \in 1 .. BlkSize : CopyAt(k.buf, noff, d, i) BY <1>2, <2>4, BlockCopied
    <3>2. \A i \in 1 .. BlkSize : CopyTo(k.buf, noff, d)[i] =
            IF i <= noff \/ i > noff + Len(d) THEN k.buf[i] ELSE d[i - noff]
      BY <3>1 DEF CopyAt
    <3> QED BY <2>4, <3>2
  <2>7. ASSUME NEW i \in 1 .. BlkSize PROVE CopyTo(k.buf, noff, d)[i] = nb[i]
    <3>1. CASE i <= noff
      <4>1. i <= trip BY <1>2, <1>3, <1>10, <3>1
      <4>2. nb[i] = k.buf[i] BY <1>8, <1>9, <2>2, <3>1, <4>1
      <4> QED BY <2>6, <3>1, <4>2
    <3>2. CASE i > noff /\ i <= trip
      <4>1. /\ ~(i <= noff) /\ i - noff \in 1 .. BlkSize - noff
            /\ i - noff \in 1 .. z + 1 + FieldSize /\ i - noff <= z + 1
        BY <1>2, <1>3, <2>1, <3>2
      <4>2. nb[i] = x[i - noff] BY <1>8, <1>9, <2>2, <3>2, <4>1
      <4>3. CopyTo(k.buf, noff, d)[i] = d[i - noff] BY <2>6, <4>1
      <4> QED BY <1>7, <2>3, <4>1, <4>2, <4>3
    <3>3. CASE i > trip
      <4>1. /\ ~(i <= noff) /\ ~(i <= trip)
            /\ i - noff \in 1 .. z + 1 + FieldSize /\ ~(i - noff <= z + 1) /\ i - noff # 1
            /\ (i - noff) - (z + 1) = i - trip
        BY <1>2, <1>3, <1>10, <2>1, <3>3
      <4>2. nb[i] = f[i - trip] BY <1>9, <4>1
      <4>3. CopyTo(k.buf, noff, d)[i] = d[i - noff] BY <2>6, <4>1
      <4>4. d[i - noff] = f[(i - noff) - (z + 1)] BY <2>3, <4>1
      <4> QED BY <4>1, <4>2, <4>3, <4>4
    <3> QED BY <1>2, <1>3, <3>1, <3>2, <3>3
  <2>8. CopyTo(k.buf, noff, d) = nb
    <3>1. PICK u \in Block, v \in Block : u = CopyTo(k.buf, noff, d) /\ v = nb BY <1>9, <2>5
    <3>2. \A i \in 1 .. BlkSize : u[i] = v[i] BY <2>7, <3>1
    <3>3. u \in [1 .. BlkSize -> Byte] /\ v \in [1 .. BlkSize -> Byte] BY <3>1 DEF Block
    <3>4. u = v BY <1>3, <3>2, <3>3
    <3> QED BY <3>1, <3>4
  <2>9. Represents(bs, nb, 0, t \o ((<<Mark>> \o ZeroBytes(z)) \o f))
    BY <1>4, <1>9, <2>2, <2>3, <2>5, <2>8
  <2>10. (Len(t) + 1 + z + FieldSize) % BlkSize = 0
    <3>0. noff \in 0 .. BlkSize-1 /\ Len(t) = m + noff BY <1>2, <1>5
    <3>1. Len(t) + 1 + z + FieldSize = m + BlkSize BY <1>3, <2>1, <3>0
    <3>2. BlkSize*(n + 1) + 0 = m + BlkSize BY <1>3, <1>5
    <3>3. n + 1 \in Int /\ 0 \in 0 .. BlkSize-1 BY <1>3, <1>5
    <3>4. (BlkSize*(n + 1) + 0) % BlkSize = 0 BY <1>3, <3>3, Division
    <3> QED BY <3>1, <3>2, <3>4
  <2> HIDE DEF bs
  <2> QED BY <2>9, <2>10
<1>11. ASSUME noff >= trip PROVE \E z \in 0 .. BlkSize-1 : Fits(z)
  <2>1. PICK z \in 0 .. BlkSize-1 : z = (BlkSize - noff - 1) + trip BY <1>2, <1>3, <1>11
  <2>2. bs = Append(Append(k.blocks, marked), nb) /\ base = ZeroBytes(BlkSize) BY <1>11 DEF base
  <2>3. PICK d \in Seq(Byte) :
          /\ d = ZeroBytes(trip) \o f /\ Len(d) = BlkSize
          /\ \A i \in 1 .. BlkSize : d[i] = IF i <= trip THEN ZeroByte ELSE f[i - trip]
    <3>1. PICK y \in Seq(Byte) : /\ y = ZeroBytes(trip) /\ Len(y) = trip
                                 /\ \A i \in 1 .. trip : y[i] = ZeroByte
      BY <1>3, Zeros
    <3>2. /\ y \o f \in Seq(Byte) /\ Len(y \o f) = Len(y) + Len(f)
          /\ \A i \in 1 .. Len(y) + Len(f) :
               (y \o f)[i] = IF i <= Len(y) THEN y[i] ELSE f[i - Len(y)]
      BY ConcatProperties
    <3>3. Len(y) + Len(f) = BlkSize BY <1>3, <1>4, <3>1
    <3>4. ASSUME NEW i \in 1 .. BlkSize
          PROVE (y \o f)[i] = IF i <= trip THEN ZeroByte ELSE f[i - trip]
      <4>1. CASE i <= trip BY <1>3, <3>1, <3>2, <3>3, <4>1
      <4>2. CASE ~(i <= trip) BY <1>3, <3>1, <3>2, <3>3, <4>2
      <4> QED BY <4>1, <4>2
    <3> QED BY <3>1, <3>2, <3>3, <3>4
  <2>4. Represents(Append(k.blocks, marked), nb, 0, t \o x) BY <1>8, <1>9
  <2>5. 0 + Len(d) = BlkSize /\ 0 + Len(d) <= BlkSize /\ 0 \in 0 .. BlkSize BY <1>3, <2>3
  <2>6. /\ CopyTo(nb, 0, d) \in Block
        /\ \A any \in Block :
             Represents(Append(Append(k.blocks, marked), CopyTo(nb, 0, d)), any, 0, (t \o x) \o d)
    BY <2>4, <2>5, Filled
  <2>7. ASSUME NEW i \in 1 .. BlkSize PROVE CopyTo(nb, 0, d)[i] = nb[i]
    <3>1. CopyAt(nb, 0, d, i) BY <1>9, <2>5, BlockCopied
    <3>2. CopyTo(nb, 0, d)[i] = IF i <= 0 \/ i > 0 + Len(d) THEN nb[i] ELSE d[i - 0]
      BY <3>1 DEF CopyAt
    <3>3. ~(i <= 0 \/ i > 0 + Len(d)) /\ i - 0 = i BY <2>3
    <3>4. CopyTo(nb, 0, d)[i] = d[i] BY <3>2, <3>3
    <3>5. nb[i] = IF i <= trip THEN ZeroByte ELSE f[i - trip]
      BY <1>3, <1>9, <2>2, Zeros
    <3> QED BY <2>3, <3>4, <3>5
  <2>8. CopyTo(nb, 0, d) = nb
    <3>1. PICK u \in Block, v \in Block : u = CopyTo(nb, 0, d) /\ v = nb BY <1>9, <2>6
    <3>2. \A i \in 1 .. BlkSize : u[i] = v[i] BY <2>7, <3>1
    <3>3. u \in [1 .. BlkSize -> Byte] /\ v \in [1 .. BlkSize -> Byte] BY <3>1 DEF Block
    <3>4. u = v BY <1>3, <3>2, <3>3
    <3> QED BY <3>1, <3>4
  <2>9. (t \o x) \o d = t \o ((<<Mark>> \o ZeroBytes(z)) \o f)
    <3>1. PICK a \in Seq(Byte), b \in Seq(Byte), c \in Seq(Byte) :
            /\ a = <<Mark>> /\ b = ZeroBytes(BlkSize - noff - 1) /\ c = ZeroBytes(trip)
            /\ b \o c = ZeroBytes(z)
      <4>1. PICK h \in Nat : h = BlkSize - noff - 1 /\ z = h + trip BY <1>3, <2>1
      <4>2. ZeroBytes(h) \o ZeroBytes(trip) = ZeroBytes(z) BY <1>3, <4>1, MoreZeros
      <4>3. ZeroBytes(h) \in Seq(Byte) /\ ZeroBytes(trip) \in Seq(Byte) BY <1>3, Zeros
      <4>4. <<Mark>> \in Seq(Byte) BY BytesAssumption
      <4> QED BY <4>1, <4>2, <4>3, <4>4
    <3>2. x = a \o b /\ d = c \o f BY <1>7, <2>3, <3>1 DEF first
    <3>3. t \in Seq(Byte) BY <1>2
    <3>4. Regroups(t, x, d) BY <3>3, Regrouped
    <3>5. Regroups(x, c, f) BY Regrouped
    <3>6. Regroups(a, b, c) BY Regrouped
    <3>7. (t \o x) \o d = t \o (x \o d) BY <3>4 DEF Regroups
    <3>8. x \o d = (x \o c) \o f BY <3>2, <3>5 DEF Regroups
    <3>9. x \o c = a \o ZeroBytes(z) BY <3>1, <3>2, <3>6 DEF Regroups
    <3> QED BY <3>1, <3>7, <3>8, <3>9
  <2>10. Represents(bs, nb, 0, t \o ((<<Mark>> \o ZeroBytes(z)) \o f))
    BY <1>4, <1>9, <2>2, <2>6, <2>8, <2>9
  <2>11. (Len(t) + 1 + z + FieldSize) % BlkSize = 0
    <3>0. noff \in 0 .. BlkSize-1 /\ Len(t) = m + noff BY <1>2, <1>5
    <3>1. Len(t) + 1 + z + FieldSize = m + BlkSize + BlkSize BY <1>3, <2>1, <3>0
    <3>2. BlkSize*(n + 2) + 0 = m + BlkSize + BlkSize BY <1>3, <1>5
    <3>3. n + 2 \in Int /\ 0 \in 0 .. BlkSize-1 BY <1>3, <1>5
    <3>4. (BlkSize*(n + 2) + 0) % BlkSize = 0 BY <1>3, <3>3, Division
    <3> QED BY <3>1, <3>2, <3>4
  <2> HIDE DEF bs
  <2> QED BY <2>10, <2>11
<1>12. PICK z \in 0 .. BlkSize-1 : Fits(z)
  <2>1. noff < trip \/ noff >= trip BY <1>2, <1>3
  <2> HIDE DEF Fits
  <2> QED BY <1>10, <1>11, <2>1
<1>13. bs \in Seq(Block) BY <1>12 DEF Represents
<1> HIDE DEF bs
<1>14. p \in Context /\ p.blocks = bs /\ p.buf = nb /\ p.len = k.len
  BY <1>6, <1>9, <1>13 DEF Context
<1>15. PadWith(k, Mark, BlkSize - FieldSize, f) = p BY DEF p, trip
<1> QED BY <1>12, <1>14, <1>15

\* There is one number of zeros that is the fewest.
LEMMA OnePadding ==
  ASSUME NEW n \in Nat, NEW y \in 0 .. BlkSize-1, NEW z \in 0 .. BlkSize-1,
         (n + 1 + y + FieldSize) % BlkSize = 0, (n + 1 + z + FieldSize) % BlkSize = 0
  PROVE  y = z
<1>1. /\ BlkSize \in Nat \ {0} /\ BlkSize \in Nat /\ FieldSize \in Nat
      /\ n + 1 + y + FieldSize \in Nat /\ n + 1 + z + FieldSize \in Nat
  BY SizesAssumption
<1>2. PICK q \in Nat, g \in 0 .. BlkSize-1 :
        g = (n + 1 + y + FieldSize) % BlkSize /\ n + 1 + y + FieldSize = BlkSize*q + g
  BY <1>1, DivisionExists
<1>3. PICK p \in Nat, h \in 0 .. BlkSize-1 :
        h = (n + 1 + z + FieldSize) % BlkSize /\ n + 1 + z + FieldSize = BlkSize*p + h
  BY <1>1, DivisionExists
<1>4. g = 0 /\ h = 0 BY <1>2, <1>3
<1>5. PICK u \in Int, v \in Int : u = BlkSize*q /\ v = BlkSize*p BY <1>1, <1>2, <1>3
<1>6. u - v = y - z BY <1>1, <1>2, <1>3, <1>4, <1>5
<1>7. ASSUME q >= p + 1 PROVE FALSE
  <2>1. BlkSize*(p + 1) <= BlkSize*q /\ BlkSize*(p + 1) = BlkSize*p + BlkSize
    BY <1>1, <1>2, <1>3, <1>7, TimesMonotonic
  <2>2. u - v >= BlkSize BY <1>1, <1>5, <2>1
  <2> QED BY <1>1, <1>6, <2>2
<1>8. ASSUME p >= q + 1 PROVE FALSE
  <2>1. BlkSize*(q + 1) <= BlkSize*p /\ BlkSize*(q + 1) = BlkSize*q + BlkSize
    BY <1>1, <1>2, <1>3, <1>8, TimesMonotonic
  <2>2. v - u >= BlkSize BY <1>1, <1>5, <2>1
  <2> QED BY <1>1, <1>6, <2>2
<1>9. q = p BY <1>2, <1>3, <1>7, <1>8
<1>10. u = v BY <1>5, <1>9
<1> QED BY <1>1, <1>6, <1>10

\* The bytes that the two words count, times eight in two words again, is what
\* BitLength shifts out of them: the low word has the bits of its bytes, and the
\* high word takes over the three bits that the low one loses.
LEMMA BitsCounted ==
  ASSUME NEW len \in Counter \X Counter
  PROVE  LET n == len[1] + Modulus * len[2]
             lo == BitLength(len)[1]
             hi == BitLength(len)[2]
         IN  /\ n \in Nat /\ lo \in Counter /\ hi \in Counter
             /\ Field(hi, lo) = LengthField(n)
<1>1. PICK a \in Counter, b \in Counter : len = <<a, b>> /\ len[1] = a /\ len[2] = b
  OBVIOUS
<1>2. Modulus \in Nat \ {0} /\ Modulus \in Nat /\ Modulus % 8 = 0 BY SizesAssumption
<1>3. a \in Nat /\ b \in Nat /\ a < Modulus /\ b < Modulus BY <1>1, <1>2 DEF Counter
<1>4. PICK w \in Nat \ {0} : Modulus = 8*w /\ Modulus \div 8 = w
  <2>1. PICK q \in Nat, r \in 0 .. 7 : q = Modulus \div 8 /\ r = Modulus % 8 /\ Modulus = 8*q + r
    <3>1. 8 \in Nat \ {0} OBVIOUS
    <3>2. \E q \in Nat, r \in 0 .. 8-1 : q = Modulus \div 8 /\ r = Modulus % 8 /\ Modulus = 8*q + r
      BY <1>2, <3>1, DivisionExists
    <3> QED BY <3>2
  <2>2. q \in Nat \ {0} /\ Modulus = 8*q BY <1>2, <2>1
  <2> QED BY <2>1, <2>2
<1>5. PICK h \in 0 .. 7, g \in 0 .. w-1, x \in Nat :
        h = a \div w /\ x = w*h /\ a = x + g
  <2>1. PICK q \in Nat, r \in 0 .. w-1 : q = a \div w /\ r = a % w /\ a = w*q + r
    BY <1>3, <1>4, DivisionExists
  <2>2. PICK y \in Nat : y = w*q BY <1>4, <2>1
  <2>3. ASSUME q >= 8 PROVE FALSE
    <3>1. w*8 <= w*q BY <1>4, <2>1, <2>3, TimesMonotonic
    <3> QED BY <1>3, <1>4, <2>1, <2>2, <3>1
  <2> QED BY <2>1, <2>2, <2>3
<1>6. PICK q \in Nat, r \in 0 .. w-1, y \in Nat : y = w*q /\ b = y + r
  <2>1. PICK q \in Nat, r \in 0 .. w-1 : q = b \div w /\ r = b % w /\ b = w*q + r
    BY <1>3, <1>4, DivisionExists
  <2>2. PICK y \in Nat : y = w*q BY <1>4, <2>1
  <2> QED BY <2>1, <2>2
<1>7. /\ 8*g \in 0 .. Modulus-1 /\ 8*r \in 0 .. Modulus-1 /\ 8*r + h \in 0 .. Modulus-1
  BY <1>4, <1>5, <1>6
<1>8. Modulus*h = 8*x /\ Modulus*q = 8*y /\ Modulus*h \in Int /\ Modulus*q \in Int
  <2>1. (8*w)*h = 8*(w*h) BY <1>4, <1>5
  <2>2. (8*w)*q = 8*(w*q) BY <1>4, <1>6
  <2> QED BY <1>4, <1>5, <1>6, <2>1, <2>2
<1>p. PICK e \in 0 .. Modulus-1, f \in 0 .. Modulus-1, k \in 0 .. Modulus-1 :
        e = 8*g /\ f = 8*r /\ k = 8*r + h
  BY <1>7
<1>d. /\ (Modulus*h + e) % Modulus = e /\ (Modulus*q + f) % Modulus = f
      /\ (Modulus*q + k) % Modulus = k
  <2>1. h \in Int /\ q \in Int BY <1>5, <1>6
  <2>2. Modulus \in Nat \ {0} BY <1>2
  <2>3. (Modulus*h + e) % Modulus = e BY <2>1, <2>2, Division
  <2>4. (Modulus*q + f) % Modulus = f BY <2>1, <2>2, Division
  <2>5. (Modulus*q + k) % Modulus = k BY <2>1, <2>2, Division
  <2> QED BY <2>3, <2>4, <2>5
<1>9. (a * 8) % Modulus = 8*g
  <2>1. a*8 = Modulus*h + 8*g BY <1>5, <1>8
  <2> QED BY <2>1, <1>p, <1>d
<1>10. (b * 8) % Modulus = 8*r
  <2>1. b*8 = Modulus*q + 8*r BY <1>6, <1>8
  <2> QED BY <2>1, <1>p, <1>d
<1>11. BitLength(len)[1] = 8*g /\ BitLength(len)[2] = 8*r + h
  BY <1>1, <1>4, <1>5, <1>9, <1>10 DEF BitLength
<1>12. PICK v \in Nat : v = Modulus*b BY <1>2, <1>3
<1>13. PICK n \in Nat : n = len[1] + Modulus * len[2] /\ n = a + v BY <1>1, <1>3, <1>12
<1>14. (8*n) \div Modulus = h + 8*b /\ (8*n) % Modulus = 8*g
  <2>1. Modulus*(h + 8*b) = Modulus*h + 8*(Modulus*b)
    <3>1. \A i, j \in Int : Modulus*(i + 8*j) = Modulus*i + 8*(Modulus*j) BY <1>2
    <3> QED BY <1>3, <1>5, <3>1
  <2>2. 8*n = Modulus*(h + 8*b) + 8*g BY <1>5, <1>8, <1>12, <1>13, <2>1
  <2>3. h + 8*b \in Int BY <1>3, <1>5
  <2>4. /\ (Modulus*(h + 8*b) + 8*g) \div Modulus = h + 8*b
        /\ (Modulus*(h + 8*b) + 8*g) % Modulus = 8*g
    BY <1>2, <1>7, <2>3, Division
  <2> QED BY <2>2, <2>4
<1>15. (h + 8*b) % Modulus = 8*r + h
  <2>1. h + 8*b = Modulus*q + (8*r + h) BY <1>5, <1>6, <1>8
  <2> QED BY <2>1, <1>p, <1>d
<1>16. LengthField(n) = Field(8*r + h, 8*g) BY <1>14, <1>15 DEF LengthField
<1> QED BY <1>7, <1>11, <1>13, <1>16 DEF Counter

----------------------------------------------------------------------------
(* The text of a context. *)

Content(k) == BytesOf(k.blocks) \o SubSeq(k.buf, 1, k.len[1] % BlkSize)

LEMMA BytesIn ==
  ASSUME NEW blocks \in Seq(Block)
  PROVE  /\ BytesOf(blocks) \in Seq(Byte)
         /\ Len(BytesOf(blocks)) = BlkSize * Len(blocks)
         /\ \A i \in 1 .. Len(blocks), j \in 1 .. BlkSize :
              BytesOf(blocks)[BlkSize*(i-1) + j] = blocks[i][j]
<1>1. BlkSize \in Nat \ {0} /\ BlkSize \in Nat BY SizesAssumption
<1>2. PICK n \in Nat : n = Len(blocks) BY LenProperties
<1>3. PICK m \in Nat : m = BlkSize*n BY <1>1, <1>2
<1>4. blocks \in [1 .. n -> Block] BY <1>2, Buffers!SeqIsFunction
<1>5. ASSUME NEW x \in 1 .. m
      PROVE  ((x-1) \div BlkSize) + 1 \in 1 .. n /\ ((x-1) % BlkSize) + 1 \in 1 .. BlkSize
  <2>1. x-1 \in Nat BY <1>3
  <2>2. PICK q \in Nat, r \in 0 .. BlkSize-1 :
          q = (x-1) \div BlkSize /\ r = (x-1) % BlkSize /\ x-1 = BlkSize*q + r
    BY <1>1, <2>1, DivisionExists
  <2>3. ASSUME q >= n PROVE FALSE
    <3>1. BlkSize*n <= BlkSize*q /\ BlkSize*q \in Int
      BY <1>1, <1>2, <2>2, <2>3, TimesMonotonic
    <3>2. PICK y \in Int : y = BlkSize*q BY <3>1
    <3>3. m <= y /\ x-1 = y + r BY <1>3, <2>2, <3>1, <3>2
    <3> QED BY <1>1, <1>3, <2>2, <3>3
  <2>4. q + 1 \in 1 .. n BY <1>2, <2>2, <2>3
  <2>5. r + 1 \in 1 .. BlkSize BY <1>1, <2>2
  <2> QED BY <2>2, <2>4, <2>5
<1>6. BytesOf(blocks) = [x \in 1 .. m |-> blocks[((x-1) \div BlkSize) + 1][((x-1) % BlkSize) + 1]]
  BY <1>2, <1>3 DEF BytesOf
<1>7. BytesOf(blocks) \in [1 .. m -> Byte]
  <2>1. ASSUME NEW x \in 1 .. m
        PROVE  blocks[((x-1) \div BlkSize) + 1][((x-1) % BlkSize) + 1] \in Byte
    <3>1. PICK g \in 1 .. n, h \in 1 .. BlkSize :
            g = ((x-1) \div BlkSize) + 1 /\ h = ((x-1) % BlkSize) + 1
      BY <1>5
    <3>2. blocks[g] \in [1 .. BlkSize -> Byte] BY <1>4, <3>1 DEF Block
    <3>3. blocks[g][h] \in Byte BY <3>1, <3>2
    <3> QED BY <3>1, <3>3
  <2> QED BY <1>6, <2>1
<1>8. ASSUME NEW g \in 1 .. n, NEW h \in 1 .. BlkSize
      PROVE  BytesOf(blocks)[BlkSize*(g-1) + h] = blocks[g][h]
  <2>1. PICK y \in Nat : y = BlkSize*(g-1) /\ y + BlkSize <= m
    <3>1. BlkSize*(g-1) \in Nat /\ BlkSize*((g-1) + 1) = BlkSize*(g-1) + BlkSize
      BY <1>1, <1>2, TimesMonotonic
    <3>2. BlkSize*g <= BlkSize*n BY <1>1, <1>2, TimesMonotonic
    <3>3. (g-1) + 1 = g BY <1>2
    <3> QED BY <1>3, <3>1, <3>2, <3>3
  <2>2. y + h \in 1 .. m BY <1>1, <1>3, <2>1
  <2>3. (y + h) - 1 = BlkSize*(g-1) + (h-1) /\ g-1 \in Int /\ h-1 \in 0 .. BlkSize-1
    BY <1>1, <1>2, <2>1
  <2>4. /\ (BlkSize*(g-1) + (h-1)) \div BlkSize = g-1
        /\ (BlkSize*(g-1) + (h-1)) % BlkSize = h-1
    <3>1. PICK q \in Int, r \in 0 .. BlkSize-1 : q = g-1 /\ r = h-1 BY <2>3
    <3>2. (BlkSize*q + r) \div BlkSize = q /\ (BlkSize*q + r) % BlkSize = r
      BY <1>1, <3>1, Division
    <3> QED BY <3>1, <3>2
  <2>5. (((y + h) - 1) \div BlkSize) + 1 = g /\ (((y + h) - 1) % BlkSize) + 1 = h
    BY <1>1, <1>2, <2>3, <2>4
  <2>6. BytesOf(blocks)[y + h] = blocks[g][h] BY <1>6, <2>2, <2>5
  <2> QED BY <2>1, <2>6
<1> QED BY <1>2, <1>3, <1>7, <1>8, Buffers!FunctionIsSeq

\* A context of the right type stands for a text,
LEMMA HasText ==
  ASSUME NEW k \in Context
  PROVE  Carries(k, Content(k))
<1>1. BlkSize \in Nat \ {0} /\ BlkSize \in Nat BY SizesAssumption
<1>2. PICK off \in 0 .. BlkSize-1 : off = k.len[1] % BlkSize
  <2>1. k.len[1] \in Nat BY SizesAssumption DEF Context, Counter
  <2> QED BY <1>1, <2>1, DivisionExists
<1>n. PICK n \in Nat, m \in Nat : n = Len(k.blocks) /\ m = BlkSize*n
  <2>1. k.blocks \in Seq(Block) BY DEF Context
  <2>2. PICK n \in Nat : n = Len(k.blocks) BY <2>1, LenProperties
  <2>3. PICK m \in Nat : m = BlkSize*n BY <1>1, <2>2
  <2> QED BY <2>2, <2>3
<1>3. PICK u \in Seq(Byte), v \in Seq(Byte) :
        /\ u = BytesOf(k.blocks) /\ v = SubSeq(k.buf, 1, off)
        /\ Len(u) = m /\ Len(v) = off
        /\ \A i \in 1 .. n, j \in 1 .. BlkSize : u[BlkSize*(i-1) + j] = k.blocks[i][j]
        /\ \A j \in 1 .. off : v[j] = k.buf[j]
  <2>1. k.blocks \in Seq(Block) /\ k.buf \in [1 .. BlkSize -> Byte] BY DEF Context, Block
  <2>4. PICK b \in Seq(Byte) : b = k.buf /\ Len(b) = BlkSize BY <1>1, <2>1, Buffers!FunctionIsSeq
  <2>5. /\ SubSeq(b, 1, off) \in Seq(Byte) /\ Len(SubSeq(b, 1, off)) = off - 1 + 1
        /\ \A j \in 1 .. off - 1 + 1 : SubSeq(b, 1, off)[j] = b[1 + j - 1]
    <3>1. 1 \in Nat \ {0} /\ off \in Nat /\ 1 <= off + 1 /\ off <= Len(b)
      BY <1>1, <1>2, <2>4
    <3> QED BY <3>1, Buffers!PartOf
  <2>6. off - 1 + 1 = off /\ \A j \in 1 .. off : 1 + j - 1 = j BY <1>1, <1>2
  <2>7. /\ SubSeq(k.buf, 1, off) \in Seq(Byte) /\ Len(SubSeq(k.buf, 1, off)) = off
        /\ \A j \in 1 .. off : SubSeq(k.buf, 1, off)[j] = k.buf[j]
    BY <2>4, <2>5, <2>6
  <2>8. /\ BytesOf(k.blocks) \in Seq(Byte)
        /\ Len(BytesOf(k.blocks)) = BlkSize * Len(k.blocks)
        /\ \A i \in 1 .. Len(k.blocks), j \in 1 .. BlkSize :
             BytesOf(k.blocks)[BlkSize*(i-1) + j] = k.blocks[i][j]
    BY <2>1, BytesIn
  <2> QED BY <1>n, <2>7, <2>8
<1>4. PICK t \in Seq(Byte) :
        /\ t = u \o v /\ Len(t) = m + off
        /\ \A i \in 1 .. m + off : t[i] = IF i <= m THEN u[i] ELSE v[i - m]
  <2>1. /\ u \o v \in Seq(Byte) /\ Len(u \o v) = Len(u) + Len(v)
        /\ \A i \in 1 .. Len(u) + Len(v) : (u \o v)[i] = IF i <= Len(u) THEN u[i] ELSE v[i - Len(u)]
    BY ConcatProperties
  <2>2. Len(u) = m /\ Len(v) = off BY <1>3
  <2> QED BY <2>1, <2>2
<1>5. ASSUME NEW i \in 1 .. n, NEW j \in 1 .. BlkSize
      PROVE  t[BlkSize*(i-1) + j] = k.blocks[i][j]
  <2>1. PICK y \in Nat : y = BlkSize*(i-1) /\ y + BlkSize <= m
    <3>1. BlkSize*(i-1) \in Nat /\ BlkSize*((i-1) + 1) = BlkSize*(i-1) + BlkSize
      BY <1>1, <1>n, TimesMonotonic
    <3>0. BlkSize \in Nat /\ i \in Int /\ n \in Int /\ i <= n BY <1>1, <1>n
    <3>2. BlkSize*i <= BlkSize*n BY <3>0, TimesMonotonic
    <3>3. (i-1) + 1 = i BY <1>n
    <3> QED BY <1>n, <3>1, <3>2, <3>3
  <2>2. y + j \in 1 .. m + off /\ y + j <= m
    <3>1. y + BlkSize <= m /\ off >= 0 /\ off \in Int /\ j \in Int /\ j >= 1 /\ j <= BlkSize
      BY <1>1, <1>2, <2>1
    <3>2. m \in Int /\ y \in Nat /\ BlkSize \in Int BY <1>1, <1>n, <2>1
    <3> QED BY <3>1, <3>2
  <2>3. t[y + j] = u[y + j] BY <1>4, <2>2
  <2> QED BY <1>3, <2>1, <2>3
<1>6. ASSUME NEW j \in 1 .. off PROVE t[m + j] = k.buf[j]
  <2>1. m + j \in 1 .. m + off /\ ~(m + j <= m) /\ m + j - m = j BY <1>1, <1>2, <1>n
  <2>2. t[m + j] = v[j] BY <1>4, <2>1
  <2> QED BY <1>3, <2>2
<1>7. Represents(k.blocks, k.buf, off, t)
  <2>1. k.blocks \in Seq(Block) /\ k.buf \in Block BY DEF Context
  <2>2. n = Len(k.blocks) /\ m = BlkSize * n BY <1>n
  <2>3. Len(t) = m + off BY <1>4
  <2> QED BY <1>2, <1>4, <1>5, <1>6, <2>1, <2>2, <2>3 DEF Represents
<1>8. t = Content(k) BY <1>2, <1>3, <1>4 DEF Content
<1> QED BY <1>2, <1>7, <1>8 DEF Carries

\* and for no other one.
LEMMA OneText ==
  ASSUME NEW blocks, NEW buf, NEW off, NEW t, NEW u,
         Represents(blocks, buf, off, t), Represents(blocks, buf, off, u)
  PROVE  t = u
<1>1. BlkSize \in Nat \ {0} /\ BlkSize \in Nat BY SizesAssumption
<1>2. blocks \in Seq(Block) /\ off \in 0 .. BlkSize-1 /\ t \in Seq(Byte) /\ u \in Seq(Byte)
  BY DEF Represents
<1>3. PICK n \in Nat : n = Len(blocks) BY <1>2, LenProperties
<1>4. PICK m \in Nat : m = BlkSize*n BY <1>1, <1>3
<1>5. /\ Len(t) = m + off /\ Len(u) = m + off
      /\ \A i \in 1 .. n, j \in 1 .. BlkSize : t[BlkSize*(i-1) + j] = u[BlkSize*(i-1) + j]
      /\ \A j \in 1 .. off : t[m + j] = u[m + j]
  BY <1>3, <1>4 DEF Represents
<1>6. ASSUME NEW i \in 1 .. m + off PROVE t[i] = u[i]
  <2>1. CASE i > m
    <3>1. PICK j \in 1 .. off : j = i - m BY <1>1, <1>2, <1>4, <2>1
    <3>2. m + j = i BY <1>4, <3>1
    <3>3. t[m + j] = u[m + j] BY <1>5, <3>1
    <3> QED BY <3>2, <3>3
  <2>2. CASE i <= m
    <3>1. PICK q \in Nat, r \in 0 .. BlkSize-1 :
            q = (i-1) \div BlkSize /\ r = (i-1) % BlkSize /\ i-1 = BlkSize*q + r
      <4>1. i-1 \in Nat BY <1>2, <1>4
      <4> QED BY <1>1, <4>1, DivisionExists
    <3>2. ASSUME q >= n PROVE FALSE
      <4>1. BlkSize*n <= BlkSize*q BY <1>1, <1>3, <3>1, <3>2, TimesMonotonic
      <4>2. PICK y \in Int : y = BlkSize*q BY <1>1, <3>1
      <4> QED BY <1>1, <1>4, <2>2, <3>1, <4>1, <4>2
    <3>3. PICK g \in 1 .. n, j \in 1 .. BlkSize : g - 1 = q /\ j = r + 1
      <4>1. q + 1 \in 1 .. n /\ r + 1 \in 1 .. BlkSize /\ (q + 1) - 1 = q
        BY <1>1, <1>3, <3>1, <3>2
      <4> QED BY <4>1
    <3>4. BlkSize*(g-1) + j = i
      <4>1. PICK y \in Int : y = BlkSize*q BY <1>1, <3>1
      <4>2. i = y + (r + 1) BY <1>1, <3>1, <4>1
      <4> QED BY <3>3, <4>1, <4>2
    <3>5. t[BlkSize*(g-1) + j] = u[BlkSize*(g-1) + j] BY <1>5, <3>3
    <3> QED BY <3>4, <3>5
  <2> QED BY <1>1, <1>2, <1>4, <2>1, <2>2
<1> QED BY <1>2, <1>5, <1>6, SeqEqual

\* So the text of a context is what it carries, and that of the blocks alone, when
\* nothing waits in the buffer.
LEMMA TheText ==
  ASSUME NEW k \in Context, NEW t, Carries(k, t)
  PROVE  Content(k) = t
BY HasText, OneText DEF Carries

LEMMA BlocksText ==
  ASSUME NEW blocks, NEW buf, NEW t, Represents(blocks, buf, 0, t)
  PROVE  BytesOf(blocks) = t
<1>1. BlkSize \in Nat \ {0} BY SizesAssumption
<1>2. blocks \in Seq(Block) /\ buf \in Block BY DEF Represents
<1>3. PICK n \in Nat : n = Len(blocks) BY <1>2, LenProperties
<1>4. PICK m \in Nat : m = BlkSize*n BY <1>1, <1>3
<1>5. /\ BytesOf(blocks) \in Seq(Byte)
      /\ Len(BytesOf(blocks)) = BlkSize * Len(blocks)
      /\ \A i \in 1 .. Len(blocks), j \in 1 .. BlkSize :
           BytesOf(blocks)[BlkSize*(i-1) + j] = blocks[i][j]
  BY <1>2, BytesIn
<1>6. Len(BytesOf(blocks)) = BlkSize * Len(blocks) + 0 BY <1>3, <1>4, <1>5
<1>7. Represents(blocks, buf, 0, BytesOf(blocks))
  <2>1. 0 \in 0 .. BlkSize-1 /\ 1 .. 0 = {} BY <1>1
  <2> QED BY <1>2, <1>5, <1>6, <2>1 DEF Represents
<1> QED BY <1>7, OneText

\* The two words count the bytes of the text.
Counts(k) == k.len[1] + Modulus * k.len[2] = BlkSize * Len(k.blocks) + (k.len[1] % BlkSize)

LEMMA CountsText ==
  ASSUME NEW k \in Context, NEW t, Carries(k, t)
  PROVE  /\ Len(t) \in Nat
         /\ Counts(k) <=> k.len[1] + Modulus * k.len[2] = Len(t)
BY LenProperties DEF Carries, Represents, Counts

\* A context that has just been set up stands for nothing.
LEMMA Fresh ==
  /\ Initialize \in Context /\ Carries(Initialize, <<>>) /\ Counts(Initialize)
  /\ Initialize.len = <<0, 0>> /\ BytesOf(Initialize.blocks) = <<>>
<1>1. /\ BlkSize \in Nat \ {0} /\ BlkSize \in Nat /\ Modulus \in Nat \ {0} /\ 0 \in Counter
  BY SizesAssumption DEF Counter
<1>2. ZeroBytes(BlkSize) \in Block BY BytesAssumption DEF ZeroBytes, Block
<1>3. PICK e \in Seq(Block) : e = <<>> /\ Len(e) = 0 BY EmptySeq
<1>4. Initialize = [blocks |-> e, buf |-> ZeroBytes(BlkSize), len |-> <<0, 0>>]
  BY <1>3 DEF Initialize
<1>5. Initialize \in Context BY <1>1, <1>2, <1>4 DEF Context
<1>6. 0 % BlkSize = 0
  <2>1. (BlkSize*0 + 0) % BlkSize = 0 BY <1>1, Division
  <2> QED BY <1>1, <2>1
<1>7. PICK t \in Seq(Byte) : t = <<>> /\ Len(t) = 0 BY EmptySeq
<1>8. Represents(e, ZeroBytes(BlkSize), 0, t)
  <2>1. BlkSize * Len(e) + 0 = 0 /\ 0 \in 0 .. BlkSize-1 /\ 1 .. 0 = {} BY <1>1, <1>3
  <2>2. 1 .. Len(e) = {} BY <1>3
  <2> QED BY <1>2, <1>7, <2>1, <2>2 DEF Represents
<1>9. /\ Initialize.blocks = e /\ Initialize.buf = ZeroBytes(BlkSize)
      /\ Initialize.len = <<0, 0>> /\ Initialize.len[1] = 0 /\ Initialize.len[2] = 0
  BY <1>4
<1>10. Carries(Initialize, <<>>) BY <1>6, <1>7, <1>8, <1>9 DEF Carries
<1>11. BytesOf(Initialize.blocks) = <<>> BY <1>7, <1>8, <1>9, BlocksText
<1>12. Counts(Initialize)
  <2>1. 0 + Modulus*0 = BlkSize*0 + 0 BY <1>1
  <2> QED BY <1>3, <1>6, <1>9, <2>1 DEF Counts
<1> QED BY <1>5, <1>9, <1>10, <1>11, <1>12

\* Pad makes of the text what the manual promises.
LEMMA Padded ==
  ASSUME NEW k \in Context, NEW t, Carries(k, t), Counts(k)
  PROVE  Pad(k) \in Context /\ BytesOf(Pad(k).blocks) = Promise!Padded(t)
<1>1. BlkSize \in Nat \ {0} /\ FieldSize \in Nat BY SizesAssumption
<1>2. PICK n \in Nat : n = Len(t) /\ n = k.len[1] + Modulus * k.len[2] BY CountsText
<1>3. PICK f \in Seq(Byte) :
        /\ f = LengthField(n) /\ Len(f) = FieldSize
        /\ f = Field(BitLength(k.len)[2], BitLength(k.len)[1])
  <2>1. k.len \in Counter \X Counter BY DEF Context
  <2>2. /\ BitLength(k.len)[1] \in Counter /\ BitLength(k.len)[2] \in Counter
        /\ Field(BitLength(k.len)[2], BitLength(k.len)[1]) = LengthField(k.len[1] + Modulus * k.len[2])
    BY <2>1, BitsCounted
  <2>3. PICK hi \in Counter, lo \in Counter :
          hi = BitLength(k.len)[2] /\ lo = BitLength(k.len)[1] /\ Field(hi, lo) = LengthField(n)
    BY <1>2, <2>2
  <2>4. Field(hi, lo) \in [1 .. FieldSize -> Byte] BY BytesAssumption DEF Counter
  <2>5. Field(hi, lo) \in Seq(Byte) /\ Len(Field(hi, lo)) = FieldSize
    BY <1>1, <2>4, Buffers!FunctionIsSeq
  <2> QED BY <2>3, <2>5
<1>4. PICK p : p = Pad(k) /\ p = PadWith(k, Mark, BlkSize - FieldSize, f) BY <1>3 DEF Pad
<1>5. PICK z \in 0 .. BlkSize-1 :
        /\ p \in Context
        /\ (n + 1 + z + FieldSize) % BlkSize = 0
        /\ Represents(p.blocks, p.buf, 0, t \o ((<<Mark>> \o ZeroBytes(z)) \o f))
  BY <1>2, <1>3, <1>4, PaddedWith
<1>6. BytesOf(p.blocks) = t \o ((<<Mark>> \o ZeroBytes(z)) \o f) BY <1>5, BlocksText
<1>7. (CHOOSE i \in 0 .. BlkSize-1 : (n + 1 + i + FieldSize) % BlkSize = 0) = z
  <2> DEFINE fits(i) == (n + 1 + i + FieldSize) % BlkSize = 0
  <2>1. fits(z) BY <1>5
  <2>2. \A i \in 0 .. BlkSize-1 : fits(i) => i = z BY <2>1, OnePadding
  <2> HIDE DEF fits
  <2>3. (CHOOSE i \in 0 .. BlkSize-1 : fits(i)) = z BY <2>1, <2>2
  <2> QED BY <2>3 DEF fits
<1>8. Promise!Padding(n) = (<<Mark>> \o ZeroBytes(z)) \o f
  BY <1>3, <1>7 DEF Promise!Padding, ZeroBytes
<1>9. Promise!Padded(t) = t \o Promise!Padding(n) BY <1>2 DEF Promise!Padded
<1> QED BY <1>4, <1>5, <1>6, <1>8, <1>9

----------------------------------------------------------------------------
(* The inductive invariant. *)

\* What holds of a context k in the state st after n calls of update and
\* updatefast: an open context counts every byte, and not so many that the two
\* words run over; nothing waits in the buffer of an aligned one; and one that is
\* not in use is as good as new.
SoundContext(st, k, n) ==
    /\ st \in {"ALIGNED", "UNALIGNED"} =>
         Counts(k) /\ k.len[1] + Modulus * k.len[2] <= n * (Modulus-1)
    /\ st = "ALIGNED" => k.len[1] % BlkSize = 0
    /\ st = "UNINITIALIZED" => k = Initialize

IInv ==
    /\ state \in [Slots -> States]
    /\ ctx \in [Slots -> Context]
    /\ out \in [Slots -> Seq(Block)]
    /\ messages \in 0 .. MaxMessages /\ calls \in 0 .. MaxCalls
    /\ \A s \in Slots : SoundContext(state[s], ctx[s], calls)

LEMMA FreshIsSound ==
  ASSUME NEW n \in Nat
  PROVE  \A st \in States : SoundContext(st, Initialize, n)
<1>1. Modulus \in Nat \ {0} /\ BlkSize \in Nat \ {0} BY SizesAssumption
<1>2. Initialize.len[1] = 0 /\ Initialize.len[2] = 0 /\ Counts(Initialize) BY Fresh
<1>3. 0 + Modulus*0 <= n * (Modulus-1)
  <2>1. n * (Modulus-1) \in Nat BY <1>1
  <2> QED BY <1>1, <2>1
<1>4. 0 % BlkSize = 0
  <2>1. (BlkSize*0 + 0) % BlkSize = 0 BY <1>1, Division
  <2> QED BY <1>1, <2>1
<1> QED BY <1>2, <1>3, <1>4 DEF SoundContext

\* More calls do no harm.
LEMMA StillSound ==
  ASSUME NEW st, NEW k \in Context, NEW n \in Nat, NEW m \in Nat, n <= m,
         SoundContext(st, k, n)
  PROVE  SoundContext(st, k, m)
<1>1. Modulus-1 \in Nat BY SizesAssumption
<1>2. (Modulus-1)*n <= (Modulus-1)*m BY <1>1, TimesMonotonic
<1>3. PICK x \in Nat, y \in Nat : x = n * (Modulus-1) /\ y = m * (Modulus-1) /\ x <= y
  BY <1>1, <1>2
<1>4. PICK a \in Nat : a = k.len[1] + Modulus * k.len[2]
  BY BitsCounted DEF Context
<1> QED BY <1>3, <1>4 DEF SoundContext

\* An open context is still sound when a piece has been counted.
LEMMA SoundUpdate ==
  ASSUME NEW k \in Context, NEW n \in Nat, n + 1 < Modulus,
         Counts(k), k.len[1] + Modulus * k.len[2] <= n * (Modulus-1),
         NEW d \in Seq(Byte), Len(d) < Modulus,
         NEW j \in Context, Carries(j, Content(k) \o d), j.len = Count(k.len, Len(d))
  PROVE  Counts(j) /\ j.len[1] + Modulus * j.len[2] <= (n + 1) * (Modulus-1)
<1>1. Modulus \in Nat \ {0} /\ Modulus-1 \in Nat BY SizesAssumption
<1>2. PICK l \in Nat : l = Len(d) /\ l <= Modulus-1 BY <1>1, LenProperties
<1>3. PICK x \in Nat : x = k.len[1] + Modulus * k.len[2] BY BitsCounted DEF Context
<1>4. PICK y \in Nat : y = n * (Modulus-1) /\ y + (Modulus-1) = (n + 1) * (Modulus-1)
  BY <1>1
<1>5. x + l <= (n + 1) * (Modulus-1)
  <2>1. x <= y BY <1>3, <1>4
  <2> QED BY <1>1, <1>2, <1>4, <2>1
<1>6. x + l < Modulus * Modulus
  <2>1. (Modulus-1)*(n + 1) <= (Modulus-1)*(Modulus-1) BY <1>1, TimesMonotonic
  <2>2. (Modulus-1)*(Modulus-1) = Modulus*Modulus - Modulus - (Modulus-1) BY <1>1
  <2>3. (Modulus-1)*(n + 1) = (n + 1)*(Modulus-1) BY <1>1
  <2>4. PICK u \in Int, v \in Int, w \in Int :
          u = (n + 1)*(Modulus-1) /\ v = (Modulus-1)*(Modulus-1) /\ w = Modulus*Modulus
    BY <1>1
  <2>5. u <= v /\ v = w - Modulus - (Modulus-1) BY <2>1, <2>2, <2>3, <2>4
  <2>6. x + l <= u BY <1>5, <2>4
  <2>7. x + l < w BY <1>1, <2>4, <2>5, <2>6
  <2> QED BY <2>4, <2>7
<1>7. j.len[1] + Modulus * j.len[2] = x + l
  <2>1. k.len \in Counter \X Counter /\ l < Modulus BY <1>1, <1>2 DEF Context
  <2>2. k.len[1] + Modulus * k.len[2] + l < Modulus * Modulus BY <1>3, <1>6
  <2>3. Count(k.len, l)[1] + Modulus * Count(k.len, l)[2] = k.len[1] + Modulus * k.len[2] + l
    BY <2>1, <2>2, Counted
  <2> QED BY <1>2, <1>3, <2>3
<1>8. Len(Content(k)) = x /\ Content(k) \in Seq(Byte)
  <2>1. Carries(k, Content(k)) BY HasText
  <2>2. Content(k) \in Seq(Byte) BY <2>1 DEF Carries, Represents
  <2> QED BY <1>3, <2>1, <2>2, CountsText
<1>9. Len(Content(k) \o d) = x + l BY <1>2, <1>8, ConcatProperties
<1>10. Counts(j) BY <1>7, <1>9, CountsText
<1> QED BY <1>5, <1>7, <1>10

\* A step that sets one slot.
LEMMA SlotStep ==
  ASSUME IInv, NEW s \in Slots, NEW v \in States, NEW c \in Context,
         state' = [state EXCEPT ![s] = v], ctx' = [ctx EXCEPT ![s] = c],
         out' \in [Slots -> Seq(Block)],
         messages' \in 0 .. MaxMessages, calls' \in 0 .. MaxCalls, calls <= calls',
         SoundContext(v, c, calls')
  PROVE  IInv'
<1>1. state' \in [Slots -> States] /\ ctx' \in [Slots -> Context] BY DEF IInv
<1>2. ASSUME NEW x \in Slots PROVE SoundContext(state'[x], ctx'[x], calls')
  <2>1. CASE x = s BY <2>1 DEF IInv
  <2>2. CASE x # s
    <3>1. state'[x] = state[x] /\ ctx'[x] = ctx[x] BY <2>2 DEF IInv
    <3>2. calls \in Nat /\ calls' \in Nat BY DataAssumption DEF IInv
    <3>3. SoundContext(state[x], ctx[x], calls) /\ ctx[x] \in Context BY DEF IInv
    <3>4. SoundContext(state[x], ctx[x], calls') BY <3>2, <3>3, StillSound
    <3> QED BY <3>1, <3>4
  <2> QED BY <2>1, <2>2
<1> QED BY <1>1, <1>2 DEF IInv

LEMMA InitInv == Init => IInv
<1> SUFFICES ASSUME Init PROVE IInv OBVIOUS
<1>1. Initialize \in Context BY Fresh
<1>2. \A st \in States : SoundContext(st, Initialize, 0) BY FreshIsSound
<1>3. "UNINITIALIZED" \in States BY DEF States
<1>4. <<>> \in Seq(Block) BY EmptySeq
<1>5. 0 \in 0 .. MaxMessages /\ 0 \in 0 .. MaxCalls BY DataAssumption, SizesAssumption
<1> QED BY <1>1, <1>2, <1>3, <1>4, <1>5 DEF Init, IInv, Freed

\* What a piece of data is.
LEMMA PieceOf ==
  ASSUME IInv, NEW d \in Data(messages)
  PROVE  d \in Seq(Byte) /\ Len(d) < Modulus
BY DataAssumption DEF IInv

\* What update and updatefast leave in a context.
LEMMA UpdateKept ==
  ASSUME IInv, NEW s \in Slots, NEW d \in Data(messages), update(s, d)
  PROVE  /\ Update(ctx[s], d) \in Context
         /\ Carries(Update(ctx[s], d), Content(ctx[s]) \o d)
         /\ SoundContext("UNALIGNED", Update(ctx[s], d), calls')
<1>1. ctx[s] \in Context /\ SoundContext(state[s], ctx[s], calls) BY DEF IInv
<1>2. d \in Seq(Byte) /\ Len(d) < Modulus BY PieceOf
<1>3. Carries(ctx[s], Content(ctx[s])) BY <1>1, HasText
<1>4. /\ Update(ctx[s], d) \in Context
      /\ Carries(Update(ctx[s], d), Content(ctx[s]) \o d)
      /\ Update(ctx[s], d).len = Count(ctx[s].len, Len(d))
  BY <1>1, <1>2, <1>3, Updated
<1>5. /\ Counts(ctx[s])
      /\ ctx[s].len[1] + Modulus * ctx[s].len[2] <= calls * (Modulus-1)
  BY <1>1 DEF update, Open, SoundContext
<1>6. calls \in Nat /\ calls' = calls + 1 /\ calls + 1 < Modulus
  BY SizesAssumption, DataAssumption DEF update, IInv
<1>7. /\ Counts(Update(ctx[s], d))
      /\ Update(ctx[s], d).len[1] + Modulus * Update(ctx[s], d).len[2] <= (calls + 1) * (Modulus-1)
  BY <1>1, <1>2, <1>4, <1>5, <1>6, SoundUpdate
<1> QED BY <1>4, <1>6, <1>7 DEF SoundContext

LEMMA UpdateFastKept ==
  ASSUME IInv, NEW s \in Slots, NEW d \in Data(messages), updatefast(s, d)
  PROVE  /\ UpdateFast(ctx[s], d) \in Context
         /\ Carries(UpdateFast(ctx[s], d), Content(ctx[s]) \o d)
         /\ SoundContext("ALIGNED", UpdateFast(ctx[s], d), calls')
<1>1. ctx[s] \in Context /\ SoundContext(state[s], ctx[s], calls) BY DEF IInv
<1>2. d \in Seq(Byte) /\ Len(d) < Modulus BY PieceOf
<1>3. Carries(ctx[s], Content(ctx[s])) BY <1>1, HasText
<1>4. /\ Counts(ctx[s]) /\ ctx[s].len[1] % BlkSize = 0
      /\ ctx[s].len[1] + Modulus * ctx[s].len[2] <= calls * (Modulus-1)
  BY <1>1 DEF updatefast, SoundContext
<1>5. Len(d) % BlkSize = 0 BY DEF updatefast
<1>6. /\ UpdateFast(ctx[s], d) \in Context
      /\ Carries(UpdateFast(ctx[s], d), Content(ctx[s]) \o d)
      /\ UpdateFast(ctx[s], d).len = Count(ctx[s].len, Len(d))
      /\ UpdateFast(ctx[s], d).len[1] % BlkSize = 0
  BY <1>1, <1>2, <1>3, <1>4, <1>5, UpdatedFast
<1>7. calls \in Nat /\ calls' = calls + 1 /\ calls + 1 < Modulus
  BY SizesAssumption, DataAssumption DEF updatefast, IInv
<1>8. /\ Counts(UpdateFast(ctx[s], d))
      /\ UpdateFast(ctx[s], d).len[1] + Modulus * UpdateFast(ctx[s], d).len[2]
           <= (calls + 1) * (Modulus-1)
  BY <1>1, <1>2, <1>4, <1>6, <1>7, SoundUpdate
<1> QED BY <1>6, <1>7, <1>8 DEF SoundContext

\* What Pad leaves in an open context.
LEMMA PadKept ==
  ASSUME IInv, NEW s \in Slots, Open(s)
  PROVE  /\ Pad(ctx[s]) \in Context
         /\ BytesOf(Pad(ctx[s]).blocks) = Promise!Padded(Content(ctx[s]))
<1>1. ctx[s] \in Context /\ SoundContext(state[s], ctx[s], calls) BY DEF IInv
<1>2. Counts(ctx[s]) BY <1>1 DEF Open, SoundContext
<1>3. Carries(ctx[s], Content(ctx[s])) BY <1>1, HasText
<1> QED BY <1>1, <1>2, <1>3, Padded

\* Every step keeps the invariant.
LEMMA NextInv == IInv /\ [Next]_vars => IInv'
<1> SUFFICES ASSUME IInv, [Next]_vars PROVE IInv' OBVIOUS
<1>t. /\ state \in [Slots -> States] /\ ctx \in [Slots -> Context]
      /\ out \in [Slots -> Seq(Block)] /\ messages \in 0 .. MaxMessages /\ calls \in 0 .. MaxCalls
      /\ calls \in Nat /\ messages \in Nat /\ MaxMessages \in Nat /\ MaxCalls \in Nat
      /\ \A s \in Slots : SoundContext(state[s], ctx[s], calls)
  BY DataAssumption, SizesAssumption DEF IInv
<1>f. /\ Initialize \in Context /\ Freed = Initialize
      /\ \A st \in States : SoundContext(st, Initialize, calls)
  BY <1>t, Fresh, FreshIsSound DEF Freed
<1>s. {"UNINITIALIZED", "ALIGNED", "UNALIGNED", "PADDED", "FINISHED"} \subseteq States
  BY DEF States
<1>1. ASSUME NEW s \in Slots, init(s) PROVE IInv'
  <2>1. messages' \in 0 .. MaxMessages /\ calls' = calls /\ out' = out BY <1>1, <1>t DEF init
  <2>2. state' = [state EXCEPT ![s] = "ALIGNED"] /\ ctx' = [ctx EXCEPT ![s] = Initialize]
    BY <1>1 DEF init
  <2>z. messages' \in 0 .. MaxMessages /\ calls' \in 0 .. MaxCalls /\ calls <= calls'
        /\ out' \in [Slots -> Seq(Block)]
    BY <1>t, <2>1
  <2>y. SoundContext("ALIGNED", Initialize, calls') /\ Initialize \in Context /\ "ALIGNED" \in States
    BY <1>f, <1>s, <2>1
  <2> QED BY <2>2, <2>y, <2>z, SlotStep
<1>2. ASSUME NEW s \in Slots, NEW t \in Slots, clone(s, t) PROVE IInv'
  <2>1. messages' = messages /\ calls' = calls /\ out' = out BY <1>2 DEF clone
  <2>2. state' = [state EXCEPT ![t] = state[s]] /\ ctx' = [ctx EXCEPT ![t] = ctx[s]]
    BY <1>2 DEF clone
  <2>3. state[s] \in States /\ ctx[s] \in Context BY <1>t
  <2>z. messages' \in 0 .. MaxMessages /\ calls' \in 0 .. MaxCalls /\ calls <= calls'
        /\ out' \in [Slots -> Seq(Block)]
    BY <1>t, <2>1
  <2>y. SoundContext(state[s], ctx[s], calls') BY <1>t, <2>1
  <2> QED BY <2>2, <2>3, <2>y, <2>z, SlotStep
<1>3. ASSUME NEW s \in Slots, reset(s) PROVE IInv'
  <2>1. messages' \in 0 .. MaxMessages /\ calls' = calls /\ out' = out BY <1>3, <1>t DEF reset
  <2>2. state' = [state EXCEPT ![s] = "ALIGNED"] /\ ctx' = [ctx EXCEPT ![s] = Initialize]
    BY <1>3 DEF reset
  <2>z. messages' \in 0 .. MaxMessages /\ calls' \in 0 .. MaxCalls /\ calls <= calls'
        /\ out' \in [Slots -> Seq(Block)]
    BY <1>t, <2>1
  <2>y. SoundContext("ALIGNED", Initialize, calls') /\ Initialize \in Context /\ "ALIGNED" \in States
    BY <1>f, <1>s, <2>1
  <2> QED BY <2>2, <2>y, <2>z, SlotStep
<1>4. ASSUME NEW s \in Slots, NEW d \in Data(messages), update(s, d) PROVE IInv'
  <2>1. messages' = messages /\ calls' \in 0 .. MaxCalls /\ calls <= calls' /\ out' = out
    BY <1>4, <1>t DEF update
  <2>2. state' = [state EXCEPT ![s] = "UNALIGNED"] /\ ctx' = [ctx EXCEPT ![s] = Update(ctx[s], d)]
    BY <1>4, <1>t DEF update
  <2>3. Update(ctx[s], d) \in Context /\ SoundContext("UNALIGNED", Update(ctx[s], d), calls')
    BY <1>4, UpdateKept
  <2> QED BY <1>s, <1>t, <2>1, <2>2, <2>3, SlotStep
<1>5. ASSUME NEW s \in Slots, NEW d \in Data(messages), updatefast(s, d) PROVE IInv'
  <2>1. messages' = messages /\ calls' \in 0 .. MaxCalls /\ calls <= calls' /\ out' = out
    BY <1>5, <1>t DEF updatefast
  <2>2. /\ state' = [state EXCEPT ![s] = "ALIGNED"]
        /\ ctx' = [ctx EXCEPT ![s] = UpdateFast(ctx[s], d)]
    BY <1>5, <1>t DEF updatefast
  <2>3. UpdateFast(ctx[s], d) \in Context /\ SoundContext("ALIGNED", UpdateFast(ctx[s], d), calls')
    BY <1>5, UpdateFastKept
  <2> QED BY <1>s, <1>t, <2>1, <2>2, <2>3, SlotStep
<1>6. ASSUME NEW s \in Slots, pad(s) PROVE IInv'
  <2>1. messages' = messages /\ calls' = calls /\ out' = out BY <1>6 DEF pad
  <2>2. state' = [state EXCEPT ![s] = "PADDED"] /\ ctx' = [ctx EXCEPT ![s] = Pad(ctx[s])]
    BY <1>6, <1>t DEF pad
  <2>3. Pad(ctx[s]) \in Context BY <1>6, PadKept DEF pad
  <2>4. SoundContext("PADDED", Pad(ctx[s]), calls') BY DEF SoundContext
  <2>z. messages' \in 0 .. MaxMessages /\ calls' \in 0 .. MaxCalls /\ calls <= calls'
        /\ out' \in [Slots -> Seq(Block)]
    BY <1>t, <2>1
  <2>y. "PADDED" \in States BY <1>s
  <2> QED BY <2>2, <2>3, <2>4, <2>y, <2>z, SlotStep
<1>7. ASSUME NEW s \in Slots, final(s) PROVE IInv'
  <2> DEFINE c == IF Open(s) THEN Pad(ctx[s]) ELSE ctx[s]
  <2>1. messages' = messages /\ calls' = calls BY <1>7 DEF final
  <2>2. state' = [state EXCEPT ![s] = "FINISHED"] /\ ctx' = [ctx EXCEPT ![s] = c]
    BY <1>7, <1>t DEF final
  <2>3. c \in Context BY <1>t, PadKept
  <2>4. SoundContext("FINISHED", c, calls') BY DEF SoundContext
  <2>5. out' \in [Slots -> Seq(Block)]
    <3>1. ctx'[s].blocks \in Seq(Block) BY <1>t, <2>2, <2>3 DEF Context
    <3>2. out' = [out EXCEPT ![s] = ctx'[s].blocks] BY <1>7 DEF final
    <3> QED BY <1>t, <3>1, <3>2
  <2> HIDE DEF c
  <2>z. messages' \in 0 .. MaxMessages /\ calls' \in 0 .. MaxCalls /\ calls <= calls'
        /\ out' \in [Slots -> Seq(Block)]
    BY <1>t, <2>1, <2>5
  <2>y. "FINISHED" \in States BY <1>s
  <2> QED BY <2>2, <2>3, <2>4, <2>y, <2>z, SlotStep
<1>8. ASSUME NEW s \in Slots, fini(s) PROVE IInv'
  <2>1. messages' = messages /\ calls' = calls /\ out' = out BY <1>8 DEF fini
  <2>2. /\ state' = [state EXCEPT ![s] = "UNINITIALIZED"]
        /\ ctx' = [ctx EXCEPT ![s] = Initialize]
    BY <1>8, <1>f DEF fini
  <2>z. messages' \in 0 .. MaxMessages /\ calls' \in 0 .. MaxCalls /\ calls <= calls'
        /\ out' \in [Slots -> Seq(Block)]
    BY <1>t, <2>1
  <2>y. SoundContext("UNINITIALIZED", Initialize, calls') /\ Initialize \in Context /\ "UNINITIALIZED" \in States
    BY <1>f, <1>s, <2>1
  <2> QED BY <2>2, <2>y, <2>z, SlotStep
<1>9. CASE UNCHANGED vars BY <1>9 DEF IInv, vars
<1> QED BY <1>1, <1>2, <1>3, <1>4, <1>5, <1>6, <1>7, <1>8, <1>9 DEF Next

\* Every reachable state satisfies the invariant: whatever init, clone, reset, update,
\* updatefast, pad, final and fini are called in, the two words of an open context are the
\* number of its bytes and its buffer holds what they say.
THEOREM Invariant == Spec => []IInv
BY InitInv, NextInv, PTL DEF Spec

----------------------------------------------------------------------------
(* The theorems. *)

\* A context always has a buffer of one block, whole blocks that went to
\* Transform, and two words of length: no update, updatefast or padding writes
\* beyond m_buf or transforms a part of a block.
THEOREM ContextsAreSound == Spec => []TypeOK
<1>1. IInv => TypeOK
  <2> SUFFICES ASSUME IInv PROVE TypeOK OBVIOUS
  <2>1. state \in [Slots -> States] BY DEF IInv
  <2>2. ASSUME NEW s \in Slots
        PROVE  /\ Len(ctx[s].buf) = BlkSize
               /\ \A i \in DOMAIN ctx[s].blocks : Len(ctx[s].blocks[i]) = BlkSize
               /\ ctx[s].len \in (0 .. Modulus-1) \X (0 .. Modulus-1)
    <3>1. /\ ctx[s].buf \in Block /\ ctx[s].blocks \in Seq(Block)
          /\ ctx[s].len \in Counter \X Counter
      BY DEF IInv, Context
    <3>2. BlkSize \in Nat BY SizesAssumption
    <3>3. \A b \in Block : Len(b) = BlkSize BY <3>2, Buffers!FunctionIsSeq DEF Block
    <3>4. \A i \in DOMAIN ctx[s].blocks : ctx[s].blocks[i] \in Block
      BY <3>1, LenProperties, ElementOfSeq
    <3> QED BY <3>1, <3>3, <3>4 DEF Counter
  <2> QED BY <2>1, <2>2 DEF TypeOK
<1> QED BY <1>1, Invariant, PTL

\* While a context is open, the two words of m_len count every byte that went into
\* a block or waits in the buffer: the carry into the high word is never missed.
THEOREM BytesAreCounted == Spec => []LengthCounted
<1>1. IInv => LengthCounted BY DEF IInv, SoundContext, Counts, LengthCounted, Open
<1> QED BY <1>1, Invariant, PTL

----------------------------------------------------------------------------
(* The plugin keeps the promise of the manual, step by step. *)

\* The text that a context k stands for in the state st, and that of every slot.
TextOf(st, k) ==
    BytesOf(k.blocks)
    \o (IF st \in {"ALIGNED", "UNALIGNED"} THEN SubSeq(k.buf, 1, k.len[1] % BlkSize) ELSE <<>>)
Texts == [s \in Slots |-> Text(s)]
Outs == [s \in Slots |-> BytesOf(out[s])]

LEMMA OpenText ==
  ASSUME NEW k
  PROVE  TextOf("ALIGNED", k) = Content(k) /\ TextOf("UNALIGNED", k) = Content(k)
BY DEF TextOf, Content

LEMMA ClosedText ==
  ASSUME NEW k \in Context, NEW st, st \notin {"ALIGNED", "UNALIGNED"}
  PROVE  TextOf(st, k) = BytesOf(k.blocks)
<1>1. TextOf(st, k) = BytesOf(k.blocks) \o <<>> BY DEF TextOf
<1>2. BytesOf(k.blocks) \in Seq(Byte) BY BytesIn DEF Context
<1> QED BY <1>1, <1>2, ConcatEmptySeq

LEMMA FreshText ==
  ASSUME NEW st \in States
  PROVE  TextOf(st, Initialize) = <<>>
<1>1. Initialize \in Context /\ Carries(Initialize, <<>>) /\ BytesOf(Initialize.blocks) = <<>>
  BY Fresh
<1>2. Content(Initialize) = <<>> BY <1>1, TheText
<1>3. CASE st \in {"ALIGNED", "UNALIGNED"} BY <1>2, <1>3, OpenText
<1>4. CASE st \notin {"ALIGNED", "UNALIGNED"} BY <1>1, <1>4, ClosedText
<1> QED BY <1>3, <1>4

\* A step that sets one slot changes the text of no other.
LEMMA OneSlot ==
  ASSUME IInv, NEW s \in Slots, NEW v, NEW c,
         state' = [state EXCEPT ![s] = v], ctx' = [ctx EXCEPT ![s] = c]
  PROVE  Texts' = [Texts EXCEPT ![s] = TextOf(v, c)]
<1>1. state \in [Slots -> States] /\ ctx \in [Slots -> Context] BY DEF IInv
<1>2. ASSUME NEW x \in Slots PROVE Text(x)' = TextOf(state'[x], ctx'[x])
  BY DEF Text, TextOf, Open
<1>3. ASSUME NEW x \in Slots PROVE Text(x) = TextOf(state[x], ctx[x])
  BY DEF Text, TextOf, Open
<1>4. ASSUME NEW x \in Slots PROVE Text(x)' = IF x = s THEN TextOf(v, c) ELSE Text(x)
  <2>1. CASE x = s
    <3>1. state'[x] = v /\ ctx'[x] = c BY <1>1, <2>1
    <3> QED BY <1>2, <2>1, <3>1
  <2>2. CASE x # s
    <3>1. state'[x] = state[x] /\ ctx'[x] = ctx[x] BY <1>1, <2>2
    <3> QED BY <1>2, <1>3, <2>2, <3>1
  <2> QED BY <2>1, <2>2
<1>5. Texts' = [x \in Slots |-> Text(x)'] BY DEF Texts
<1>6. Texts' = [x \in Slots |-> IF x = s THEN TextOf(v, c) ELSE Text(x)] BY <1>4, <1>5
<1>7. [Texts EXCEPT ![s] = TextOf(v, c)]
        = [x \in Slots |-> IF x = s THEN TextOf(v, c) ELSE Text(x)]
  BY DEF Texts
<1> QED BY <1>6, <1>7

LEMMA TextNow ==
  ASSUME NEW s \in Slots
  PROVE  Texts[s] = TextOf(state[s], ctx[s])
BY DEF Texts, Text, TextOf, Open

LEMMA PromisedInit == Init => Promise!Init
<1> SUFFICES ASSUME Init PROVE Promise!Init OBVIOUS
<1>1. "UNINITIALIZED" \in States BY DEF States
<1>2. ASSUME NEW s \in Slots PROVE Text(s) = <<>> /\ BytesOf(out[s]) = <<>>
  <2>1. state[s] = "UNINITIALIZED" /\ ctx[s] = Initialize /\ out[s] = <<>> BY DEF Init, Freed
  <2>2. Text(s) = TextOf(state[s], ctx[s]) BY DEF Text, TextOf, Open
  <2>3. Initialize.blocks = <<>> BY DEF Initialize
  <2> QED BY <1>1, <2>1, <2>2, <2>3, Fresh, FreshText
<1>3. [s \in Slots |-> Text(s)] = [s \in Slots |-> <<>>] BY <1>2
<1>4. [s \in Slots |-> BytesOf(out[s])] = [s \in Slots |-> <<>>] BY <1>2
<1> QED BY <1>3, <1>4 DEF Init, Promise!Init

\* Every step of the plugin is a step of the promise.
LEMMA PromisedNext == IInv /\ [Next]_vars => [Promise!Next]_(Promise!vars)
<1> SUFFICES ASSUME IInv, [Next]_vars PROVE [Promise!Next]_(Promise!vars) OBVIOUS
<1>t. /\ state \in [Slots -> States] /\ ctx \in [Slots -> Context] /\ out \in [Slots -> Seq(Block)]
      /\ messages \in 0 .. MaxMessages
      /\ Initialize \in Context /\ Freed = Initialize
  BY Fresh DEF IInv, Freed
<1>s. {"UNINITIALIZED", "ALIGNED", "UNALIGNED", "PADDED", "FINISHED"} \subseteq States
  BY DEF States
<1>k. Outs' = Outs \/ out' # out BY DEF Outs
<1>f. \A st \in States : TextOf(st, Initialize) = <<>> BY FreshText
<1>1. ASSUME NEW s \in Slots, init(s) PROVE Promise!init(s)
  <2>1. state[s] = "UNINITIALIZED" /\ out' = out BY <1>1 DEF init, Live
  <2>2. state' = [state EXCEPT ![s] = "ALIGNED"] /\ ctx' = [ctx EXCEPT ![s] = Initialize]
    BY <1>1 DEF init
  <2>x. Texts' = [Texts EXCEPT ![s] = TextOf("ALIGNED", Initialize)] BY <2>2, OneSlot
  <2>3. Texts' = [Texts EXCEPT ![s] = <<>>] BY <1>f, <1>s, <2>x
  <2>4. Texts[s] = <<>>
    <3>1. ctx[s] = Initialize BY <2>1 DEF IInv, SoundContext
    <3> QED BY <1>f, <1>s, <2>1, <3>1, TextNow
  <2>5. Texts' = Texts BY <2>3, <2>4 DEF Texts
  <2> QED BY <1>k, <2>1, <2>2, <2>5 DEF Promise!init, Texts, Outs
<1>2. ASSUME NEW s \in Slots, NEW t \in Slots, clone(s, t) PROVE Promise!clone(s, t)
  <2>1. state[s] # "UNINITIALIZED" /\ state[t] = "UNINITIALIZED" /\ out' = out
    BY <1>2 DEF clone, Live
  <2>2. state' = [state EXCEPT ![t] = state[s]] /\ ctx' = [ctx EXCEPT ![t] = ctx[s]]
    BY <1>2 DEF clone
  <2>x. Texts' = [Texts EXCEPT ![t] = TextOf(state[s], ctx[s])] BY <2>2, OneSlot
  <2>3. Texts' = [Texts EXCEPT ![t] = Texts[s]] BY <2>x, TextNow
  <2> QED BY <1>k, <2>1, <2>2, <2>3 DEF Promise!clone, Texts, Outs
<1>3. ASSUME NEW s \in Slots, reset(s) PROVE Promise!reset(s)
  <2>1. state[s] # "UNINITIALIZED" /\ out' = out BY <1>3 DEF reset, Live
  <2>2. state' = [state EXCEPT ![s] = "ALIGNED"] /\ ctx' = [ctx EXCEPT ![s] = Initialize]
    BY <1>3 DEF reset
  <2>x. Texts' = [Texts EXCEPT ![s] = TextOf("ALIGNED", Initialize)] BY <2>2, OneSlot
  <2>3. Texts' = [Texts EXCEPT ![s] = <<>>] BY <1>f, <1>s, <2>x
  <2> QED BY <1>k, <2>1, <2>2, <2>3 DEF Promise!reset, Texts, Outs
<1>4. ASSUME NEW s \in Slots, NEW d \in Data(messages), update(s, d) PROVE Promise!update(s, d)
  <2>1. Promise!Open(s) /\ state[s] \in {"ALIGNED", "UNALIGNED"} /\ out' = out
    BY <1>4 DEF update, Open, Promise!Open
  <2>2. state' = [state EXCEPT ![s] = "UNALIGNED"] /\ ctx' = [ctx EXCEPT ![s] = Update(ctx[s], d)]
    BY <1>4, <1>t DEF update
  <2>3. Update(ctx[s], d) \in Context /\ Carries(Update(ctx[s], d), Content(ctx[s]) \o d)
    BY <1>4, UpdateKept
  <2>4. TextOf("UNALIGNED", Update(ctx[s], d)) = Content(ctx[s]) \o d BY <2>3, TheText, OpenText
  <2>5. Content(ctx[s]) = Texts[s] BY <2>1, OpenText, TextNow
  <2>6. Texts' = [Texts EXCEPT ![s] = Texts[s] \o d] BY <2>2, <2>4, <2>5, OneSlot
  <2> QED BY <1>k, <2>1, <2>2, <2>6 DEF Promise!update, Texts, Outs
<1>5. ASSUME NEW s \in Slots, NEW d \in Data(messages), updatefast(s, d)
      PROVE  Promise!updatefast(s, d)
  <2>1. /\ state[s] = "ALIGNED" /\ Len(d) % BlkSize = 0 /\ out' = out /\ state' = state
    BY <1>5 DEF updatefast
  <2>2. /\ state' = [state EXCEPT ![s] = "ALIGNED"]
        /\ ctx' = [ctx EXCEPT ![s] = UpdateFast(ctx[s], d)]
    BY <1>5, <1>t DEF updatefast
  <2>3. UpdateFast(ctx[s], d) \in Context /\ Carries(UpdateFast(ctx[s], d), Content(ctx[s]) \o d)
    BY <1>5, UpdateFastKept
  <2>4. TextOf("ALIGNED", UpdateFast(ctx[s], d)) = Content(ctx[s]) \o d BY <2>3, TheText, OpenText
  <2>5. Content(ctx[s]) = Texts[s] BY <2>1, OpenText, TextNow
  <2>6. Texts' = [Texts EXCEPT ![s] = Texts[s] \o d] BY <2>2, <2>4, <2>5, OneSlot
  <2> QED BY <1>k, <2>1, <2>6 DEF Promise!updatefast, Texts, Outs
<1>6. ASSUME NEW s \in Slots, pad(s) PROVE Promise!pad(s)
  <2>1. Promise!Open(s) /\ Open(s) /\ state[s] \in {"ALIGNED", "UNALIGNED"} /\ out' = out
    BY <1>6 DEF pad, Open, Promise!Open
  <2>2. state' = [state EXCEPT ![s] = "PADDED"] /\ ctx' = [ctx EXCEPT ![s] = Pad(ctx[s])]
    BY <1>6, <1>t DEF pad
  <2>3. /\ Pad(ctx[s]) \in Context
        /\ BytesOf(Pad(ctx[s]).blocks) = Promise!Padded(Content(ctx[s]))
    BY <2>1, PadKept
  <2>4. TextOf("PADDED", Pad(ctx[s])) = Promise!Padded(Content(ctx[s])) BY <2>3, ClosedText
  <2>5. Content(ctx[s]) = Texts[s] BY <2>1, OpenText, TextNow
  <2>6. Texts' = [Texts EXCEPT ![s] = Promise!Padded(Texts[s])] BY <2>2, <2>4, <2>5, OneSlot
  <2> QED BY <1>k, <2>1, <2>2, <2>6 DEF Promise!pad, Texts, Outs
<1>7. ASSUME NEW s \in Slots, final(s) PROVE Promise!final(s)
  <2> DEFINE c == IF Open(s) THEN Pad(ctx[s]) ELSE ctx[s]
             u == IF Promise!Open(s) THEN Promise!Padded(Texts[s]) ELSE Texts[s]
  <2>1. Open(s) \/ state[s] = "PADDED" BY <1>7 DEF final
  <2>2. state' = [state EXCEPT ![s] = "FINISHED"] /\ ctx' = [ctx EXCEPT ![s] = c]
    BY <1>7, <1>t DEF final
  <2>3. c \in Context /\ BytesOf(c.blocks) = u
    <3>1. CASE Open(s)
      <4>1. Content(ctx[s]) = Texts[s] BY <3>1, OpenText, TextNow DEF Open
      <4> QED BY <3>1, <4>1, PadKept DEF Promise!Open, Open
    <3>2. CASE ~Open(s)
      <4>1. c = ctx[s] /\ u = Texts[s] BY <3>2 DEF Promise!Open, Open
      <4>2. Texts[s] = TextOf(state[s], ctx[s]) BY TextNow
      <4>3. TextOf(state[s], ctx[s]) = BytesOf(ctx[s].blocks)
        BY <1>t, <3>2, ClosedText DEF Open
      <4> QED BY <1>t, <4>1, <4>2, <4>3
    <3> QED BY <3>1, <3>2
  <2> HIDE DEF c, u
  <2>4. Texts' = [Texts EXCEPT ![s] = u]
    <3>1. TextOf("FINISHED", c) = u BY <2>3, ClosedText
    <3> QED BY <2>2, <3>1, OneSlot
  <2>5. Outs' = [Outs EXCEPT ![s] = Texts'[s]]
    <3>1. out' = [out EXCEPT ![s] = c.blocks] BY <1>7, <1>t, <2>2 DEF final
    <3>2. Texts'[s] = u BY <2>4 DEF Texts
    <3>3. Outs' = [x \in Slots |-> BytesOf(out'[x])] BY DEF Outs
    <3>4. ASSUME NEW x \in Slots PROVE BytesOf(out'[x]) = IF x = s THEN u ELSE BytesOf(out[x])
      BY <1>t, <2>3, <3>1
    <3>5. Outs' = [x \in Slots |-> IF x = s THEN u ELSE BytesOf(out[x])] BY <3>3, <3>4
    <3>6. [Outs EXCEPT ![s] = u] = [x \in Slots |-> IF x = s THEN u ELSE BytesOf(out[x])]
      BY DEF Outs
    <3> QED BY <3>2, <3>5, <3>6
  <2>6. Promise!Open(s) \/ state[s] = "PADDED" BY <2>1 DEF Promise!Open, Open
  <2> QED BY <2>2, <2>4, <2>5, <2>6 DEF Promise!final, Texts, Outs, u
<1>8. ASSUME NEW s \in Slots, fini(s) PROVE Promise!fini(s)
  <2>1. state[s] # "UNINITIALIZED" /\ out' = out BY <1>8 DEF fini, Live
  <2>2. /\ state' = [state EXCEPT ![s] = "UNINITIALIZED"]
        /\ ctx' = [ctx EXCEPT ![s] = Initialize]
    BY <1>8, <1>t DEF fini
  <2>x. Texts' = [Texts EXCEPT ![s] = TextOf("UNINITIALIZED", Initialize)] BY <2>2, OneSlot
  <2>3. Texts' = [Texts EXCEPT ![s] = <<>>] BY <1>f, <1>s, <2>x
  <2> QED BY <1>k, <2>1, <2>2, <2>3 DEF Promise!fini, Texts, Outs
<1>9. CASE UNCHANGED vars
  <2>1. Texts' = Texts /\ Outs' = Outs /\ state' = state
    BY <1>9 DEF vars, Texts, Text, Open, Outs
  <2> QED BY <2>1 DEF Promise!vars, Texts, Outs
<1>p. \A d \in Data(messages) : d \in UNION {Data(n) : n \in 0 .. MaxMessages} BY <1>t
<1> QED BY <1>1, <1>2, <1>3, <1>4, <1>5, <1>6, <1>7, <1>8, <1>9, <1>p DEF Next, Promise!Next

\* The promise of the manual is kept, for blocks, fields, words and pieces of any
\* size: however the data is cut, whatever an earlier message left in the buffer,
\* and through clones and resets, Transform is given the bytes of the message and
\* the padding for its length, and nothing else.
THEOREM PromiseIsKept == Spec => KeepsPromise
BY Invariant, PromisedInit, PromisedNext, PTL DEF Spec, KeepsPromise, Promise!Spec

============================================================================
